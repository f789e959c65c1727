-------------------------- MODULE OidcLoginProofs ---------------------------
(***************************************************************************)
(* Theorems about OidcLogin.  The invariant has a part for the cache of    *)
(* providers, which knows nothing of logins, and one for logins, callers   *)
(* and accounts.                                                           *)
(***************************************************************************)
EXTENDS OidcLogin, Integers, WellFoundedInduction, TLAPS

-----------------------------------------------------------------------------
(* The cache of providers *)

CacheTyped ==
  /\ cached \in [Issuers -> 0..MaxEntries]
  /\ entry \in [EntryIds -> EntryRow]
  /\ waiting \in [Callers -> 0..MaxEntries]
  /\ floor \in [Issuers -> 0..MaxEntries]
  /\ since \in [Callers -> 0..MaxEntries]

(* Entries are started in the order of their numbers, each for an issuer. *)
EntrySound(e) == e \in Started => entry[e].key \in Issuers /\ \A d \in 1..(e - 1) : d \in Started

(* What a key has cached was started for it after it was last forgotten. *)
CachedSound(k) ==
  /\ floor[k] # 0 => floor[k] \in Started
  /\ cached[k] # 0 => cached[k] \in Started /\ entry[cached[k]].key = k /\ floor[k] < cached[k]

(* A caller waits for an entry started after what was forgotten before. *)
WaitSound(c) == waiting[c] # 0 => waiting[c] \in Started /\ since[c] < waiting[c]

CacheInv ==
  /\ CacheTyped
  /\ \A e \in EntryIds : EntrySound(e)
  /\ \A k \in Issuers : CachedSound(k)
  /\ \A c \in Callers : WaitSound(c)
  /\ SingleDiscovery

(* Entries keep the key they were started for. *)
KeysKept == \A e \in Started : e \in Started' /\ entry'[e].key = entry[e].key

LEMMA EvictedForm ==
  ASSUME CacheInv
  PROVE  /\ Evicted \in [Issuers -> 0..MaxEntries]
         /\ \A k \in Issuers :
              \/ Evicted[k] = cached[k]
              \/ Evicted[k] = 0 /\ cached[k] # 0 /\ entry[cached[k]].state = "ready"
BY ProvidersAssumption DEF Evicted, CacheInv, CacheTyped, Ready

(* Steps that touch neither the entries nor the floors: keys may be         *)
(* evicted, one caller may join what is cached.                             *)
LEMMA JoinKeeps ==
  ASSUME CacheInv, NEW c \in Callers, NEW k \in Issuers, get(c, k), Join(c, k)
  PROVE  CacheInv' /\ KeysKept /\ waiting'[c] # 0 /\ entry'[waiting'[c]].key = k
<1>1. /\ Evicted[k] # 0 /\ cached' = Evicted /\ waiting' = [waiting EXCEPT ![c] = Evicted[k]]
      /\ entry' = entry /\ floor' = floor /\ since' = [since EXCEPT ![c] = floor[k]]
      BY DEF get, Join
<1>2. CacheTyped'
      BY <1>1, EvictedForm DEF CacheInv, CacheTyped
<1>3. Started' = Started /\ InFlight' = InFlight
      BY <1>1 DEF Started, InFlight
<1>4. Evicted[k] = cached[k]
      BY <1>1, EvictedForm
<1>5. /\ waiting'[c] = cached[k] /\ since'[c] = floor[k]
      /\ \A d \in Callers : d # c => waiting'[d] = waiting[d] /\ since'[d] = since[d]
      BY <1>1, <1>4 DEF CacheInv, CacheTyped
<1>6. \A j \in Issuers : CachedSound(j)'
      BY <1>1, <1>3, EvictedForm DEF CacheInv, CachedSound
<1>7. \A d \in Callers : WaitSound(d)'
      BY <1>1, <1>3, <1>4, <1>5 DEF CacheInv, WaitSound, CachedSound
<1>8. SingleDiscovery'
  <2> SUFFICES ASSUME NEW e \in InFlight, e > floor[entry[e].key], entry[e].state = "discovering"
               PROVE  cached'[entry[e].key] = e
      BY <1>1, <1>3 DEF SingleDiscovery
  <2>1. cached[entry[e].key] = e /\ entry[e].key \in Issuers
        BY DEF CacheInv, SingleDiscovery, EntrySound, InFlight, Started
  <2> QED
      BY <1>1, <2>1, EvictedForm
<1> QED
    BY <1>1, <1>2, <1>3, <1>4, <1>5, <1>6, <1>7, <1>8 DEF CacheInv, EntrySound, CachedSound, KeysKept

(* A new entry has the highest number, so it is above every floor. *)
LEMMA DiscoverKeeps ==
  ASSUME CacheInv, NEW c \in Callers, NEW k \in Issuers, NEW e \in EntryIds, get(c, k), Discover(c, k, e)
  PROVE  CacheInv' /\ KeysKept /\ waiting'[c] # 0 /\ entry'[waiting'[c]].key = k
<1> DEFINE r == [key |-> k, state |-> "discovering", ok |-> FALSE, expired |-> FALSE]
<1>1. /\ Evicted[k] = 0 /\ cached' = [Evicted EXCEPT ![k] = e] /\ waiting' = [waiting EXCEPT ![c] = e]
      /\ entry' = [entry EXCEPT ![e] = r] /\ floor' = floor /\ since' = [since EXCEPT ![c] = floor[k]]
      /\ e \notin Started /\ \A d \in 1..(e - 1) : d \in Started
      BY DEF get, Discover
<1>2. r \in EntryRow /\ r.key = k /\ r.state = "discovering"
      BY DEF EntryRow
<1> HIDE DEF r
<1>3. e \in Nat /\ e \in 0..MaxEntries /\ e # 0 /\ e \in 1..MaxEntries
      BY ProvidersAssumption DEF EntryIds
<1>4. CacheTyped'
      BY <1>1, <1>2, <1>3, EvictedForm DEF CacheInv, CacheTyped
<1>5. /\ entry'[e] = r /\ \A d \in EntryIds : d # e => entry'[d] = entry[d]
      /\ Started' = Started \cup {e}
      BY <1>1, <1>2 DEF CacheInv, CacheTyped, Started
<1>6. \A d \in Started : d \in Nat /\ d \in EntryIds /\ d < e
  <2> TAKE d \in Started
  <2>1. d \in EntryIds /\ d \in Nat
        BY DEF Started, EntryIds
  <2>2. \A x \in 1..(d - 1) : x \in Started
        BY <2>1 DEF CacheInv, EntrySound
  <2>3. e \in Nat \ {0} /\ e # d /\ e \notin 1..(d - 1)
        BY <1>1, <1>3, <2>2
  <2> QED
      BY <2>1, <2>3
<1>7. \A j \in Issuers : floor[j] < e
      BY <1>3, <1>6 DEF CacheInv, CachedSound
<1>8. \A d \in EntryIds : EntrySound(d)'
  <2> TAKE d \in EntryIds
  <2>1. CASE d = e
        BY <1>1, <1>2, <1>5, <2>1 DEF EntrySound
  <2>2. CASE d # e
        BY <1>5, <2>2 DEF CacheInv, EntrySound
  <2> QED
      BY <2>1, <2>2
<1>9. \A j \in Issuers : CachedSound(j)'
  <2> TAKE j \in Issuers
  <2>1. floor'[j] # 0 => floor'[j] \in Started'
        BY <1>1, <1>5 DEF CacheInv, CachedSound
  <2>2. CASE j = k
    <3>1. cached'[j] = e
          BY <1>1, <2>2, EvictedForm
    <3> QED
        BY <1>1, <1>2, <1>5, <1>7, <2>1, <2>2, <3>1 DEF CachedSound
  <2>3. CASE j # k
    <3>1. cached'[j] # 0 => cached'[j] = cached[j]
          BY <1>1, <2>3, EvictedForm
    <3> QED
        BY <1>1, <1>5, <1>6, <2>1, <3>1 DEF CacheInv, CachedSound
  <2> QED
      BY <2>2, <2>3
<1>10. \A d \in Callers : WaitSound(d)'
  <2> TAKE d \in Callers
  <2>1. CASE d = c
    <3>1. waiting'[d] = e /\ since'[d] = floor[k]
          BY <1>1, <2>1 DEF CacheInv, CacheTyped
    <3> QED
        BY <1>5, <1>7, <3>1 DEF WaitSound
  <2>2. CASE d # c
    <3>1. waiting'[d] = waiting[d] /\ since'[d] = since[d]
          BY <1>1, <2>2 DEF CacheInv, CacheTyped
    <3> QED
        BY <1>5, <3>1 DEF CacheInv, WaitSound
  <2> QED
      BY <2>1, <2>2
<1>11. SingleDiscovery'
  <2> SUFFICES ASSUME NEW d \in InFlight', d > floor[entry'[d].key], entry'[d].state = "discovering"
               PROVE  cached'[entry'[d].key] = d
      BY <1>1 DEF SingleDiscovery
  <2>1. CASE d = e
    <3>1. cached'[k] = e
          BY <1>1, EvictedForm
    <3> QED
        BY <1>2, <1>5, <2>1, <3>1
  <2>2. CASE d # e
    <3>1. d \in InFlight /\ entry'[d] = entry[d] /\ d \in Started
          BY <1>5, <2>2 DEF InFlight, Started
    <3>2. cached[entry[d].key] = d /\ entry[d].key \in Issuers
          BY <3>1 DEF CacheInv, SingleDiscovery, EntrySound, InFlight
    <3>3. Evicted[entry[d].key] = d
          BY <3>1, <3>2, EvictedForm
    <3>4. entry[d].key # k
          BY <1>1, <1>6, <3>1, <3>3, <1>3 DEF EntryIds, Started
    <3> QED
        BY <1>1, <3>1, <3>2, <3>3, <3>4, EvictedForm
  <2> QED
      BY <2>1, <2>2
<1>12. waiting'[c] = e
       BY <1>1 DEF CacheInv, CacheTyped
<1> QED
    BY <1>2, <1>3, <1>4, <1>5, <1>6, <1>8, <1>9, <1>10, <1>11, <1>12 DEF CacheInv, KeysKept

(* A set of numbers below a bound has a greatest. *)
LEMMA Greatest ==
  ASSUME NEW n \in Nat, NEW S \in SUBSET (0..n), S # {}
  PROVE  \E m \in S : \A d \in S : d <= m
<1> DEFINE R == OpToRel(<, Nat)
<1> DEFINE T == {n - d : d \in S}
<1>1. IsWellFoundedOn(R, Nat)
      BY NatLessThanWellFounded
<1>2. T \subseteq Nat /\ T # {}
  <2>1. \A d \in S : d \in 0..n
        OBVIOUS
  <2>2. \A d \in S : n - d \in Nat
        BY <2>1
  <2>3. T # {}
        OBVIOUS
  <2> QED
      BY <2>2, <2>3
<1>3. \A x, y \in Nat : x < y => <<x, y>> \in R
      BY DEF OpToRel
<1> HIDE DEF R
<1>4. PICK x \in T : \A y \in T : ~(<<y, x>> \in R)
  <2> HIDE DEF T
  <2> QED
      BY <1>1, <1>2, WFMin
<1>5. PICK m \in S : x = n - m
      BY <1>4
<1>6. ASSUME NEW d \in S PROVE d <= m
  <2>1. n - d \in T /\ n - d \in Nat /\ n - m \in Nat /\ d \in Nat /\ m \in Nat
        BY <1>2
  <2>2. ~(n - d < n - m)
        BY <1>3, <1>4, <1>5, <2>1
  <2> QED
      BY <2>1, <2>2
<1> QED
    BY <1>6

LEMMA NewestForm ==
  ASSUME NEW k
  PROVE  /\ Newest(k) \in 0..MaxEntries
         /\ Newest(k) # 0 => Newest(k) \in Started
         /\ \A e \in Started : entry[e].key = k => e <= Newest(k)
<1> DEFINE S == {e \in Started : entry[e].key = k}
<1>1. \A e \in Started : e \in 0..MaxEntries
      BY DEF Started, EntryIds
<1>2. CASE S = {}
      BY <1>2, ProvidersAssumption DEF Newest
<1>3. CASE S # {}
  <2>1. S \in SUBSET (0..MaxEntries)
        BY <1>1
  <2>2. \E m \in S : \A d \in S : d <= m
        BY <1>3, <2>1, Greatest, ProvidersAssumption
  <2>3. \E e \in Started : entry[e].key = k /\ \A d \in Started : entry[d].key = k => d <= e
        BY <2>2
  <2>4. Newest(k) = CHOOSE e \in Started : entry[e].key = k /\ \A d \in Started : entry[d].key = k => d <= e
        BY <1>3 DEF Newest
  <2>5. Newest(k) \in Started /\ \A d \in Started : entry[d].key = k => d <= Newest(k)
        BY <2>3, <2>4
  <2> QED
      BY <1>1, <2>5
<1> QED
    BY <1>2, <1>3

(* What is in flight for a forgotten key is below its floor; what starts    *)
(* later is above it.                                                       *)
LEMMA ForgetKeeps ==
  ASSUME CacheInv, NEW c \in Callers, NEW k, forget(k), waiting' = [waiting EXCEPT ![c] = 0]
  PROVE  CacheInv' /\ KeysKept
<1>1. /\ cached' = [cached EXCEPT ![k] = 0] /\ floor' = [floor EXCEPT ![k] = Newest(k)]
      /\ entry' = entry /\ since' = since
      BY DEF forget
<1>2. Started' = Started /\ InFlight' = InFlight /\ \A e \in Started : e \in 0..MaxEntries
      BY <1>1 DEF Started, InFlight, EntryIds
<1>n. Newest(k) \in 0..MaxEntries /\ 0 \in 0..MaxEntries
      BY NewestForm, ProvidersAssumption
<1>3. CacheTyped'
      BY <1>1, <1>n DEF CacheInv, CacheTyped
<1>4. \A j \in Issuers : CachedSound(j)'
  <2> TAKE j \in Issuers
  <2>1. CASE j = k
        BY <1>1, <1>2, <2>1, NewestForm DEF CacheInv, CacheTyped, CachedSound
  <2>2. CASE j # k
        BY <1>1, <1>2, <2>2 DEF CacheInv, CacheTyped, CachedSound
  <2> QED
      BY <2>1, <2>2
<1>5. \A d \in Callers : WaitSound(d)'
      BY <1>1, <1>2 DEF CacheInv, CacheTyped, WaitSound
<1>6. SingleDiscovery'
  <2> SUFFICES ASSUME NEW e \in InFlight, e > floor'[entry[e].key], entry[e].state = "discovering"
               PROVE  cached'[entry[e].key] = e
      BY <1>1, <1>2 DEF SingleDiscovery
  <2>1. e \in Started /\ entry[e].key \in Issuers /\ e \in Nat
        BY DEF CacheInv, EntrySound, InFlight, Started, EntryIds
  <2>2. entry[e].key # k
    <3> SUFFICES ASSUME entry[e].key = k PROVE FALSE
        OBVIOUS
    <3>1. floor'[k] = Newest(k) /\ e <= Newest(k) /\ Newest(k) \in Nat
          BY <1>1, <2>1, NewestForm DEF CacheInv, CacheTyped
    <3> QED
        BY <2>1, <3>1
  <2> QED
      BY <1>1, <2>1, <2>2 DEF CacheInv, CacheTyped, SingleDiscovery
<1> QED
    BY <1>1, <1>2, <1>3, <1>4, <1>5, <1>6 DEF CacheInv, EntrySound, KeysKept

LEMMA LeaveKeeps ==
  ASSUME CacheInv, NEW c \in Callers, Leave(c)
  PROVE  CacheInv' /\ KeysKept
<1>1. waiting' = [waiting EXCEPT ![c] = 0] /\ UNCHANGED <<cached, entry, floor, since>>
      BY DEF Leave
<1>2. Started' = Started /\ InFlight' = InFlight
      BY <1>1 DEF Started, InFlight
<1>3. CacheTyped'
      BY <1>1, ProvidersAssumption DEF CacheInv, CacheTyped
<1>4. \A d \in Callers : WaitSound(d)'
      BY <1>1, <1>2 DEF CacheInv, CacheTyped, WaitSound
<1>5. SingleDiscovery'
      BY <1>1, <1>2 DEF CacheInv, SingleDiscovery
<1> QED
    BY <1>1, <1>2, <1>3, <1>4, <1>5 DEF CacheInv, EntrySound, CachedSound, KeysKept

(* The discovery itself: it ends, is announced, expires.  A failed one      *)
(* takes itself out of the cache and nothing else.                          *)
LEMMA DiscoveryKeeps ==
  ASSUME CacheInv, NEW e \in EntryIds, Discovery(e) \/ Expire(e)
  PROVE  CacheInv' /\ KeysKept
<1>1. \E r \in EntryRow :
        /\ entry' = [entry EXCEPT ![e] = r] /\ r.key = entry[e].key
        /\ r.state \in {"resolved", "ready"}
        /\ entry[e].state \in {"discovering", "resolved", "ready"}
  <2>1. ASSUME NEW ok \in BOOLEAN, resolve(e, ok)
        PROVE  /\ [entry[e] EXCEPT !.state = "resolved", !.ok = ok] \in EntryRow
               /\ entry' = [entry EXCEPT ![e] = [entry[e] EXCEPT !.state = "resolved", !.ok = ok]]
               /\ entry[e].state = "discovering"
        BY <2>1 DEF resolve, CacheInv, CacheTyped, EntryRow
  <2>2. ASSUME CloseReady(e)
        PROVE  /\ [entry[e] EXCEPT !.state = "ready"] \in EntryRow
               /\ entry' = [entry EXCEPT ![e] = [entry[e] EXCEPT !.state = "ready"]]
               /\ entry[e].state = "resolved"
        BY <2>2 DEF CloseReady, MayClose, CacheInv, CacheTyped, EntryRow
  <2>3. ASSUME Expire(e)
        PROVE  /\ [entry[e] EXCEPT !.expired = TRUE] \in EntryRow
               /\ entry' = [entry EXCEPT ![e] = [entry[e] EXCEPT !.expired = TRUE]]
               /\ entry[e].state \in {"resolved", "ready"}
        BY <2>3 DEF Expire, CacheInv, CacheTyped, EntryRow
  <2>4. entry[e] \in EntryRow
        BY DEF CacheInv, CacheTyped
  <2>5. ASSUME NEW ok \in BOOLEAN
        PROVE  /\ [entry[e] EXCEPT !.state = "resolved", !.ok = ok].key = entry[e].key
               /\ [entry[e] EXCEPT !.state = "resolved", !.ok = ok].state = "resolved"
        BY <2>4 DEF EntryRow
  <2>6. /\ [entry[e] EXCEPT !.state = "ready"].key = entry[e].key
        /\ [entry[e] EXCEPT !.state = "ready"].state = "ready"
        /\ [entry[e] EXCEPT !.expired = TRUE].key = entry[e].key
        /\ [entry[e] EXCEPT !.expired = TRUE].state = entry[e].state
        BY <2>4 DEF EntryRow
  <2>7. CASE \E ok \in BOOLEAN : resolve(e, ok)
        BY <2>1, <2>5, <2>7
  <2>8. CASE CloseReady(e)
        BY <2>2, <2>6, <2>8
  <2>9. CASE Expire(e)
        BY <2>3, <2>6, <2>9
  <2> QED
      BY <2>7, <2>8, <2>9 DEF Discovery
<1>2. PICK r \in EntryRow :
        /\ entry' = [entry EXCEPT ![e] = r] /\ r.key = entry[e].key
        /\ r.state \in {"resolved", "ready"}
        /\ entry[e].state \in {"discovering", "resolved", "ready"}
      BY <1>1
<1>3. UNCHANGED <<waiting, floor, since>> /\ (cached' = cached \/ cached' = DropOwn(e))
      BY DEF Discovery, resolve, CloseReady, Expire, KeepCache
<1>4. entry'[e] = r /\ \A d \in EntryIds : d # e => entry'[d] = entry[d]
      BY <1>2 DEF CacheInv, CacheTyped
<1>5. e \in Started /\ Started' = Started /\ KeysKept
      BY <1>2, <1>4 DEF Started, KeysKept
<1>6. entry[e].key \in Issuers
      BY <1>5 DEF CacheInv, EntrySound
<1>7. /\ cached' \in [Issuers -> 0..MaxEntries]
      /\ \A k \in Issuers : cached'[k] # 0 => cached'[k] = cached[k]
      /\ \A k \in Issuers : cached[k] # e => cached'[k] = cached[k]
      BY <1>3, <1>6, ProvidersAssumption DEF DropOwn, CacheInv, CacheTyped
<1>8. CacheTyped'
      BY <1>2, <1>3, <1>7 DEF CacheInv, CacheTyped
<1>9. \A d \in EntryIds : entry'[d].key = entry[d].key
      BY <1>2, <1>4
<1>10. \A d \in EntryIds : EntrySound(d)'
       BY <1>5, <1>9 DEF CacheInv, EntrySound
<1>11. Started \subseteq EntryIds
       BY DEF Started
<1>12. \A k \in Issuers : CachedSound(k)'
       BY <1>3, <1>5, <1>7, <1>9, <1>11 DEF CacheInv, CachedSound
<1>13. \A c \in Callers : WaitSound(c)'
       BY <1>3, <1>5 DEF CacheInv, WaitSound
<1>14. SingleDiscovery'
  <2> SUFFICES ASSUME NEW d \in InFlight', d > floor[entry'[d].key], entry'[d].state = "discovering"
               PROVE  cached'[entry'[d].key] = d
      BY <1>3 DEF SingleDiscovery
  <2>1. d # e /\ d \in EntryIds /\ entry'[d] = entry[d]
        BY <1>2, <1>4 DEF InFlight
  <2>2. d \in InFlight /\ d \in Started
        BY <2>1 DEF InFlight, Started
  <2>3. cached[entry[d].key] = d /\ entry[d].key \in Issuers
        BY <2>1, <2>2 DEF CacheInv, SingleDiscovery, EntrySound
  <2> QED
      BY <1>7, <2>1, <2>3
<1> QED
    BY <1>5, <1>8, <1>10, <1>12, <1>13, <1>14 DEF CacheInv

-----------------------------------------------------------------------------
(* Logins, callers and accounts *)

LoginTyped ==
  /\ issuer \in Issuers
  /\ cookie \in [Browsers -> 0..MaxLogins]
  /\ login \in [Logins -> LoginRow]
  /\ call \in [Callers -> CallRow]
  /\ account \in [AccountIds -> AccountRow]

(* The issuer and the subject of a login's token. *)
TokenOf(c) == <<login[call[c].login].issuer, login[call[c].login].subject>>

(* A caller waits for its own issuer.  Once it looks for an account, the    *)
(* login's code is spent at the issuer that gave it; and the account it has *)
(* found or made is the token's.                                            *)
CallSound(c) ==
  /\ waiting[c] # 0 => call[c].step \in {"start", "exchange"} /\ entry[waiting[c]].key = call[c].issuer
  /\ call[c].step \in {"exchange"} \cup Upserting => call[c].login \in Logins
  /\ call[c].step \in Upserting =>
       /\ login[call[c].login].state = "spent"
       /\ login[call[c].login].issuer = call[c].issuer
  /\ call[c].step \in {"role", "update", "session"} =>
       /\ call[c].account \in AccountIds
       /\ account[call[c].account].born = TokenOf(c)

(* An account is found by the token it was created for. *)
AccountSound(a) == account[a].identity # <<>> => account[a].identity = account[a].born

LoginInv ==
  /\ LoginTyped
  /\ \A c \in Callers : CallSound(c)
  /\ \A a \in AccountIds : AccountSound(a)

OidcInv == CacheInv /\ LoginInv

LEMMA NoCallForm == NoCall \in CallRow /\ NoCall.step = "idle"
BY LoginAssumption DEF NoCall, CallRow

LEMMA NoLoginForm == NoLogin \in LoginRow /\ NoLogin.state = "none"
BY DEF NoLogin, LoginRow

LEMMA TokenForm ==
  ASSUME LoginInv, NEW c \in Callers, call[c].step \in Upserting
  PROVE  /\ TokenOf(c) \in Identities /\ TokenOf(c) # <<>>
         /\ IdentityOf(c) = TokenOf(c)
         /\ login[call[c].login] \in LoginRow
<1>1. login[call[c].login] \in LoginRow
      BY DEF LoginInv, LoginTyped, CallSound
<1>2. IdentityOf(c) = TokenOf(c)
      BY DEF LoginInv, CallSound, IdentityOf, TokenOf, oidcExternalIdentity
<1> QED
    BY <1>1, <1>2 DEF TokenOf, Identities, LoginRow

(* Steps that move one caller and leave logins and accounts alone. *)
LEMMA CallMoves ==
  ASSUME OidcInv, NEW c \in Callers, NEW r \in CallRow, call' = [call EXCEPT ![c] = r],
         issuer' = issuer, cookie' \in [Browsers -> 0..MaxLogins],
         UNCHANGED <<login, account>>, CacheInv', KeysKept,
         \A d \in Callers : d # c => waiting'[d] = waiting[d],
         CallSound(c)'
  PROVE  OidcInv'
<1>1. LoginTyped'
      BY DEF OidcInv, LoginInv, LoginTyped
<1>2. \A d \in Callers : CallSound(d)'
  <2> TAKE d \in Callers
  <2>1. CASE d = c
        BY <2>1
  <2>2. CASE d # c
    <3>1. call'[d] = call[d] /\ waiting'[d] = waiting[d]
          BY <2>2 DEF OidcInv, LoginInv, LoginTyped
    <3>2. waiting[d] # 0 => entry'[waiting[d]].key = entry[waiting[d]].key
          BY DEF OidcInv, CacheInv, WaitSound, KeysKept
    <3> QED
        BY <3>1, <3>2 DEF OidcInv, LoginInv, CallSound, TokenOf
  <2> QED
      BY <2>1, <2>2
<1>3. \A a \in AccountIds : AccountSound(a)'
      BY DEF OidcInv, LoginInv, AccountSound
<1> QED
    BY <1>1, <1>2, <1>3 DEF OidcInv, LoginInv

LEMMA CacheFrame ==
  ASSUME CacheInv, UNCHANGED providerVars
  PROVE  CacheInv' /\ KeysKept
BY DEF providerVars, CacheInv, CacheTyped, EntrySound, CachedSound, WaitSound, SingleDiscovery, KeysKept,
       Started, InFlight

(* Callers that give up or are done. *)
LEMMA FinishKeeps ==
  ASSUME OidcInv, NEW c \in Callers, Finish(c), issuer' = issuer,
         cookie' \in [Browsers -> 0..MaxLogins], UNCHANGED <<login, account>>, CacheInv', KeysKept,
         waiting'[c] = 0, \A d \in Callers : d # c => waiting'[d] = waiting[d]
  PROVE  OidcInv'
<1>1. call' = [call EXCEPT ![c] = NoCall]
      BY DEF Finish
<1>2. CallSound(c)'
      BY <1>1, NoCallForm DEF OidcInv, LoginInv, LoginTyped, CallSound, Upserting
<1> QED
    BY <1>1, <1>2, NoCallForm, CallMoves

LEMMA GetKeeps ==
  ASSUME CacheInv, NEW c \in Callers, NEW k \in Issuers, get(c, k)
  PROVE  /\ CacheInv' /\ KeysKept /\ waiting'[c] # 0 /\ entry'[waiting'[c]].key = k
         /\ \A d \in Callers : d # c => waiting'[d] = waiting[d]
<1>1. CASE Join(c, k)
      BY <1>1, JoinKeeps DEF Join, CacheInv, CacheTyped
<1>2. CASE \E e \in EntryIds : Discover(c, k, e)
      BY <1>2, DiscoverKeeps DEF Discover, CacheInv, CacheTyped
<1> QED
    BY <1>1, <1>2 DEF get

(* A login begins, and a browser comes back from one. *)
LEMMA AskKeeps ==
  ASSUME OidcInv, NEW c \in Callers
  PROVE  /\ \A b \in Browsers : OIDCLogin(c, b) => OidcInv'
         /\ \A l \in Logins : OIDCCallback(c, l) => OidcInv'
<1>1. ASSUME NEW b \in Browsers, OIDCLogin(c, b)
      PROVE  OidcInv'
  <2> DEFINE r == [NoCall EXCEPT !.step = "start", !.browser = b, !.issuer = issuer]
  <2>1. /\ get(c, issuer) /\ call' = [call EXCEPT ![c] = r]
        /\ UNCHANGED <<issuer, cookie, login, account>> /\ issuer \in Issuers
        BY <1>1 DEF OIDCLogin, OidcInv, LoginInv, LoginTyped
  <2>2. r \in CallRow /\ r.step = "start" /\ r.issuer = issuer
        BY <2>1, NoCallForm DEF CallRow
  <2> HIDE DEF r
  <2>3. /\ CacheInv' /\ KeysKept /\ waiting'[c] # 0 /\ entry'[waiting'[c]].key = issuer
        /\ \A d \in Callers : d # c => waiting'[d] = waiting[d]
        BY <2>1, GetKeeps DEF OidcInv
  <2>4. CallSound(c)'
        BY <2>1, <2>2, <2>3 DEF OidcInv, LoginInv, LoginTyped, CallSound, Upserting
  <2> QED
      BY <2>1, <2>2, <2>3, <2>4, CallMoves DEF OidcInv, LoginInv, LoginTyped
<1>2. ASSUME NEW l \in Logins, OIDCCallback(c, l)
      PROVE  OidcInv'
  <2> DEFINE r == [NoCall EXCEPT !.step = "exchange", !.browser = login[l].browser,
                                 !.login = l, !.issuer = issuer]
  <2>1. /\ get(c, issuer) /\ call' = [call EXCEPT ![c] = r]
        /\ UNCHANGED <<issuer, cookie, login, account>> /\ issuer \in Issuers
        BY <1>2 DEF OIDCCallback, OidcInv, LoginInv, LoginTyped
  <2>2. login[l].browser \in Browsers \cup {NoBrowser} /\ l \in 0..MaxLogins
        BY LoginAssumption DEF OidcInv, LoginInv, LoginTyped, LoginRow, Logins
  <2>3. r \in CallRow /\ r.step = "exchange" /\ r.issuer = issuer /\ r.login = l
        BY <2>1, <2>2, NoCallForm DEF CallRow
  <2> HIDE DEF r
  <2>4. /\ CacheInv' /\ KeysKept /\ waiting'[c] # 0 /\ entry'[waiting'[c]].key = issuer
        /\ \A d \in Callers : d # c => waiting'[d] = waiting[d]
        BY <2>1, GetKeeps DEF OidcInv
  <2>5. CallSound(c)'
        BY <2>1, <2>3, <2>4 DEF OidcInv, LoginInv, LoginTyped, CallSound, Upserting
  <2> QED
      BY <2>1, <2>3, <2>4, <2>5, CallMoves DEF OidcInv, LoginInv, LoginTyped
<1> QED
    BY <1>1, <1>2


-----------------------------------------------------------------------------
(* Steps that change one login.  One that is not spent yet is no caller's   *)
(* that looks for an account.                                               *)
LEMMA LoginMoves ==
  ASSUME OidcInv, NEW l \in Logins, NEW s \in LoginRow, login' = [login EXCEPT ![l] = s],
         login[l].state # "spent", UNCHANGED <<issuer, account>>,
         cookie' \in [Browsers -> 0..MaxLogins], call' \in [Callers -> CallRow], CacheInv', KeysKept,
         \A d \in Callers : CallSound(d)' \/ (call'[d] = call[d] /\ waiting'[d] = waiting[d])
  PROVE  OidcInv'
<1>1. LoginTyped'
      BY DEF OidcInv, LoginInv, LoginTyped
<1>2. \A d \in Callers : CallSound(d)'
  <2> SUFFICES ASSUME NEW d \in Callers, call'[d] = call[d], waiting'[d] = waiting[d]
               PROVE  CallSound(d)'
      OBVIOUS
  <2>1. waiting[d] # 0 => entry'[waiting[d]].key = entry[waiting[d]].key
        BY DEF OidcInv, CacheInv, WaitSound, KeysKept
  <2>2. call[d].step \in Upserting => call[d].login # l /\ call[d].login \in Logins
        BY DEF OidcInv, LoginInv, CallSound
  <2>3. call[d].step \in Upserting => login'[call[d].login] = login[call[d].login]
        BY <2>2 DEF OidcInv, LoginInv, LoginTyped
  <2> QED
      BY <2>1, <2>3 DEF OidcInv, LoginInv, CallSound, TokenOf, Upserting
<1>3. \A a \in AccountIds : AccountSound(a)'
      BY DEF OidcInv, LoginInv, AccountSound
<1> QED
    BY <1>1, <1>2, <1>3 DEF OidcInv, LoginInv

LEMMA RedirectKeeps ==
  ASSUME OidcInv, NEW c \in Callers, NEW l \in Logins, Redirect(c, l)
  PROVE  OidcInv'
<1> DEFINE s == [NoLogin EXCEPT !.state = "asked", !.issuer = call[c].issuer, !.browser = call[c].browser]
<1>1. /\ login[l] = NoLogin /\ login' = [login EXCEPT ![l] = s]
      /\ cookie' = [cookie EXCEPT ![call[c].browser] = l] /\ Leave(c)
      /\ call' = [call EXCEPT ![c] = NoCall] /\ UNCHANGED <<issuer, account>>
      BY DEF Redirect, Finish
<1>2. call[c] \in CallRow /\ l \in 0..MaxLogins
      BY LoginAssumption DEF OidcInv, LoginInv, LoginTyped, Logins
<1>3. s \in LoginRow
      BY <1>2, NoLoginForm DEF LoginRow, CallRow
<1> HIDE DEF s
<1>4. CacheInv' /\ KeysKept /\ waiting' = [waiting EXCEPT ![c] = 0]
      BY <1>1, LeaveKeeps DEF OidcInv, Leave
<1>5. /\ call' \in [Callers -> CallRow] /\ cookie' \in [Browsers -> 0..MaxLogins]
      /\ call'[c] = NoCall /\ waiting'[c] = 0
      /\ \A d \in Callers : d # c => call'[d] = call[d] /\ waiting'[d] = waiting[d]
      BY <1>1, <1>2, <1>4, NoCallForm DEF OidcInv, LoginInv, LoginTyped, CacheInv, CacheTyped
<1>6. CallSound(c)'
      BY <1>5, NoCallForm DEF CallSound, Upserting
<1> QED
    BY <1>1, <1>3, <1>4, <1>5, <1>6, NoLoginForm, LoginMoves

(* The provider answers the visitor, one way or the other. *)
LEMMA AnswerKeeps ==
  ASSUME OidcInv, NEW l \in Logins
  PROVE  /\ \A s \in Subjects, n \in Names : Authorize(l, s, n) => OidcInv'
         /\ oidcRefused(l) => OidcInv'
<1>1. login[l] \in LoginRow
      BY DEF OidcInv, LoginInv, LoginTyped
<1>2. ASSUME NEW s \in Subjects, NEW n \in Names, Authorize(l, s, n)
      PROVE  OidcInv'
  <2> DEFINE r == [login[l] EXCEPT !.state = "code", !.subject = s, !.name = n]
  <2>1. r \in LoginRow
        BY <1>1 DEF LoginRow
  <2>2. login' = [login EXCEPT ![l] = r]
        BY <1>2 DEF Authorize
  <2> HIDE DEF r
  <2>3. CacheInv' /\ KeysKept /\ UNCHANGED waiting
        BY <1>2, CacheFrame DEF Authorize, OidcInv, providerVars
  <2>4. login[l].state # "spent" /\ UNCHANGED <<issuer, cookie, call, account>>
        BY <1>2 DEF Authorize
  <2> QED
      BY <2>1, <2>2, <2>3, <2>4, LoginMoves DEF OidcInv, LoginInv, LoginTyped
<1>3. ASSUME oidcRefused(l)
      PROVE  OidcInv'
  <2> DEFINE r == [login[l] EXCEPT !.state = "spent"]
  <2>1. r \in LoginRow
        BY <1>1 DEF LoginRow
  <2>2. login' = [login EXCEPT ![l] = r]
        BY <1>3 DEF oidcRefused
  <2> HIDE DEF r
  <2>3. CacheInv' /\ KeysKept /\ UNCHANGED waiting
        BY <1>3, CacheFrame DEF oidcRefused, OidcInv, providerVars
  <2>4. login[l].state # "spent" /\ UNCHANGED <<issuer, call, account>>
        BY <1>3 DEF oidcRefused
  <2>5. cookie' \in [Browsers -> 0..MaxLogins]
    <3>1. cookie' = [cookie EXCEPT ![login[l].browser] = 0] /\ 0 \in 0..MaxLogins
          BY <1>3, LoginAssumption DEF oidcRefused
    <3> QED
        BY <3>1 DEF OidcInv, LoginInv, LoginTyped
  <2> QED
      BY <2>1, <2>2, <2>3, <2>4, <2>5, LoginMoves DEF OidcInv, LoginInv, LoginTyped
<1> QED
    BY <1>2, <1>3

(* The code is spent where it came from, and by this caller. *)
LEMMA ExchangeKeeps ==
  ASSUME OidcInv, NEW c \in Callers, Exchange(c)
  PROVE  OidcInv'
<1> DEFINE l == call[c].login
           s == [login[l] EXCEPT !.state = "spent"]
           r == [call[c] EXCEPT !.step = "select"]
<1>1. /\ call[c].step = "exchange" /\ login[l].state = "code" /\ login[l].issuer = call[c].issuer
      /\ login' = [login EXCEPT ![l] = s] /\ call' = [call EXCEPT ![c] = r]
      /\ Leave(c) /\ UNCHANGED <<issuer, cookie, account>>
      BY DEF Exchange
<1>2. l \in Logins
      BY <1>1 DEF OidcInv, LoginInv, CallSound
<1>3. call[c] \in CallRow /\ login[l] \in LoginRow
      BY <1>2 DEF OidcInv, LoginInv, LoginTyped
<1>4. s \in LoginRow /\ s.state = "spent" /\ s.issuer = login[l].issuer
      BY <1>3 DEF LoginRow
<1>5. r \in CallRow /\ r.step = "select" /\ r.issuer = call[c].issuer /\ r.login = l
      BY <1>3 DEF CallRow, Upserting
<1> HIDE DEF s, r
<1>6. CacheInv' /\ KeysKept /\ waiting' = [waiting EXCEPT ![c] = 0]
      BY <1>1, LeaveKeeps DEF OidcInv, Leave
<1>7. /\ call' \in [Callers -> CallRow] /\ call'[c] = r /\ waiting'[c] = 0 /\ login'[l] = s
      /\ \A d \in Callers : d # c => call'[d] = call[d] /\ waiting'[d] = waiting[d]
      BY <1>1, <1>2, <1>5, <1>6 DEF OidcInv, LoginInv, LoginTyped, CacheInv, CacheTyped
<1>8. CallSound(c)'
      BY <1>1, <1>2, <1>4, <1>5, <1>7 DEF CallSound, Upserting
<1> QED
    BY <1>1, <1>2, <1>4, <1>6, <1>7, <1>8, LoginMoves DEF OidcInv, LoginInv, LoginTyped

(* Callers that go away: a failed exchange, a failed discovery, a request   *)
(* that is given up.                                                        *)
LEMMA GoneKeeps ==
  ASSUME OidcInv, NEW c \in Callers
  PROVE  /\ ExchangeFails(c) => OidcInv'
         /\ ProviderFails(c) \/ Cancel(c) => OidcInv'
<1>1. ASSUME waiting' = [waiting EXCEPT ![c] = 0]
      PROVE  waiting'[c] = 0 /\ \A d \in Callers : d # c => waiting'[d] = waiting[d]
      BY <1>1 DEF OidcInv, CacheInv, CacheTyped
<1>2. ASSUME ExchangeFails(c)
      PROVE  OidcInv'
  <2>1. CacheInv' /\ KeysKept
        BY <1>2, ForgetKeeps DEF ExchangeFails, OidcInv
  <2>2. Finish(c) /\ UNCHANGED <<issuer, cookie, login, account>> /\ waiting' = [waiting EXCEPT ![c] = 0]
        BY <1>2 DEF ExchangeFails
  <2> QED
      BY <1>1, <2>1, <2>2, FinishKeeps DEF OidcInv, LoginInv, LoginTyped
<1>3. ASSUME ProviderFails(c) \/ Cancel(c)
      PROVE  OidcInv'
  <2>1. Leave(c) /\ Finish(c) /\ UNCHANGED <<issuer, cookie, login, account>>
        BY <1>3 DEF ProviderFails, Cancel
  <2>2. CacheInv' /\ KeysKept /\ waiting' = [waiting EXCEPT ![c] = 0]
        BY <2>1, LeaveKeeps DEF OidcInv, Leave
  <2> QED
      BY <1>1, <2>1, <2>2, FinishKeeps DEF OidcInv, LoginInv, LoginTyped
<1> QED
    BY <1>2, <1>3


-----------------------------------------------------------------------------
(* Steps of the upsert.  They leave the providers and the logins alone.     *)
LEMMA AccountMoves ==
  ASSUME OidcInv, NEW c \in Callers, NEW r \in CallRow, call' = [call EXCEPT ![c] = r],
         NEW a \in AccountIds, NEW s \in AccountRow, account' = [account EXCEPT ![a] = s],
         s.born = account[a].born \/ account[a].born = <<>>,
         UNCHANGED <<issuer, cookie, login, providerVars>>,
         CallSound(c)', AccountSound(a)'
  PROVE  OidcInv'
<1>1. LoginTyped'
      BY DEF OidcInv, LoginInv, LoginTyped
<1>2. CacheInv' /\ UNCHANGED <<entry, waiting>>
      BY CacheFrame DEF OidcInv, providerVars
<1>3. account'[a] = s /\ \A b \in AccountIds : b # a => account'[b] = account[b]
      BY DEF OidcInv, LoginInv, LoginTyped
<1>4. \A d \in Callers : CallSound(d)'
  <2> TAKE d \in Callers
  <2>1. CASE d = c
        BY <2>1
  <2>2. CASE d # c
    <3>1. call'[d] = call[d] /\ UNCHANGED <<login, entry, waiting>>
          BY <1>2, <2>2 DEF OidcInv, LoginInv, LoginTyped
    <3>2. CallSound(d)
          BY DEF OidcInv, LoginInv
    <3>3. ASSUME call[d].step \in {"role", "update", "session"}
          PROVE  call[d].account \in AccountIds /\ account'[call[d].account].born = TokenOf(d)
      <4>1. call[d].account \in AccountIds /\ account[call[d].account].born = TokenOf(d)
            BY <3>2, <3>3 DEF CallSound
      <4>2. TokenOf(d) # <<>>
            BY <3>3, TokenForm DEF OidcInv, Upserting
      <4> QED
          BY <1>3, <4>1, <4>2
    <3> QED
        BY <3>1, <3>2, <3>3 DEF CallSound, TokenOf
  <2> QED
      BY <2>1, <2>2
<1>5. \A b \in AccountIds : AccountSound(b)'
  <2> TAKE b \in AccountIds
  <2>1. CASE b = a
        BY <2>1
  <2>2. CASE b # a
        BY <1>3, <2>2 DEF OidcInv, LoginInv, AccountSound
  <2> QED
      BY <2>1, <2>2
<1> QED
    BY <1>1, <1>2, <1>4, <1>5 DEF OidcInv, LoginInv

(* The same with no account changed. *)
LEMMA SelectMoves ==
  ASSUME OidcInv, NEW c \in Callers, NEW r \in CallRow, call' = [call EXCEPT ![c] = r],
         issuer' = issuer, cookie' \in [Browsers -> 0..MaxLogins],
         UNCHANGED <<login, account, providerVars>>,
         CallSound(c)'
  PROVE  OidcInv'
<1>1. CacheInv' /\ KeysKept /\ UNCHANGED waiting
      BY CacheFrame DEF OidcInv, providerVars
<1> QED
    BY <1>1, CallMoves

(* A caller that looks for an account waits for no provider. *)
LEMMA UpsertForm ==
  ASSUME OidcInv, NEW c \in Callers, call[c].step \in Upserting
  PROVE  /\ waiting[c] = 0 /\ call[c] \in CallRow /\ call[c].login \in Logins
         /\ login[call[c].login].state = "spent" /\ login[call[c].login].issuer = call[c].issuer
         /\ login[call[c].login] \in LoginRow
<1>1. waiting[c] = 0
      BY DEF OidcInv, LoginInv, CallSound, Upserting
<1> QED
    BY <1>1 DEF OidcInv, LoginInv, LoginTyped, CallSound

(* What a caller that has been moved within the upsert has to show: that it *)
(* still goes for its own login, and has the account of its token.          *)
LEMMA StillSound ==
  ASSUME OidcInv, NEW c \in Callers, call[c].step \in Upserting, NEW r \in CallRow,
         call' = [call EXCEPT ![c] = r], r.login = call[c].login, r.issuer = call[c].issuer,
         UNCHANGED <<login, waiting>>,
         r.step \in {"role", "update", "session"} =>
           r.account \in AccountIds /\ account'[r.account].born = TokenOf(c)
  PROVE  CallSound(c)'
<1>1. call'[c] = r /\ waiting'[c] = 0 /\ TokenOf(c)' = TokenOf(c)
  <2>1. call'[c] = r
        BY DEF OidcInv, LoginInv, LoginTyped
  <2> QED
      BY <2>1, UpsertForm DEF TokenOf
<1> QED
    BY <1>1, UpsertForm DEF CallSound

LEMMA SelectKeeps ==
  ASSUME OidcInv, NEW c \in Callers
  PROVE  /\ SelectSubject(c) => OidcInv'
         /\ SelectUsername(c) => OidcInv'
<1>1. ASSUME SelectSubject(c)
      PROVE  OidcInv'
  <2> DEFINE S == WithIdentity(IdentityOf(c))
             o == [call[c] EXCEPT !.step = "owner"]
             u == [call[c] EXCEPT !.step = "update", !.account = CHOOSE a \in S : TRUE]
  <2>1. /\ call[c].step = "select" /\ UNCHANGED <<issuer, cookie, login, account, providerVars>>
        /\ call' = [call EXCEPT ![c] = IF S = {} THEN o ELSE u]
        BY <1>1 DEF SelectSubject
  <2>2. call[c].step \in Upserting /\ call[c] \in CallRow
        BY <2>1, UpsertForm DEF Upserting
  <2>3. CASE S = {}
    <3>1. o \in CallRow /\ o.step = "owner" /\ o.login = call[c].login /\ o.issuer = call[c].issuer
          BY <2>2 DEF CallRow, Upserting
    <3> HIDE DEF o
    <3>2. call' = [call EXCEPT ![c] = o]
          BY <2>1, <2>3
    <3>3. CallSound(c)'
          BY <2>1, <2>2, <3>1, <3>2, StillSound DEF providerVars
    <3> QED
        BY <2>1, <3>1, <3>2, <3>3, SelectMoves DEF OidcInv, LoginInv, LoginTyped
  <2>4. CASE S # {}
    <3> DEFINE a == CHOOSE x \in S : TRUE
    <3>1. a \in AccountIds /\ account[a].identity = IdentityOf(c) /\ IdentityOf(c) # <<>>
          BY <2>4 DEF WithIdentity
    <3>2. account[a].born = TokenOf(c)
          BY <2>2, <3>1, TokenForm DEF OidcInv, LoginInv, AccountSound
    <3> HIDE DEF a
    <3>3. a \in 0..MaxAccounts
          BY <3>1, LoginAssumption DEF AccountIds
    <3> DEFINE v == [call[c] EXCEPT !.step = "update", !.account = a]
    <3>5. /\ v \in CallRow /\ v.step = "update" /\ v.account = a
          /\ v.login = call[c].login /\ v.issuer = call[c].issuer
          BY <2>2, <3>3 DEF CallRow, Upserting
    <3>6. call' = [call EXCEPT ![c] = v]
          BY <2>1, <2>4 DEF a
    <3> HIDE DEF v
    <3>7. CallSound(c)'
          BY <2>1, <2>2, <3>1, <3>2, <3>5, <3>6, StillSound DEF providerVars
    <3> QED
        BY <2>1, <3>5, <3>6, <3>7, SelectMoves DEF OidcInv, LoginInv, LoginTyped
  <2> QED
      BY <2>3, <2>4
<1>2. ASSUME SelectUsername(c)
      PROVE  OidcInv'
  <2> DEFINE i == [call[c] EXCEPT !.step = "insert"]
  <2>1. /\ call[c].step = "owner" /\ UNCHANGED <<issuer, cookie, login, account, providerVars>>
        /\ call' = [call EXCEPT ![c] = i] \/ call' = [call EXCEPT ![c] = NoCall]
        BY <1>2 DEF SelectUsername, oidcLinkDecision
  <2>2. call[c].step \in Upserting /\ call[c] \in CallRow
        BY <2>1, UpsertForm DEF Upserting
  <2>3. i \in CallRow /\ i.step = "insert" /\ i.login = call[c].login /\ i.issuer = call[c].issuer
        BY <2>2 DEF CallRow, Upserting
  <2> HIDE DEF i
  <2>4. CASE call' = [call EXCEPT ![c] = i]
    <3>1. CallSound(c)'
          BY <2>1, <2>2, <2>3, <2>4, StillSound DEF providerVars
    <3> QED
        BY <2>1, <2>3, <2>4, <3>1, SelectMoves DEF OidcInv, LoginInv, LoginTyped
  <2>5. CASE call' = [call EXCEPT ![c] = NoCall]
    <3>1. Finish(c) /\ waiting'[c] = 0 /\ CacheInv' /\ KeysKept /\ UNCHANGED waiting
          BY <2>1, <2>2, <2>5, UpsertForm, CacheFrame DEF Finish, providerVars, OidcInv
    <3> QED
        BY <2>1, <3>1, FinishKeeps DEF OidcInv, LoginInv, LoginTyped
  <2> QED
      BY <2>1, <2>4, <2>5
<1> QED
    BY <1>1, <1>2


(* An account is made for the token, in a row that was nobody's. *)
LEMMA InsertKeeps ==
  ASSUME OidcInv, NEW c \in Callers, NEW a \in AccountIds, InsertAccount(c, a)
  PROVE  OidcInv'
<1> DEFINE l == login[call[c].login]
           s == [identity |-> IdentityOf(c), name |-> l.name, role |-> FALSE, born |-> <<l.issuer, l.subject>>]
           r == [call[c] EXCEPT !.step = "role", !.account = a]
<1>1. /\ call[c].step = "insert" /\ FreeAccount(a)
      /\ account' = [account EXCEPT ![a] = s] /\ call' = [call EXCEPT ![c] = r]
      /\ UNCHANGED <<issuer, cookie, login, providerVars>>
      BY DEF InsertAccount
<1>2. call[c].step \in Upserting /\ call[c] \in CallRow /\ l \in LoginRow
      BY <1>1, UpsertForm DEF Upserting
<1>3. <<l.issuer, l.subject>> = TokenOf(c)
      BY DEF TokenOf
<1>4. TokenOf(c) \in Identities /\ IdentityOf(c) = TokenOf(c)
      BY <1>2, TokenForm DEF OidcInv
<1>5. s \in AccountRow /\ s.born = TokenOf(c) /\ s.identity = TokenOf(c)
      BY <1>2, <1>3, <1>4 DEF AccountRow, LoginRow
<1>6. a \in 0..MaxAccounts
      BY LoginAssumption DEF AccountIds
<1>7. /\ r \in CallRow /\ r.step = "role" /\ r.account = a
      /\ r.login = call[c].login /\ r.issuer = call[c].issuer
      BY <1>2, <1>6 DEF CallRow, Upserting
<1> HIDE DEF s, r
<1>8. account[a].born = <<>>
      BY <1>1 DEF FreeAccount, Exists, NoAccount
<1>9. account'[a] = s
      BY <1>1 DEF OidcInv, LoginInv, LoginTyped
<1>10. CallSound(c)'
       BY <1>1, <1>2, <1>5, <1>7, <1>9, StillSound DEF providerVars
<1>11. AccountSound(a)'
       BY <1>5, <1>9 DEF AccountSound
<1> QED
    BY <1>1, <1>5, <1>7, <1>8, <1>10, <1>11, AccountMoves

(* What is written to an account that was found leaves it whose it was. *)
LEMMA WriteKeeps ==
  ASSUME OidcInv, NEW c \in Callers
  PROVE  /\ \A done \in BOOLEAN : GrantRole(c, done) => OidcInv'
         /\ UpdateAccount(c) => OidcInv'
<1> DEFINE a == call[c].account
           r == [call[c] EXCEPT !.step = "session"]
<1>1. ASSUME call[c].step \in {"role", "update"}
      PROVE  /\ call[c].step \in Upserting /\ call[c] \in CallRow
             /\ a \in AccountIds /\ account[a] \in AccountRow /\ account[a].born = TokenOf(c)
             /\ login[call[c].login] \in LoginRow
             /\ r \in CallRow /\ r.step = "session" /\ r.account = a
             /\ r.login = call[c].login /\ r.issuer = call[c].issuer
  <2>1. call[c].step \in Upserting /\ call[c] \in CallRow /\ login[call[c].login] \in LoginRow
        BY <1>1, UpsertForm DEF Upserting
  <2>2. a \in AccountIds /\ account[a].born = TokenOf(c)
        BY <1>1 DEF OidcInv, LoginInv, CallSound
  <2>3. account[a] \in AccountRow
        BY <2>2 DEF OidcInv, LoginInv, LoginTyped
  <2>4. /\ r \in CallRow /\ r.step = "session" /\ r.account = a
        /\ r.login = call[c].login /\ r.issuer = call[c].issuer
        BY <2>1 DEF CallRow, Upserting
  <2> QED
      BY <2>1, <2>2, <2>3, <2>4
<1> HIDE DEF r
<1>2. ASSUME call[c].step \in {"role", "update"}, NEW b \in AccountIds, b = a,
             NEW s \in AccountRow, s.born = account[b].born, s.identity = account[b].identity,
             account' = [account EXCEPT ![b] = s], call' = [call EXCEPT ![c] = r],
             UNCHANGED <<issuer, cookie, login, providerVars>>
      PROVE  OidcInv'
  <2>1. account'[b] = s
        BY <1>2 DEF OidcInv, LoginInv, LoginTyped
  <2>2. CallSound(c)'
        BY <1>1, <1>2, <2>1, StillSound DEF providerVars
  <2>3. AccountSound(b)'
        BY <1>2, <2>1 DEF OidcInv, LoginInv, AccountSound
  <2> QED
      BY <1>1, <1>2, <2>2, <2>3, AccountMoves
<1>3. ASSUME NEW done \in BOOLEAN, GrantRole(c, done)
      PROVE  OidcInv'
  <2> DEFINE s == [account[a] EXCEPT !.role = @ \/ done]
  <2>1. /\ call[c].step \in {"role", "update"} /\ account' = [account EXCEPT ![a] = s]
        /\ call' = [call EXCEPT ![c] = r] /\ UNCHANGED <<issuer, cookie, login, providerVars>>
        BY <1>3 DEF GrantRole, r
  <2>2. account[a] \in AccountRow
        BY <1>1, <2>1
  <2>3. s \in AccountRow /\ s.born = account[a].born /\ s.identity = account[a].identity
        BY <2>2 DEF AccountRow
  <2> HIDE DEF s
  <2> QED
      BY <1>1, <1>2, <2>1, <2>3
<1>4. ASSUME UpdateAccount(c)
      PROVE  OidcInv'
  <2> DEFINE n == login[call[c].login].name
             s == [account[a] EXCEPT !.name = n]
  <2>1. /\ call[c].step \in {"role", "update"} /\ account' = [account EXCEPT ![a] = s]
        /\ call' = [call EXCEPT ![c] = r] /\ UNCHANGED <<issuer, cookie, login, providerVars>>
        BY <1>4 DEF UpdateAccount, r
  <2>2. account[a] \in AccountRow /\ n \in Names \cup {"none"}
        BY <1>1, <2>1 DEF LoginRow
  <2>3. s \in AccountRow /\ s.born = account[a].born /\ s.identity = account[a].identity
        BY <2>2 DEF AccountRow
  <2> HIDE DEF s
  <2> QED
      BY <1>1, <1>2, <2>1, <2>3
<1> QED
    BY <1>3, <1>4

(* The session is made, or the request fails on the way. *)
LEMMA UpsertEnds ==
  ASSUME OidcInv, NEW c \in Callers, CreateSession(c) \/ Fail(c)
  PROVE  OidcInv'
<1>1. /\ call[c].step \in Upserting /\ Finish(c) /\ UNCHANGED <<issuer, login, account, providerVars>>
      /\ cookie' = cookie \/ cookie' = [cookie EXCEPT ![call[c].browser] = 0]
      BY DEF CreateSession, Fail, Upserting
<1>2. CacheInv' /\ KeysKept /\ UNCHANGED waiting
      BY <1>1, CacheFrame DEF OidcInv, providerVars
<1>3. waiting[c] = 0
      BY <1>1, UpsertForm
<1>4. 0 \in 0..MaxLogins
      BY LoginAssumption
<1>5. cookie' \in [Browsers -> 0..MaxLogins]
      BY <1>1, <1>4 DEF OidcInv, LoginInv, LoginTyped
<1> QED
    BY <1>1, <1>2, <1>3, <1>5, FinishKeeps

-----------------------------------------------------------------------------
(* The whole *)

LEMMA OidcInit == Init => OidcInv
<1> SUFFICES ASSUME Init PROVE OidcInv
    OBVIOUS
<1>1. 0 \in 0..MaxEntries /\ 0 \in 0..MaxLogins /\ 1 \in AccountIds
      BY ProvidersAssumption, LoginAssumption DEF AccountIds
<1>2. NoEntry \in EntryRow /\ NoEntry.state = "none" /\ Started = {} /\ InFlight = {}
      BY DEF NoEntry, EntryRow, Init, ProvidersInit, Started, InFlight
<1>3. CacheInv
      BY <1>1, <1>2 DEF Init, ProvidersInit, CacheInv, CacheTyped, EntrySound, CachedSound, WaitSound, SingleDiscovery
<1>4. /\ Local \in AccountRow /\ Local.identity = <<>>
      /\ NoAccount \in AccountRow /\ NoAccount.identity = <<>>
      BY LoginAssumption DEF Local, NoAccount, AccountRow, Identities
<1>5. LoginTyped
      BY <1>1, <1>4, NoCallForm, NoLoginForm DEF Init, LoginTyped
<1>6. \A c \in Callers : CallSound(c)
      BY NoCallForm DEF Init, ProvidersInit, CallSound, Upserting
<1>7. \A a \in AccountIds : AccountSound(a)
      BY <1>4 DEF Init, AccountSound
<1> QED
    BY <1>3, <1>5, <1>6, <1>7 DEF OidcInv, LoginInv

LEMMA OidcNext == OidcInv /\ [Next]_vars => OidcInv'
<1> SUFFICES ASSUME OidcInv, [Next]_vars PROVE OidcInv'
    OBVIOUS
<1>1. ASSUME UNCHANGED loginVars, CacheInv', KeysKept, UNCHANGED waiting
      PROVE  OidcInv'
  <2>1. UNCHANGED <<issuer, cookie, login, call, account>>
        BY <1>1 DEF loginVars
  <2>2. \A c \in Callers : CallSound(c)'
    <3> TAKE c \in Callers
    <3>1. waiting[c] # 0 => entry'[waiting[c]].key = entry[waiting[c]].key
          BY <1>1 DEF OidcInv, CacheInv, WaitSound, KeysKept
    <3> QED
        BY <1>1, <2>1, <3>1 DEF OidcInv, LoginInv, CallSound, TokenOf
  <2> QED
      BY <1>1, <2>1, <2>2 DEF OidcInv, LoginInv, LoginTyped, AccountSound
<1>2. ASSUME NEW c \in Callers, CallerNext(c)
      PROVE  OidcInv'
  <2>1. ASSUME Upsert(c)
        PROVE  OidcInv'
        BY <2>1, SelectKeeps, InsertKeeps, WriteKeeps, UpsertEnds DEF Upsert
  <2>2. ASSUME Proceed(c)
        PROVE  OidcInv'
        BY <2>2, RedirectKeeps, ExchangeKeeps, GoneKeeps DEF Proceed
  <2> QED
      BY <1>2, <2>1, <2>2, AskKeeps, GoneKeeps DEF CallerNext
<1>3. ASSUME NEW e \in EntryIds, Discovery(e) \/ Expire(e), UNCHANGED loginVars
      PROVE  OidcInv'
  <2>1. CacheInv' /\ KeysKept
        BY <1>3, DiscoveryKeeps DEF OidcInv
  <2>2. UNCHANGED waiting
        BY <1>3 DEF Discovery, resolve, CloseReady, Expire
  <2> QED
      BY <1>1, <1>3, <2>1, <2>2
<1>4. ASSUME NEW i \in Issuers, SaveIssuer(i)
      PROVE  OidcInv'
  <2>1. CacheInv' /\ KeysKept
        BY <1>4, CacheFrame DEF SaveIssuer, OidcInv
  <2>2. issuer' = i /\ UNCHANGED <<cookie, login, call, account, waiting, entry>>
        BY <1>4 DEF SaveIssuer, providerVars
  <2>3. LoginTyped'
        BY <2>2 DEF OidcInv, LoginInv, LoginTyped
  <2>4. \A c \in Callers : CallSound(c)'
        BY <2>2 DEF OidcInv, LoginInv, CallSound, TokenOf
  <2>5. \A a \in AccountIds : AccountSound(a)'
        BY <2>2 DEF OidcInv, LoginInv, AccountSound
  <2> QED
      BY <2>1, <2>3, <2>4, <2>5 DEF OidcInv, LoginInv
<1>5. CASE UNCHANGED vars
      BY <1>1, <1>5, CacheFrame DEF vars, loginVars, providerVars, OidcInv
<1> QED
    BY <1>2, <1>3, <1>4, <1>5, AnswerKeeps DEF Next

LEMMA Always == Spec => []OidcInv
BY OidcInit, OidcNext, PTL DEF Spec

(* Every variable keeps its type, the rows of logins, callers and accounts  *)
(* included, and a caller waits for the provider of the issuer its login    *)
(* asked for (providerCache.get, oidcLogin, UpsertOIDCUser).                *)
THEOREM TypeCorrect == Spec => []TypeOK
<1>1. OidcInv => TypeOK
  <2> SUFFICES ASSUME OidcInv PROVE TypeOK
      OBVIOUS
  <2>1. \A k \in Issuers : cached[k] # 0 => entry[cached[k]].key = k
        BY DEF OidcInv, CacheInv, CachedSound
  <2>2. \A c \in Callers : waiting[c] # 0 => entry[waiting[c]].key = call[c].issuer
        BY DEF OidcInv, LoginInv, CallSound
  <2> QED
      BY <2>1, <2>2 DEF OidcInv, LoginInv, LoginTyped, CacheInv, CacheTyped, TypeOK, EntryRow
<1> QED
    BY <1>1, Always, PTL

(* Callers of one issuer share one discovery: of those that run, only one   *)
(* was not forgotten, and it is the one the cache hands out (resolve,       *)
(* forget, evictExpiredLocked).                                             *)
THEOREM OneDiscovery == Spec => []SingleDiscovery
<1>1. OidcInv => SingleDiscovery
      BY DEF OidcInv, CacheInv
<1> QED
    BY <1>1, Always, PTL

(* Nobody is given a provider discovered before the failed exchange that    *)
(* made the server forget it (forget).                                      *)
THEOREM ForgottenStaysForgotten == Spec => []ForgottenNotServed
<1>1. OidcInv => ForgottenNotServed
      BY DEF OidcInv, CacheInv, WaitSound, ForgottenNotServed, Served
<1> QED
    BY <1>1, Always, PTL

(* Whoever gets a session by OIDC gets that of the account created for the  *)
(* issuer and the subject of their own token (UpsertOIDCUser,               *)
(* oidcLinkDecision).                                                       *)
THEOREM VisitorsBecomeThemselves == Spec => []SignsInAsItself
<1>1. OidcInv => SignsInAsItself
      BY DEF OidcInv, LoginInv, CallSound, TokenOf, SignsInAsItself
<1> QED
    BY <1>1, Always, PTL
=============================================================================
