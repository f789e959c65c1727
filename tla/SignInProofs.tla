---------------------------- MODULE SignInProofs ----------------------------
(***************************************************************************)
(* Theorems about SignIn.  The invariant has a part for the keys, one for  *)
(* the accounts with their sessions, one for the windows of failed logins  *)
(* and one for the windows of anonymous requests; each reads little of the *)
(* state of the others.                                                    *)
(***************************************************************************)
EXTENDS SignIn, FiniteSetTheorems, TLAPS

-----------------------------------------------------------------------------
(* Keys *)

KeyTyped ==
  /\ key \in [KeyIds -> KeyRow]
  /\ rowLock \in [KeyIds -> Lockers]
  /\ policy \subseteq Permissions
  /\ permissions \in [Accounts -> SUBSET Permissions]
  /\ op \in [Handlers -> KeyRequest]

(* A row that exists has an owner and descends from a row with its scopes. *)
RowSound(k) ==
  Exists(k) =>
    /\ key[k].owner \in Accounts
    /\ key[k].root \in KeyIds
    /\ Exists(key[k].root)
    /\ key[k].scopes = key[key[k].root].scopes

(* A request that was made with a key. *)
WithKey(h) == Reading(h) \/ op[h].step = "use"

(* What a request knows of the key it is about or made with: a rotation     *)
(* holds the lock of an active row, and a key in use was read from its row. *)
(* Until it has read the permissions of its owner they are the last of      *)
(* those it has seen; those it has read are one of these.                   *)
RequestSound(h) ==
  /\ op[h].step \in {"account", "manage", "insert", "select"} => op[h].user \in Accounts
  /\ op[h].step \in {"select", "rotate", "touch", "use"} \/ WithKey(h) =>
       op[h].id \in KeyIds /\ Exists(op[h].id)
  /\ op[h].step = "rotate" => rowLock[op[h].id] = h /\ key[op[h].id].status = "active"
  /\ WithKey(h) => op[h].user = key[op[h].id].owner /\ op[h].scopes = key[op[h].id].scopes
  /\ Reading(h) => permissions[op[h].user] \in op[h].seen
  /\ op[h].step = "use" => op[h].granted \in op[h].seen

LockSound(k) == rowLock[k] # Nobody => op[rowLock[k]].step = "rotate" /\ op[rowLock[k]].id = k

KeyInv ==
  /\ KeyTyped
  /\ \A k \in KeyIds : RowSound(k) /\ LockSound(k)
  /\ \A h \in Handlers : RequestSound(h)
  /\ OneLiveKeyPerLineage

(* Sessions that were opened belong to an account. *)
SessionsOwned == \A j \in Jtis : session[j].status # "none" => session[j].user \in Accounts

LEMMA QuietTyped == Quiet \in KeyRequest /\ Quiet.step = "idle" /\ Quiet.id = 0
BY ApiKeysAssumption DEF Quiet, KeyRequest

LEMMA SuccessorForm ==
  ASSUME NEW r \in KeyRow
  PROVE  /\ Successor(r) \in KeyRow
         /\ Successor(r).owner = r.owner /\ Successor(r).scopes = r.scopes
         /\ Successor(r).status = "active" /\ Successor(r).root = r.root
BY DEF Successor, KeyRow

(* Steps that leave the rows alone and move one request. *)
LEMMA OneRequest ==
  ASSUME KeyInv, NEW h \in Handlers, NEW r \in KeyRequest,
         op' = [op EXCEPT ![h] = r], UNCHANGED <<key, rowLock, policy, permissions>>,
         op[h].step # "rotate", RequestSound(h)'
  PROVE  KeyInv'
<1>1. KeyTyped'
      BY DEF KeyInv, KeyTyped
<1>2. \A k \in KeyIds : RowSound(k)'
      BY DEF KeyInv, RowSound, Exists
<1>3. \A k \in KeyIds : LockSound(k)'
      BY AccountsAssumption DEF KeyInv, KeyTyped, LockSound, Lockers
<1>4. \A g \in Handlers : RequestSound(g)'
  <2> TAKE g \in Handlers
  <2>1. CASE g = h
        BY <2>1
  <2>2. CASE g # h
        BY <2>2 DEF KeyInv, KeyTyped, RequestSound, WithKey, Reading, Exists
  <2> QED
      BY <2>1, <2>2
<1>5. OneLiveKeyPerLineage'
      BY DEF KeyInv, OneLiveKeyPerLineage, Exists
<1> QED
    BY <1>1, <1>2, <1>3, <1>4, <1>5 DEF KeyInv

(* The end of a request gives its locks back. *)
LEMMA EndOfRequest ==
  ASSUME KeyInv, NEW h \in Handlers, EndRequest(h)
  PROVE  KeyInv'
<1>1. KeyTyped'
      BY QuietTyped DEF KeyInv, KeyTyped, EndRequest, Lockers
<1>2. \A k \in KeyIds : RowSound(k)'
      BY DEF KeyInv, RowSound, Exists, EndRequest
<1>3. \A k \in KeyIds : LockSound(k)'
      BY AccountsAssumption DEF KeyInv, KeyTyped, LockSound, Lockers, EndRequest
<1>4. \A g \in Handlers : RequestSound(g)'
  <2> TAKE g \in Handlers
  <2>1. CASE g = h
        BY <2>1, QuietTyped DEF KeyInv, KeyTyped, RequestSound, WithKey, Reading, EndRequest
  <2>2. CASE g # h
        BY <2>2 DEF KeyInv, KeyTyped, RequestSound, WithKey, Reading, Exists, EndRequest
  <2> QED
      BY <2>1, <2>2
<1>5. OneLiveKeyPerLineage'
      BY DEF KeyInv, OneLiveKeyPerLineage, Exists, EndRequest
<1> QED
    BY <1>1, <1>2, <1>3, <1>4, <1>5 DEF KeyInv

LEMMA CreateKeeps ==
  ASSUME KeyInv, NEW h \in Handlers, NEW n \in KeyIds, CreateAPIKey(h, n)
  PROVE  KeyInv'
<1> DEFINE r == [owner |-> op[h].user, scopes |-> op[h].scopes, status |-> "active", root |-> n]
<1>1. /\ key' = [key EXCEPT ![n] = r] /\ ~Exists(n) /\ op' = [op EXCEPT ![h] = Quiet]
      /\ UNCHANGED <<rowLock, policy, permissions>> /\ op[h].step = "insert"
      BY DEF CreateAPIKey, FreeId
<1>2. /\ r \in KeyRow /\ r.owner \in Accounts /\ r.status = "active" /\ r.root = n
      BY <1>1, ApiKeysAssumption DEF KeyInv, KeyTyped, RequestSound, KeyRow, KeyRequest, KeyIds
<1>3. key'[n] = r /\ \A k \in KeyIds : k # n => key'[k] = key[k]
      BY <1>1 DEF KeyInv, KeyTyped
<1> HIDE DEF r
<1>4. KeyTyped'
      BY <1>1, <1>2, QuietTyped DEF KeyInv, KeyTyped
<1>5. \A k \in KeyIds : RowSound(k)'
      BY <1>1, <1>2, <1>3 DEF KeyInv, RowSound, Exists
<1>6. \A k \in KeyIds : LockSound(k)'
      BY <1>1, AccountsAssumption DEF KeyInv, KeyTyped, LockSound, Lockers
<1>7. \A g \in Handlers : RequestSound(g)'
  <2> TAKE g \in Handlers
  <2>1. CASE g = h
        BY <1>1, <2>1, QuietTyped DEF KeyInv, KeyTyped, RequestSound, WithKey, Reading
  <2>2. CASE g # h
        BY <1>1, <1>3, <2>2 DEF KeyInv, KeyTyped, RequestSound, WithKey, Reading, Exists
  <2> QED
      BY <2>1, <2>2
<1>8. OneLiveKeyPerLineage'
      BY <1>1, <1>2, <1>3 DEF KeyInv, OneLiveKeyPerLineage, Exists, RowSound
<1> QED
    BY <1>4, <1>5, <1>6, <1>7, <1>8 DEF KeyInv

(* The lock keeps the old row active until the successor takes its place;   *)
(* no other row of the lineage is.                                          *)
LEMMA RotateKeeps ==
  ASSUME KeyInv, NEW h \in Handlers, NEW n \in KeyIds, RotateAPIKey(h, n)
  PROVE  KeyInv'
<1> DEFINE old == op[h].id
<1> DEFINE r == Successor(key[old])
<1> DEFINE gone == [key[old] EXCEPT !.status = "rotated"]
<1>1. /\ key' = [key EXCEPT ![old].status = "rotated", ![n] = r]
      /\ rowLock' = [rowLock EXCEPT ![old] = Nobody] /\ op' = [op EXCEPT ![h] = Quiet]
      /\ UNCHANGED <<policy, permissions>> /\ op[h].step = "rotate" /\ ~Exists(n)
      BY DEF RotateAPIKey, FreeId
<1>2. /\ old \in KeyIds /\ Exists(old) /\ rowLock[old] = h /\ key[old].status = "active" /\ old # n
      /\ key[old] \in KeyRow
      BY <1>1 DEF KeyInv, KeyTyped, RequestSound, WithKey, Reading
<1>3. /\ r \in KeyRow /\ r.owner = key[old].owner /\ r.scopes = key[old].scopes
      /\ r.status = "active" /\ r.root = key[old].root
      BY <1>2, SuccessorForm
<1>4. /\ gone \in KeyRow /\ gone.owner = key[old].owner /\ gone.scopes = key[old].scopes
      /\ gone.status = "rotated" /\ gone.root = key[old].root
      BY <1>2 DEF KeyRow
<1> HIDE DEF r
<1>5. key'[n] = r /\ key'[old] = gone /\ \A k \in KeyIds : k # n /\ k # old => key'[k] = key[k]
      BY <1>1, <1>2 DEF KeyInv, KeyTyped
<1>6. key' \in [KeyIds -> KeyRow]
      BY <1>1, <1>2, <1>3, <1>4 DEF KeyInv, KeyTyped
<1> HIDE DEF gone
<1>7. KeyTyped'
      BY <1>1, <1>2, <1>6, QuietTyped DEF KeyInv, KeyTyped, Lockers
<1> HIDE DEF old
<1>8. \A k \in KeyIds : RowSound(k)'
  <2> TAKE k \in KeyIds
  <2>1. \A l \in KeyIds : Exists(l) => l # n /\ Exists(l)' /\ key'[l].scopes = key[l].scopes
        BY <1>1, <1>2, <1>4, <1>5 DEF Exists
  <2>2. CASE k = n
        BY <1>2, <1>3, <1>5, <2>1, <2>2 DEF KeyInv, RowSound
  <2>3. CASE k = old
        BY <1>2, <1>4, <1>5, <2>1, <2>3 DEF KeyInv, RowSound
  <2>4. CASE k # n /\ k # old
        BY <1>2, <1>5, <2>1, <2>4 DEF KeyInv, RowSound, Exists
  <2> QED
      BY <2>2, <2>3, <2>4
<1>9. \A k \in KeyIds : LockSound(k)'
  <2> TAKE k \in KeyIds
  <2>1. CASE k = old
        BY <1>1, <1>2, <2>1 DEF KeyInv, KeyTyped, LockSound
  <2>2. CASE k # old
    <3>1. rowLock'[k] = rowLock[k] /\ (rowLock[k] # Nobody => rowLock[k] # h)
          BY <1>1, <1>2, <2>2 DEF KeyInv, KeyTyped, LockSound, old
    <3> QED
        BY <1>1, <3>1, AccountsAssumption DEF KeyInv, KeyTyped, LockSound, Lockers
  <2> QED
      BY <2>1, <2>2
<1>10. \A g \in Handlers : RequestSound(g)'
  <2> TAKE g \in Handlers
  <2>1. CASE g = h
        BY <1>1, <2>1, QuietTyped DEF KeyInv, KeyTyped, RequestSound, WithKey, Reading
  <2>2. CASE g # h
    <3>1. op'[g] = op[g]
          BY <1>1, <2>2 DEF KeyInv, KeyTyped
    <3>2. op[g].step = "rotate" => op[g].id # old
          BY <1>2, <2>2 DEF KeyInv, RequestSound, WithKey, Reading
    <3> QED
        BY <1>1, <1>2, <1>3, <1>4, <1>5, <3>1, <3>2
           DEF KeyInv, KeyTyped, RequestSound, WithKey, Reading, Exists
  <2> QED
      BY <2>1, <2>2
<1>11. OneLiveKeyPerLineage'
      BY <1>2, <1>3, <1>4, <1>5 DEF KeyInv, OneLiveKeyPerLineage, Exists
<1> QED
    BY <1>7, <1>8, <1>9, <1>10, <1>11 DEF KeyInv

LEMMA RevokeKeeps ==
  ASSUME KeyInv, NEW h \in Handlers, NEW n \in KeyIds, RevokeAPIKey(h, n)
  PROVE  KeyInv'
<1> DEFINE gone == [key[n] EXCEPT !.status = "revoked"]
<1>1. /\ key' = [key EXCEPT ![n].status = "revoked"] /\ op' = [op EXCEPT ![h] = Quiet]
      /\ UNCHANGED <<rowLock, policy, permissions>> /\ op[h].step = "manage"
      /\ rowLock[n] = Nobody /\ key[n].status = "active"
      BY DEF RevokeAPIKey
<1>2. key[n] \in KeyRow
      BY DEF KeyInv, KeyTyped
<1>3. /\ gone \in KeyRow /\ gone.owner = key[n].owner /\ gone.scopes = key[n].scopes
      /\ gone.status = "revoked" /\ gone.root = key[n].root
      BY <1>2 DEF KeyRow
<1>4. key'[n] = gone /\ key' \in [KeyIds -> KeyRow] /\ \A k \in KeyIds : k # n => key'[k] = key[k]
      BY <1>1, <1>3 DEF KeyInv, KeyTyped
<1> HIDE DEF gone
<1>5. KeyTyped'
      BY <1>1, <1>4, QuietTyped DEF KeyInv, KeyTyped
<1>6. \A k \in KeyIds : RowSound(k)'
      BY <1>1, <1>3, <1>4 DEF KeyInv, RowSound, Exists
<1>7. \A k \in KeyIds : LockSound(k)'
      BY <1>1, AccountsAssumption DEF KeyInv, KeyTyped, LockSound, Lockers
<1>8. \A g \in Handlers : RequestSound(g)'
  <2> TAKE g \in Handlers
  <2>1. CASE g = h
        BY <1>1, <2>1, QuietTyped DEF KeyInv, KeyTyped, RequestSound, WithKey, Reading
  <2>2. CASE g # h
    <3>1. op'[g] = op[g]
          BY <1>1, <2>2 DEF KeyInv, KeyTyped
    <3>2. op[g].step = "rotate" => op[g].id # n
          BY <1>1, AccountsAssumption DEF KeyInv, RequestSound, WithKey, Reading
    <3> QED
        BY <1>1, <1>3, <1>4, <3>1, <3>2
           DEF KeyInv, KeyTyped, RequestSound, WithKey, Reading, Exists
  <2> QED
      BY <2>1, <2>2
<1>9. OneLiveKeyPerLineage'
      BY <1>1, <1>3, <1>4 DEF KeyInv, OneLiveKeyPerLineage, Exists
<1> QED
    BY <1>5, <1>6, <1>7, <1>8, <1>9 DEF KeyInv

LEMMA ManageKeeps ==
  ASSUME KeyInv, NEW h \in Handlers, ManageNext(h)
  PROVE  KeyInv'
<1>1. CASE \E scopes \in SUBSET Permissions : keyCreate(h, scopes)
  <2>1. PICK scopes \in SUBSET Permissions : keyCreate(h, scopes)
        BY <1>1
  <2> DEFINE r == [Quiet EXCEPT !.step = "insert", !.user = op[h].user, !.scopes = scopes]
  <2>2. op' = [op EXCEPT ![h] = r] /\ UNCHANGED <<key, rowLock, policy, permissions>>
        /\ op[h].step = "manage"
        BY <2>1 DEF keyCreate, KeyInv, KeyTyped
  <2>3. r \in KeyRequest /\ r.step = "insert" /\ r.user \in Accounts
    <3>1. op[h].user \in Accounts
          BY <2>2 DEF KeyInv, RequestSound
    <3> QED
        BY <3>1, QuietTyped DEF KeyRequest
  <2> HIDE DEF r
  <2>4. RequestSound(h)'
        BY <2>2, <2>3 DEF KeyInv, KeyTyped, RequestSound, WithKey, Reading
  <2> QED
      BY <2>2, <2>3, <2>4, OneRequest
<1>2. CASE \E k \in KeyIds : keyRotate(h, k)
  <2>1. PICK k \in KeyIds : keyRotate(h, k)
        BY <1>2
  <2> DEFINE r == [Quiet EXCEPT !.step = "select", !.user = op[h].user, !.id = k]
  <2>2. op' = [op EXCEPT ![h] = r] /\ UNCHANGED <<key, rowLock, policy, permissions>>
        /\ op[h].step = "manage" /\ Exists(k)
        BY <2>1 DEF keyRotate, KeyInv, KeyTyped
  <2>3. r \in KeyRequest /\ r.step = "select" /\ r.user \in Accounts /\ r.id = k
    <3>1. op[h].user \in Accounts /\ k \in 0..MaxKeys
          BY <2>2, ApiKeysAssumption DEF KeyInv, RequestSound, KeyIds
    <3> QED
        BY <3>1, QuietTyped DEF KeyRequest
  <2> HIDE DEF r
  <2>4. RequestSound(h)'
        BY <2>2, <2>3 DEF KeyInv, KeyTyped, RequestSound, WithKey, Reading, Exists
  <2> QED
      BY <2>2, <2>3, <2>4, OneRequest
<1>3. CASE SelectForUpdate(h)
  <2> DEFINE k == op[h].id
  <2> DEFINE r == [op[h] EXCEPT !.step = "rotate"]
  <2>1. op' = [op EXCEPT ![h] = r] /\ rowLock' = [rowLock EXCEPT ![k] = h]
        /\ UNCHANGED <<key, policy, permissions>>
        /\ op[h].step = "select" /\ rowLock[k] = Nobody /\ key[k].status = "active"
        BY <1>3 DEF SelectForUpdate
  <2>2. k \in KeyIds /\ Exists(k) /\ op[h] \in KeyRequest
        BY <2>1 DEF KeyInv, KeyTyped, RequestSound, WithKey, Reading
  <2>3. r \in KeyRequest /\ r.step = "rotate" /\ r.id = k
        BY <2>2 DEF KeyRequest
  <2> HIDE DEF r
  <2>4. KeyTyped'
        BY <2>1, <2>2, <2>3 DEF KeyInv, KeyTyped, Lockers
  <2> HIDE DEF k
  <2>5. op'[h] = r /\ \A g \in Handlers : g # h => op'[g] = op[g]
        BY <2>1 DEF KeyInv, KeyTyped
  <2>6. rowLock'[k] = h /\ \A l \in KeyIds : l # k => rowLock'[l] = rowLock[l]
        BY <2>1, <2>2 DEF KeyInv, KeyTyped
  <2>7. \A l \in KeyIds : RowSound(l)'
        BY <2>1 DEF KeyInv, RowSound, Exists
  <2>8. \A l \in KeyIds : LockSound(l)'
    <3> TAKE l \in KeyIds
    <3>1. CASE l = k
          BY <2>3, <2>5, <2>6, <3>1 DEF LockSound
    <3>2. CASE l # k
      <4>1. rowLock'[l] = rowLock[l] /\ rowLock[l] # h
            BY <2>1, <2>6, <3>2, AccountsAssumption DEF KeyInv, LockSound
      <4> QED
          BY <2>5, <4>1 DEF KeyInv, KeyTyped, LockSound, Lockers
    <3> QED
        BY <3>1, <3>2
  <2>9. \A g \in Handlers : RequestSound(g)'
    <3> TAKE g \in Handlers
    <3>1. CASE g = h
          BY <2>1, <2>2, <2>3, <2>5, <2>6, <3>1 DEF RequestSound, WithKey, Reading, Exists
    <3>2. CASE g # h
      <4>1. op'[g] = op[g]
            BY <2>5, <3>2
      <4>2. op[g].step = "rotate" => op[g].id # k
            BY <2>1, AccountsAssumption DEF KeyInv, RequestSound, WithKey, Reading
      <4> QED
          BY <2>1, <2>6, <4>1, <4>2 DEF KeyInv, KeyTyped, RequestSound, WithKey, Reading, Exists
    <3> QED
        BY <3>1, <3>2
  <2>10. OneLiveKeyPerLineage'
        BY <2>1 DEF KeyInv, OneLiveKeyPerLineage, Exists
  <2> QED
      BY <2>4, <2>7, <2>8, <2>9, <2>10 DEF KeyInv
<1> QED
    BY <1>1, <1>2, <1>3, CreateKeeps, RotateKeeps, RevokeKeeps DEF ManageNext

LEMMA AuthKeeps ==
  ASSUME KeyInv, SessionsOwned, NEW h \in Handlers, AuthNext(h)
  PROVE  KeyInv'
<1>1. CASE \E j \in Jtis : AuthenticateRequest(h, j)
  <2>1. PICK j \in Jtis : AuthenticateRequest(h, j)
        BY <1>1
  <2> DEFINE r == [Quiet EXCEPT !.step = "account", !.user = session[j].user]
  <2>2. session[j].user \in Accounts
        BY <2>1 DEF AuthenticateRequest, SessionActive, SessionsOwned
  <2>3. r \in KeyRequest /\ r.step = "account" /\ r.user \in Accounts /\ r.id = 0
        BY <2>2, QuietTyped DEF KeyRequest
  <2>4. op' = [op EXCEPT ![h] = r] /\ UNCHANGED <<key, rowLock, policy, permissions>> /\ op[h] = Quiet
        BY <2>1 DEF AuthenticateRequest
  <2> HIDE DEF r
  <2>5. RequestSound(h)'
        BY <2>3, <2>4 DEF KeyInv, KeyTyped, RequestSound, WithKey, Reading
  <2> QED
      BY <2>3, <2>4, <2>5, QuietTyped, OneRequest
<1>2. CASE \E k \in KeyIds : AuthenticateAPIKey(h, k)
  <2>1. PICK k \in KeyIds : AuthenticateAPIKey(h, k)
        BY <1>2
  <2> DEFINE r == [Quiet EXCEPT !.step = "touch", !.user = key[k].owner, !.scopes = key[k].scopes,
                                !.id = k, !.seen = {permissions[key[k].owner]}]
  <2>2. op' = [op EXCEPT ![h] = r] /\ UNCHANGED <<key, rowLock, policy, permissions>>
        /\ op[h] = Quiet /\ Exists(k)
        BY <2>1 DEF AuthenticateAPIKey, Exists
  <2>3. key[k] \in KeyRow /\ key[k].owner \in Accounts /\ permissions[key[k].owner] \in SUBSET Permissions
        BY <2>2 DEF KeyInv, KeyTyped, RowSound
  <2>4. /\ r \in KeyRequest /\ r.step = "touch" /\ r.user = key[k].owner /\ r.scopes = key[k].scopes
        /\ r.id = k /\ permissions[r.user] \in r.seen
    <3>1. k \in 0..MaxKeys /\ key[k].scopes \in SUBSET Permissions
          BY <2>3, ApiKeysAssumption DEF KeyRow, KeyIds
    <3> QED
        BY <2>3, <3>1, QuietTyped DEF KeyRequest
  <2> HIDE DEF r
  <2>5. RequestSound(h)'
        BY <2>2, <2>4 DEF KeyInv, KeyTyped, RequestSound, WithKey, Reading, Exists
  <2> QED
      BY <2>2, <2>4, <2>5, QuietTyped, OneRequest
<1>3. CASE TouchKey(h)
  <2> DEFINE r == [op[h] EXCEPT !.step = "account"]
  <2>1. op' = [op EXCEPT ![h] = r] /\ UNCHANGED <<key, rowLock, policy, permissions>>
        /\ op[h].step = "touch"
        BY <1>3 DEF TouchKey
  <2>2. op[h] \in KeyRequest /\ op[h].id \in KeyIds /\ op[h].id # 0 /\ Exists(op[h].id)
        BY <2>1 DEF KeyInv, KeyTyped, RequestSound, KeyIds
  <2>3. op[h].user \in Accounts
        BY <2>1, <2>2 DEF KeyInv, RequestSound, RowSound, WithKey, Reading
  <2>4. /\ r \in KeyRequest /\ r.step = "account" /\ r.user = op[h].user /\ r.scopes = op[h].scopes
        /\ r.id = op[h].id /\ r.seen = op[h].seen
        BY <2>2 DEF KeyRequest
  <2> HIDE DEF r
  <2>5. op'[h] = r
        BY <2>1 DEF KeyInv, KeyTyped
  <2>6. RequestSound(h)'
        BY <2>1, <2>2, <2>3, <2>4, <2>5 DEF KeyInv, RequestSound, WithKey, Reading, Exists
  <2> QED
      BY <2>1, <2>4, <2>6, OneRequest
<1>4. CASE GetUser(h)
  <2> DEFINE r == [op[h] EXCEPT !.step = IF op[h].id = 0 THEN "manage" ELSE "use",
                                !.granted = permissions[op[h].user]]
  <2>1. op' = [op EXCEPT ![h] = r] /\ UNCHANGED <<key, rowLock, policy, permissions>>
        /\ op[h].step = "account"
        BY <1>4 DEF GetUser, KeyInv, KeyTyped
  <2>2. op[h] \in KeyRequest /\ op[h].user \in Accounts /\ permissions[op[h].user] \subseteq Permissions
        BY <2>1 DEF KeyInv, KeyTyped, RequestSound
  <2>3. /\ r \in KeyRequest /\ r.step = (IF op[h].id = 0 THEN "manage" ELSE "use")
        /\ r.user = op[h].user /\ r.scopes = op[h].scopes /\ r.id = op[h].id /\ r.seen = op[h].seen
        /\ r.granted = permissions[op[h].user]
        BY <2>2 DEF KeyRequest
  <2> HIDE DEF r
  <2>4. op'[h] = r
        BY <2>1 DEF KeyInv, KeyTyped
  <2>5. RequestSound(h)'
        BY <2>1, <2>2, <2>3, <2>4 DEF KeyInv, RequestSound, WithKey, Reading, Exists
  <2> QED
      BY <2>1, <2>3, <2>5, OneRequest
<1> QED
    BY <1>1, <1>2, <1>3, <1>4 DEF AuthNext

(* A request that has not read the permissions of its account yet sees the  *)
(* new ones too.                                                            *)
LEMMA RolesKeep ==
  ASSUME KeyInv, NEW u \in Accounts, NEW granted \in SUBSET Permissions, ChangeRoles(u, granted)
  PROVE  KeyInv'
<1> DEFINE more(h) == [op[h] EXCEPT !.seen = @ \cup {granted}]
<1>1. \A h \in Handlers :
        /\ more(h) \in KeyRequest /\ more(h).step = op[h].step /\ more(h).user = op[h].user
        /\ more(h).granted = op[h].granted /\ more(h).scopes = op[h].scopes /\ more(h).id = op[h].id
        /\ more(h).seen = op[h].seen \cup {granted}
      BY DEF KeyInv, KeyTyped, KeyRequest
<1>2. op' = [h \in Handlers |-> IF Reading(h) /\ op[h].user = u THEN more(h) ELSE op[h]]
      BY DEF ChangeRoles
<1>3. permissions' = [permissions EXCEPT ![u] = granted] /\ UNCHANGED <<key, rowLock, policy>>
      BY DEF ChangeRoles
<1> HIDE DEF more
<1>4. \A h \in Handlers :
        /\ op'[h] \in KeyRequest /\ op'[h].step = op[h].step /\ op'[h].user = op[h].user
        /\ op'[h].granted = op[h].granted /\ op'[h].scopes = op[h].scopes /\ op'[h].id = op[h].id
        /\ op[h].seen \subseteq op'[h].seen
        /\ Reading(h) /\ op[h].user = u => granted \in op'[h].seen
      BY <1>1, <1>2 DEF KeyInv, KeyTyped
<1>5. KeyTyped'
      BY <1>2, <1>3, <1>4 DEF KeyInv, KeyTyped
<1>6. \A k \in KeyIds : RowSound(k)'
      BY <1>3 DEF KeyInv, RowSound, Exists
<1>7. \A k \in KeyIds : LockSound(k)'
      BY <1>3, <1>4, AccountsAssumption DEF KeyInv, KeyTyped, LockSound, Lockers
<1>8. \A h \in Handlers : RequestSound(h)'
  <2> TAKE h \in Handlers
  <2>1. Reading(h)' = Reading(h) /\ WithKey(h)' = WithKey(h)
        BY <1>4 DEF WithKey, Reading
  <2>2. Reading(h) => permissions'[op[h].user] \in op'[h].seen
    <3>1. CASE op[h].user = u
          BY <1>3, <1>4, <3>1 DEF KeyInv, KeyTyped
    <3>2. CASE op[h].user # u
          BY <1>3, <1>4, <3>2 DEF KeyInv, KeyTyped, RequestSound
    <3> QED
        BY <3>1, <3>2
  <2> QED
      BY <1>3, <1>4, <2>1, <2>2 DEF KeyInv, RequestSound, Exists
<1>9. OneLiveKeyPerLineage'
      BY <1>3 DEF KeyInv, OneLiveKeyPerLineage, Exists
<1> QED
    BY <1>5, <1>6, <1>7, <1>8, <1>9 DEF KeyInv

LEMMA KeySteps ==
  ASSUME KeyInv, SessionsOwned, KeysNext
  PROVE  KeyInv'
<1>1. CASE \E allowed \in SUBSET Permissions : ChangePolicy(allowed)
      BY <1>1 DEF ChangePolicy, KeyInv, KeyTyped, RowSound, LockSound, RequestSound, WithKey, Reading,
                  Exists, OneLiveKeyPerLineage
<1> QED
    BY <1>1, AuthKeeps, ManageKeeps, EndOfRequest, RolesKeep DEF KeysNext

LEMMA KeyFrame ==
  ASSUME KeyInv, UNCHANGED keyVars
  PROVE  KeyInv'
BY DEF keyVars, KeyInv, KeyTyped, RowSound, LockSound, RequestSound, WithKey, Reading, Exists,
       OneLiveKeyPerLineage

LEMMA KeyStart == KeysInit => KeyInv
<1> SUFFICES ASSUME KeysInit PROVE KeyInv
    OBVIOUS
<1>1. NoKey \in KeyRow /\ NoKey.status = "none"
      BY ApiKeysAssumption DEF NoKey, KeyRow
<1>2. KeyTyped
      BY <1>1, QuietTyped DEF KeysInit, KeyTyped, Lockers
<1>3. \A k \in KeyIds : ~Exists(k) /\ rowLock[k] = Nobody
      BY <1>1 DEF KeysInit, Exists
<1>4. \A h \in Handlers : op[h].step = "idle"
      BY QuietTyped DEF KeysInit
<1> QED
    BY <1>2, <1>3, <1>4 DEF KeyInv, RowSound, LockSound, RequestSound, WithKey, Reading,
                               OneLiveKeyPerLineage, Exists

(* What a request with a key may do was read from its owner's roles in one  *)
(* piece; its scopes were copied from its row, and that row's from the      *)
(* lineage.                                                                 *)
LEMMA KeyInvWithin == KeyInv => KeyWithinOwner
<1> SUFFICES ASSUME KeyInv, NEW h \in Handlers, op[h].step = "use"
             PROVE  \E held \in op[h].seen : \A p \in Permissions :
                      Allows(h, p) => p \in held /\ p \in key[key[op[h].id].root].scopes
    BY DEF KeyWithinOwner
<1>1. op[h].granted \in op[h].seen
      BY DEF KeyInv, RequestSound
<1>2. op[h].scopes = key[key[op[h].id].root].scopes
      BY DEF KeyInv, RequestSound, RowSound, WithKey
<1>3. \A p \in Permissions :
        Allows(h, p) => p \in op[h].granted /\ p \in key[key[op[h].id].root].scopes
      BY <1>2 DEF Allows
<1> QED
    BY <1>1, <1>3

-----------------------------------------------------------------------------
(* Accounts and sessions *)

AccountTyped ==
  /\ password \in [Accounts -> Nat]
  /\ settled \in [Accounts -> Nat]
  /\ session \in [Jtis -> SessionRow]
  /\ sign \in [Handlers -> Request]

(* No session vouches for a password that its account does not have yet. *)
VouchedSound(j) == session[j].status # "none" => session[j].vouched <= password[session[j].user]

(* What a handler knows: a login is of an account, and a change of password *)
(* is made from a session that was opened, which vouches for what was set.  *)
SignSound(h) ==
  /\ sign[h].step = "login" =>
       /\ sign[h].user \in Accounts
       /\ sign[h].ip \in Addresses
       /\ sign[h].hash <= password[sign[h].user]
  /\ sign[h].step \in {"write", "revoke"} =>
       /\ sign[h].jti \in Jtis
       /\ session[sign[h].jti].status # "none"
       /\ sign[h].user = session[sign[h].jti].user
  /\ sign[h].step = "revoke" =>
       /\ sign[h].hash <= password[sign[h].user]
       /\ sign[h].hash <= session[sign[h].jti].vouched

AccountInv ==
  /\ AccountTyped
  /\ SessionsOwned
  /\ \A u \in Accounts : settled[u] <= password[u]
  /\ \A j \in Jtis : VouchedSound(j)
  /\ \A h \in Handlers : SignSound(h)
  /\ PasswordChangeEndsSessions

LEMMA IdleTyped == Idle \in Request /\ Idle.step = "idle"
BY AccountsAssumption DEF Idle, Request

LEMMA OneHandler ==
  ASSUME AccountInv, NEW h \in Handlers, NEW r \in Request,
         sign' = [sign EXCEPT ![h] = r], UNCHANGED <<password, session, settled>>,
         SignSound(h)'
  PROVE  AccountInv'
<1>1. AccountTyped'
      BY DEF AccountInv, AccountTyped
<1>2. SessionsOwned' /\ (\A u \in Accounts : settled'[u] <= password'[u])
        /\ (\A j \in Jtis : VouchedSound(j)') /\ PasswordChangeEndsSessions'
      BY DEF AccountInv, SessionsOwned, VouchedSound, PasswordChangeEndsSessions, SessionActive
<1>3. \A g \in Handlers : SignSound(g)'
  <2> TAKE g \in Handlers
  <2>1. CASE g = h
        BY <2>1
  <2>2. CASE g # h
        BY <2>2 DEF AccountInv, AccountTyped, SignSound
  <2> QED
      BY <2>1, <2>2
<1> QED
    BY <1>1, <1>2, <1>3 DEF AccountInv

LEMMA LoginKeeps ==
  ASSUME AccountInv, NEW h \in Handlers, NEW ip \in Addresses, NEW user \in Accounts,
         NEW typed \in 0..password[user], login(h, ip, user, typed)
  PROVE  AccountInv'
<1> DEFINE r == [step |-> "login", user |-> user, ip |-> ip, typed |-> typed,
                 hash |-> password[user], jti |-> 0]
<1>1. sign' = [sign EXCEPT ![h] = r] /\ UNCHANGED <<password, session, settled>>
      BY DEF login
<1>2. password[user] \in Nat /\ typed \in Nat
      BY DEF AccountInv, AccountTyped
<1>3. r \in Request /\ r.step = "login" /\ r.user = user /\ r.ip = ip /\ r.hash = password[user]
      BY <1>2, AccountsAssumption DEF Request
<1> HIDE DEF r
<1>4. SignSound(h)'
      BY <1>1, <1>2, <1>3 DEF AccountInv, AccountTyped, SignSound
<1> QED
    BY <1>1, <1>3, <1>4, OneHandler

LEMMA EndOfSign ==
  ASSUME AccountInv, NEW h \in Handlers, sign' = [sign EXCEPT ![h] = Idle],
         UNCHANGED <<password, session, settled>>
  PROVE  AccountInv'
<1>1. SignSound(h)'
      BY IdleTyped DEF AccountInv, AccountTyped, SignSound
<1> QED
    BY <1>1, IdleTyped, OneHandler

(* A login that read the hash before a change opens a session that vouches  *)
(* for less than the account has; "held" tells it apart.                    *)
LEMMA SessionKeeps ==
  ASSUME AccountInv, NEW h \in Handlers, NEW j \in Jtis, CreateSession(h, j)
  PROVE  AccountInv'
<1> DEFINE r == [user |-> sign[h].user, status |-> "open", opened |-> sign[h].hash,
                 held |-> password[sign[h].user], vouched |-> sign[h].hash]
<1>1. /\ session' = [session EXCEPT ![j] = r] /\ sign' = [sign EXCEPT ![h] = Idle]
      /\ UNCHANGED <<password, settled>> /\ session[j].status = "none" /\ sign[h].step = "login"
      BY DEF CreateSession
<1>2. /\ r \in SessionRow /\ r.user \in Accounts /\ r.status = "open"
      /\ r.vouched = r.opened /\ r.held = password[r.user] /\ r.vouched <= password[r.user]
      BY <1>1 DEF AccountInv, AccountTyped, SignSound, SessionRow, Request
<1>3. session'[j] = r /\ \A i \in Jtis : i # j => session'[i] = session[i]
      BY <1>1 DEF AccountInv, AccountTyped
<1> HIDE DEF r
<1>4. AccountTyped'
      BY <1>1, <1>2, IdleTyped DEF AccountInv, AccountTyped
<1>5. SessionsOwned'
      BY <1>1, <1>2, <1>3 DEF AccountInv, SessionsOwned
<1>6. \A i \in Jtis : VouchedSound(i)'
      BY <1>1, <1>2, <1>3 DEF AccountInv, VouchedSound
<1>7. \A g \in Handlers : SignSound(g)'
  <2> TAKE g \in Handlers
  <2>1. CASE g = h
        BY <1>1, <2>1, IdleTyped DEF AccountInv, AccountTyped, SignSound
  <2>2. CASE g # h
        BY <1>1, <1>3, <2>2 DEF AccountInv, AccountTyped, SignSound
  <2> QED
      BY <2>1, <2>2
<1>8. PasswordChangeEndsSessions'
      BY <1>1, <1>2, <1>3 DEF AccountInv, AccountTyped, PasswordChangeEndsSessions, SessionActive
<1> QED
    BY <1>1, <1>4, <1>5, <1>6, <1>7, <1>8 DEF AccountInv

(* Logout and expiry. *)
LEMMA SessionEnds ==
  ASSUME AccountInv, NEW j \in Jtis, NEW status \in {"revoked", "expired"},
         session' = [session EXCEPT ![j].status = status], SessionActive(j),
         UNCHANGED <<password, sign, settled>>
  PROVE  AccountInv'
<1>1. /\ \A i \in Jtis : i # j => session'[i] = session[i]
      /\ session'[j].status = status /\ session'[j].user = session[j].user
      /\ session'[j].vouched = session[j].vouched
      BY DEF AccountInv, AccountTyped, SessionRow
<1>2. AccountTyped'
      BY DEF AccountInv, AccountTyped, SessionRow
<1>3. SessionsOwned' /\ \A i \in Jtis : VouchedSound(i)'
      BY <1>1 DEF AccountInv, SessionsOwned, VouchedSound, SessionActive
<1>4. \A g \in Handlers : SignSound(g)'
      BY <1>1 DEF AccountInv, SignSound, SessionActive
<1>5. PasswordChangeEndsSessions'
      BY <1>1 DEF AccountInv, PasswordChangeEndsSessions, SessionActive
<1> QED
    BY <1>2, <1>3, <1>4, <1>5 DEF AccountInv

LEMMA ChangeBegins ==
  ASSUME AccountInv, NEW h \in Handlers, NEW j \in Jtis, NEW typed, changePassword(h, j, typed)
  PROVE  AccountInv'
<1> DEFINE r == [step |-> "write", user |-> session[j].user, ip |-> Nobody,
                 typed |-> 0, hash |-> 0, jti |-> j]
<1>1. /\ sign' = [sign EXCEPT ![h] = r] /\ UNCHANGED <<password, session, settled>>
      /\ session[j].status = "open"
      BY DEF changePassword, SessionActive
<1>2. r \in Request /\ r.step = "write" /\ r.user = session[j].user /\ r.jti = j
      BY AccountsAssumption DEF Request, AccountInv, AccountTyped, SessionRow, Jtis
<1> HIDE DEF r
<1>3. SignSound(h)'
      BY <1>1, <1>2 DEF AccountInv, AccountTyped, SignSound
<1> QED
    BY <1>1, <1>2, <1>3, OneHandler

(* The session that the change is made from vouches for the new password. *)
LEMMA ChangeKeeps ==
  ASSUME AccountInv, NEW h \in Handlers, ChangeLocalPassword(h)
  PROVE  AccountInv'
<1> DEFINE j == sign[h].jti
<1> DEFINE u == sign[h].user
<1> DEFINE new == password[u] + 1
<1> DEFINE r == [step |-> "revoke", user |-> u, ip |-> Nobody, typed |-> 0, hash |-> new, jti |-> j]
<1>1. /\ password' = [password EXCEPT ![u] = new] /\ session' = [session EXCEPT ![j].vouched = new]
      /\ sign' = [sign EXCEPT ![h] = r] /\ UNCHANGED settled /\ sign[h].step = "write"
      BY DEF ChangeLocalPassword, AccountInv, AccountTyped
<1>2. j \in Jtis /\ session[j].status # "none" /\ u = session[j].user
      BY <1>1 DEF AccountInv, SignSound
<1>3. u \in Accounts /\ password[u] \in Nat /\ new \in Nat /\ new > password[u]
      BY <1>2 DEF AccountInv, AccountTyped, SessionsOwned
<1>4. r \in Request /\ r.step = "revoke" /\ r.user = u /\ r.hash = new /\ r.jti = j
      BY <1>2, <1>3 DEF Request, Jtis
<1> HIDE DEF j, u, new, r
<1>5. /\ \A i \in Jtis : i # j => session'[i] = session[i]
      /\ session'[j].status = session[j].status /\ session'[j].user = session[j].user
      /\ session'[j].vouched = new
      /\ session'[j].opened = session[j].opened /\ session'[j].held = session[j].held
      BY <1>1, <1>2 DEF AccountInv, AccountTyped, SessionRow
<1>6. password'[u] = new /\ \A v \in Accounts : v # u => password'[v] = password[v]
      BY <1>1, <1>3 DEF AccountInv, AccountTyped
<1>7. AccountTyped'
      BY <1>1, <1>2, <1>3, <1>4 DEF AccountInv, AccountTyped, SessionRow
<1>8. \A v \in Accounts : password[v] <= password'[v] /\ password[v] \in Nat /\ settled[v] \in Nat
      BY <1>3, <1>6 DEF AccountInv, AccountTyped
<1>9. SessionsOwned'
      BY <1>2, <1>5 DEF AccountInv, SessionsOwned
<1>10. \A v \in Accounts : settled'[v] <= password'[v]
      BY <1>1, <1>3, <1>6, <1>8 DEF AccountInv
<1>11. \A i \in Jtis : session[i].vouched \in Nat
      BY DEF AccountInv, AccountTyped, SessionRow
<1>12. \A i \in Jtis : VouchedSound(i)'
  <2> TAKE i \in Jtis
  <2>1. CASE i = j
        BY <1>2, <1>3, <1>5, <1>6, <2>1 DEF VouchedSound
  <2>2. CASE i # j
    <3>1. session'[i] = session[i]
          BY <1>5, <2>2
    <3>2. VouchedSound(i) /\ (session[i].status # "none" => session[i].user \in Accounts)
          BY DEF AccountInv, SessionsOwned
    <3> QED
        BY <1>3, <1>6, <1>8, <1>11, <3>1, <3>2 DEF VouchedSound
  <2> QED
      BY <2>1, <2>2
<1>13. session[j].vouched <= new
       BY <1>2, <1>3, <1>11 DEF AccountInv, VouchedSound
<1>14. \A g \in Handlers : SignSound(g)'
  <2> TAKE g \in Handlers
  <2>1. CASE g = h
        BY <1>1, <1>2, <1>3, <1>4, <1>5, <1>6, <2>1 DEF AccountInv, AccountTyped, SignSound
  <2>2. CASE g # h
    <3>1. sign'[g] = sign[g] /\ SignSound(g) /\ sign[g].hash \in Nat
          BY <1>1, <2>2 DEF AccountInv, AccountTyped, Request
    <3>2. sign[g].step = "login" => sign[g].hash <= password'[sign[g].user]
          BY <1>3, <1>6, <1>8, <3>1 DEF SignSound
    <3>3. sign[g].step \in {"write", "revoke"} =>
            /\ sign[g].jti \in Jtis /\ session'[sign[g].jti].status # "none"
            /\ sign[g].user = session'[sign[g].jti].user
            /\ sign[g].user \in Accounts
            /\ session[sign[g].jti].vouched <= session'[sign[g].jti].vouched
          BY <1>2, <1>3, <1>5, <1>11, <1>13, <3>1 DEF SignSound, AccountInv, SessionsOwned
    <3>4. sign[g].step = "revoke" => sign[g].hash <= session'[sign[g].jti].vouched
          BY <1>3, <1>5, <1>11, <3>1, <3>3 DEF SignSound
    <3>5. sign[g].step = "revoke" => sign[g].hash <= password'[sign[g].user]
          BY <1>3, <1>6, <1>8, <3>1, <3>3 DEF SignSound
    <3> QED
        BY <3>1, <3>2, <3>3, <3>4, <3>5 DEF SignSound
  <2> QED
      BY <2>1, <2>2
<1>15. PasswordChangeEndsSessions'
  <2> SUFFICES ASSUME NEW i \in Jtis, SessionActive(i)'
               PROVE  \/ session'[i].vouched >= settled'[session'[i].user]
                      \/ session'[i].held # session'[i].opened
      BY DEF PasswordChangeEndsSessions
  <2>1. CASE i = j
        BY <1>1, <1>2, <1>3, <1>5, <1>6, <1>8, <1>10, <2>1
  <2>2. CASE i # j
        BY <1>1, <1>5, <2>2 DEF AccountInv, PasswordChangeEndsSessions, SessionActive
  <2> QED
      BY <2>1, <2>2
<1> QED
    BY <1>7, <1>9, <1>10, <1>12, <1>14, <1>15 DEF AccountInv

(* The change is settled: of the account's sessions only the one it was     *)
(* made from is left, with the latecomers.                                  *)
LEMMA RevokeOthersKeeps ==
  ASSUME AccountInv, NEW h \in Handlers, RevokeOtherSessions(h)
  PROVE  AccountInv'
<1> DEFINE keep == sign[h].jti
<1> DEFINE u == sign[h].user
<1> DEFINE n == sign[h].hash
<1> DEFINE others == OtherSessions(u, keep)
<1>1. /\ session' = [j \in Jtis |-> IF j \in others THEN [session[j] EXCEPT !.status = "revoked"]
                                    ELSE session[j]]
      /\ settled' = [settled EXCEPT ![u] = IF n > @ THEN n ELSE @]
      /\ sign' = [sign EXCEPT ![h] = Idle] /\ UNCHANGED password /\ sign[h].step = "revoke"
      BY DEF RevokeOtherSessions
<1>2. /\ keep \in Jtis /\ u = session[keep].user /\ u \in Accounts /\ n \in Nat
      /\ n <= password[u] /\ n <= session[keep].vouched
      BY <1>1 DEF AccountInv, AccountTyped, Request, SignSound, SessionsOwned
<1>3. others = {j \in Jtis : session[j].user = u /\ session[j].status = "open" /\ j # keep}
      BY DEF OtherSessions, SessionActive
<1> HIDE DEF keep, u, n, others
<1>4. \A j \in Jtis :
        /\ session'[j] \in SessionRow
        /\ session'[j].user = session[j].user /\ session'[j].vouched = session[j].vouched
        /\ session'[j].held = session[j].held /\ session'[j].opened = session[j].opened
        /\ (session'[j].status = "none" <=> session[j].status = "none")
        /\ (session'[j].status = "open" => session[j].status = "open" /\ j \notin others)
      BY <1>1, <1>3 DEF AccountInv, AccountTyped, SessionRow
<1>5. /\ \A v \in Accounts : v # u => settled'[v] = settled[v]
      /\ settled'[u] = IF n > settled[u] THEN n ELSE settled[u]
      BY <1>1, <1>2 DEF AccountInv, AccountTyped
<1>6. AccountTyped'
  <2>1. session' \in [Jtis -> SessionRow]
        BY <1>1, <1>4
  <2> QED
      BY <1>1, <1>2, <2>1, IdleTyped DEF AccountInv, AccountTyped
<1>7. SessionsOwned' /\ \A j \in Jtis : VouchedSound(j)'
      BY <1>1, <1>4 DEF AccountInv, SessionsOwned, VouchedSound
<1>8. \A v \in Accounts : settled'[v] <= password'[v]
      BY <1>1, <1>2, <1>5 DEF AccountInv, AccountTyped
<1>9. \A g \in Handlers : SignSound(g)'
  <2> TAKE g \in Handlers
  <2>1. CASE g = h
        BY <1>1, <2>1, IdleTyped DEF AccountInv, AccountTyped, SignSound
  <2>2. CASE g # h
        BY <1>1, <1>4, <2>2 DEF AccountInv, AccountTyped, SignSound
  <2> QED
      BY <2>1, <2>2
<1>10. PasswordChangeEndsSessions'
  <2> SUFFICES ASSUME NEW j \in Jtis, SessionActive(j)'
               PROVE  \/ session'[j].vouched >= settled'[session'[j].user]
                      \/ session'[j].held # session'[j].opened
      BY DEF PasswordChangeEndsSessions
  <2>1. /\ session[j].status = "open" /\ (session[j].user = u => j = keep)
        /\ session[j].user \in Accounts /\ session[j].vouched \in Nat
        /\ settled[session[j].user] \in Nat
        BY <1>3, <1>4 DEF SessionActive, AccountInv, AccountTyped, SessionsOwned, SessionRow
  <2>2. \/ session[j].vouched >= settled[session[j].user]
        \/ session[j].held # session[j].opened
        BY <2>1 DEF AccountInv, PasswordChangeEndsSessions, SessionActive
  <2> QED
      BY <1>2, <1>4, <1>5, <2>1, <2>2
<1> QED
    BY <1>6, <1>7, <1>8, <1>9, <1>10 DEF AccountInv

LEMMA AccountFrame ==
  ASSUME AccountInv, UNCHANGED accountVars
  PROVE  AccountInv'
BY DEF accountVars, AccountInv, AccountTyped, SessionsOwned, VouchedSound, SignSound,
       PasswordChangeEndsSessions, SessionActive

LEMMA AccountSteps ==
  ASSUME AccountInv, AccountsNext
  PROVE  AccountInv'
<1>1. ASSUME NEW h \in Handlers, LoginNext(h, Addresses) PROVE AccountInv'
  <2>1. CASE \E ip \in Addresses, user \in Accounts : RefuseLogin(h, ip, user)
        BY <2>1, AccountFrame DEF RefuseLogin
  <2>2. CASE LoginFails(h)
        BY <2>2, EndOfSign DEF LoginFails
  <2> QED
      BY <1>1, <2>1, <2>2, LoginKeeps, SessionKeeps DEF LoginNext
<1>2. ASSUME NEW h \in Handlers, PasswordNext(h) PROVE AccountInv'
  <2>1. CASE ChangeFails(h)
        BY <2>1, EndOfSign DEF ChangeFails
  <2> QED
      BY <1>2, <2>1, ChangeBegins, ChangeKeeps, RevokeOthersKeeps DEF PasswordNext
<1>3. ASSUME NEW j \in Jtis, logout(j) \/ ExpireSession(j) PROVE AccountInv'
      BY <1>3, SessionEnds DEF logout, ExpireSession
<1> QED
    BY <1>1, <1>2, <1>3, AccountFrame DEF AccountsNext

LEMMA AccountStart == AccountsInit => AccountInv
<1> SUFFICES ASSUME AccountsInit PROVE AccountInv
    OBVIOUS
<1>1. NoSession \in SessionRow /\ NoSession.status = "none"
      BY DEF NoSession, SessionRow
<1>2. AccountTyped
      BY <1>1, IdleTyped DEF AccountsInit, AccountTyped
<1>3. \A j \in Jtis : session[j].status = "none"
      BY <1>1 DEF AccountsInit
<1>4. \A h \in Handlers : sign[h].step = "idle"
      BY IdleTyped DEF AccountsInit
<1>5. \A u \in Accounts : settled[u] <= password[u]
      BY DEF AccountsInit
<1> QED
    BY <1>2, <1>3, <1>4, <1>5 DEF AccountInv, SessionsOwned, VouchedSound, SignSound,
       PasswordChangeEndsSessions, SessionActive

-----------------------------------------------------------------------------
(* Windows of failed logins *)

(* The logins under way that will count in a window when they fail. *)
Underway(k) == {h \in Handlers : sign[h].step = "login" /\ k \in KeysOf(sign[h].ip, sign[h].user)}

(* A login under way has its failure counted in advance: at the limit a     *)
(* window admits no further login, so the sum stays below what is left.     *)
WindowBound(k) ==
  attempts[k].failures + Cardinality(Underway(k)) < loginLimit(k) + Cardinality(Handlers)

WindowInv ==
  /\ attempts \in [Keys -> Windows]
  /\ clock \in 0..MaxClock
  /\ \A k \in Keys : WindowBound(k)
  /\ IsFiniteSet(Tracked)
  /\ Cardinality(Tracked) <= loginLimiterMax + 2

LEMMA LimitTyped == ASSUME NEW k \in Keys PROVE loginLimit(k) \in Nat \ {0}
BY LimiterAssumption DEF loginLimit

LEMMA KeysOfIn ==
  ASSUME NEW ip \in Addresses, NEW user \in Accounts
  PROVE  KeysOf(ip, user) \subseteq Keys
BY DEF KeysOf, Keys

LEMMA NoWindowTyped == NoWindow \in Windows /\ NoWindow.failures = 0
BY DEF NoWindow, Windows

LEMMA UnderwayFinite ==
  ASSUME NEW k
  PROVE  /\ IsFiniteSet(Underway(k)) /\ Cardinality(Underway(k)) \in Nat
         /\ Cardinality(Handlers) \in Nat /\ Cardinality(Underway(k)) <= Cardinality(Handlers)
<1>1. Underway(k) \subseteq Handlers
      BY DEF Underway
<1> QED
    BY <1>1, AccountsAssumption, FS_Subset, FS_CardinalityType

(* Steps that count nothing. *)
LEMMA WindowsShrink ==
  ASSUME WindowInv, attempts' \in [Keys -> Windows], clock' \in 0..MaxClock,
         \A k \in Keys : attempts'[k].failures <= attempts[k].failures,
         \A k \in Keys : Underway(k)' \subseteq Underway(k)
  PROVE  WindowInv'
<1>1. \A k \in Keys : WindowBound(k)'
  <2> TAKE k \in Keys
  <2>1. Cardinality(Underway(k)') <= Cardinality(Underway(k)) /\ Cardinality(Underway(k)') \in Nat
        BY UnderwayFinite, FS_Subset, FS_CardinalityType
  <2>2. attempts[k].failures \in Nat /\ attempts'[k].failures \in Nat
        BY DEF WindowInv, Windows
  <2> QED
      BY <2>1, <2>2, UnderwayFinite, LimitTyped DEF WindowInv, WindowBound
<1>2. Tracked' \subseteq Tracked
      BY DEF Tracked, WindowInv, Windows
<1>3. IsFiniteSet(Tracked') /\ Cardinality(Tracked') <= loginLimiterMax + 2
      BY <1>2, FS_Subset, FS_CardinalityType, LimiterAssumption DEF WindowInv
<1> QED
    BY <1>1, <1>3 DEF WindowInv

(* What asking leaves: nothing grows, and after a permit none of the three  *)
(* windows is at its limit.                                                 *)
LEMMA AllowForm ==
  ASSUME attempts \in [Keys -> Windows], NEW ip \in Addresses, NEW user \in Accounts
  PROVE  /\ AfterAllow(ip, user) \in [Keys -> Windows]
         /\ \A k \in Keys : AfterAllow(ip, user)[k].failures <= attempts[k].failures
         /\ allow(ip, user) =>
              \A k \in KeysOf(ip, user) : AfterAllow(ip, user)[k].failures < loginLimit(k)
<1> DEFINE keys == loginAttemptKeys(ip, user)
<1> DEFINE dropped == {keys[i] : i \in {j \in 1..3 : /\ keys[j] \in Tracked \ Live
                                                      /\ \A e \in 1..(j - 1) : ~Blocked(keys[e])}}
<1>1. AfterAllow(ip, user) = [k \in Keys |-> IF k \in dropped THEN NoWindow ELSE attempts[k]]
      BY DEF AfterAllow
<1>2. \A k \in KeysOf(ip, user) : \E i \in 1..3 : k = keys[i]
  <2>1. keys[1] = <<"pair", ip, user>> /\ keys[2] = <<"ip", ip, Nobody>> /\ keys[3] = <<"account", Nobody, user>>
        BY DEF loginAttemptKeys
  <2>2. 1 \in 1..3 /\ 2 \in 1..3 /\ 3 \in 1..3
        OBVIOUS
  <2> QED
      BY <2>1, <2>2 DEF KeysOf
<1>3. \A i \in 1..3 : keys[i] \in KeysOf(ip, user)
  <2> TAKE i \in 1..3
  <2>1. i = 1 \/ i = 2 \/ i = 3
        OBVIOUS
  <2> QED
      BY <2>1 DEF KeysOf, loginAttemptKeys
<1> HIDE DEF keys
<1>4. ASSUME allow(ip, user), NEW k \in KeysOf(ip, user), k \in Tracked \ Live
      PROVE  k \in dropped
  <2>1. PICK i \in 1..3 : k = keys[i]
        BY <1>2
  <2>2. \A e \in 1..(i - 1) : ~Blocked(keys[e])
        BY <1>3, <1>4 DEF allow
  <2> QED
      BY <1>4, <2>1, <2>2
<1> HIDE DEF dropped
<1>5. \A k \in Keys : attempts[k] \in Windows /\ attempts[k].failures \in Nat
      BY DEF Windows
<1>6. ASSUME allow(ip, user), NEW k \in KeysOf(ip, user)
      PROVE  AfterAllow(ip, user)[k].failures < loginLimit(k)
  <2>1. k \in Keys /\ loginLimit(k) \in Nat \ {0}
        BY KeysOfIn, LimitTyped
  <2>2. CASE k \in dropped
        BY <1>1, <2>1, <2>2, NoWindowTyped
  <2>3. CASE k \notin dropped
    <3>1. AfterAllow(ip, user)[k] = attempts[k]
          BY <1>1, <2>1, <2>3
    <3>2. k \notin Tracked \/ k \in Live
          BY <1>4, <1>6, <2>3
    <3> QED
        BY <1>5, <1>6, <2>1, <3>1, <3>2 DEF allow, Blocked, Tracked
  <2> QED
      BY <2>2, <2>3
<1> QED
    BY <1>1, <1>5, <1>6, NoWindowTyped

(* A permit is given below the limit only. *)
LEMMA PermitKeeps ==
  ASSUME WindowInv, sign \in [Handlers -> Request], NEW h \in Handlers, NEW ip \in Addresses,
         NEW user \in Accounts, NEW typed, login(h, ip, user, typed)
  PROVE  WindowInv'
<1> DEFINE r == [step |-> "login", user |-> user, ip |-> ip, typed |-> typed,
                 hash |-> password[user], jti |-> 0]
<1>1. /\ sign' = [sign EXCEPT ![h] = r] /\ attempts' = AfterAllow(ip, user) /\ clock' = clock
      /\ allow(ip, user) /\ sign[h].step = "idle"
      BY DEF login
<1>2. r.ip = ip /\ r.user = user
      OBVIOUS
<1> HIDE DEF r
<1>3. /\ attempts' \in [Keys -> Windows]
      /\ \A k \in Keys : attempts'[k].failures <= attempts[k].failures
      /\ \A k \in KeysOf(ip, user) : attempts'[k].failures < loginLimit(k)
      BY <1>1, AllowForm DEF WindowInv
<1>4. \A k \in Keys : attempts[k].failures \in Nat /\ attempts'[k].failures \in Nat
      BY <1>3 DEF WindowInv, Windows
<1>5. \A k \in Keys : WindowBound(k)'
  <2> TAKE k \in Keys
  <2>1. CASE k \in KeysOf(ip, user)
    <3>1. Cardinality(Underway(k)') <= Cardinality(Handlers) /\ Cardinality(Underway(k)') \in Nat
      <4>1. Underway(k)' \subseteq Handlers
            BY DEF Underway
      <4> QED
          BY <4>1, AccountsAssumption, FS_Subset, FS_CardinalityType
    <3>2. Cardinality(Handlers) \in Nat /\ loginLimit(k) \in Nat
          BY AccountsAssumption, FS_CardinalityType, LimitTyped
    <3>3. attempts'[k].failures < loginLimit(k) /\ attempts'[k].failures \in Nat
          BY <1>3, <1>4, <2>1
    <3>4. attempts'[k].failures + Cardinality(Underway(k)') < loginLimit(k) + Cardinality(Handlers)
          BY <3>1, <3>2, <3>3
    <3> QED
        BY <3>4 DEF WindowBound
  <2>2. CASE k \notin KeysOf(ip, user)
    <3>1. ASSUME NEW g \in Handlers PROVE g \in Underway(k)' <=> g \in Underway(k)
      <4>1. CASE g = h
            BY <1>1, <1>2, <2>2, <4>1 DEF Underway
      <4>2. CASE g # h
            BY <1>1, <4>2 DEF Underway
      <4> QED
          BY <4>1, <4>2
    <3>2. Underway(k)' = Underway(k)
          BY <3>1 DEF Underway
    <3> QED
        BY <1>3, <1>4, <3>2, LimitTyped, UnderwayFinite DEF WindowBound, WindowInv
  <2> QED
      BY <2>1, <2>2
<1>6. Tracked' \subseteq Tracked
      BY <1>3, <1>4 DEF Tracked
<1>7. IsFiniteSet(Tracked') /\ Cardinality(Tracked') <= loginLimiterMax + 2
      BY <1>6, FS_Subset, FS_CardinalityType, LimiterAssumption DEF WindowInv
<1> QED
    BY <1>1, <1>3, <1>5, <1>7 DEF WindowInv

LEMMA LeavesUnderway ==
  ASSUME sign \in [Handlers -> Request], NEW h \in Handlers, NEW r,
         r.step # "login", sign' = [sign EXCEPT ![h] = r], NEW k
  PROVE  Underway(k)' = Underway(k) \ {h}
<1>1. ASSUME NEW g \in Handlers PROVE g \in Underway(k)' <=> g \in Underway(k) \ {h}
  <2>1. CASE g = h
        BY <2>1 DEF Underway
  <2>2. CASE g # h
        BY <2>2 DEF Underway
  <2> QED
      BY <2>1, <2>2
<1> QED
    BY <1>1 DEF Underway

LEMMA OfThree ==
  ASSUME NEW a, NEW b, NEW c
  PROVE  IsFiniteSet({a, b, c}) /\ Cardinality({a, b, c}) \in Nat /\ Cardinality({a, b, c}) <= 3
<1>1. IsFiniteSet({a}) /\ Cardinality({a}) = 1
      BY FS_Singleton
<1> DEFINE S == {a} \cup {b}
<1> DEFINE T == S \cup {c}
<1>2. IsFiniteSet(S) /\ (Cardinality(S) = 1 \/ Cardinality(S) = 2)
      BY <1>1, FS_AddElement
<1> HIDE DEF S
<1>3. IsFiniteSet(T) /\ (Cardinality(T) = 1 \/ Cardinality(T) = 2 \/ Cardinality(T) = 3)
      BY <1>2, FS_AddElement
<1>4. {a, b, c} = T
      BY DEF S
<1> QED
    BY <1>3, <1>4

LEMMA CountedWindow ==
  ASSUME NEW w \in Windows
  PROVE  /\ [w EXCEPT !.failures = @ + 1] \in Windows
         /\ [w EXCEPT !.failures = @ + 1].failures = w.failures + 1
BY DEF Windows

LEMMA FirstWindow ==
  ASSUME NEW t \in Nat
  PROVE  /\ [windowStarted |-> t, failures |-> 1] \in Windows
         /\ [windowStarted |-> t, failures |-> 1].failures = 1
BY DEF Windows

(* What pruning leaves has room for one more window. *)
LEMMA PruneForm ==
  ASSUME IsFiniteSet(Tracked), NEW kept \in prune
  PROVE  /\ kept \subseteq Tracked /\ IsFiniteSet(kept)
         /\ Cardinality(kept) < loginLimiterMax
<1>1. Live \subseteq Tracked
      BY DEF Live
<1>2. kept \subseteq Tracked /\ Cardinality(kept) < loginLimiterMax
      BY <1>1 DEF prune
<1> QED
    BY <1>2, FS_Subset

(* A failure is counted once in each window and no longer in advance. *)
LEMMA FailureKeeps ==
  ASSUME WindowInv, AccountInv, NEW h \in Handlers, LoginFails(h)
  PROVE  WindowInv'
<1> DEFINE ip == sign[h].ip
<1> DEFINE user == sign[h].user
<1>1. /\ failed(ip, user) /\ sign' = [sign EXCEPT ![h] = Idle] /\ clock' = clock
      /\ ip \in Addresses /\ user \in Accounts /\ sign[h].step = "login"
      BY DEF LoginFails, AccountInv, SignSound
<1>2. \A k \in Keys : Underway(k)' = Underway(k) \ {h}
      BY <1>1, IdleTyped, LeavesUnderway DEF AccountInv, AccountTyped
<1>3. \A k \in KeysOf(ip, user) : h \in Underway(k)
      BY <1>1 DEF Underway
<1> DEFINE mine == KeysOf(ip, user)
<1>4. PICK kept \in prune :
        attempts' = [k \in Keys |->
          CASE k \in mine -> IF k \in kept \cap Live THEN [attempts[k] EXCEPT !.failures = @ + 1]
                             ELSE [windowStarted |-> clock, failures |-> 1]
            [] k \in kept \ mine -> attempts[k]
            [] OTHER -> NoWindow]
      BY <1>1 DEF failed
<1>5. IsFiniteSet(mine) /\ Cardinality(mine) <= 3 /\ Cardinality(mine) \in Nat
      BY OfThree DEF KeysOf
<1> HIDE DEF ip, user, mine
<1>6. \A k \in Keys : attempts[k] \in Windows /\ attempts[k].failures \in Nat /\ clock \in Nat
      BY LimiterAssumption DEF WindowInv, Windows
<1>7. ASSUME NEW k \in Keys
      PROVE  /\ attempts'[k] \in Windows /\ attempts'[k].failures \in Nat
             /\ attempts'[k].failures <= attempts[k].failures + 1
             /\ k \notin mine => attempts'[k].failures <= attempts[k].failures
             /\ attempts'[k].failures > 0 => k \in kept \cup mine
  <2> DEFINE more == [attempts[k] EXCEPT !.failures = @ + 1]
  <2> DEFINE first == [windowStarted |-> clock, failures |-> 1]
  <2>0. attempts'[k] = CASE k \in mine -> IF k \in kept \cap Live THEN more ELSE first
                         [] k \in kept \ mine -> attempts[k]
                         [] OTHER -> NoWindow
        BY <1>4
  <2>m. more \in Windows /\ more.failures = attempts[k].failures + 1
        BY <1>6, CountedWindow
  <2>f. first \in Windows /\ first.failures = 1
        BY <1>6, FirstWindow
  <2> HIDE DEF more, first
  <2>1. CASE k \in mine /\ k \in kept \cap Live
    <3>1. attempts'[k] = more
          BY <2>0, <2>1
    <3> QED
        BY <1>6, <2>m, <2>1, <3>1
  <2>2. CASE k \in mine /\ k \notin kept \cap Live
    <3>1. attempts'[k] = first
          BY <2>0, <2>2
    <3> QED
        BY <1>6, <2>f, <2>2, <3>1
  <2>3. CASE k \notin mine /\ k \in kept
    <3>1. attempts'[k] = attempts[k]
          BY <1>4, <2>3
    <3> QED
        BY <1>6, <2>3, <3>1
  <2>4. CASE k \notin mine /\ k \notin kept
    <3>1. attempts'[k] = NoWindow
          BY <1>4, <2>4
    <3> QED
        BY <1>6, <2>4, <3>1, NoWindowTyped
  <2> QED
      BY <2>1, <2>2, <2>3, <2>4
<1>8. attempts' \in [Keys -> Windows]
      BY <1>4, <1>7
<1>9. \A k \in Keys : WindowBound(k)'
  <2> TAKE k \in Keys
  <2>1. /\ Cardinality(Underway(k)) \in Nat /\ IsFiniteSet(Underway(k))
        /\ Cardinality(Handlers) \in Nat /\ loginLimit(k) \in Nat
        BY UnderwayFinite, LimitTyped
  <2>2. /\ Cardinality(Underway(k)') = IF h \in Underway(k) THEN Cardinality(Underway(k)) - 1
                                       ELSE Cardinality(Underway(k))
        BY <1>2, <2>1, FS_RemoveElement
  <2>3. k \in mine => h \in Underway(k)
        BY <1>3 DEF mine
  <2>4. attempts[k].failures + Cardinality(Underway(k)) < loginLimit(k) + Cardinality(Handlers)
        BY DEF WindowInv, WindowBound
  <2>5. attempts'[k].failures + Cardinality(Underway(k)') < loginLimit(k) + Cardinality(Handlers)
        BY <1>6, <1>7, <2>1, <2>2, <2>3, <2>4
  <2> QED
      BY <2>5 DEF WindowBound
<1>10. kept \subseteq Tracked /\ IsFiniteSet(kept) /\ Cardinality(kept) < loginLimiterMax
       BY <1>4, PruneForm DEF WindowInv
<1>11. IsFiniteSet(kept \cup mine) /\ Cardinality(kept \cup mine) <= loginLimiterMax + 2
  <2>1. Cardinality(kept) \in Nat /\ loginLimiterMax \in Nat
        BY <1>10, FS_CardinalityType, LimiterAssumption
  <2>2. IsFiniteSet(kept \cap mine) /\ Cardinality(kept \cap mine) \in Nat
    <3>1. kept \cap mine \in SUBSET kept
          OBVIOUS
    <3> QED
        BY <1>10, <3>1, FS_Subset, FS_CardinalityType
  <2>3. /\ IsFiniteSet(kept \cup mine)
        /\ Cardinality(kept \cup mine) = Cardinality(kept) + Cardinality(mine) - Cardinality(kept \cap mine)
        BY <1>5, <1>10, FS_Union
  <2> QED
      BY <1>5, <1>10, <2>1, <2>2, <2>3
<1>12. Tracked' \subseteq kept \cup mine
       BY <1>7 DEF Tracked
<1>13. IsFiniteSet(Tracked') /\ Cardinality(Tracked') <= loginLimiterMax + 2
  <2>1. /\ IsFiniteSet(Tracked') /\ Cardinality(Tracked') <= Cardinality(kept \cup mine)
        /\ Cardinality(Tracked') \in Nat /\ Cardinality(kept \cup mine) \in Nat
        BY <1>11, <1>12, FS_Subset, FS_CardinalityType
  <2> QED
      BY <1>11, <2>1, LimiterAssumption
<1> QED
    BY <1>1, <1>8, <1>9, <1>13 DEF WindowInv

LEMMA SuccessKeeps ==
  ASSUME WindowInv, AccountInv, NEW h \in Handlers, NEW j \in Jtis, CreateSession(h, j)
  PROVE  WindowInv'
<1>1. succeeded(sign[h].ip, sign[h].user) /\ sign' = [sign EXCEPT ![h] = Idle] /\ clock' = clock
      BY DEF CreateSession
<1>2. attempts' \in [Keys -> Windows] /\ \A k \in Keys : attempts'[k].failures <= attempts[k].failures
      BY <1>1, NoWindowTyped DEF succeeded, WindowInv, Windows
<1>3. \A k \in Keys : Underway(k)' \subseteq Underway(k)
      BY <1>1, IdleTyped, LeavesUnderway DEF AccountInv, AccountTyped
<1> QED
    BY <1>1, <1>2, <1>3, WindowsShrink DEF WindowInv

(* Handlers that do not log in, and time. *)
LEMMA OthersKeep ==
  ASSUME WindowInv, attempts' = attempts, clock' \in 0..MaxClock,
         \A k \in Keys : Underway(k)' \subseteq Underway(k)
  PROVE  WindowInv'
<1>1. \A k \in Keys : attempts[k].failures \in Nat
      BY DEF WindowInv, Windows
<1> QED
    BY <1>1, WindowsShrink DEF WindowInv

LEMMA WindowSteps ==
  ASSUME WindowInv, AccountInv, AccountsNext
  PROVE  WindowInv'
<1>1. clock \in 0..MaxClock
      BY DEF WindowInv
<1>2. sign \in [Handlers -> Request]
      BY DEF AccountInv, AccountTyped
<1>3. ASSUME NEW h \in Handlers, NEW ip \in Addresses, NEW user \in Accounts, RefuseLogin(h, ip, user)
      PROVE  WindowInv'
  <2>1. attempts' = AfterAllow(ip, user) /\ sign' = sign /\ clock' = clock
        BY <1>3 DEF RefuseLogin, accountVars
  <2>2. \A k \in Keys : Underway(k)' \subseteq Underway(k)
        BY <2>1 DEF Underway
  <2>3. attempts' \in [Keys -> Windows] /\ \A k \in Keys : attempts'[k].failures <= attempts[k].failures
        BY <2>1, AllowForm DEF WindowInv
  <2> QED
      BY <1>1, <2>1, <2>2, <2>3, WindowsShrink
<1>4. ASSUME NEW h \in Handlers, NEW r, r.step # "login", sign' = [sign EXCEPT ![h] = r],
             UNCHANGED limiterVars
      PROVE  WindowInv'
  <2>1. \A k \in Keys : Underway(k)' \subseteq Underway(k)
        BY <1>2, <1>4, LeavesUnderway
  <2> QED
      BY <1>1, <1>4, <2>1, OthersKeep DEF limiterVars
<1>5. ASSUME sign' = sign, attempts' = attempts, clock' \in 0..MaxClock
      PROVE  WindowInv'
  <2>1. \A k \in Keys : Underway(k)' \subseteq Underway(k)
        BY <1>5 DEF Underway
  <2> QED
      BY <1>5, <2>1, OthersKeep
<1>6. ASSUME NEW h \in Handlers, PasswordNext(h)
      PROVE  WindowInv'
  <2>1. ASSUME NEW j \in Jtis, NEW typed, changePassword(h, j, typed)
        PROVE  WindowInv'
    <3> DEFINE r == [step |-> "write", user |-> session[j].user, ip |-> Nobody,
                     typed |-> 0, hash |-> 0, jti |-> j]
    <3>1. sign' = [sign EXCEPT ![h] = r] /\ UNCHANGED limiterVars /\ r.step # "login"
          BY <2>1 DEF changePassword
    <3> QED
        BY <3>1, <1>4
  <2>2. ASSUME ChangeLocalPassword(h)
        PROVE  WindowInv'
    <3> DEFINE r == [step |-> "revoke", user |-> sign[h].user, ip |-> Nobody, typed |-> 0,
                     hash |-> password[sign[h].user] + 1, jti |-> sign[h].jti]
    <3>1. sign' = [sign EXCEPT ![h] = r] /\ UNCHANGED limiterVars /\ r.step # "login"
          BY <1>2, <2>2 DEF ChangeLocalPassword
    <3> QED
        BY <3>1, <1>4
  <2>3. ASSUME RevokeOtherSessions(h) \/ ChangeFails(h)
        PROVE  WindowInv'
        BY <2>3, <1>4, IdleTyped DEF RevokeOtherSessions, ChangeFails
  <2> QED
      BY <1>6, <2>1, <2>2, <2>3 DEF PasswordNext
<1>7. ASSUME NEW h \in Handlers, LoginNext(h, Addresses)
      PROVE  WindowInv'
      BY <1>2, <1>3, <1>7, PermitKeeps, SuccessKeeps, FailureKeeps DEF LoginNext
<1>8. ASSUME NEW j \in Jtis, logout(j) \/ ExpireSession(j)
      PROVE  WindowInv'
      BY <1>1, <1>5, <1>8 DEF logout, ExpireSession, limiterVars
<1>9. ASSUME Tick, UNCHANGED accountVars
      PROVE  WindowInv'
      BY <1>1, <1>5, <1>9, LimiterAssumption DEF Tick, accountVars
<1> QED
    BY <1>6, <1>7, <1>8, <1>9 DEF AccountsNext

LEMMA WindowFrame ==
  ASSUME WindowInv, UNCHANGED <<limiterVars, accountVars>>
  PROVE  WindowInv'
<1>1. \A k \in Keys : Underway(k)' \subseteq Underway(k)
      BY DEF Underway, accountVars
<1> QED
    BY <1>1, OthersKeep DEF limiterVars, WindowInv

LEMMA WindowStart == AccountsInit => WindowInv
<1> SUFFICES ASSUME AccountsInit PROVE WindowInv
    OBVIOUS
<1>1. \A k \in Keys : attempts[k] = NoWindow /\ Underway(k) = {}
      BY IdleTyped DEF AccountsInit, LimiterInit, Underway
<1>2. Tracked = {}
      BY <1>1, NoWindowTyped DEF Tracked
<1>3. \A k \in Keys : WindowBound(k)
      BY <1>1, NoWindowTyped, LimitTyped, FS_EmptySet, UnderwayFinite DEF WindowBound
<1>4. IsFiniteSet(Tracked) /\ Cardinality(Tracked) <= loginLimiterMax + 2
      BY <1>2, FS_EmptySet, LimiterAssumption
<1>5. attempts \in [Keys -> Windows] /\ clock \in 0..MaxClock
      BY NoWindowTyped, LimiterAssumption DEF AccountsInit, LimiterInit
<1> QED
    BY <1>3, <1>4, <1>5 DEF WindowInv

LEMMA WindowInvBounds == WindowInv => LockoutHolds
<1> SUFFICES ASSUME WindowInv PROVE LockoutHolds
    OBVIOUS
<1>1. ASSUME NEW k \in Keys PROVE attempts[k].failures < loginLimit(k) + Cardinality(Handlers)
  <2>1. /\ attempts[k].failures \in Nat /\ Cardinality(Underway(k)) \in Nat
        /\ attempts[k].failures + Cardinality(Underway(k)) < loginLimit(k) + Cardinality(Handlers)
        /\ loginLimit(k) \in Nat /\ Cardinality(Handlers) \in Nat
        BY UnderwayFinite, LimitTyped DEF WindowInv, WindowBound, Windows
  <2> QED
      BY <2>1
<1> QED
    BY <1>1 DEF LockoutHolds, WindowInv

-----------------------------------------------------------------------------
(* Windows of anonymous requests *)

RequestTyped ==
  /\ hits \in [Addresses -> RequestWindows]
  /\ evicted \subseteq Addresses
  /\ admitted \in [Addresses -> [0..MaxClock -> Nat]]

(* Nothing was let through after an instant, and what was is never taken back. *)
NoneAfter(a, t) == \A u \in Int : t <= u /\ u <= MaxClock => AdmittedBy(a, u) = AdmittedBy(a, clock)

Rising(a) == \A t, u \in Int : t <= u /\ u <= MaxClock => AdmittedBy(a, t) <= AdmittedBy(a, u)

(* What was let through since the window of s began is within the limit,    *)
(* and none once it was over.                                               *)
LastWindow(a, s) ==
  /\ NoneAfter(a, s + oidcStartWindow - 1)
  /\ AdmittedBy(a, clock) - AdmittedBy(a, s - 1) <= oidcStartIPLimit

(* An address without a window had its last one end before now. *)
Fresh(a) == \E s \in Int : s + oidcStartWindow <= clock /\ LastWindow(a, s)

(* A window has let no more through than it counted, and what was let       *)
(* through shortly before it belongs to one window too.                     *)
InWindow(a, s) ==
  /\ s <= clock
  /\ LastWindow(a, s)
  /\ AdmittedBy(a, clock) - AdmittedBy(a, s - 1) <= hits[a].count
  /\ AdmittedBy(a, s - 1) - AdmittedBy(a, s - oidcStartWindow) <= oidcStartIPLimit

(* Stretches that end before an instant. *)
Stretches(a, t) ==
  \A from \in 0..MaxClock :
    from + oidcStartWindow - 1 <= MaxClock /\ from + oidcStartWindow - 1 < t =>
      AdmittedIn(a, from, from + oidcStartWindow - 1) <= 2 * oidcStartIPLimit

AddressSound(a) ==
  /\ Rising(a)
  /\ NoneAfter(a, clock)
  /\ hits[a].count = 0 => Fresh(a) /\ Stretches(a, MaxClock + 1)
  /\ hits[a].count > 0 => InWindow(a, hits[a].started) /\ Stretches(a, hits[a].started)

RequestInv ==
  /\ RequestTyped
  /\ IsFiniteSet(Counted)
  /\ Cardinality(Counted) <= requestLimiterMax
  /\ \A a \in Addresses \ evicted : AddressSound(a)

LEMMA AdmittedForm ==
  ASSUME RequestTyped, NEW a \in Addresses
  PROVE  \A t \in Int : t <= MaxClock => AdmittedBy(a, t) \in Nat /\ (t < 0 => AdmittedBy(a, t) = 0)
<1>1. \A t \in 0..MaxClock : admitted[a][t] \in Nat
      BY DEF RequestTyped
<1> QED
    BY <1>1, LimiterAssumption DEF AdmittedBy

(* Where a window is over, nothing hangs on it any more. *)
LEMMA OverIsFresh ==
  ASSUME RequestInv, WindowInv, NEW a \in Addresses \ evicted, hits[a].count = 0 \/ WindowOver(a)
  PROVE  Fresh(a)
<1>1. hits[a].started \in Nat /\ hits[a].count \in Nat /\ clock \in Nat /\ AddressSound(a)
      BY LimiterAssumption DEF RequestInv, RequestTyped, RequestWindows, WindowInv
<1>2. CASE hits[a].count = 0
      BY <1>1, <1>2 DEF AddressSound
<1>3. CASE hits[a].count > 0
  <2>1. WindowOver(a) /\ LastWindow(a, hits[a].started)
        BY <1>1, <1>3 DEF AddressSound, InWindow
  <2>2. hits[a].started + oidcStartWindow <= clock
        BY <1>1, <2>1, RequestLimiterAssumption DEF WindowOver
  <2> QED
      BY <1>1, <2>1, <2>2 DEF Fresh
<1> QED
    BY <1>1, <1>2, <1>3

(* Any stretch that reaches into the window meets that one and, before it,  *)
(* another at most.                                                         *)
LEMMA StretchesFromWindow ==
  ASSUME RequestTyped, WindowInv, NEW a \in Addresses, Rising(a), NoneAfter(a, clock),
         NEW s \in Int, InWindow(a, s),
         NEW from \in 0..MaxClock, from + oidcStartWindow - 1 <= MaxClock,
         s <= from + oidcStartWindow - 1
  PROVE  AdmittedIn(a, from, from + oidcStartWindow - 1) <= 2 * oidcStartIPLimit
<1> DEFINE A(t) == AdmittedBy(a, t)
           w == oidcStartWindow
           last == from + w - 1
<1>1. /\ w \in Nat /\ w > 0 /\ oidcStartIPLimit \in Nat /\ MaxClock \in Nat
      /\ clock \in Int /\ from \in Int /\ last \in Int /\ clock <= MaxClock
      BY RequestLimiterAssumption, LimiterAssumption DEF WindowInv
<1>2. \A t \in Int : t <= MaxClock => A(t) \in Int
      BY AdmittedForm
<1>3. \A t, u \in Int : t <= u /\ u <= MaxClock => A(t) <= A(u)
      BY DEF Rising
<1>4. /\ s <= clock /\ A(clock) - A(s - 1) <= oidcStartIPLimit
      /\ A(s - 1) - A(s - w) <= oidcStartIPLimit
      /\ \A u \in Int : clock <= u /\ u <= MaxClock => A(u) = A(clock)
      BY DEF InWindow, LastWindow, NoneAfter
<1>5. last <= MaxClock /\ s <= last /\ AdmittedIn(a, from, last) = A(last) - A(from - 1)
      BY DEF AdmittedIn
<1> HIDE DEF A
<1>6. A(last) <= A(clock)
  <2>1. CASE last <= clock
        BY <1>1, <1>3, <2>1
  <2>2. CASE last > clock
        BY <1>1, <1>3, <1>4, <1>5, <2>2
  <2> QED
      BY <1>1, <2>1, <2>2
<1>7. A(s - 1) - A(from - 1) <= oidcStartIPLimit
  <2>1. s - w <= from - 1 /\ s - w <= MaxClock /\ from - 1 <= MaxClock /\ s - 1 <= MaxClock
        BY <1>1, <1>4, <1>5
  <2>2. A(s - w) <= A(from - 1)
        BY <1>1, <1>3, <2>1
  <2>3. A(s - w) \in Int /\ A(from - 1) \in Int /\ A(s - 1) \in Int
        BY <1>1, <1>2, <2>1
  <2> QED
      BY <1>1, <1>4, <2>2, <2>3
<1>8. A(last) \in Int /\ A(from - 1) \in Int /\ A(s - 1) \in Int /\ A(clock) \in Int
      BY <1>1, <1>2, <1>4, <1>5
<1> HIDE DEF last, w
<1> QED
    BY <1>1, <1>4, <1>5, <1>6, <1>7, <1>8 DEF last, w

LEMMA AllStretches ==
  ASSUME RequestInv, WindowInv, NEW a \in Addresses \ evicted
  PROVE  Stretches(a, MaxClock + 1)
<1>1. /\ hits[a].started \in Nat /\ hits[a].count \in Nat /\ AddressSound(a) /\ RequestTyped
      /\ MaxClock \in Nat /\ oidcStartWindow \in Nat
      BY LimiterAssumption, RequestLimiterAssumption DEF RequestInv, RequestTyped, RequestWindows
<1>2. CASE hits[a].count = 0
      BY <1>1, <1>2 DEF AddressSound
<1>3. CASE hits[a].count > 0
  <2>1. /\ Rising(a) /\ NoneAfter(a, clock) /\ InWindow(a, hits[a].started)
        /\ Stretches(a, hits[a].started)
        BY <1>1, <1>3 DEF AddressSound
  <2> SUFFICES ASSUME NEW from \in 0..MaxClock, from + oidcStartWindow - 1 <= MaxClock
               PROVE  AdmittedIn(a, from, from + oidcStartWindow - 1) <= 2 * oidcStartIPLimit
      BY DEF Stretches
  <2>2. CASE hits[a].started <= from + oidcStartWindow - 1
        BY <1>1, <2>1, <2>2, StretchesFromWindow
  <2>3. CASE ~(hits[a].started <= from + oidcStartWindow - 1)
        BY <1>1, <2>1, <2>3 DEF Stretches
  <2> QED
      BY <2>2, <2>3
<1> QED
    BY <1>1, <1>2, <1>3

(* What a request that is let through adds. *)
LEMMA OneMoreForm ==
  ASSUME RequestTyped, WindowInv, NEW a \in Addresses, admitted' = [admitted EXCEPT ![a] = OneMore(a)]
  PROVE  \A t \in Int : t <= MaxClock =>
           AdmittedBy(a, t)' = AdmittedBy(a, t) + (IF t < clock THEN 0 ELSE 1)
<1> DEFINE D == 0..MaxClock
<1>1. clock \in Nat /\ MaxClock \in Nat
      BY LimiterAssumption DEF WindowInv
<1>2. admitted \in [Addresses -> [D -> Nat]]
      BY DEF RequestTyped
<1>3. \A t \in D : admitted'[a][t] = admitted[a][t] + (IF t < clock THEN 0 ELSE 1)
  <2>1. admitted'[a] = OneMore(a)
        BY <1>2
  <2> QED
      BY <2>1 DEF OneMore
<1> SUFFICES ASSUME NEW t \in Int, t <= MaxClock
             PROVE  AdmittedBy(a, t)' = AdmittedBy(a, t) + (IF t < clock THEN 0 ELSE 1)
    OBVIOUS
<1>4. CASE t < 0
      BY <1>1, <1>4 DEF AdmittedBy
<1>5. CASE t >= 0
      BY <1>1, <1>3, <1>5 DEF AdmittedBy
<1> QED
    BY <1>4, <1>5

(* A first request of a window: what went before belongs to the last one. *)
LEMMA FirstInWindow ==
  ASSUME RequestTyped, WindowInv, NEW a \in Addresses, Rising(a), NoneAfter(a, clock), Fresh(a),
         UNCHANGED clock, hits'[a].count = 1,
         admitted' = [admitted EXCEPT ![a] = OneMore(a)]
  PROVE  Rising(a)' /\ NoneAfter(a, clock)' /\ InWindow(a, clock)'
<1> DEFINE A(t) == AdmittedBy(a, t)
           B(t) == AdmittedBy(a, t)'
           w == oidcStartWindow
           limit == oidcStartIPLimit
<1>1. /\ w \in Nat /\ w > 0 /\ limit \in Nat /\ limit > 0 /\ MaxClock \in Nat
      /\ clock \in Int /\ clock <= MaxClock
      BY RequestLimiterAssumption, LimiterAssumption DEF WindowInv
<1>2. \A t \in Int : t <= MaxClock => A(t) \in Int /\ B(t) = A(t) + (IF t < clock THEN 0 ELSE 1)
  <2>1. \A t \in Int : t <= MaxClock => AdmittedBy(a, t) \in Nat
        BY AdmittedForm
  <2>2. \A t \in Int : t <= MaxClock =>
          AdmittedBy(a, t)' = AdmittedBy(a, t) + (IF t < clock THEN 0 ELSE 1)
        BY OneMoreForm
  <2> QED
      BY <2>1, <2>2
<1>3. \A t, u \in Int : t <= u /\ u <= MaxClock => A(t) <= A(u)
      BY DEF Rising
<1>4. \A u \in Int : clock <= u /\ u <= MaxClock => A(u) = A(clock)
      BY DEF NoneAfter
<1>5. PICK s \in Int : /\ s + w <= clock /\ A(clock) - A(s - 1) <= limit
                       /\ \A u \in Int : s + w - 1 <= u /\ u <= MaxClock => A(u) = A(clock)
      BY DEF Fresh, LastWindow, NoneAfter
<1>6. clock' = clock
      OBVIOUS
<1> HIDE DEF A, B, w, limit
<1>7. \A t, u \in Int : t <= u /\ u <= MaxClock => B(t) <= B(u)
      BY <1>1, <1>2, <1>3
<1>8. \A u \in Int : clock <= u /\ u <= MaxClock => B(u) = B(clock)
      BY <1>1, <1>2, <1>4
<1>9. A(clock - 1) = A(clock)
      BY <1>1, <1>5
<1>10. B(clock) - B(clock - 1) <= 1 /\ B(clock) - B(clock - 1) <= limit
  <2>1. B(clock) = A(clock) + 1 /\ B(clock - 1) = A(clock - 1) /\ A(clock) \in Int
        BY <1>1, <1>2
  <2> QED
      BY <1>1, <1>9, <2>1
<1>11. B(clock - 1) - B(clock - w) <= limit
  <2>1. B(clock - 1) = A(clock - 1) /\ B(clock - w) = A(clock - w)
        BY <1>1, <1>2
  <2>2. A(s - 1) <= A(clock - w)
        BY <1>1, <1>3, <1>5
  <2>3. A(s - 1) \in Int /\ A(clock - w) \in Int /\ A(clock) \in Int
        BY <1>1, <1>2, <1>5
  <2> QED
      BY <1>1, <1>5, <1>9, <2>1, <2>2, <2>3
<1>12. \A u \in Int : clock + w - 1 <= u /\ u <= MaxClock => B(u) = B(clock)
      BY <1>1, <1>8
<1>13. Rising(a)'
      BY <1>7 DEF Rising, B
<1>14. NoneAfter(a, clock)' /\ NoneAfter(a, clock + w - 1)'
      BY <1>6, <1>8, <1>12 DEF NoneAfter, B
<1>15. AdmittedBy(a, clock)' = B(clock) /\ AdmittedBy(a, clock - 1)' = B(clock - 1)
       /\ AdmittedBy(a, clock - w)' = B(clock - w)
      BY <1>6 DEF B, AdmittedBy
<1> QED
    BY <1>1, <1>6, <1>10, <1>11, <1>13, <1>14, <1>15 DEF InWindow, LastWindow, w, limit

(* A further request of a window. *)
LEMMA NextInWindow ==
  ASSUME RequestTyped, WindowInv, NEW a \in Addresses, Rising(a), NoneAfter(a, clock), NEW s \in Int,
         InWindow(a, s), clock < s + oidcStartWindow, UNCHANGED clock,
         hits[a].count \in Nat, hits'[a].count = hits[a].count + 1, hits'[a].count <= oidcStartIPLimit,
         admitted' = [admitted EXCEPT ![a] = OneMore(a)]
  PROVE  Rising(a)' /\ NoneAfter(a, clock)' /\ InWindow(a, s)'
<1> DEFINE A(t) == AdmittedBy(a, t)
           B(t) == AdmittedBy(a, t)'
           w == oidcStartWindow
           limit == oidcStartIPLimit
<1>1. /\ w \in Nat /\ w > 0 /\ limit \in Nat /\ MaxClock \in Nat
      /\ clock \in Int /\ clock <= MaxClock /\ clock < s + w
      BY RequestLimiterAssumption, LimiterAssumption DEF WindowInv
<1>2. \A t \in Int : t <= MaxClock => A(t) \in Int /\ B(t) = A(t) + (IF t < clock THEN 0 ELSE 1)
  <2>1. \A t \in Int : t <= MaxClock => AdmittedBy(a, t) \in Nat
        BY AdmittedForm
  <2>2. \A t \in Int : t <= MaxClock =>
          AdmittedBy(a, t)' = AdmittedBy(a, t) + (IF t < clock THEN 0 ELSE 1)
        BY OneMoreForm
  <2> QED
      BY <2>1, <2>2
<1>3. \A t, u \in Int : t <= u /\ u <= MaxClock => A(t) <= A(u)
      BY DEF Rising
<1>4. \A u \in Int : clock <= u /\ u <= MaxClock => A(u) = A(clock)
      BY DEF NoneAfter
<1>5. s <= clock /\ A(clock) - A(s - 1) <= hits[a].count /\ A(s - 1) - A(s - w) <= limit
      BY DEF InWindow
<1>6. clock' = clock
      OBVIOUS
<1> HIDE DEF A, B, w, limit
<1>7. \A t, u \in Int : t <= u /\ u <= MaxClock => B(t) <= B(u)
      BY <1>1, <1>2, <1>3
<1>8. \A u \in Int : clock <= u /\ u <= MaxClock => B(u) = B(clock)
      BY <1>1, <1>2, <1>4
<1>9. B(clock) - B(s - 1) <= hits[a].count + 1
  <2>1. B(clock) = A(clock) + 1 /\ B(s - 1) = A(s - 1) /\ A(clock) \in Int /\ A(s - 1) \in Int
        BY <1>1, <1>2, <1>5
  <2> QED
      BY <1>5, <2>1
<1>10. B(s - 1) - B(s - w) <= limit
  <2>1. B(s - 1) = A(s - 1) /\ B(s - w) = A(s - w)
        BY <1>1, <1>2, <1>5
  <2> QED
      BY <1>5, <2>1
<1>11. \A u \in Int : s + w - 1 <= u /\ u <= MaxClock => B(u) = B(clock)
      BY <1>1, <1>8
<1>12. B(clock) - B(s - 1) <= limit
  <2>1. B(clock) \in Int /\ B(s - 1) \in Int
        BY <1>1, <1>2, <1>5
  <2> QED
      BY <1>1, <1>9, <2>1 DEF limit
<1>13. Rising(a)'
      BY <1>7 DEF Rising, B
<1>14. NoneAfter(a, clock)' /\ NoneAfter(a, s + w - 1)'
      BY <1>6, <1>8, <1>11 DEF NoneAfter, B
<1>15. AdmittedBy(a, clock)' = B(clock) /\ AdmittedBy(a, s - 1)' = B(s - 1)
       /\ AdmittedBy(a, s - w)' = B(s - w)
      BY <1>6 DEF B, AdmittedBy
<1> QED
    BY <1>1, <1>5, <1>6, <1>9, <1>10, <1>12, <1>13, <1>14, <1>15 DEF InWindow, LastWindow, w, limit

(* Stretches that are over stay as they are. *)
LEMMA StretchesStay ==
  ASSUME RequestTyped, WindowInv, NEW a \in Addresses, NEW t \in Int, t <= clock, Stretches(a, t),
         admitted' = [admitted EXCEPT ![a] = OneMore(a)]
  PROVE  Stretches(a, t)'
<1> SUFFICES ASSUME NEW from \in 0..MaxClock, from + oidcStartWindow - 1 <= MaxClock,
                    from + oidcStartWindow - 1 < t
             PROVE  AdmittedIn(a, from, from + oidcStartWindow - 1)' <= 2 * oidcStartIPLimit
    BY DEF Stretches
<1> DEFINE last == from + oidcStartWindow - 1
<1>1. /\ last \in Int /\ from - 1 \in Int /\ last < clock /\ from - 1 < clock
      /\ last <= MaxClock /\ from - 1 <= MaxClock /\ clock \in Int
      BY LimiterAssumption, RequestLimiterAssumption DEF WindowInv
<1>2. \A u \in Int : u <= MaxClock => AdmittedBy(a, u) \in Nat
      BY AdmittedForm
<1>3. \A u \in Int : u <= MaxClock => AdmittedBy(a, u)' = AdmittedBy(a, u) + (IF u < clock THEN 0 ELSE 1)
      BY OneMoreForm
<1>4. AdmittedIn(a, from, last) <= 2 * oidcStartIPLimit
      BY DEF Stretches
<1> HIDE DEF last
<1>5. AdmittedBy(a, last)' = AdmittedBy(a, last) /\ AdmittedBy(a, from - 1)' = AdmittedBy(a, from - 1)
      BY <1>1, <1>2, <1>3
<1>6. AdmittedIn(a, from, last)' = AdmittedIn(a, from, last)
      BY <1>5 DEF AdmittedIn
<1> QED
    BY <1>4, <1>6 DEF last

(* What holds of an address of which nothing more is let through. *)
LEMMA AdmittedFrame ==
  ASSUME NEW b \in Addresses, admitted'[b] = admitted[b], UNCHANGED clock
  PROVE  /\ Rising(b) => Rising(b)'
         /\ NoneAfter(b, clock) => NoneAfter(b, clock)'
         /\ Fresh(b) => Fresh(b)'
         /\ \A t \in Int : Stretches(b, t) => Stretches(b, t)'
         /\ \A s \in Int : InWindow(b, s) /\ hits[b].count \in Nat /\ hits'[b].count \in Nat
                           /\ hits[b].count <= hits'[b].count
                           /\ AdmittedBy(b, clock) - AdmittedBy(b, s - 1) \in Int => InWindow(b, s)'
<1>1. \A t \in Int : AdmittedBy(b, t)' = AdmittedBy(b, t)
      BY DEF AdmittedBy
<1>2. AdmittedBy(b, clock)' = AdmittedBy(b, clock)
      BY DEF AdmittedBy
<1>3. \A t \in Int : NoneAfter(b, t) => NoneAfter(b, t)'
      BY <1>1, <1>2 DEF NoneAfter
<1>4. NoneAfter(b, clock) => NoneAfter(b, clock)'
      BY <1>1, <1>2 DEF NoneAfter
<1>5. Rising(b) => Rising(b)'
      BY <1>1 DEF Rising
<1>6. \A s \in Int : LastWindow(b, s) => LastWindow(b, s)'
  <2> SUFFICES ASSUME NEW s \in Int, LastWindow(b, s) PROVE LastWindow(b, s)'
      OBVIOUS
  <2>1. oidcStartWindow \in Nat /\ s - 1 \in Int /\ s + oidcStartWindow - 1 \in Int
        BY RequestLimiterAssumption
  <2> QED
      BY <1>1, <1>2, <1>3, <2>1 DEF LastWindow
<1>7. Fresh(b) => Fresh(b)'
      BY <1>6 DEF Fresh
<1>8. \A t \in Int : Stretches(b, t) => Stretches(b, t)'
  <2>1. \A from \in 0..MaxClock :
          AdmittedIn(b, from, from + oidcStartWindow - 1)' = AdmittedIn(b, from, from + oidcStartWindow - 1)
        BY <1>1, LimiterAssumption, RequestLimiterAssumption DEF AdmittedIn
  <2> QED
      BY <2>1 DEF Stretches
<1>9. ASSUME NEW s \in Int, InWindow(b, s), hits[b].count \in Nat, hits'[b].count \in Nat,
             hits[b].count <= hits'[b].count, AdmittedBy(b, clock) - AdmittedBy(b, s - 1) \in Int
      PROVE  InWindow(b, s)'
  <2>1. /\ s - 1 \in Int /\ s - oidcStartWindow \in Int
        BY RequestLimiterAssumption
  <2>2. /\ AdmittedBy(b, s - 1)' = AdmittedBy(b, s - 1)
        /\ AdmittedBy(b, s - oidcStartWindow)' = AdmittedBy(b, s - oidcStartWindow)
        BY <1>1, <2>1
  <2>3. AdmittedBy(b, clock) - AdmittedBy(b, s - 1) <= hits'[b].count
        BY <1>9 DEF InWindow
  <2> QED
      BY <1>2, <1>6, <1>9, <2>2, <2>3 DEF InWindow
<1> QED
    BY <1>4, <1>5, <1>7, <1>8, <1>9

(* What pruning leaves is of the map, and leaves room for one address. *)
LEMMA KeptForm ==
  ASSUME RequestInv, NEW kept \in pruneHits
  PROVE  /\ kept \subseteq Counted /\ IsFiniteSet(kept) /\ Cardinality(kept) \in Nat
         /\ Cardinality(kept) < requestLimiterMax
<1>1. kept \subseteq Counted
      BY DEF pruneHits, CountedNow
<1>2. IsFiniteSet(Counted)
      BY DEF RequestInv
<1>3. IsFiniteSet(kept) /\ Cardinality(kept) \in Nat
      BY <1>1, <1>2, FS_Subset, FS_CardinalityType
<1>4. Cardinality(kept) < requestLimiterMax
      BY DEF pruneHits
<1> QED
    BY <1>1, <1>3, <1>4

(* A request that is asked about *)
LEMMA RequestSteps ==
  ASSUME RequestInv, WindowInv, NEW a \in Addresses, allowRequest(a)
  PROVE  RequestInv'
<1>1. PICK kept \in pruneHits :
        LET count == IF a \in kept /\ ~WindowOver(a) THEN hits[a].count + 1 ELSE 1
        IN  /\ hits' = [b \in Addresses |->
                 CASE b = a -> [started |-> IF count = 1 THEN clock ELSE hits[a].started,
                                count |-> count]
                   [] b \in kept \ {a} -> hits[b]
                   [] OTHER -> NoHits]
            /\ evicted' = evicted \cup (CountedNow \ kept)
            /\ admitted' = IF Admits(count) /\ a \notin evicted'
                           THEN [admitted EXCEPT ![a] = OneMore(a)] ELSE admitted
      BY DEF allowRequest
<1> DEFINE count == IF a \in kept /\ ~WindowOver(a) THEN hits[a].count + 1 ELSE 1
<1> DEFINE r == [started |-> IF count = 1 THEN clock ELSE hits[a].started, count |-> count]
<1>2. /\ \A b \in Addresses : hits[b] \in RequestWindows /\ hits[b].started \in Nat /\ hits[b].count \in Nat
      /\ RequestTyped
      BY DEF RequestInv, RequestTyped, RequestWindows
<1>3. count \in Nat /\ count > 0 /\ clock \in 0..MaxClock /\ clock \in Nat /\ MaxClock \in Nat
      BY <1>2, LimiterAssumption DEF WindowInv
<1>4. /\ r \in RequestWindows /\ r.count = count
      /\ r.started = IF count = 1 THEN clock ELSE hits[a].started
      BY <1>2, <1>3 DEF RequestWindows
<1>5. /\ hits' = [b \in Addresses |-> CASE b = a -> r [] b \in kept \ {a} -> hits[b] [] OTHER -> NoHits]
      /\ evicted' = evicted \cup (CountedNow \ kept)
      /\ admitted' = IF Admits(count) /\ a \notin evicted'
                     THEN [admitted EXCEPT ![a] = OneMore(a)] ELSE admitted
      /\ clock' = clock
      BY <1>1 DEF allowRequest, limiterVars
<1>6. /\ a \in kept /\ ~WindowOver(a) => count = hits[a].count + 1
      /\ ~(a \in kept /\ ~WindowOver(a)) => count = 1
      OBVIOUS
<1> HIDE DEF count, r
<1>7. NoHits \in RequestWindows /\ NoHits.count = 0
      BY DEF NoHits, RequestWindows
<1>8. RequestTyped'
  <2>1. hits' \in [Addresses -> RequestWindows]
        BY <1>2, <1>4, <1>5, <1>7
  <2>2. evicted' \subseteq Addresses
        BY <1>2, <1>5 DEF RequestTyped, CountedNow, Counted
  <2>3. admitted' \in [Addresses -> [0..MaxClock -> Nat]]
    <3>1. admitted \in [Addresses -> [0..MaxClock -> Nat]]
          BY <1>2 DEF RequestTyped
    <3>2. OneMore(a) \in [0..MaxClock -> Nat]
          BY <3>1, <1>3 DEF OneMore
    <3> QED
        BY <1>5, <3>1, <3>2
  <2> QED
      BY <2>1, <2>2, <2>3 DEF RequestTyped
<1>9. /\ hits'[a] = r
      /\ \A b \in Addresses \ {a} : hits'[b] = (IF b \in kept THEN hits[b] ELSE NoHits)
      BY <1>5
<1>10. IsFiniteSet(Counted)' /\ (Cardinality(Counted) <= requestLimiterMax)'
  <2>1. /\ kept \subseteq Counted /\ IsFiniteSet(kept) /\ Cardinality(kept) \in Nat
        /\ Cardinality(kept) < requestLimiterMax
        BY KeptForm
  <2>2. Counted' \subseteq kept \cup {a}
        BY <1>7, <1>9 DEF Counted
  <2>3. IsFiniteSet(kept \cup {a}) /\ Cardinality(kept \cup {a}) <= Cardinality(kept) + 1
    <3>1. IsFiniteSet(kept \cup {a})
          /\ Cardinality(kept \cup {a}) = IF a \in kept THEN Cardinality(kept) ELSE Cardinality(kept) + 1
          BY <2>1, FS_AddElement
    <3> QED
        BY <2>1, <3>1
  <2>4. IsFiniteSet(Counted') /\ Cardinality(Counted') <= Cardinality(kept \cup {a})
        BY <2>2, <2>3, FS_Subset
  <2>5. Cardinality(Counted') \in Nat /\ Cardinality(kept \cup {a}) \in Nat /\ requestLimiterMax \in Nat
        BY <2>3, <2>4, FS_CardinalityType, RequestLimiterAssumption
  <2> QED
      BY <2>1, <2>3, <2>4, <2>5
<1>11. ASSUME NEW b \in Addresses \ evicted', b # a
       PROVE  AddressSound(b)'
  <2>1. b \in Addresses /\ b \in Addresses \ evicted /\ ~(b \in CountedNow \ kept)
        BY <1>5, <1>11
  <2>2. AddressSound(b)
        BY <2>1 DEF RequestInv
  <2>3. admitted'[b] = admitted[b]
        BY <1>2, <1>5, <1>11 DEF RequestTyped
  <2>4. Rising(b)' /\ NoneAfter(b, clock)'
        BY <1>5, <2>1, <2>2, <2>3, AdmittedFrame DEF AddressSound
  <2>5. CASE b \in kept
    <3>1. hits'[b] = hits[b]
          BY <1>9, <1>11, <2>5
    <3>2. hits[b].count > 0
          BY <2>5, KeptForm DEF Counted
    <3>3. InWindow(b, hits[b].started) /\ Stretches(b, hits[b].started)
          BY <2>2, <3>2 DEF AddressSound
    <3>4. /\ hits[b].started \in Int /\ hits[b].count \in Nat /\ hits[b].count <= hits'[b].count
          /\ hits'[b].count \in Nat
          BY <1>2, <2>1, <3>1
    <3>5. AdmittedBy(b, clock) - AdmittedBy(b, hits[b].started - 1) \in Int
      <4>1. \A t \in Int : t <= MaxClock => AdmittedBy(b, t) \in Nat
            BY <1>2, <2>1, AdmittedForm
      <4>2. hits[b].started <= clock /\ clock <= MaxClock
            BY <3>3, <1>3 DEF InWindow
      <4>3. AdmittedBy(b, clock) \in Int /\ AdmittedBy(b, hits[b].started - 1) \in Int
            BY <1>3, <3>4, <4>1, <4>2
      <4> QED
          BY <4>3
    <3>6. \A s \in Int : s = hits[b].started => InWindow(b, s)' /\ Stretches(b, s)'
          BY <1>5, <2>1, <2>3, <3>3, <3>4, <3>5, AdmittedFrame
    <3>7. InWindow(b, hits[b].started)' /\ Stretches(b, hits[b].started)'
          BY <3>1, <3>4, <3>6 DEF InWindow, LastWindow, NoneAfter, Stretches, AdmittedIn, AdmittedBy
    <3> QED
        BY <2>4, <3>1, <3>2, <3>4, <3>7 DEF AddressSound
  <2>6. CASE b \notin kept
    <3>1. hits'[b].count = 0
          BY <1>7, <1>9, <1>11, <2>1, <2>6
    <3>2. hits[b].count = 0 \/ WindowOver(b)
          BY <1>2, <2>1, <2>6 DEF CountedNow, Counted
    <3>3. Fresh(b) /\ Stretches(b, MaxClock + 1)
          BY <2>1, <3>2, OverIsFresh, AllStretches
    <3>4. MaxClock + 1 \in Int
          BY <1>3
    <3>5. Fresh(b)' /\ Stretches(b, MaxClock + 1)'
          BY <1>5, <2>1, <2>3, <3>3, <3>4, AdmittedFrame
    <3> QED
        BY <2>4, <3>1, <3>5 DEF AddressSound
  <2> QED
      BY <2>5, <2>6
<1>12. ASSUME a \in Addresses \ evicted' PROVE AddressSound(a)'
  <2>1. a \in Addresses \ evicted /\ ~(a \in CountedNow \ kept)
        BY <1>5, <1>12
  <2>2. AddressSound(a)
        BY <2>1 DEF RequestInv
  <2>3. Rising(a) /\ NoneAfter(a, clock) /\ Stretches(a, MaxClock + 1)
        BY <2>1, <2>2, AllStretches DEF AddressSound
  <2>4. admitted' = IF Admits(count) THEN [admitted EXCEPT ![a] = OneMore(a)] ELSE admitted
        BY <1>5, <1>12
  <2>5. hits'[a].count > 0 /\ hits'[a].count = count
        BY <1>3, <1>4, <1>9
  <2>6. CASE ~(a \in kept /\ ~WindowOver(a))
    <3>1. count = 1 /\ hits'[a].started = clock
          BY <1>4, <1>6, <1>9, <2>6
    <3>2. Admits(count)
          BY <3>1, RequestLimiterAssumption DEF Admits
    <3>3. hits[a].count = 0 \/ WindowOver(a)
          BY <1>2, <2>1, <2>6 DEF CountedNow, Counted
    <3>4. Fresh(a)
          BY <2>1, <3>3, OverIsFresh
    <3>5. admitted' = [admitted EXCEPT ![a] = OneMore(a)] /\ hits'[a].count = 1 /\ clock' = clock
          BY <1>5, <2>4, <2>5, <3>1, <3>2
    <3>6. Rising(a)' /\ NoneAfter(a, clock)' /\ InWindow(a, clock)'
          BY <1>2, <2>3, <3>4, <3>5, FirstInWindow
    <3>7. \A t \in Int : t = clock => Stretches(a, t)'
      <4> SUFFICES ASSUME NEW t \in Int, t = clock PROVE Stretches(a, t)'
          OBVIOUS
      <4>1. Stretches(a, t) /\ t <= clock
        <5>1. \A from \in 0..MaxClock : from + oidcStartWindow - 1 \in Int
              BY <1>3, RequestLimiterAssumption
        <5> QED
            BY <1>3, <2>3, <5>1 DEF Stretches
      <4> QED
          BY <1>2, <3>5, <4>1, StretchesStay
    <3>8. Stretches(a, clock)'
          BY <1>3, <1>5, <3>7
    <3>9. hits'[a].started = clock'
          BY <1>5, <3>1
    <3> QED
        BY <2>5, <3>6, <3>8, <3>9 DEF AddressSound
  <2>7. CASE a \in kept /\ ~WindowOver(a)
    <3> DEFINE s == hits[a].started
    <3>1. count = hits[a].count + 1 /\ hits[a].count > 0
          BY <1>6, <2>7, KeptForm DEF Counted
    <3>2. hits'[a].started = s /\ s \in Int /\ s <= clock /\ clock < s + oidcStartWindow
          BY <1>2, <1>3, <1>4, <1>9, <2>2, <2>7, <3>1, RequestLimiterAssumption
             DEF WindowOver, AddressSound, InWindow
    <3>3. InWindow(a, s) /\ Stretches(a, s)
          BY <2>2, <3>1 DEF AddressSound
    <3>4. Rising(a)' /\ NoneAfter(a, clock)' /\ \A t \in Int : t = s => InWindow(a, t)' /\ Stretches(a, t)'
      <4>1. CASE Admits(count)
        <5>1. /\ admitted' = [admitted EXCEPT ![a] = OneMore(a)] /\ clock' = clock
              /\ hits'[a].count = hits[a].count + 1 /\ hits'[a].count <= oidcStartIPLimit
              BY <1>5, <2>4, <2>5, <3>1, <4>1 DEF Admits
        <5>2. \A t \in Int : t = s => Rising(a)' /\ NoneAfter(a, clock)' /\ InWindow(a, t)'
          <6> SUFFICES ASSUME NEW t \in Int, t = s PROVE Rising(a)' /\ NoneAfter(a, clock)' /\ InWindow(a, t)'
              OBVIOUS
          <6>1. InWindow(a, t) /\ clock < t + oidcStartWindow /\ hits[a].count \in Nat
                BY <1>2, <3>2, <3>3
          <6> QED
              BY <1>2, <2>3, <5>1, <6>1, NextInWindow
        <5>3. \A t \in Int : t = s => Stretches(a, t)'
          <6> SUFFICES ASSUME NEW t \in Int, t = s PROVE Stretches(a, t)'
              OBVIOUS
          <6>1. Stretches(a, t) /\ t <= clock
                BY <3>2, <3>3
          <6> QED
              BY <1>2, <5>1, <6>1, StretchesStay
        <5> QED
            BY <3>2, <5>2, <5>3
      <4>2. CASE ~Admits(count)
        <5>1. admitted'[a] = admitted[a] /\ clock' = clock
              BY <1>5, <2>4, <4>2
        <5>2. AdmittedBy(a, clock) - AdmittedBy(a, s - 1) \in Int
          <6>1. \A t \in Int : t <= MaxClock => AdmittedBy(a, t) \in Nat
                BY <1>2, AdmittedForm
          <6>2. AdmittedBy(a, clock) \in Int /\ AdmittedBy(a, s - 1) \in Int
                BY <1>3, <3>2, <6>1
          <6> QED
              BY <6>2
        <5>3. hits[a].count \in Nat /\ hits'[a].count \in Nat /\ hits[a].count <= hits'[a].count
              BY <1>2, <1>3, <2>5, <3>1
        <5> HIDE DEF s
        <5>4. \A t \in Int : t = s => InWindow(a, t)' /\ Stretches(a, t)'
              BY <5>1, <3>3, <5>2, <5>3, AdmittedFrame
        <5>5. Rising(a)' /\ NoneAfter(a, clock)'
              BY <5>1, <2>3, AdmittedFrame
        <5> QED
            BY <5>4, <5>5
      <4> QED
          BY <4>1, <4>2
    <3>5. InWindow(a, hits[a].started)' /\ Stretches(a, hits[a].started)'
      <4>1. \A t \in Int : t = hits'[a].started => InWindow(a, t)' /\ Stretches(a, t)'
            BY <3>2, <3>4
      <4>2. hits'[a].started \in Int
            BY <3>2
      <4> QED
          BY <4>1, <4>2
    <3> QED
        BY <2>5, <3>4, <3>5 DEF AddressSound
  <2> QED
      BY <2>6, <2>7
<1> QED
    BY <1>8, <1>10, <1>11, <1>12 DEF RequestInv

(* Nobody asks: the clock moves, or nothing does. *)
LEMMA RequestFrame ==
  ASSUME RequestInv, WindowInv, UNCHANGED requestVars, clock' \in 0..MaxClock, clock <= clock'
  PROVE  RequestInv'
<1>1. /\ hits' = hits /\ evicted' = evicted /\ admitted' = admitted
      /\ clock \in Int /\ clock' \in Int /\ clock' <= MaxClock /\ MaxClock \in Nat
      /\ oidcStartWindow \in Nat /\ RequestTyped
      BY LimiterAssumption, RequestLimiterAssumption DEF requestVars, WindowInv, RequestInv
<1>2. RequestTyped' /\ IsFiniteSet(Counted)' /\ (Cardinality(Counted) <= requestLimiterMax)'
      BY <1>1 DEF RequestInv, RequestTyped, Counted
<1>3. ASSUME NEW a \in Addresses \ evicted PROVE AddressSound(a)'
  <2>1. AddressSound(a) /\ NoneAfter(a, clock)
        BY DEF RequestInv, AddressSound
  <2>2. PICK now \in Int : now = clock'
        BY <1>1
  <2>3. AdmittedBy(a, now) = AdmittedBy(a, clock) /\ clock <= now /\ now <= MaxClock
        BY <1>1, <2>1, <2>2 DEF NoneAfter
  <2>4. \A t \in Int : AdmittedBy(a, t)' = AdmittedBy(a, t)
        BY <1>1 DEF AdmittedBy
  <2>5. AdmittedBy(a, clock)' = AdmittedBy(a, clock)
        BY <1>1, <2>2, <2>3 DEF AdmittedBy
  <2>6. \A t \in Int : NoneAfter(a, t) => NoneAfter(a, t)'
        BY <2>4, <2>5 DEF NoneAfter
  <2>7. NoneAfter(a, clock)'
        BY <1>1, <2>1, <2>4, <2>5 DEF NoneAfter
  <2>8. Rising(a)'
        BY <2>1, <2>4 DEF AddressSound, Rising
  <2>9. \A s \in Int : LastWindow(a, s) => LastWindow(a, s)'
    <3> SUFFICES ASSUME NEW s \in Int, LastWindow(a, s) PROVE LastWindow(a, s)'
        OBVIOUS
    <3>1. s - 1 \in Int /\ s + oidcStartWindow - 1 \in Int
          BY <1>1
    <3> QED
        BY <2>4, <2>5, <2>6, <3>1 DEF LastWindow
  <2>10. Fresh(a) => Fresh(a)'
    <3> SUFFICES ASSUME Fresh(a) PROVE Fresh(a)'
        OBVIOUS
    <3>1. PICK s \in Int : s + oidcStartWindow <= clock /\ LastWindow(a, s)
          BY DEF Fresh
    <3>2. s + oidcStartWindow <= clock' /\ LastWindow(a, s)'
          BY <1>1, <2>9, <3>1
    <3> QED
        BY <3>2 DEF Fresh
  <2>11. \A t \in Int : Stretches(a, t) => Stretches(a, t)'
    <3>1. \A from \in 0..MaxClock :
            AdmittedIn(a, from, from + oidcStartWindow - 1)' = AdmittedIn(a, from, from + oidcStartWindow - 1)
          BY <1>1, <2>4 DEF AdmittedIn
    <3> QED
        BY <3>1 DEF Stretches
  <2>12. \A s \in Int : InWindow(a, s) => InWindow(a, s)'
    <3> SUFFICES ASSUME NEW s \in Int, InWindow(a, s) PROVE InWindow(a, s)'
        OBVIOUS
    <3>1. s - 1 \in Int /\ s - oidcStartWindow \in Int
          BY <1>1
    <3>2. s <= clock'
          BY <1>1 DEF InWindow
    <3> QED
        BY <1>1, <2>4, <2>5, <2>9, <3>1, <3>2 DEF InWindow
  <2>13. MaxClock + 1 \in Int /\ hits[a].started \in Int
        BY <1>1 DEF RequestTyped, RequestWindows
  <2>14. hits'[a].count = 0 => Fresh(a)' /\ Stretches(a, MaxClock + 1)'
        BY <1>1, <2>1, <2>10, <2>11, <2>13 DEF AddressSound
  <2>15. hits'[a].count > 0 => \A s \in Int : s = hits'[a].started => InWindow(a, s)' /\ Stretches(a, s)'
        BY <1>1, <2>1, <2>11, <2>12 DEF AddressSound
  <2>16. hits'[a].count > 0 => InWindow(a, hits[a].started)' /\ Stretches(a, hits[a].started)'
        BY <1>1, <2>13, <2>15
  <2> QED
      BY <2>7, <2>8, <2>14, <2>16 DEF AddressSound
<1> QED
    BY <1>1, <1>2, <1>3 DEF RequestInv

LEMMA RequestStart ==
  ASSUME RequestsInit, clock = 0
  PROVE  RequestInv
<1>1. NoHits \in RequestWindows /\ NoHits.count = 0
      BY DEF NoHits, RequestWindows
<1>2. RequestTyped /\ \A a \in Addresses : hits[a].count = 0
      BY <1>1 DEF RequestsInit, RequestTyped
<1>3. IsFiniteSet(Counted) /\ Cardinality(Counted) <= requestLimiterMax
  <2>1. Counted = {}
        BY <1>2 DEF Counted
  <2> QED
      BY <2>1, FS_EmptySet, RequestLimiterAssumption
<1>4. ASSUME NEW a \in Addresses PROVE AddressSound(a)
  <2>1. \A t \in Int : t <= MaxClock => AdmittedBy(a, t) = 0
        BY LimiterAssumption DEF AdmittedBy, RequestsInit
  <2>2. /\ MaxClock \in Nat /\ oidcStartWindow \in Nat /\ oidcStartWindow > 0 /\ oidcStartIPLimit \in Nat
        BY LimiterAssumption, RequestLimiterAssumption
  <2>3. AdmittedBy(a, clock) = 0
        BY <2>1, <2>2
  <2>4. Rising(a)
        BY <2>1, <2>2 DEF Rising
  <2>5. \A t \in Int : NoneAfter(a, t)
        BY <2>1, <2>3 DEF NoneAfter
  <2>6. LastWindow(a, 0 - oidcStartWindow)
        BY <2>1, <2>2, <2>3, <2>5 DEF LastWindow
  <2>7. Fresh(a)
        BY <2>2, <2>6 DEF Fresh
  <2>8. Stretches(a, MaxClock + 1)
        BY <2>1, <2>2 DEF Stretches, AdmittedIn
  <2> QED
      BY <1>2, <2>4, <2>5, <2>7, <2>8 DEF AddressSound
<1> QED
    BY <1>2, <1>3, <1>4 DEF RequestInv

LEMMA RequestInvBounds == RequestInv /\ WindowInv => StartsBounded
<1> SUFFICES ASSUME RequestInv, WindowInv PROVE StartsBounded
    OBVIOUS
<1>1. ASSUME NEW a \in Addresses \ evicted PROVE Stretches(a, MaxClock + 1)
      BY <1>1, AllStretches
<1>2. ASSUME NEW a \in Addresses \ evicted, NEW from \in 0..MaxClock, from + oidcStartWindow - 1 <= MaxClock
      PROVE  AdmittedIn(a, from, from + oidcStartWindow - 1) <= 2 * oidcStartIPLimit
  <2>1. from + oidcStartWindow - 1 < MaxClock + 1
        BY <1>2, LimiterAssumption, RequestLimiterAssumption
  <2>2. Stretches(a, MaxClock + 1)
        BY <1>1
  <2> QED
      BY <1>2, <2>1, <2>2 DEF Stretches
<1> QED
    BY <1>2 DEF StartsBounded, RequestInv

-----------------------------------------------------------------------------
(* The whole *)

SignInInv == KeyInv /\ AccountInv /\ WindowInv /\ RequestInv

LEMMA ClockRises ==
  ASSUME WindowInv, AccountsNext
  PROVE  clock \in Nat /\ clock' \in Nat /\ clock <= clock'
<1>1. clock \in Nat
      BY LimiterAssumption DEF WindowInv
<1>2. clock' = clock \/ Tick
      BY DEF AccountsNext, LoginNext, login, RefuseLogin, CreateSession, LoginFails,
             PasswordNext, changePassword, ChangeLocalPassword, RevokeOtherSessions, ChangeFails,
             logout, ExpireSession, limiterVars
<1> QED
    BY <1>1, <1>2 DEF Tick

(* The parts meet in three places: a key is created for a session's user, a *)
(* login counts in the windows, and both limiters share the clock.          *)
LEMMA SignInInductive == SignInInv /\ [Next]_vars => SignInInv'
<1> SUFFICES ASSUME SignInInv, [Next]_vars PROVE SignInInv'
    OBVIOUS
<1> USE DEF SignInInv
<1>0. clock \in 0..MaxClock /\ clock <= clock
      BY LimiterAssumption DEF WindowInv
<1>1. CASE AccountsNext /\ UNCHANGED <<keyVars, requestVars>>
  <2>1. KeyInv' /\ AccountInv' /\ WindowInv'
        BY <1>1, KeyFrame, AccountSteps, WindowSteps
  <2>2. clock <= clock' /\ clock' \in 0..MaxClock
        BY <1>1, <2>1, ClockRises DEF WindowInv
  <2>3. RequestInv'
        BY <1>1, <2>2, RequestFrame
  <2> QED
      BY <2>1, <2>3
<1>2. CASE KeysNext /\ UNCHANGED <<limiterVars, accountVars, requestVars>>
  <2>1. KeyInv' /\ AccountInv' /\ WindowInv'
        BY <1>2, KeySteps, AccountFrame, WindowFrame DEF AccountInv
  <2>2. RequestInv'
        BY <1>0, <1>2, RequestFrame DEF limiterVars
  <2> QED
      BY <2>1, <2>2
<1>3. ASSUME NEW a \in Addresses, allowRequest(a), UNCHANGED <<accountVars, keyVars>>
      PROVE  SignInInv'
  <2>1. UNCHANGED limiterVars
        BY <1>3 DEF allowRequest
  <2>2. KeyInv' /\ AccountInv' /\ WindowInv'
        BY <1>3, <2>1, KeyFrame, AccountFrame, WindowFrame
  <2>3. RequestInv'
        BY <1>3, RequestSteps
  <2> QED
      BY <2>2, <2>3
<1>4. CASE UNCHANGED vars
  <2>1. KeyInv' /\ AccountInv' /\ WindowInv'
        BY <1>4, KeyFrame, AccountFrame, WindowFrame DEF vars
  <2>2. RequestInv'
        BY <1>0, <1>4, RequestFrame DEF vars, limiterVars
  <2> QED
      BY <2>1, <2>2
<1> QED
    BY <1>1, <1>2, <1>3, <1>4 DEF Next

LEMMA SignInStart == Init => SignInInv
<1>1. Init => clock = 0
      BY DEF Init, AccountsInit, LimiterInit
<1> QED
    BY <1>1, KeyStart, AccountStart, WindowStart, RequestStart DEF Init, SignInInv

LEMMA InvTyped == SignInInv => TypeOK
<1> SUFFICES ASSUME SignInInv PROVE TypeOK
    OBVIOUS
<1>1. (\A k \in Keys : attempts[k] \in Windows) /\ clock \in 0..MaxClock
      BY DEF SignInInv, WindowInv
<1>2. /\ \A a \in Addresses : hits[a] \in RequestWindows /\ \A t \in 0..MaxClock : admitted[a][t] \in Nat
      /\ evicted \subseteq Addresses
      BY DEF SignInInv, RequestInv, RequestTyped
<1>3. /\ \A u \in Accounts : password[u] \in Nat /\ settled[u] \in Nat
      /\ \A j \in Jtis : session[j] \in SessionRow
      /\ \A h \in Handlers : sign[h] \in Request
      BY DEF SignInInv, AccountInv, AccountTyped
<1>4. /\ \A u \in Accounts : permissions[u] \subseteq Permissions
      /\ \A h \in Handlers : op[h] \in KeyRequest
      /\ policy \subseteq Permissions
      /\ \A k \in KeyIds : key[k] \in KeyRow /\ rowLock[k] \in Lockers /\ LockSound(k)
      BY DEF SignInInv, KeyInv, KeyTyped
<1> QED
    BY <1>1, <1>2, <1>3, <1>4 DEF TypeOK, LockSound

LEMMA Always == Spec => []SignInInv
<1>1. SignInInv /\ [Next]_vars => SignInInv'
      BY SignInInductive
<1> QED
    BY <1>1, SignInStart, PTL DEF Spec

(* Every variable keeps its type, and a lock on a row is held by a rotation *)
(* of that row (RotateAPIKey, SELECT ... FOR UPDATE).                       *)
THEOREM TypeCorrect == Spec => []TypeOK
BY Always, InvTyped, PTL

(* Of a key and all that it was rotated into, at most one works and none    *)
(* after one was revoked, for any number of handlers that rotate and revoke *)
(* at once (RotateAPIKey, RevokeAPIKey).                                    *)
THEOREM OneLiveKey == Spec => []OneLiveKeyPerLineage
<1>1. SignInInv => OneLiveKeyPerLineage
      BY DEF SignInInv, KeyInv
<1> QED
    BY <1>1, Always, PTL

(* A request with a key may do no more than its owner's roles granted at    *)
(* one moment since it began, and than its lineage was issued with, however *)
(* often the key is rotated, revoked or the roles change meanwhile          *)
(* (AuthenticateAPIKey, GetUser, Principal.Allows).                         *)
THEOREM KeysStayWithinOwner == Spec => []KeyWithinOwner
<1>1. SignInInv => KeyWithinOwner
      BY KeyInvWithin DEF SignInInv
<1> QED
    BY <1>1, Always, PTL

(* A change of password that was answered leaves open the session it was    *)
(* made from, those of the new password, and those of a login that had read *)
(* the hash before (changePassword, RevokeOtherSessions, CreateSession).    *)
THEOREM ChangesEndSessions == Spec => []PasswordChangeEndsSessions
<1>1. SignInInv => PasswordChangeEndsSessions
      BY DEF SignInInv, AccountInv
<1> QED
    BY <1>1, Always, PTL

(* The failures that a window counts exceed its limit by no more than the   *)
(* logins admitted together, and the map of windows its own by no more than *)
(* two (allow, failed, prune).                                              *)
THEOREM LockoutAlwaysHolds == Spec => []LockoutHolds
<1>1. SignInInv => LockoutHolds
      BY WindowInvBounds DEF SignInInv
<1> QED
    BY <1>1, Always, PTL

(* In any stretch as long as a window an address that kept its window has   *)
(* no more than two windows' worth of requests let through, and the map     *)
(* does not outgrow its limit (requestLimiter.allow, prune).              *)
THEOREM StartsStayBounded == Spec => []StartsBounded
<1>1. SignInInv => StartsBounded
      BY RequestInvBounds DEF SignInInv
<1> QED
    BY <1>1, Always, PTL
=============================================================================
