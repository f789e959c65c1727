--------------------------- MODULE OidcProviders ---------------------------
(***************************************************************************)
(* The cache of discovered OIDC providers (auth/oidc_provider.go).         *)
(*                                                                         *)
(* A caller joins the discovery in flight for its key or starts one, and   *)
(* waits for its entry; the discovery runs detached from the callers, with *)
(* a deadline, and never stays in the cache when it fails.  A key stands   *)
(* for an issuer and its TLS verification.  Entries are numbered in the    *)
(* order in which they were created.                                       *)
(***************************************************************************)
EXTENDS Naturals, FiniteSets

CONSTANTS
  Issuers,      \* keys of the cache
  Callers,      \* requests that start or finish a login
  MaxEntries    \* bound: discoveries ever started

ASSUME ProvidersAssumption == MaxEntries \in Nat

VARIABLES
  cached,    \* the entry of each key, 0 if none
  entry,     \* entries by number
  waiting,   \* the entry each caller waits for, 0 if none
  floor,     \* history: entries of a key up to this one were forgotten
  since      \* history: the floor of its key when a caller asked

providerVars == <<cached, entry, waiting, floor, since>>

EntryIds == 1 .. MaxEntries

(* "state" of an entry: its discovery runs, has its result under the mutex, *)
(* or has closed ready.                                                     *)
NoEntry == [key |-> "none", state |-> "none", ok |-> FALSE, expired |-> FALSE]
Started == {e \in EntryIds : entry[e].state # "none"}
InFlight == {e \in EntryIds : entry[e].state \in {"discovering", "resolved"}}
Ready(e) == entry[e].state = "ready"

(* evictExpiredLocked: finished entries past their time; in-flight ones     *)
(* are left alone.                                                          *)
Evicted == [k \in Issuers |-> IF cached[k] # 0 /\ Ready(cached[k]) /\ entry[cached[k]].expired
                              THEN 0 ELSE cached[k]]

(* Join the entry of the key, or start a discovery. *)
Join(c, k) ==
  /\ Evicted[k] # 0
  /\ cached' = Evicted
  /\ waiting' = [waiting EXCEPT ![c] = Evicted[k]]
  /\ UNCHANGED entry

Discover(c, k, e) ==
  /\ Evicted[k] = 0
  /\ e \notin Started /\ \A d \in 1..(e - 1) : d \in Started
  /\ entry' = [entry EXCEPT ![e] = [key |-> k, state |-> "discovering", ok |-> FALSE, expired |-> FALSE]]
  /\ cached' = [Evicted EXCEPT ![k] = e]
  /\ waiting' = [waiting EXCEPT ![c] = e]

get(c, k) ==
  /\ waiting[c] = 0
  /\ Join(c, k) \/ \E e \in EntryIds : Discover(c, k, e)
  /\ since' = [since EXCEPT ![c] = floor[k]]
  /\ UNCHANGED floor

Served(c) == waiting[c] # 0 /\ Ready(waiting[c]) /\ entry[waiting[c]].ok
Refused(c) == waiting[c] # 0 /\ Ready(waiting[c]) /\ ~entry[waiting[c]].ok

(* A caller goes on, with its answer or because its request was given up. *)
Leave(c) ==
  /\ waiting' = [waiting EXCEPT ![c] = 0]
  /\ UNCHANGED <<cached, entry, floor, since>>

(* Mutant: a failed discovery clears its key, whoever holds it now. *)
DropKey(e) == [cached EXCEPT ![entry[e].key] = 0]

(* A failed discovery is dropped, unless its key was forgotten and taken    *)
(* over meanwhile.                                                          *)
DropOwn(e) == IF cached[entry[e].key] = e THEN [cached EXCEPT ![entry[e].key] = 0] ELSE cached

(* Mutant: what was discovered is cached, whatever happened meanwhile. *)
KeepResult(e) == [cached EXCEPT ![entry[e].key] = e]

(* A provider that was discovered leaves the map as it is. *)
KeepCache(e) == cached

resolve(e, ok) ==
  /\ entry[e].state = "discovering"
  /\ entry' = [entry EXCEPT ![e].state = "resolved", ![e].ok = ok]
  /\ cached' = IF ok THEN KeepCache(e) ELSE DropOwn(e)
  /\ UNCHANGED <<waiting, floor, since>>

(* Mutant: only a discovery that worked is announced. *)
CloseWhenOk(e) == entry[e].state = "resolved" /\ entry[e].ok

MayClose(e) == entry[e].state = "resolved"

CloseReady(e) ==
  /\ MayClose(e)
  /\ entry' = [entry EXCEPT ![e].state = "ready"]
  /\ UNCHANGED <<cached, waiting, floor, since>>

(* Ten minutes pass. *)
Expire(e) ==
  /\ entry[e].state \in {"resolved", "ready"} /\ entry[e].ok /\ ~entry[e].expired
  /\ entry' = [entry EXCEPT ![e].expired = TRUE]
  /\ UNCHANGED <<cached, waiting, floor, since>>

Newest(k) == IF \E e \in Started : entry[e].key = k
             THEN CHOOSE e \in Started : entry[e].key = k /\ \A d \in Started : entry[d].key = k => d <= e
             ELSE 0

forget(k) ==
  /\ cached' = [cached EXCEPT ![k] = 0]
  /\ floor' = [floor EXCEPT ![k] = Newest(k)]
  /\ UNCHANGED <<entry, since>>

ProvidersInit ==
  /\ cached = [k \in Issuers |-> 0]
  /\ entry = [e \in EntryIds |-> NoEntry]
  /\ waiting = [c \in Callers |-> 0]
  /\ floor = [k \in Issuers |-> 0]
  /\ since = [c \in Callers |-> 0]

Discovery(e) ==
  \/ \E ok \in BOOLEAN : resolve(e, ok)
  \/ CloseReady(e)
=============================================================================
