--------------------------- MODULE RequestLimiter ---------------------------
(***************************************************************************)
(* The limiter of anonymous requests that start an OIDC login              *)
(* (api/request_limiter.go): it counts every request of an address in a    *)
(* window that begins with the first of them, refused ones included.  The  *)
(* addresses and the clock are those of the login limiter.                 *)
(***************************************************************************)
EXTENDS LoginLimiter

CONSTANTS
  oidcStartWindow,
  oidcStartIPLimit,
  requestLimiterMax,
  MaxCount            \* bound on the count of one window

ASSUME RequestLimiterAssumption ==
  /\ oidcStartWindow \in Nat \ {0}
  /\ oidcStartIPLimit \in Nat \ {0}
  /\ requestLimiterMax \in Nat \ {0}
  /\ MaxCount \in Nat

VARIABLES
  hits,       \* the window of each address; NoHits for one not in the map
  evicted,    \* history: addresses that lost a window that had not expired
  admitted    \* history: how many requests of the others were let through by each instant

requestVars == <<hits, evicted, admitted>>

NoHits == [started |-> 0, count |-> 0]
Counted == {a \in Addresses : hits[a].count > 0}
WindowOver(a) == clock - hits[a].started >= oidcStartWindow
CountedNow == {a \in Counted : ~WindowOver(a)}

(* The addresses that pruning may leave, by the rule of loginLimiter.prune. *)
pruneHits ==
  IF Cardinality(Counted) < requestLimiterMax THEN {Counted}
  ELSE {kept \in SUBSET CountedNow :
          /\ Cardinality(kept) < requestLimiterMax
          /\ kept = CountedNow \/ Cardinality(kept) = requestLimiterMax - 1
          /\ \A k \in kept, d \in CountedNow \ kept : hits[d].started <= hits[k].started}

(* Mutant: the request is compared before it is counted. *)
AdmitsBeforeCounting(count) == count - 1 <= oidcStartIPLimit

Admits(count) == count <= oidcStartIPLimit

OneMore(a) == [t \in 0..MaxClock |-> admitted[a][t] + (IF t < clock THEN 0 ELSE 1)]

allowRequest(a) ==
  /\ \E kept \in pruneHits :
       LET count == IF a \in kept /\ ~WindowOver(a) THEN hits[a].count + 1 ELSE 1
       IN
       /\ count <= MaxCount
       /\ hits' = [b \in Addresses |->
            CASE b = a -> [started |-> IF count = 1 THEN clock ELSE hits[a].started,
                           count |-> count]
              [] b \in kept \ {a} -> hits[b]
              [] OTHER -> NoHits]
       /\ evicted' = evicted \cup (CountedNow \ kept)
       /\ admitted' = IF Admits(count) /\ a \notin evicted'
                      THEN [admitted EXCEPT ![a] = OneMore(a)] ELSE admitted
  /\ UNCHANGED limiterVars

RequestsInit ==
  /\ hits = [a \in Addresses |-> NoHits]
  /\ admitted = [a \in Addresses |-> [t \in 0..MaxClock |-> 0]]
  /\ evicted = {}

-----------------------------------------------------------------------------
(* Requests of an address that were let through from one time to another. *)
AdmittedBy(a, t) == IF t < 0 THEN 0 ELSE admitted[a][t]
AdmittedIn(a, from, to) == AdmittedBy(a, to) - AdmittedBy(a, from - 1)

(* The map never outgrows its limit; and in any stretch as long as a        *)
(* window, wherever it lies, at most two windows' worth of requests of one  *)
(* address is let through, unless the address lost its window to others     *)
(* (allow, prune: refused requests neither extend a window nor renew it).   *)
StartsBounded ==
  /\ Cardinality(Counted) <= requestLimiterMax
  /\ \A a \in Addresses \ evicted, from \in 0..MaxClock :
       from + oidcStartWindow - 1 <= MaxClock =>
         AdmittedIn(a, from, from + oidcStartWindow - 1) <= 2 * oidcStartIPLimit
=============================================================================
