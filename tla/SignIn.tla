------------------------------- MODULE SignIn -------------------------------
(***************************************************************************)
(* Accounts, sessions, API keys and the limiters together.                 *)
(***************************************************************************)
EXTENDS ApiKeys, RequestLimiter

vars == <<limiterVars, requestVars, accountVars, keyVars>>

Init == AccountsInit /\ KeysInit /\ RequestsInit

Next ==
  \/ AccountsNext /\ UNCHANGED <<keyVars, requestVars>>
  \/ KeysNext /\ UNCHANGED <<limiterVars, accountVars, requestVars>>
  \/ \E a \in Addresses : allowRequest(a) /\ UNCHANGED <<accountVars, keyVars>>

Spec == Init /\ [][Next]_vars

-----------------------------------------------------------------------------
Windows == [windowStarted : Nat, failures : Nat]
RequestWindows == [started : Nat, count : Nat]
SessionRow == [user : Accounts \cup {Nobody}, status : {"none", "open", "revoked", "expired"},
               opened : Nat, held : Nat, vouched : Nat]
Request == [step : {"idle", "login", "write", "revoke"}, user : Accounts \cup {Nobody},
            ip : Addresses \cup {Nobody}, typed : Nat, hash : Nat, jti : 0..MaxSessions]
KeyRow == [owner : Accounts \cup {Nobody}, scopes : SUBSET Permissions,
           status : {"none", "active", "revoked", "rotated"}, root : 0..MaxKeys]
KeyRequest == [step : {"idle", "touch", "account", "manage", "insert", "select", "rotate", "use"},
               user : Accounts \cup {Nobody}, granted : SUBSET Permissions,
               scopes : SUBSET Permissions, id : 0..MaxKeys, seen : SUBSET (SUBSET Permissions)]
Lockers == Handlers \cup {Nobody}

(* Every variable keeps its type; a row is locked by a rotation only. *)
TypeOK ==
  /\ \A k \in Keys : attempts[k] \in Windows
  /\ \A a \in Addresses : hits[a] \in RequestWindows /\ \A t \in 0..MaxClock : admitted[a][t] \in Nat
  /\ clock \in 0..MaxClock /\ evicted \subseteq Addresses
  /\ \A u \in Accounts :
       password[u] \in Nat /\ settled[u] \in Nat /\ permissions[u] \subseteq Permissions
  /\ \A j \in Jtis : session[j] \in SessionRow
  /\ \A h \in Handlers : sign[h] \in Request /\ op[h] \in KeyRequest
  /\ policy \subseteq Permissions
  /\ \A k \in KeyIds :
       /\ key[k] \in KeyRow /\ rowLock[k] \in Lockers
       /\ rowLock[k] # Nobody => op[rowLock[k]].step = "rotate" /\ op[rowLock[k]].id = k

(* However many logins are under way at once, the failures that a window    *)
(* counts exceed its limit by no more than the logins that were admitted    *)
(* together (allow, failed; ADMIN_GUIDE.md:580); and the map of windows     *)
(* outgrows its limit by the two further keys of the failure that reaches   *)
(* it, and no more (prune is called once per failure).                      *)
LockoutHolds ==
  /\ \A k \in Keys : attempts[k].failures < loginLimit(k) + Cardinality(Handlers)
  /\ Cardinality(Tracked) <= loginLimiterMax + 2

(* Once a change of password is answered, the sessions still open are the   *)
(* one it was made from, those opened with the new password, and those of a *)
(* login that read the hash before the change and made its session after    *)
(* it: CreateSession does not look at the password again.                   *)
PasswordChangeEndsSessions ==
  \A j \in Jtis : SessionActive(j) =>
    \/ session[j].vouched >= settled[session[j].user]
    \/ session[j].held # session[j].opened

(* Of a key and all that it was rotated into, at most one works, and none   *)
(* once one was revoked, whatever rotations and revocations race            *)
(* (RotateAPIKey: "can never leave two active copies").                     *)
OneLiveKeyPerLineage ==
  \A k, l \in KeyIds :
    k # l /\ key[k].status = "active" /\ Exists(l) /\ key[l].root = key[k].root =>
      key[l].status = "rotated"

(* What a request with a key may do is within the scopes that the first key *)
(* of the lineage was issued with, whatever series of rotations came after, *)
(* and within what its owner's roles granted, all together, at one moment   *)
(* since the request began: a role taken away before counts for nothing, and *)
(* what came and went at different times is not added up                    *)
(* (AuthenticateAPIKey, Principal.Allows; ADMIN_GUIDE.md:358).              *)
KeyWithinOwner ==
  \A h \in Handlers : op[h].step = "use" =>
    \E held \in op[h].seen : \A p \in Permissions :
      Allows(h, p) => p \in held /\ p \in key[key[op[h].id].root].scopes
=============================================================================
