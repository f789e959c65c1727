------------------------------ MODULE ApiKeys ------------------------------
(***************************************************************************)
(* Personal API keys: issuing, rotating, revoking and using them           *)
(* (api/core_handlers.go, api/key_policy.go, store/users.go,               *)
(* store/api_key_rotation.go).                                             *)
(*                                                                         *)
(* Keys are managed from a browser session only.  Every request, with a    *)
(* session or with a key, reads the permissions of its account once, after *)
(* the session or the key was found to be valid, and is decided on what it *)
(* read.  A set of permissions stands for everything its wildcards cover.  *)
(* A key that has run out is one that is no longer used: rotating or       *)
(* revoking it does not look at the time.                                  *)
(***************************************************************************)
EXTENDS Accounts

CONSTANTS
  Permissions,
  MaxKeys       \* bound: keys ever issued

ASSUME ApiKeysAssumption == MaxKeys \in Nat

VARIABLES
  key,          \* rows of api_keys by id
  rowLock,      \* the handler whose transaction has locked a row; Nobody if none
  policy,       \* key_permissions of the security settings; {} allows all
  permissions,  \* what the roles of each account grant now
  op            \* each handler's request about or with a key

keyVars == <<key, rowLock, policy, permissions, op>>

KeyIds == 1 .. MaxKeys

(* History: "root" is the key that a series of rotations started from. *)
NoKey == [owner |-> Nobody, scopes |-> {}, status |-> "none", root |-> 0]

(* A request: "granted" are the permissions it read, "id" the key it is     *)
(* about or made with, "scopes" those it asks for or has by its key.        *)
(* History: "seen" is what the roles of a key's owner granted, one set for  *)
(* each state of the roles, from the start of the request until it read     *)
(* them.                                                                    *)
Quiet == [step |-> "idle", user |-> Nobody, granted |-> {}, scopes |-> {}, id |-> 0, seen |-> {}]

Exists(k) == key[k].status # "none"
FreeId(k) == ~Exists(k) /\ \A i \in 1..(k - 1) : Exists(i)

(* The policy as a set of permissions. *)
Allowed == IF policy = {} THEN Permissions ELSE policy

(* ScopesWithinPermissions *)
Within(scopes, granted) == scopes # {} /\ scopes \subseteq granted

(* AuthenticateRequest with a session: its token and its row. *)
AuthenticateRequest(h, j) ==
  /\ op[h] = Quiet
  /\ SessionActive(j)
  /\ op' = [op EXCEPT ![h] = [Quiet EXCEPT !.step = "account", !.user = session[j].user]]
  /\ UNCHANGED <<key, rowLock, policy, permissions>>

(* AuthenticateRequest with a key: the key's row and its scopes. *)
AuthenticateAPIKey(h, k) ==
  /\ op[h] = Quiet
  /\ key[k].status = "active"
  /\ op' = [op EXCEPT ![h] = [Quiet EXCEPT !.step = "touch", !.user = key[k].owner,
                                           !.scopes = key[k].scopes, !.id = k,
                                           !.seen = {permissions[key[k].owner]}]]
  /\ UNCHANGED <<key, rowLock, policy, permissions>>

(* UPDATE last_used_at: waits for the row, whatever becomes of the key. *)
TouchKey(h) ==
  /\ op[h].step = "touch"
  /\ rowLock[op[h].id] = Nobody
  /\ op' = [op EXCEPT ![h].step = "account"]
  /\ UNCHANGED <<key, rowLock, policy, permissions>>

(* Mutant: whoever shows a key is given what the key was issued with. *)
GetUserByScopes(h) ==
  /\ op[h].step = "account"
  /\ op' = [op EXCEPT ![h].step = IF op[h].id = 0 THEN "manage" ELSE "use",
                      ![h].granted = IF op[h].id = 0 THEN permissions[op[h].user] ELSE op[h].scopes]
  /\ UNCHANGED <<key, rowLock, policy, permissions>>

(* The account and, in one statement, the permissions its roles grant; the  *)
(* rest of the request looks at these only.                                 *)
GetUser(h) ==
  /\ op[h].step = "account"
  /\ op' = [op EXCEPT ![h].step = IF op[h].id = 0 THEN "manage" ELSE "use",
                      ![h].granted = permissions[op[h].user]]
  /\ UNCHANGED <<key, rowLock, policy, permissions>>

(* applyAPIKeyPolicy: the scopes have to be within the permissions read at  *)
(* the start and within the policy as it is now.                            *)
applyAPIKeyPolicy(h, scopes) ==
  Within(scopes, op[h].granted) /\ scopes \subseteq Allowed

keyCreate(h, scopes) ==
  /\ op[h].step = "manage"
  /\ applyAPIKeyPolicy(h, scopes)
  /\ op' = [op EXCEPT ![h] = [Quiet EXCEPT !.step = "insert", !.user = op[h].user,
                                           !.scopes = scopes]]
  /\ UNCHANGED <<key, rowLock, policy, permissions>>

CreateAPIKey(h, k) ==
  /\ op[h].step = "insert"
  /\ FreeId(k)
  /\ key' = [key EXCEPT ![k] = [owner |-> op[h].user, scopes |-> op[h].scopes, status |-> "active",
                                root |-> k]]
  /\ op' = [op EXCEPT ![h] = Quiet]
  /\ UNCHANGED <<rowLock, policy, permissions>>

(* A key of whatever status may be named. *)
keyRotate(h, k) ==
  /\ op[h].step = "manage"
  /\ Exists(k) /\ key[k].owner = op[h].user
  /\ applyAPIKeyPolicy(h, key[k].scopes)
  /\ op' = [op EXCEPT ![h] = [Quiet EXCEPT !.step = "select", !.user = op[h].user, !.id = k]]
  /\ UNCHANGED <<key, rowLock, policy, permissions>>

(* SELECT ... FOR UPDATE of an active key: waits for the row. *)
SelectForUpdate(h) ==
  /\ op[h].step = "select"
  /\ rowLock[op[h].id] = Nobody
  /\ key[op[h].id].status = "active"
  /\ rowLock' = [rowLock EXCEPT ![op[h].id] = h]
  /\ op' = [op EXCEPT ![h].step = "rotate"]
  /\ UNCHANGED <<key, policy, permissions>>

(* The successor takes owner and scopes from the row that is locked. *)
Successor(row) == [owner |-> row.owner, scopes |-> row.scopes, status |-> "active", root |-> row.root]

(* Mutant: the successor is inserted and the old key left to be revoked. *)
RotateInsertsOnly(h, k) ==
  LET old == op[h].id
  IN
  /\ op[h].step = "rotate"
  /\ FreeId(k)
  /\ key' = [key EXCEPT ![k] = Successor(key[old])]
  /\ rowLock' = [rowLock EXCEPT ![old] = Nobody]
  /\ op' = [op EXCEPT ![h] = Quiet]
  /\ UNCHANGED <<policy, permissions>>

(* Both rows are committed together. *)
RotateAPIKey(h, k) ==
  LET old == op[h].id
  IN
  /\ op[h].step = "rotate"
  /\ FreeId(k)
  /\ key' = [key EXCEPT ![old].status = "rotated", ![k] = Successor(key[old])]
  /\ rowLock' = [rowLock EXCEPT ![old] = Nobody]
  /\ op' = [op EXCEPT ![h] = Quiet]
  /\ UNCHANGED <<policy, permissions>>

(* UPDATE ... WHERE status='active': waits for the row like a rotation. *)
RevokeAPIKey(h, k) ==
  /\ op[h].step = "manage"
  /\ key[k].owner = op[h].user
  /\ rowLock[k] = Nobody
  /\ key[k].status = "active"
  /\ key' = [key EXCEPT ![k].status = "revoked"]
  /\ op' = [op EXCEPT ![h] = Quiet]
  /\ UNCHANGED <<rowLock, policy, permissions>>

(* Mutant: the transaction is left open. *)
EndKeepsLock(h) ==
  /\ op[h] # Quiet
  /\ op' = [op EXCEPT ![h] = Quiet]
  /\ UNCHANGED <<key, rowLock, policy, permissions>>

(* A request with a key is answered; one about keys is refused, finds the   *)
(* key no longer active or fails, and its transaction rolls back.           *)
EndRequest(h) ==
  /\ op[h] # Quiet
  /\ rowLock' = [k \in KeyIds |-> IF rowLock[k] = h THEN Nobody ELSE rowLock[k]]
  /\ op' = [op EXCEPT ![h] = Quiet]
  /\ UNCHANGED <<key, policy, permissions>>

-----------------------------------------------------------------------------
(* What a request with a key may do: what its owner's roles granted when    *)
(* they were read, within the scopes of the key (Principal.Allows).         *)
Allows(h, p) ==
  /\ op[h].step = "use"
  /\ p \in op[h].granted
  /\ p \in op[h].scopes

-----------------------------------------------------------------------------
(* Roles and the security settings change. *)
Reading(h) == op[h].step \in {"touch", "account"} /\ op[h].id # 0

ChangeRoles(u, granted) ==
  /\ permissions' = [permissions EXCEPT ![u] = granted]
  /\ op' = [h \in Handlers |-> IF Reading(h) /\ op[h].user = u
                                THEN [op[h] EXCEPT !.seen = @ \cup {granted}] ELSE op[h]]
  /\ UNCHANGED <<key, rowLock, policy>>

ChangePolicy(allowed) ==
  /\ policy' = allowed
  /\ UNCHANGED <<key, rowLock, permissions, op>>

KeysInit ==
  /\ key = [k \in KeyIds |-> NoKey]
  /\ rowLock = [k \in KeyIds |-> Nobody]
  /\ policy = {}
  /\ permissions = [u \in Accounts |-> Permissions]
  /\ op = [h \in Handlers |-> Quiet]

ManageNext(h) ==
  \/ \E scopes \in SUBSET Permissions : keyCreate(h, scopes)
  \/ \E k \in KeyIds : CreateAPIKey(h, k) \/ keyRotate(h, k) \/ RotateAPIKey(h, k) \/ RevokeAPIKey(h, k)
  \/ SelectForUpdate(h)

AuthNext(h) ==
  \/ \E j \in Jtis : AuthenticateRequest(h, j)
  \/ \E k \in KeyIds : AuthenticateAPIKey(h, k)
  \/ TouchKey(h)
  \/ GetUser(h)

KeysNext ==
  \/ \E h \in Handlers : AuthNext(h) \/ ManageNext(h) \/ EndRequest(h)
  \/ \E u \in Accounts, granted \in SUBSET Permissions : ChangeRoles(u, granted)
  \/ \E allowed \in SUBSET Permissions : ChangePolicy(allowed)
=============================================================================
