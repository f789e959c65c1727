-------------------------------- MODULE Rbac --------------------------------
(***************************************************************************)
(* Roles, their permissions and the bindings of roles to users: SaveRole,  *)
(* DeleteRole, SetUserRoleBindings and the scope cleanup of DeleteHub.     *)
(*                                                                         *)
(* Every mutation is one transaction under the advisory lock of RBAC and   *)
(* checks there, against what is stored at that moment, that the actor may *)
(* make it.  The HTTP handlers check the same beforehand on what they read *)
(* earlier; that can only refuse more, so a request is its transaction     *)
(* here.  A binding is global or restricted to Hubs and departments.       *)
(***************************************************************************)
EXTENDS Integers, FiniteSets

CONSTANTS
  Users,        \* accounts
  Bootstrap,    \* the account Seed creates
  Active,       \* accounts that are active; no code changes that
  Hubs,         \* ids of Hubs
  Departments,
  Permissions,  \* permission names, those the code names among them
  GroupCovers,  \* pairs of a group wildcard and a permission it covers
  PermissionSets, \* sets of permissions a role is given
  MaxRoles,     \* bound: ids of roles
  Nobody        \* no account

ASSUME RbacAssumption ==
  /\ Bootstrap \in Active /\ Active \subseteq Users /\ Nobody \notin Users
  /\ {"*", "roles:write", "profile:read"} \subseteq Permissions
  /\ GroupCovers \subseteq (Permissions \ {"*"}) \X (Permissions \ {"*"})
  /\ {"*"} \in PermissionSets /\ PermissionSets \subseteq (SUBSET Permissions) \ {{}}
  /\ MaxRoles \in Nat /\ MaxRoles >= 2

VARIABLES
  role,     \* role[r]: its permissions; none when there is no such role
  binding,  \* binding[u][r]: how role r is bound to user u
  known,    \* accounts that have a row in users
  hubs,     \* ids of registered Hubs
  actor     \* history: who made the last change, Nobody for the system

vars == <<role, binding, known, hubs, actor>>

Roles == 1 .. MaxRoles
SuperAdmin == 1
UserRole == 2
SystemRoles == {SuperAdmin, UserRole}
Unbound == [mode |-> "none", hubs |-> {}, departments |-> {}]
Global == [mode |-> "global", hubs |-> {}, departments |-> {}]
Binding == [mode: {"none", "global", "restricted"}, hubs: SUBSET Hubs,
            departments: SUBSET Departments]

TypeOK ==
  /\ role \in [Roles -> SUBSET Permissions]
  /\ role[SuperAdmin] = {"*"}
  /\ binding \in [Users -> [Roles -> Binding]]
  /\ \A u \in Users, r \in Roles :
       binding[u][r].mode # "restricted" => binding[u][r] \in {Unbound, Global}
  /\ known \subseteq Users
  /\ hubs \subseteq Hubs
  /\ actor \in Users \cup {Nobody}

(***************************************************************************)
(* Permissions                                                             *)
(***************************************************************************)
EnsurePermission(held, required) ==
  \E p \in held : p = "*" \/ p = required \/ <<p, required>> \in GroupCovers

BoundRoles(u, modes) == {r \in Roles : binding[u][r].mode \in modes}
PermissionsOf(rs) == UNION {role[r] : r \in rs}
AssignedPermissions(u) == PermissionsOf(BoundRoles(u, {"global", "restricted"}))
GlobalPermissions(u) == PermissionsOf(BoundRoles(u, {"global"}))

(* The permissions the global roles of a cover: permissionsWithinCeiling. *)
Ceiling(a) == {p \in Permissions : EnsurePermission(GlobalPermissions(a), p)}

(* roleMutationActorCeiling *)
MayMutateRoles(a) == a \in known \cap Active /\ "roles:write" \in Ceiling(a)

Administers(u, rs) ==
  u \in known \cap Active /\ \E r \in rs : binding[u][r].mode = "global" /\ "*" \in role[r]

(* wildcardRoleRemovalWouldLockOut *)
RemovalCountsRestricted(r) ==
  /\ \E u \in known \cap Active : binding[u][r].mode # "none"
  /\ ~\E u \in known \cap Active, o \in Roles \ {r} : binding[u][o].mode # "none" /\ "*" \in role[o]
WildcardRoleRemovalWouldLockOut(r) ==
  /\ \E u \in known \cap Active : binding[u][r].mode = "global"
  /\ ~\E u \in Users : Administers(u, Roles \ {r})

(***************************************************************************)
(* Start-up: Seed restores the two system roles and the binding of the     *)
(* bootstrap account, unless it is bound to the role in some way.          *)
(***************************************************************************)
Init ==
  /\ role = [r \in Roles |-> IF r = SuperAdmin THEN {"*"}
                             ELSE IF r = UserRole THEN {"profile:read"} ELSE {}]
  /\ binding = [u \in Users |-> [r \in Roles |->
                  IF u = Bootstrap /\ r = SuperAdmin THEN Global ELSE Unbound]]
  /\ known = {Bootstrap}
  /\ hubs = Hubs
  /\ actor = Nobody

Seed ==
  /\ binding' = [binding EXCEPT ![Bootstrap][SuperAdmin] = IF @ = Unbound THEN Global ELSE @]
  /\ actor' = Nobody
  /\ UNCHANGED <<role, known, hubs>>

(* UpsertOIDCUser creates the account with the default role. *)
CreateUser(u) ==
  /\ u \notin known
  /\ known' = known \cup {u}
  /\ binding' = [binding EXCEPT ![u][UserRole] = Global]
  /\ actor' = Nobody
  /\ UNCHANGED <<role, hubs>>

(***************************************************************************)
(* Mutations                                                               *)
(***************************************************************************)
AnyCeiling(a, permissions) == TRUE
UnderCeiling(a, permissions) == permissions \subseteq Ceiling(a)

(* super_admin keeps its one permission. *)
AnyPermissions(r, permissions) == TRUE
MayHave(r, permissions) == r = SuperAdmin => permissions = {"*"}

CreateRole(a, r, permissions) ==
  /\ MayMutateRoles(a)
  /\ UnderCeiling(a, permissions)
  /\ role[r] = {}
  /\ role' = [role EXCEPT ![r] = permissions]
  /\ actor' = a
  /\ UNCHANGED <<binding, known, hubs>>

SaveRole(a, r, permissions) ==
  /\ MayMutateRoles(a)
  /\ UnderCeiling(a, permissions)
  /\ role[r] # {}
  /\ UnderCeiling(a, role[r])
  /\ MayHave(r, permissions)
  /\ "*" \in role[r] /\ "*" \notin permissions => ~WildcardRoleRemovalWouldLockOut(r)
  /\ role' = [role EXCEPT ![r] = permissions]
  /\ actor' = a
  /\ UNCHANGED <<binding, known, hubs>>

(* The bindings of the role go with it. *)
DeleteRole(a, r) ==
  /\ MayMutateRoles(a)
  /\ role[r] # {}
  /\ r \notin SystemRoles
  /\ UnderCeiling(a, role[r])
  /\ "*" \in role[r] => ~WildcardRoleRemovalWouldLockOut(r)
  /\ role' = [role EXCEPT ![r] = {}]
  /\ binding' = [u \in Users |-> [binding[u] EXCEPT ![r] = Unbound]]
  /\ actor' = a
  /\ UNCHANGED <<known, hubs>>

(* The last active administrator cannot be unbound. *)
LosesLastAdministrator(u, new) ==
  /\ Administers(u, Roles)
  /\ ~\E r \in Roles : new[r].mode = "global" /\ "*" \in role[r]
  /\ ~\E v \in Users \ {u} : Administers(v, Roles)

ReplaceBindings(a, u, new) ==
  LET selected == {r \in Roles : new[r].mode # "none"}
  IN  /\ MayMutateRoles(a)
      /\ u \in known
      /\ \A r \in selected : role[r] # {} /\ new[r].hubs \subseteq hubs
      /\ UnderCeiling(a, AssignedPermissions(u))
      /\ UnderCeiling(a, PermissionsOf(selected))
      /\ ~LosesLastAdministrator(u, new)
      /\ binding' = [binding EXCEPT ![u] = new]
      /\ actor' = a
      /\ UNCHANGED <<role, known, hubs>>

(* normalizeRoleBindings: a restricted binding names a Hub or a department. *)
NormalBindings == {Unbound, Global} \cup
  {b \in Binding : b.mode = "restricted" /\ (b.hubs # {} \/ b.departments # {})}

SetUserRoleBindings(a, u, new) == ReplaceBindings(a, u, new)

(* role_ids: a client that knows no scopes must not drop them. *)
SetUserRoles(a, u, rs) ==
  /\ BoundRoles(u, {"restricted"}) = {}
  /\ ReplaceBindings(a, u, [r \in Roles |-> IF r \in rs THEN Global ELSE Unbound])

(* DeleteHub drops the clauses that name the Hub. *)
DeleteHub(h) ==
  /\ h \in hubs
  /\ hubs' = hubs \ {h}
  /\ binding' = [u \in Users |-> [r \in Roles |-> [binding[u][r] EXCEPT !.hubs = @ \ {h}]]]
  /\ actor' = Nobody
  /\ UNCHANGED <<role, known>>

Next ==
  \/ Seed
  \/ \E u \in Users : CreateUser(u)
  \/ \E h \in Hubs : DeleteHub(h)
  \/ \E a \in Users, r \in Roles :
       \/ DeleteRole(a, r)
       \/ \E permissions \in PermissionSets : CreateRole(a, r, permissions) \/ SaveRole(a, r, permissions)
  \/ \E a, u \in Users :
       \/ \E new \in [Roles -> NormalBindings] : SetUserRoleBindings(a, u, new)
       \/ \E rs \in SUBSET Roles : SetUserRoles(a, u, rs)

Spec == Init /\ [][Next]_vars

-----------------------------------------------------------------------------
(* Properties *)

(* Somebody active holds every permission globally: no sequence of role      *)
(* edits, deletions and reassignments, by any number of administrators,      *)
(* locks everyone out.                                                       *)
AdministratorRemains == \E u \in Users : Administers(u, Roles)

(* Nobody changes what lies above them: each permission that any user gains  *)
(* or loses through a mutation was covered by the global permissions of the  *)
(* actor at that moment, though it may reach the user through a role.        *)
Changed(u) == (AssignedPermissions(u)' \ AssignedPermissions(u))
              \cup (AssignedPermissions(u) \ AssignedPermissions(u)')
CeilingRespected ==
  [][\A a \in Users : actor' = a => \A u \in Users : Changed(u) \subseteq Ceiling(a)]_vars

(* What a user may do to a target on Hub h in department d: AllowsTarget. *)
AllowsTarget(u, p, h, d) ==
  \/ EnsurePermission(GlobalPermissions(u), p)
  \/ \E r \in BoundRoles(u, {"restricted"}) : LET b == binding[u][r] IN
       /\ EnsurePermission(role[r], p)
       /\ b.hubs # {} \/ b.departments # {}
       /\ b.hubs # {} => h \in b.hubs
       /\ b.departments # {} => d \in b.departments

(* Taking a Hub away widens nobody's reach: clauses of the deleted Hub are   *)
(* removed so that no authorization outlives it.                             *)
RemovalNarrows ==
  [][hubs' # hubs =>
       \A u \in Users, p \in Permissions, h \in hubs', d \in Departments :
         AllowsTarget(u, p, h, d)' => AllowsTarget(u, p, h, d)]_vars
=============================================================================
