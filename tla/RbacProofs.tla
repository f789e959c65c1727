----------------------------- MODULE RbacProofs -----------------------------
(***************************************************************************)
(* Proofs about Rbac, for any accounts, permissions, Hubs and roles.       *)
(***************************************************************************)
EXTENDS Rbac, TLAPS

LEMMA SystemRolesExist == SuperAdmin \in Roles /\ UserRole \in Roles
BY RbacAssumption DEF Roles, SuperAdmin, UserRole

LEMMA BindingForms == Unbound \in Binding /\ Global \in Binding
BY DEF Unbound, Global, Binding

(* New bindings that are normalized keep the type of a user's bindings. *)
LEMMA NormalIsTyped ==
  ASSUME NEW b \in NormalBindings
  PROVE  b \in Binding /\ (b.mode # "restricted" => b \in {Unbound, Global})
BY BindingForms DEF NormalBindings

(***************************************************************************)
(* The rows keep their types through every transaction, and super_admin    *)
(* keeps its one permission.                                               *)
(***************************************************************************)
LEMMA InitTypeOK == Init => TypeOK
<1> SUFFICES ASSUME Init PROVE TypeOK
    OBVIOUS
<1>1. role \in [Roles -> SUBSET Permissions] /\ role[SuperAdmin] = {"*"}
      BY RbacAssumption, SystemRolesExist DEF Init
<1>2. binding \in [Users -> [Roles -> Binding]]
      BY BindingForms DEF Init
<1>3. \A u \in Users, r \in Roles :
        binding[u][r].mode # "restricted" => binding[u][r] \in {Unbound, Global}
      BY DEF Init
<1>4. known \subseteq Users /\ hubs \subseteq Hubs /\ actor \in Users \cup {Nobody}
      BY RbacAssumption DEF Init
<1> QED
    BY <1>1, <1>2, <1>3, <1>4 DEF TypeOK

LEMMA NextTypeOK == TypeOK /\ [Next]_vars => TypeOK'
<1> SUFFICES ASSUME TypeOK, [Next]_vars PROVE TypeOK'
    OBVIOUS
<1> USE RbacAssumption, SystemRolesExist, BindingForms
<1>1. CASE Seed
  <2>1. binding' \in [Users -> [Roles -> Binding]]
        BY <1>1 DEF Seed, TypeOK
  <2>2. ASSUME NEW u \in Users, NEW r \in Roles
        PROVE  binding'[u][r] \in {binding[u][r], Global}
        BY <1>1 DEF Seed, TypeOK
  <2> QED
      BY <1>1, <2>1, <2>2 DEF Seed, TypeOK
<1>2. ASSUME NEW u \in Users, CreateUser(u) PROVE TypeOK'
  <2>1. binding' \in [Users -> [Roles -> Binding]]
        BY <1>2 DEF CreateUser, TypeOK
  <2>2. ASSUME NEW v \in Users, NEW r \in Roles
        PROVE  binding'[v][r] \in {binding[v][r], Global}
        BY <1>2 DEF CreateUser, TypeOK
  <2> QED
      BY <1>2, <2>1, <2>2 DEF CreateUser, TypeOK
<1>3. ASSUME NEW h \in Hubs, DeleteHub(h) PROVE TypeOK'
  <2>1. ASSUME NEW u \in Users, NEW r \in Roles
        PROVE  /\ binding'[u][r] \in Binding
               /\ binding'[u][r].mode # "restricted" => binding'[u][r] \in {Unbound, Global}
    <3>1. binding'[u][r] = [binding[u][r] EXCEPT !.hubs = @ \ {h}]
          BY <1>3 DEF DeleteHub
    <3>2. binding[u][r] \in Binding
          BY DEF TypeOK
    <3>3. binding'[u][r] \in Binding /\ binding'[u][r].mode = binding[u][r].mode
          BY <3>1, <3>2 DEF Binding
    <3>4. ASSUME binding[u][r] \in {Unbound, Global} PROVE binding'[u][r] = binding[u][r]
      <4>1. binding[u][r].hubs = {}
            BY <3>4 DEF Unbound, Global
      <4>2. CASE binding[u][r] = Unbound
            BY <3>1, <4>1, <4>2, {} \ {h} = {} DEF Unbound
      <4>3. CASE binding[u][r] = Global
            BY <3>1, <4>1, <4>3, {} \ {h} = {} DEF Global
      <4> QED
          BY <3>4, <4>2, <4>3
    <3> QED
        BY <3>3, <3>4 DEF TypeOK
  <2> QED
      BY <1>3, <2>1 DEF DeleteHub, TypeOK
<1>4. ASSUME NEW a \in Users, NEW r \in Roles, DeleteRole(a, r) PROVE TypeOK'
  <2>1. role' \in [Roles -> SUBSET Permissions] /\ role'[SuperAdmin] = {"*"}
        BY <1>4 DEF DeleteRole, TypeOK, SystemRoles
  <2>2. binding' \in [Users -> [Roles -> Binding]]
        BY <1>4 DEF DeleteRole, TypeOK
  <2>3. ASSUME NEW u \in Users, NEW o \in Roles
        PROVE  binding'[u][o] \in {binding[u][o], Unbound}
        BY <1>4 DEF DeleteRole, TypeOK
  <2> QED
      BY <1>4, <2>1, <2>2, <2>3 DEF DeleteRole, TypeOK
<1>5. ASSUME NEW a \in Users, NEW r \in Roles, NEW permissions \in PermissionSets,
             CreateRole(a, r, permissions) \/ SaveRole(a, r, permissions)
      PROVE  TypeOK'
  <2>1. role' = [role EXCEPT ![r] = permissions] /\ UNCHANGED <<binding, known, hubs>> /\ actor' = a
        BY <1>5 DEF CreateRole, SaveRole
  <2>2. r = SuperAdmin => permissions = {"*"}
        BY <1>5 DEF CreateRole, SaveRole, MayHave, TypeOK
  <2> QED
      BY <2>1, <2>2 DEF TypeOK
<1>6. ASSUME NEW a \in Users, NEW u \in Users, NEW new \in [Roles -> NormalBindings],
             ReplaceBindings(a, u, new)
      PROVE  TypeOK'
  <2>1. binding' = [binding EXCEPT ![u] = new] /\ UNCHANGED <<role, known, hubs>> /\ actor' = a
        BY <1>6 DEF ReplaceBindings
  <2>2. new \in [Roles -> Binding]
        BY NormalIsTyped
  <2>3. \A r \in Roles : new[r].mode # "restricted" => new[r] \in {Unbound, Global}
        BY NormalIsTyped
  <2> QED
      BY <2>1, <2>2, <2>3 DEF TypeOK
<1>7. ASSUME NEW a \in Users, NEW u \in Users, NEW rs \in SUBSET Roles, SetUserRoles(a, u, rs)
      PROVE  TypeOK'
  <2> DEFINE new == [r \in Roles |-> IF r \in rs THEN Global ELSE Unbound]
  <2>1. new \in [Roles -> NormalBindings]
        BY DEF NormalBindings
  <2>2. ReplaceBindings(a, u, new)
        BY <1>7 DEF SetUserRoles
  <2> HIDE DEF new
  <2> QED
      BY <1>6, <2>1, <2>2
<1>8. CASE UNCHANGED vars
      BY <1>8 DEF vars, TypeOK
<1> QED
    BY <1>1, <1>2, <1>3, <1>4, <1>5, <1>6, <1>7, <1>8 DEF Next, SetUserRoleBindings

(* The rows of roles and bindings are well-typed in every reachable state,   *)
(* and super_admin holds exactly the wildcard.                               *)
THEOREM TypeCorrect == Spec => []TypeOK
BY InitTypeOK, NextTypeOK, PTL DEF Spec

(***************************************************************************)
(* Somebody can administer.  The invariant is inductive with TypeOK: of    *)
(* the accounts and roles that witness it before a step, a mutation either *)
(* leaves one alone or has checked for another one in its transaction.     *)
(***************************************************************************)
Witness(u, r) ==
  /\ u \in known \cap Active /\ r \in Roles
  /\ binding[u][r].mode = "global" /\ "*" \in role[r]

LEMMA WitnessAdministers ==
  AdministratorRemains <=> \E u \in Users, r \in Roles : Witness(u, r)
BY DEF AdministratorRemains, Administers, Witness

LEMMA InitAdministrator == Init => AdministratorRemains
<1> SUFFICES ASSUME Init PROVE Witness(Bootstrap, SuperAdmin)
    BY WitnessAdministers, RbacAssumption, SystemRolesExist
<1> QED
    BY RbacAssumption, SystemRolesExist DEF Init, Witness, Global

LEMMA NextAdministrator ==
  TypeOK /\ AdministratorRemains /\ [Next]_vars => AdministratorRemains'
<1> SUFFICES ASSUME TypeOK, AdministratorRemains, [Next]_vars PROVE AdministratorRemains'
    OBVIOUS
<1> USE RbacAssumption, SystemRolesExist
<1>0. PICK v \in Users, w \in Roles : Witness(v, w)
      BY WitnessAdministers
<1>a. ASSUME NEW u \in Users, NEW r \in Roles, Witness(u, r)' PROVE AdministratorRemains'
      BY <1>a DEF AdministratorRemains, Administers, Witness
<1>1. CASE Seed
  <2>1. binding'[v][w] = binding[v][w]
        BY <1>0, <1>1 DEF Seed, Witness, Unbound, TypeOK
  <2> QED
      BY <1>0, <1>1, <1>a, <2>1 DEF Seed, Witness
<1>2. ASSUME NEW u \in Users, CreateUser(u) PROVE AdministratorRemains'
  <2>1. v # u /\ binding'[v][w] = binding[v][w]
        BY <1>0, <1>2 DEF CreateUser, Witness, TypeOK
  <2> QED
      BY <1>0, <1>2, <1>a, <2>1 DEF CreateUser, Witness
<1>3. ASSUME NEW h \in Hubs, DeleteHub(h) PROVE AdministratorRemains'
  <2>1. binding'[v][w] = [binding[v][w] EXCEPT !.hubs = @ \ {h}] /\ binding[v][w] \in Binding
        BY <1>3 DEF DeleteHub, TypeOK
  <2>2. binding'[v][w].mode = "global"
        BY <1>0, <2>1 DEF Witness, Binding
  <2> QED
      BY <1>0, <1>3, <1>a, <2>2 DEF DeleteHub, Witness
<1>b. ASSUME NEW r \in Roles, "*" \in role[r], ~WildcardRoleRemovalWouldLockOut(r)
      PROVE  \E u \in Users, o \in Roles \ {r} : Witness(u, o)
  <2>1. CASE w # r
        BY <1>0, <2>1
  <2>2. CASE w = r
        BY <1>0, <1>b, <2>2 DEF WildcardRoleRemovalWouldLockOut, Administers, Witness
  <2> QED
      BY <2>1, <2>2
<1>4. ASSUME NEW a \in Users, NEW r \in Roles, DeleteRole(a, r) PROVE AdministratorRemains'
  <2>1. PICK u \in Users, o \in Roles \ {r} : Witness(u, o)
    <3>1. CASE "*" \in role[r]
          BY <1>4, <1>b, <3>1 DEF DeleteRole
    <3>2. CASE "*" \notin role[r]
          BY <1>0, <3>2 DEF Witness
    <3> QED
        BY <3>1, <3>2
  <2>2. binding'[u][o] = binding[u][o] /\ role'[o] = role[o]
        BY <1>4, <2>1 DEF DeleteRole, TypeOK
  <2> QED
      BY <1>4, <1>a, <2>1, <2>2 DEF DeleteRole, Witness
<1>5. ASSUME NEW a \in Users, NEW r \in Roles, NEW permissions \in PermissionSets,
             CreateRole(a, r, permissions)
      PROVE  AdministratorRemains'
  <2>1. w # r /\ role'[w] = role[w]
        BY <1>0, <1>5 DEF CreateRole, Witness, TypeOK
  <2> QED
      BY <1>0, <1>5, <1>a, <2>1 DEF CreateRole, Witness
<1>6. ASSUME NEW a \in Users, NEW r \in Roles, NEW permissions \in PermissionSets,
             SaveRole(a, r, permissions)
      PROVE  AdministratorRemains'
  <2>1. role' = [role EXCEPT ![r] = permissions] /\ UNCHANGED <<binding, known>>
        BY <1>6 DEF SaveRole
  <2>2. PICK u \in Users, o \in Roles : Witness(u, o) /\ (o = r => "*" \in permissions)
    <3>1. CASE "*" \in role[r] /\ "*" \notin permissions
          BY <1>6, <1>b, <3>1 DEF SaveRole
    <3>2. CASE ~("*" \in role[r] /\ "*" \notin permissions)
          BY <1>0, <3>2 DEF Witness
    <3> QED
        BY <3>1, <3>2
  <2>3. "*" \in role'[o]
        BY <2>1, <2>2 DEF Witness, TypeOK
  <2> QED
      BY <1>a, <2>1, <2>2, <2>3 DEF Witness
<1>7. ASSUME NEW a \in Users, NEW u \in Users, NEW new, ReplaceBindings(a, u, new)
      PROVE  AdministratorRemains'
  <2>1. binding' = [binding EXCEPT ![u] = new] /\ UNCHANGED <<role, known>>
        BY <1>7 DEF ReplaceBindings
  <2>2. ASSUME NEW x \in Users \ {u}, NEW o \in Roles, Witness(x, o) PROVE AdministratorRemains'
    <3>1. binding'[x] = binding[x]
          BY <2>1 DEF TypeOK
    <3> QED
        BY <1>a, <2>1, <2>2, <3>1 DEF Witness
  <2>3. CASE v = u
    <3>1. Administers(u, Roles)
          BY <1>0, <2>3 DEF Administers, Witness
    <3>2. CASE \E o \in Roles : new[o].mode = "global" /\ "*" \in role[o]
      <4>1. binding'[u] = new
            BY <2>1 DEF TypeOK
      <4> QED
          BY <1>0, <1>a, <2>1, <2>3, <3>2, <4>1 DEF Witness
    <3>3. CASE \E x \in Users \ {u} : Administers(x, Roles)
          BY <2>2, <3>3 DEF Administers, Witness
    <3> QED
        BY <1>7, <3>1, <3>2, <3>3 DEF ReplaceBindings, LosesLastAdministrator
  <2> QED
      BY <1>0, <2>2, <2>3
<1>8. CASE UNCHANGED vars
      BY <1>0, <1>8, <1>a DEF vars, Witness
<1> QED
    BY <1>1, <1>2, <1>3, <1>4, <1>5, <1>6, <1>7, <1>8 DEF Next, SetUserRoleBindings, SetUserRoles

(* No sequence of role edits, deletions and reassignments leaves the system  *)
(* without an active global administrator.                                   *)
THEOREM NobodyLocksEveryoneOut == Spec => []AdministratorRemains
<1>1. Init => TypeOK /\ AdministratorRemains
      BY InitTypeOK, InitAdministrator
<1>2. TypeOK /\ AdministratorRemains /\ [Next]_vars => TypeOK' /\ AdministratorRemains'
      BY NextTypeOK, NextAdministrator
<1> QED
    BY <1>1, <1>2, PTL DEF Spec

(***************************************************************************)
(* The ceiling.  What a user holds is the union over the bound roles, so a *)
(* change to one role, or to the bindings of one user, changes nothing but *)
(* what that role, or those bindings, held before or hold after.           *)
(***************************************************************************)
LEMMA AssignedThroughRole ==
  ASSUME NEW u, NEW p
  PROVE  p \in AssignedPermissions(u) <=>
           \E r \in Roles : binding[u][r].mode \in {"global", "restricted"} /\ p \in role[r]
BY DEF AssignedPermissions, PermissionsOf, BoundRoles

LEMMA AssignedThroughRoleNext ==
  ASSUME NEW u, NEW p
  PROVE  p \in AssignedPermissions(u)' <=>
           \E r \in Roles : binding'[u][r].mode \in {"global", "restricted"} /\ p \in role'[r]
BY DEF AssignedPermissions, PermissionsOf, BoundRoles

LEMMA StepUnderCeiling ==
  ASSUME TypeOK, Next, NEW a \in Users, actor' = a, NEW u \in Users
  PROVE  Changed(u) \subseteq Ceiling(a)
<1> USE RbacAssumption
<1>0. SUFFICES ASSUME NEW p, \/ p \in AssignedPermissions(u)' /\ p \notin AssignedPermissions(u)
                             \/ p \in AssignedPermissions(u) /\ p \notin AssignedPermissions(u)'
               PROVE  p \in Ceiling(a)
      BY DEF Changed
<1>1. ASSUME NEW r \in Roles, DeleteRole(a, r) PROVE p \in Ceiling(a)
  <2>1. role[r] \subseteq Ceiling(a)
        BY <1>1 DEF DeleteRole, UnderCeiling
  <2>2. role' = [role EXCEPT ![r] = {}] /\ binding'[u] = [binding[u] EXCEPT ![r] = Unbound]
        BY <1>1 DEF DeleteRole
  <2>3. ASSUME NEW o \in Roles \ {r} PROVE role'[o] = role[o] /\ binding'[u][o] = binding[u][o]
        BY <2>2 DEF TypeOK
  <2>4. p \notin role'[r]
        BY <2>2 DEF TypeOK
  <2>5. p \in role[r]
        BY <1>0, <2>3, <2>4, AssignedThroughRole, AssignedThroughRoleNext
  <2> QED
      BY <2>1, <2>5
<1>2. ASSUME NEW r \in Roles, NEW permissions \in PermissionSets,
             CreateRole(a, r, permissions) \/ SaveRole(a, r, permissions)
      PROVE  p \in Ceiling(a)
  <2>1. role[r] \subseteq Ceiling(a) /\ permissions \subseteq Ceiling(a)
        BY <1>2 DEF CreateRole, SaveRole, UnderCeiling
  <2>2. role' = [role EXCEPT ![r] = permissions] /\ binding' = binding
        BY <1>2 DEF CreateRole, SaveRole
  <2>3. \A o \in Roles \ {r} : role'[o] = role[o]
        BY <2>2 DEF TypeOK
  <2>4. role'[r] = permissions
        BY <2>2 DEF TypeOK
  <2>5. p \in role[r] \/ p \in permissions
        BY <1>0, <2>2, <2>3, <2>4, AssignedThroughRole, AssignedThroughRoleNext
  <2> QED
      BY <2>1, <2>5
<1>3. ASSUME NEW x \in Users, NEW new, ReplaceBindings(a, x, new) PROVE p \in Ceiling(a)
  <2> DEFINE selected == {r \in Roles : new[r].mode # "none"}
  <2>1. AssignedPermissions(x) \subseteq Ceiling(a) /\ PermissionsOf(selected) \subseteq Ceiling(a)
        BY <1>3 DEF ReplaceBindings, UnderCeiling
  <2>2. binding' = [binding EXCEPT ![x] = new] /\ role' = role
        BY <1>3 DEF ReplaceBindings
  <2>3. CASE x # u
    <3>1. binding'[u] = binding[u]
          BY <2>2, <2>3 DEF TypeOK
    <3> QED
        BY <1>0, <2>2, <3>1, AssignedThroughRole, AssignedThroughRoleNext
  <2>4. CASE x = u
    <3>1. binding'[u] = new
          BY <2>2, <2>4 DEF TypeOK
    <3>2. AssignedPermissions(u)' \subseteq PermissionsOf(selected)
          BY <2>2, <3>1, AssignedThroughRoleNext DEF PermissionsOf
    <3> QED
        BY <1>0, <2>1, <2>4, <3>2
  <2> QED
      BY <2>3, <2>4
<1>4. ~Seed /\ (\A x \in Users : ~CreateUser(x)) /\ (\A h \in Hubs : ~DeleteHub(h))
      BY DEF Seed, CreateUser, DeleteHub
<1>5. ASSUME NEW b \in Users, NEW r \in Roles, DeleteRole(b, r) PROVE b = a
      BY <1>5 DEF DeleteRole
<1>6. ASSUME NEW b \in Users, NEW r \in Roles, NEW permissions \in PermissionSets,
             CreateRole(b, r, permissions) \/ SaveRole(b, r, permissions)
      PROVE  b = a
      BY <1>6 DEF CreateRole, SaveRole
<1>7. ASSUME NEW b \in Users, NEW x \in Users, NEW new, ReplaceBindings(b, x, new) PROVE b = a
      BY <1>7 DEF ReplaceBindings
<1> QED
    BY <1>1, <1>2, <1>3, <1>4, <1>5, <1>6, <1>7 DEF Next, SetUserRoleBindings, SetUserRoles

(* Whatever anyone gains or loses through a mutation of roles lies within    *)
(* the global permissions of whoever made it.                                *)
THEOREM NobodyExceedsTheirCeiling == Spec => CeilingRespected
<1>1. TypeOK /\ [Next]_vars =>
        [\A a \in Users : actor' = a => \A u \in Users : Changed(u) \subseteq Ceiling(a)]_vars
      BY StepUnderCeiling
<1> QED
    BY <1>1, TypeCorrect, PTL DEF Spec, CeilingRespected
=============================================================================
