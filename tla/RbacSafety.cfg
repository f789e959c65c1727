SPECIFICATION Spec
CONSTANTS
  Users = {root, ann}
  Bootstrap = root
  Active = {root, ann}
  Hubs = {h1}
  Departments = {}
  Permissions <- MCPermissions
  GroupCovers <- MCGroupCovers
  PermissionSets <- MCPermissionSets
  MaxRoles = 3
  Nobody = Nobody
INVARIANTS TypeOK AdministratorRemains
PROPERTY CeilingRespected
