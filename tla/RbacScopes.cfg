SPECIFICATION Spec
CONSTANTS
  Users = {root, ann}
  Bootstrap = root
  Active = {root, ann}
  Hubs = {h1, h2}
  Departments = {d1}
  Permissions <- MCPermissions
  GroupCovers <- MCGroupCovers
  PermissionSets <- MCPermissionSets
  MaxRoles = 2
  Nobody = Nobody
PROPERTY RemovalNarrows
