SPECIFICATION MCSpec
CONSTANTS
  Addresses = {i1, i2, i3}
  Accounts = {u1}
  Nobody = Nobody
  loginAttemptLimit = 1
  loginAccountLimit = 2
  loginIPLimit = 3
  loginAttemptWindow = 2
  loginLimiterMax = 3
  MaxClock = 3
  oidcStartWindow = 2
  oidcStartIPLimit = 1
  requestLimiterMax = 2
  MaxCount = 2
  Handlers = {h1, h2}
  MaxSessions = 2
  MaxPasswords = 3
  Permissions = {p1, p2}
  MaxKeys = 3
  Home = i1
SYMMETRY Symmetry
INVARIANTS
  TypeOK
  LockoutHolds
  StartsBounded
  PasswordChangeEndsSessions
  OneLiveKeyPerLineage
  KeyWithinOwner
