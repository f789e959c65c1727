SPECIFICATION MCSpec
CONSTANTS
  u1 = u1
  u2 = u2
  u3 = u3
  h1 = h1
  h2 = h2
  Users = {u1, u2, u3}
  Nobody = Nobody
  Handlers = {h1, h2}
  MaxApprovals = 1
  Workflows <- MCWorkflows
INVARIANTS
  TypeOK
  SeparationOfDuties
  SentOnceAfterApproval
  NoticesTrue
PROPERTIES
  ImplementsLedger
  SteadyFlows
