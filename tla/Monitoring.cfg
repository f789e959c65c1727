SPECIFICATION MCSpec
CONSTANTS
  Integrations = {"prometheus", "kubernetes", "auth.oidc"}
  NeedsSecret = {"auth.oidc"}
  Endpoints = {e1, e2}
  NoEndpoint = NoEndpoint
  Pods = {p1}
  Servers = {s1, s2}
  NoServer = NoServer
  Handlers = {h1, h2}
  Collector = Collector
  Nobody = Nobody
  Readers = {r1}
  MaxForms = 2
  MaxActors = 2
SYMMETRY Symmetry
INVARIANTS
  TypeOK
  SecretsMeetTheirEndpoint
  NoDeadlock
PROPERTIES
  StoredIsCurrent
  DashboardHonoursSwitches
