SPECIFICATION SessionsSpec
CONSTANTS
  s1 = s1
  p1 = p1
  p2 = p2
  Servers = {s1}
  Probes = {p1, p2}
  LastTime = 4
  MaxStarts = 2
  MaxSkew = 1
  Natures <- MCNatures
  Slack = 0
  Future = 0
  Retargets = 1
SYMMETRY Symmetry
INVARIANTS
  OpenMatchesRunning
  OrderlyHubsAccepted
