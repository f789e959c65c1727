SPECIFICATION SessionsSpec
CONSTANTS
  s1 = s1
  p1 = p1
  Servers = {s1}
  Probes = {p1}
  LastTime = 4
  MaxStarts = 3
  MaxSkew = 1
  Natures <- MCNatures
  Slack = 0
  Future = 1
  Retargets = 1
SYMMETRY Symmetry
INVARIANT
  OrphansAreHistory
