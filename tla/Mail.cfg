SPECIFICATION MCSpec
CONSTANTS
  Requests = {r1}
  HubProbes = {p1}
  Keys = {k1, k2}
  NoKey = NoKey
  MaxMails = 2
  Slots = 1
  Attempts = 2
  MaxStops = 1
  WritesFail = TRUE
INVARIANTS RecordsTrue QueuedIsOwned KeyMailedOnce
PROPERTY QueuedIsSettled
