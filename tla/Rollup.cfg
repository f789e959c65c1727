SPECIFICATION Spec
CONSTANTS
  PerHour = 2
  LateWindow = 4
  Cap = 2
  Backfill = 8
  Retention = 7
  UsageRetention = 9
  Lateness = 2
  MaxTime = 11
INVARIANTS
  NothingStranded
  AccountedUnlessLagging
  SettledExact
