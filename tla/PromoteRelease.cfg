SPECIFICATION Spec
CONSTANTS
  Worker = {w1, w2}
  Project = {p1}
  Request = {r1, r2}
  Ping = {g1}
  None = None
  Build <- Jobs
  MaxWrites = 2
  MaxRestarts = 3
  MaxFaults = 1
  MaxPings = 1
INVARIANTS OnePromote
PROPERTIES ReleaseNeverBack MergeIsReleased
CHECK_DEADLOCK FALSE
CONSTRAINT NotCleared
