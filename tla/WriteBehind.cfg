SPECIFICATION SpecTables
CONSTANTS
  i1 = i1  k1 = k1  w1 = w1  w2 = w2  d1 = d1
  Id = {i1, k1}
  Key = {k1}
  Delete = {d1}
  Round = {w1, w2}
  Limit = 2
  MaxAttempts = 2
  ClockTies = TRUE
  MaxRows = 3
  MaxFaults = 2
CONSTRAINT Scope
INVARIANTS NothingDropped MirrorIsCurrent TablesAreMirrored
PROPERTY OutboxDrains
CHECK_DEADLOCK FALSE
