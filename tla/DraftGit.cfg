SPECIFICATION DraftSpec
CONSTANTS
  f1 = f1  f2 = f2  c1 = c1  c2 = c2
  File = {f1, f2}
  Caller = {c1, c2}
  Absent = Absent
  Markers = Markers
  Writes <- Some
  MaxMains = 1
  MaxCalls = 4
  MaxFailures = 1
SYMMETRY Symmetry
INVARIANTS SavesAreKept RestIsClean
CHECK_DEADLOCK FALSE
