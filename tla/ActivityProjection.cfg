SPECIFICATION Spec
CONSTANTS
  c1 = c1  c2 = c2  s1 = s1  s2 = s2  s3 = s3
  Caller = {c1, c2}
  Step = {s1, s2, s3}
  next <- Plan
  NoCaller = NoCaller
  NoStep = NoStep
  Lag = 1
  MaxRevision = 4
  MaxFaults = 2
SYMMETRY Symmetry
INVARIANTS EveryTaskIsProjectable RowsAreOfOneRevision BehindIsKnown
PROPERTIES NeverBack
