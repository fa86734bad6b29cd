SPECIFICATION Spec
CONSTANTS
  i1 = i1  i2 = i2  k1 = k1  r1 = r1  r2 = r2
  Id = {i1, i2}
  Key = {k1}
  Request = {r1, r2}
  NoId = NoId
  NoKey = NoKey
  Operation <- Everything
  Ahead = 0
  MaxVersion = 2
SYMMETRY Symmetry
INVARIANTS OneIndexRow DuplicatesAreUnchecked
PROPERTIES NoLostUpdate ImplementsStore
CHECK_DEADLOCK FALSE
