SPECIFICATION Spec
CONSTANTS
  i1 = i1  i2 = i2  i3 = i3  l1 = l1  l2 = l2  r1 = r1  r2 = r2
  Id = {i1, i2}
  Rel = {l1, l2}
  Request = {r1, r2}
  Operation = {"link", "unlink", "delete", "force", "update"}
  MaxVersion = 3
SYMMETRY Symmetry
INVARIANTS StaleRefsWereOvertaken
PROPERTIES UpdatesKeepRefs
CHECK_DEADLOCK FALSE
