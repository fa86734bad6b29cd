SPECIFICATION Spec
CONSTANTS
  h1 = h1  h2 = h2  v1 = v1  v2 = v2  s1 = s1  s2 = s2
  q1 = q1  q2 = q2  t1 = t1  t2 = t2  c1 = c1  c2 = c2
  Name <- Names
  Content = {s1, s2}
  Path <- ThreePaths
  File <- Different
  ResultId = {t1, t2}
  RequestId = {q1, q2}
  Caller = {c1}
  None = None
  MaxCalls = 4
SYMMETRY Symmetry
INVARIANT PointerIsReadable
CHECK_DEADLOCK FALSE
