SPECIFICATION RegistrationSpec
CONSTANTS
  c1 = c1  c2 = c2  n1 = n1  n2 = n2  e1 = e1  e2 = e2  o1 = o1  o2 = o2
  Email = {e1, e2}
  Org = {o1, o2}
  None = None
  Known = {k1}
  New = {n1, n2}
  Caller = {c1, c2}
  MaxCalls = 4
  MaxFaults = 1
  MaxContacts = 1
SYMMETRY Symmetry
CONSTRAINT Scope
INVARIANTS OneDecision OnePersonPerEmail LoginsAgree CacheOnlyOutdated
CHECK_DEADLOCK FALSE
