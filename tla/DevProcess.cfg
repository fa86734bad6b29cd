SPECIFICATION Spec
CONSTANTS
  Worker = {w1, w2}
  None = None
  LOCK_RETRIES = 2
  MaxCalls = 2
  MaxSaves = 1
  MaxCrashes = 1
  MaxChildren = 2
  MaxCode = 2
INVARIANTS ExclusiveUnlessBroken NoStrayChild AnswerIsUsable
PROPERTIES SaveIsServed
CONSTRAINT Unbroken
CHECK_DEADLOCK FALSE
