SPECIFICATION Spec
CONSTANTS
  e1 = e1  e2 = e2  o1 = o1
  w1 = w1  w2 = w2
  Event = {e1, e2}
  Occ = {o1}
  Worker = {w1, w2}
  OccOf <- OneOccurrence
  SeqOf <- NextWake
  NoEvent = NoEvent
  MaxRevision = 3
  MaxFaults = 1
INVARIANTS ExclusiveWork ReceiptsAgree StaleIsPast EffectOnArmedStep
PROPERTIES ImplementsDelivery EventuallySettled
CHECK_DEADLOCK FALSE
