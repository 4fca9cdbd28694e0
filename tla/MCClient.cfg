CONSTANTS
  Op = {o1, o2, o3}
  Endpoint = {e1}
  MaxStarts = 2
  MaxSubmitted = 1
  NoOp = NoOp
SPECIFICATION Spec
INVARIANTS TypeOK OwnAnswer AtMostOnce StopCancelsStart
PROPERTIES EveryCallReturns
CHECK_DEADLOCK FALSE
