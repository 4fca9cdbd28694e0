CONSTANTS
  Op = {o1, o2}
  Endpoint = {e1}
  MaxStarts = 1
  MaxSubmitted = 2
  NoOp = NoOp
SPECIFICATION Spec
INVARIANTS CallsAreIndependent
CHECK_DEADLOCK FALSE
