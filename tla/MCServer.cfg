CONSTANTS
  Conn = {c1, c2}
  MaxRequests = 2
SPECIFICATION Spec
INVARIANTS TypeOK OneOwner TimeoutFitsOperation RepliesInOrder BodyFromOwnConnection
PROPERTIES SessionEnds QueuedIsAccepted
CHECK_DEADLOCK FALSE
