CONSTANTS
  Value = {v1, v2}
  Poller = {p1, p2, p3}
  MaxPushes = 5
SPECIFICATION Spec
INVARIANTS TypeOK WokenFindsValue BacklogIsUnnoticed InOrderOnce
PROPERTIES WokenIsServed FifoQueueSpec
