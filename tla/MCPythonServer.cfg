SPECIFICATION Spec
CONSTANTS
  MaxRequests = 3
  MaxListens = 3
INVARIANT QuietAfterShutdown
PROPERTIES ShutdownReturns GilCycleIsForever
\* Nothing has to happen after the object is destroyed or the program ended,
\* and the two threads may wait for each other: GilCycle.
CHECK_DEADLOCK FALSE
