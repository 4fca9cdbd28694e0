CONSTANTS
  Type = {t1, t2, t3}
  Unknown = {u}
  MaxRefs = 2
SPECIFICATION Spec
INVARIANTS TypeOK CyclesAreExact DependenciesFirst OrderIsComplete
PROPERTIES Terminates
CHECK_DEADLOCK FALSE
