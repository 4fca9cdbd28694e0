CONSTANTS
  Documents <- Documents1
  Parsed <- Parsed1
  Options <- Options1
  Title <- Title1
  Parts <- Parts1
  Reserved <- Reserved1
  Digits <- Digits1
SPECIFICATION Spec
INVARIANT OneNamespace
CHECK_DEADLOCK FALSE
