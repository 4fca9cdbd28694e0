SPECIFICATION Spec
CONSTANTS
  Schemas <- MCSchemas
  Instances <- MCInstances
  PatternFound <- MCPatternFound
  MaxDepth = 9
  SizeMod = 65536
  Pieces <- MCPieces
  Bytes <- MCBytes
  Chars <- MCChars
  Unit = 4
  Tolerance = 1
INVARIANTS VerdictIsExact RejectionsAreRight StaleOnlyBelowRoot DivergesExactly
\* The program ends.
CHECK_DEADLOCK FALSE
