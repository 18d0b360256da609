\* Programs that take the offset of a view c or r made.
CONSTANTS
  Symbols = {"a", "b", "n", "(", ")"}
  Programs <- MCOffsetPrograms
  Docs <- MCDocs
  Foreign = 20
  BufCap = 2
SPECIFICATION Spec
INVARIANTS
  CoordinatesInInput
CHECK_DEADLOCK FALSE
