\* The chains, then the reference, on three inputs; every flat program x/line/ a b over 18 commands and nested ones.
CONSTANTS
  Symbols = {"a", "b", "n", "(", ")"}
  Programs <- MCPrograms
  Docs <- MCDocs
  Foreign = 20
  BufCap = 2
SPECIFICATION PushSpec
INVARIANTS
  TypeOK
  EditsHitTheirMatch
  BlockOutputInOrder
  MatchesPush
PROPERTIES
  TreeMoves
  Terminates
\* The program ends.
CHECK_DEADLOCK FALSE
