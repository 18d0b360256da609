\* Three bytes of input, up to three mutations out of ten spans of the input
\* (every empty, partial and full one) and one foreign span.
CONSTANTS
  DocLen = 3
  MaxMutations = 3
  Foreign = 5
SPECIFICATION Spec
INVARIANTS
  Tiling
  AppliedInOrder
  AppliesSurvivors
\* The program ends: stitch returns or panics.
CHECK_DEADLOCK FALSE
