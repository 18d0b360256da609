\* The same with the flag s on the splitter.
CONSTANTS
  MaxLen = 3
  Width = 2
  Lanes = 2
  NL <- MCNewline
  Fold <- MCFold
  Needles <- MCNeedles
  Downstream <- MCDownstream
  Splitters <- MCFlagged
SPECIFICATION Spec
INVARIANTS
  SelectsLikePipeline
\* A plan that has run stops.
CHECK_DEADLOCK FALSE
