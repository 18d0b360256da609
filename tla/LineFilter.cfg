\* All inputs of up to four bytes, in one or two views, without the flag s.
CONSTANTS
  MaxLen = 4
  Width = 2
  Lanes = 2
  NL <- MCNewline
  Fold <- MCFold
  Needles <- MCNeedles
  Downstream <- MCDownstream
  Splitters <- MCSplitters
SPECIFICATION Spec
INVARIANTS
  TypeOK
  FindsFirst
  SelectsLikePipeline
\* A plan that has run stops.
CHECK_DEADLOCK FALSE
