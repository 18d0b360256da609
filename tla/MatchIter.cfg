\* Every partial match function on views of up to four bytes.
CONSTANTS
  MaxLen = 4
  MaxOccurrence = 2
SPECIFICATION FairSpec
INVARIANTS
  OrderedDisjoint
  CompleteScan
  EofRule
  GapsComplementMatches
  EditsFromOccurrence
PROPERTIES
  Terminates
\* The loop over the matches of one view ends.
CHECK_DEADLOCK FALSE
