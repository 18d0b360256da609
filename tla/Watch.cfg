\* Every mix of five changes to the file; two attempts to open it again.
CONSTANTS
  Retries = 2
  MaxChanges = 5
  Absent = Absent
SPECIFICATION Spec
INVARIANTS
  SeenIsShown
  NeverDeaf
PROPERTIES
  InterruptStops
\* The watch may end.
CHECK_DEADLOCK FALSE
