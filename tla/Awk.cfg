\* Assignments to fields up to the second, between two records; the calls MCAwk lists.
CONSTANTS
  Blank = Blank
  Colon = Colon
  Letter = Letter
  CR = CR
  LF = LF
  Texts <- MCTexts
  Separators <- MCSeparators
  MaxField = 2
  MaxRecords = 1
  WordMax = 99
SPECIFICATION MCSpec
INVARIANTS
  RecordAgrees
  SplitIsExact
  SplitInvertsJoin
  AwkActionsReadAsWritten
  AwkRunsAsWritten
  CompoundAssigns
  SubstrGivesWhatIsThere
\* An error stops the program, and a call ends.
CHECK_DEADLOCK FALSE
