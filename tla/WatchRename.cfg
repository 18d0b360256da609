\* Only the changes the documentation names: writes and replacements by rename.
CONSTANTS
  Retries = 2
  MaxChanges = 4
  Absent = Absent
SPECIFICATION DocumentedSpec
INVARIANTS
  RerunAfterChange
CHECK_DEADLOCK FALSE
