\* Two files, one of them perhaps given twice, one run and one power loss.
CONSTANTS
  f = f
  g = g
  Paths = {f, g}
  Commands <- MCCommands
  MaxRuns = 1
  Absent = Absent
  Torn = Torn
  Private = Private
SPECIFICATION Spec
INVARIANTS
  BackupSurvivesPowerLoss
\* The last run may stop the system for good.
CHECK_DEADLOCK FALSE
