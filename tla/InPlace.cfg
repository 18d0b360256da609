\* Two files, one of them perhaps given twice, at most two runs and one power loss.
CONSTANTS
  f = f
  g = g
  Paths = {f, g}
  Commands <- MCCommands
  MaxRuns = 2
  Absent = Absent
  Torn = Torn
  Private = Private
SPECIFICATION Spec
INVARIANTS
  DestinationWhole
  PermissionsKept
  BackupBeforeReplace
  TempsRemoved
  DurableWhenDone
PROPERTIES
  AtomicSpec
\* The last run may stop the system for good.
CHECK_DEADLOCK FALSE
