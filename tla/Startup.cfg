\* Inputs of up to five bytes around a limit of three; the calls MCStartup lists.
CONSTANTS
  Byte = {0, 1}
  Limit = 3
  ReadChunk = 2
  MaxInput = 5
  WordMax = 99
  GroupIndex <- MCGroups
  NumberCap = 15
SPECIFICATION MCSpec
INVARIANTS
  SliceIsInput
  PipelineReadsAsWritten
  TemplateMeansItsParts
  FuzzyFindsAllNear
\* An opening and a call end.
CHECK_DEADLOCK FALSE
