CONSTANTS
  o1 = o1
  o2 = o2
  Objects <- MCObjects
  MaxCalls = 4
  NoCall = NoCall
  NoBuf = NoBuf
  NoTbl = NoTbl
  Images <- MCImages
  DspRestarts = TRUE
SPECIFICATION Spec
INVARIANT ExportsFitTable
INVARIANT ExportStringsFetched
CHECK_DEADLOCK FALSE
