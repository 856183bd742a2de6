CONSTANTS
  o1 = o1
  o2 = o2
  Objects <- MCObjects
  MaxCalls = 3
  NoCall = NoCall
  NoBuf = NoBuf
  NoTbl = NoTbl
  Images <- MCGoodImages
  DspRestarts = TRUE
SPECIFICATION Spec
INVARIANT ResultsMatchCalls
CHECK_DEADLOCK FALSE
