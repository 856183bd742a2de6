CONSTANTS
  o1 = o1
  o2 = o2
  Objects <- MCObjects
  MaxCalls = 4
  NoCall = NoCall
  NoBuf = NoBuf
  NoTbl = NoTbl
  Images <- MCGoodImages
  DspRestarts = FALSE

SPECIFICATION Spec
INVARIANT TypeOK
INVARIANT ResultsMatchCalls
INVARIANT BuffersAccountedFor
PROPERTY CallsEventuallyComplete
CHECK_DEADLOCK FALSE
