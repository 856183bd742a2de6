CONSTANTS
  o1 = o1
  o2 = o2
  un = un
  l1 = l1
  Objects <- MCObjects
  UNode <- un
  Loops <- MCLoops
  MaxCalls = 4
  NoCall = NoCall
  NoBuf = NoBuf
  NoTbl = NoTbl
  NoLoop = NoLoop
  NoNode = NoNode
SPECIFICATION Spec
INVARIANT ResultsMatchCalls
INVARIANT BuffersAccountedFor
PROPERTY CallsEventuallyComplete
PROPERTY WaitOnlineReturns
CHECK_DEADLOCK FALSE
