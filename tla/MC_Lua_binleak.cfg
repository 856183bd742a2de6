CONSTANTS
  o1 = o1
  o2 = o2
  Objects <- MCObjects
  BinObjects <- MCBinObjects
  MaxCalls = 3
  MaxBinds = 2
  NilBinArg = TRUE
  LuaTables <- MCLuaTables
  MaxExports = 1
  NoCall = NoCall
  NoBuf = NoBuf
  NoTbl = NoTbl
SPECIFICATION Spec
INVARIANT BuffersAccountedFor
CHECK_DEADLOCK FALSE
