CONSTANTS
  Formats <- MCFormats
  IntVals <- MCIntVals
  BinArgs <- MCBinArgs
SPECIFICATION Spec
INVARIANT ArgsEncodedPerLayout
CHECK_DEADLOCK FALSE
