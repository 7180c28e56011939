CONSTANTS
  Radix = 4
  MinWide = 8
  MaxTotal = 4
  Totals = {3, 4}
  OutLimit = 9
  PowersOfTwo <- MCPowersOfTwo
  TailRadix = 2
  Slop = {0,1,2,3}
  Padding = 3
  MaxCalls = 2
SPECIFICATION CodecSpec
CHECK_DEADLOCK FALSE
INVARIANTS RoundTrip
