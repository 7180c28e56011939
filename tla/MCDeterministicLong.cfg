CONSTANTS
  Symbols <- MCSymbols
  Seed = 214
  SeedBytes = 1
  SuffixLen = 2
  KnownLen = 1
  MinOrder = 3
  MinLenInc = 2
  ForceLen = 5
  MaxMatchLen = 4
  MaxNodesToVisit = 2
  NodeArraySize = 8
  MinLenRange = 8
  SureCount = 99
  FollowsetSizes = {1}
  MaxInput = 15
  MaxOrphans = 0
  Situations <- Calls
  InitEsc = 8
  InitTot = 12
  InitScale = 7
  EscInc = 17
  EscTotInc = 1
  TotInc = 17
  HalveAbove = 75
  WeightOne = 65536
  MaxTotal = 16384
  IntMax = 2147483647
SPECIFICATION Spec
INVARIANT MatchLongEnough
CHECK_DEADLOCK FALSE
