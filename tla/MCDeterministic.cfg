CONSTANTS
  Symbols <- MCSymbols
  Seed = 214
  SeedBytes = 1
  SuffixLen = 2
  KnownLen = 1
  MinOrder = 2
  MinLenInc = 2
  ForceLen = 4
  MaxMatchLen = 6
  MaxNodesToVisit = 2
  NodeArraySize = 5
  MinLenRange = 64
  SureCount = 99
  FollowsetSizes = {1}
  MaxInput = 10
  MaxOrphans = 1
  Situations <- Calls
  InitEsc = 8
  InitTot = 12
  InitScale = 7
  EscInc = 17
  EscTotInc = 1
  TotInc = 17
  HalveAbove = 75
  WeightOne = 65536
  MaxTotal = 16384
  IntMax = 2147483647
SPECIFICATION Spec
INVARIANTS MatchIsReal CountsOfItsList MatchLongEnough RingIsInput OddsCodable BlendFits
PROPERTIES TrustOnlyShrinks ImplementsDetEscape
CHECK_DEADLOCK FALSE
