CONSTANTS
  SymbolCount = 3
  IncNovel = 1
  Inc = 1
  EscpInc = 1
  EscapeMax = 2
  HalveThreshold = 16
  ExclEscInit = 6
  ExclEscInc = 4
  ExclEscExcluded = 3
  MaxTotal = 24
SPECIFICATION CountsSpec
INVARIANTS StatsExact EscapesBelowTotal Codable PartsRoundTrip
PROPERTIES HalvingKeepsSeen
