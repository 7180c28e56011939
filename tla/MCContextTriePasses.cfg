CONSTANTS
  SymbolCount = 2
  Seed = 0
  SeedBytes = 2
  TopOrder = 3
  MidOrder = 2
  SuffixLen <- MCSuffixLen
  Slots <- MCSlots
  Hash <- MCHash
  MaxLru = 3
  MaxSessions = 2
SPECIFICATION Spec
INVARIANTS PoolExact
