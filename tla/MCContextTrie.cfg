CONSTANTS
  SymbolCount = 2
  Seed = 0
  SeedBytes = 2
  TopOrder = 4
  MidOrder = 3
  SuffixLen <- MCSuffixLen
  Slots <- MCSlots
  Hash <- MCHash
  MaxLru = 6
  MaxSessions = 1
SPECIFICATION Spec
INVARIANTS ActiveChain RecycleSparesActive KidsExact UniqueContexts TablesExact ListExact
