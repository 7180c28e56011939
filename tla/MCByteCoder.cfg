CONSTANTS
  SymbolCount = 3
  IncNovel = 1
  Inc = 1
  EscpInc = 1
  EscapeMax = 4
  HalveThreshold = 16
  ExclEscInit = 6
  ExclEscInc = 4
  ExclEscExcluded = 3
  MaxTotal = 40
  TopOrder = 2
  Seeds = 2
  FileLength = 6
  MaxSeeEscapes = 3
  MaxSeeTotal = 8
  IntProbOne = 64
  Predict <- MCPredict
  Estimate <- MCEstimate
SPECIFICATION Spec
INVARIANTS SymbolNeverExcluded CallsCodable Lockstep ModelsAgree
PROPERTIES Terminates
CHECK_DEADLOCK FALSE
