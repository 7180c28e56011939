CONSTANTS
  MaxEscapes = 1
  MaxSymbols = 4
  InitScale = 1
  InitEsc = 1
  InitTot = 3
  Inc = 5
  EscExtraInc = 1
  ScaleDown = 20
  EscScaleDown = 8
  WeightOne = 256
  OddsLimit = 40
  MaxTotal = 41
  Word = 32800
  Situations <- MCShared
  Log2Table <- MCLog2Table
SPECIFICATION Spec
INVARIANTS StatesSane EntropiesPositive BlendFits OddsCodable
