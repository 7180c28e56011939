CONSTANTS
  Radix = 4
  MinWide = 8
  MaxTotal = 4
  Totals = {2, 3, 4}
  OutLimit = 4
  PowersOfTwo <- MCPowersOfTwo
SPECIFICATION Spec
CHECK_DEADLOCK FALSE
INVARIANTS TypeOK NormalisedWide CarryRoom StuffedByteIsZero
PROPERTIES FinishWritesOneByte ImplementsCodeInterval
