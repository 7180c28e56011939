CONSTANTS
  SymbolCount = 4
  ResetSlots = 1
  StampMod = 6
  MaxClears = 4
SPECIFICATION Spec
INVARIANT MinusOneRoundTrip
PROPERTIES ImplementsSymbolSet
