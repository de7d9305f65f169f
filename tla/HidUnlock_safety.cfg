SPECIFICATION HidSpec
CONSTANTS
  A = A
  B = B
  Phones <- TwoPhones
  ZeroKey = ZeroKey
  ErasedKey = ErasedKey
  NoPeer = NoPeer
  BondNum <- MCBondNum
  Readings <- MCReadings
  Levels <- OneLevel
INVARIANTS
  BondedIsKnown
PROPERTIES
  BondsSurvive
  KeyIsSaved
