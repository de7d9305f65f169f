SPECIFICATION Spec
CONSTANTS
  short = short
  full = full
  long = long
  Files <- MCFiles
  Length <- MCLength
  Version <- MCVersion
  Factory = Factory
  SlotPkgs = 6
  SectorPkgs = 2
  Blank = Blank
  Other = Other
INVARIANTS
  TypeOK
  FreshIsWhole
  ProgressIsKept
  DataIsLeft
PROPERTIES
  OnlyWholeIsBootable
  NextSlotIsKept
