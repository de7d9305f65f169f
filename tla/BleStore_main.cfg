SPECIFICATION Spec
CONSTANTS
  k1 = k1
  k2 = k2
  i1 = i1
  i2 = i2
  h1 = h1
  Keys <- MCKeys
  Ids <- MCIds
  HIds <- MCHIds
  Zero = Zero
  NoCopy = NoCopy
INVARIANTS
  TypeOK
  RunningIsSaved
  ConversionEnds
PROPERTIES
  SaveIsAtomic
