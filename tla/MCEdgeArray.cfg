CONSTANTS
  Alphabet <- MCAlphabet
  Depths = {0, 3, 8}
  IntMod = 256
SPECIFICATION FairSpec
INVARIANTS
  EdgeTypeOK
  EdgesAreTheChildren
  ReadsAreInside
  SoughtIsInRange
PROPERTIES
  LookupIsExact
  LookupReturns
