CONSTANTS
  None = None
  o1 = o1
  o2 = o2
  Object = {o1, o2}
  Filled = {o1}
  Pattern <- MCPattern
  Empty <- MCEmpty
  Vectors <- MCVectors
  Text <- MCText
  MetaWords <- MCMetaWords
  TooLong <- MCTooLong
  Occurring <- MCOccurring
  Matching <- MCMatching
  Reread <- MCReread
  MaxWord = 1
SPECIFICATION Spec
INVARIANTS
  GetReturnsMatches
