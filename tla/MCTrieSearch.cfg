CONSTANTS
  a = a
  b = b
  Alphabet = {a, b}
  MaxLength = 3
  NoNode = NoNode
  Offered <- MCOffered
  Chunk <- MCChunk
  MaxInput = 3
SPECIFICATION FairClientSpec
INVARIANTS
  TrieTypeOK
  NodesArePrefixes
  FailureIsLongestTail
  MatchedIsEveryTail
  FinalMeansAccepted
  SearchTypeOK
  FoundIsExact
  DrainedIsComplete
  CurrentIsLongest
PROPERTIES
  ClosedTrieIsFrozen
  FinalizeReturns
  TextIsDrained
  ImplementsMatcher
