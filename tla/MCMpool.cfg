CONSTANTS
  BlockSize = 48
  Size <- MCSize
  MaxPieces = 4
SPECIFICATION FairSpec
INVARIANTS
  MpoolTypeOK
  PiecesAreApart
  PiecesAreInside
  FreedOnce
PROPERTIES
  FreeReturns
