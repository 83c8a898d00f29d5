CONSTANTS
  Symbols <- MCSymbols
  TextSymbols = {"a", "b", "]"}
  MaxPattern = 5
  MaxText = 3
  Base = 4
  Width = 2
  Strings <- MCStringsOfBytes
  MaxStrings = 4
SPECIFICATION Spec
INVARIANT CutIsRefused
CHECK_DEADLOCK FALSE
