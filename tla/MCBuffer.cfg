CONSTANTS
  Values <- MCValues
  Strings <- MCStrings
  Room = 11
  Foreign <- MCForeign
  MaxItems = 2
SPECIFICATION Spec
INVARIANTS
  ReadBack
  SizesTold
CHECK_DEADLOCK FALSE
