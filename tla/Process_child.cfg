CONSTANTS
  Frame = {1, 2, 3, 4, 5, 6, 7, 8, 9, 10, 11, 12, 13}
  FrameCounts = {4, 5, 6, 7, 8, 9, 10, 11, 12, 13}
  EntryCnt = 2
  Base = 2
  First = First
  Slot = {0, 1}
  Sel = {1, 2}
  Forker = {First}
  PageUnits = 2
  MaxIncr = 2
  ProgramEnd = 7
  ProgramNamed = {TRUE}
  HeapLimit = 9
  MaxCalls = 4
SPECIFICATION Spec
CHECK_DEADLOCK FALSE
INVARIANTS
  NeverMapsPresentPage
