CONSTANTS
  RegionMax = 5
  PageSize = 2
  Wrap = 128
  EntryCnt = 4
  TextStart = 2
  TextEnd = 5
  DataStart = 6
  KernelEnd = 9
  EbdaStart = 14
  DispStart = 16
  DispEnd = 20
  ExtStart = 20
  ExtEnd = 48
  Machine <- Machines
SPECIFICATION Spec
CHECK_DEADLOCK FALSE
INVARIANT PagesUsable
