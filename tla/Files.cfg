CONSTANTS
  Task = {t1, t2}
  File = {0, 1, 2}
  Fd = {0, 1, 2}
  Dev = {0, 1}
  Num = {0, 1, 2, 3}
  TtyNr = 3
SPECIFICATION Spec
SYMMETRY TaskSymmetry
CHECK_DEADLOCK FALSE
INVARIANTS
  RefsCounted
  ReachesItsTerminal
  DevicesCounted
