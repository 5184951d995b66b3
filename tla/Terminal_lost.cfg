CONSTANTS
  w1 = w1
  w2 = w2
  NoTask = NoTask
  Writer = {w1, w2}
  Reader = {w1}
  Char <- Characters
  ObufSize = 2
  IbufSize = 2
  BufSize = 3
  MaxExtra = 1
  Scene <- ShellOnly
SPECIFICATION Spec
CHECK_DEADLOCK FALSE
INVARIANT WaitMakesSureOfData
