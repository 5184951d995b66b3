CONSTANTS
  t1 = t1
  t2 = t2
  t3 = t3
  m1 = m1
  s1 = s1
  Idle = Idle
  NoTask = NoTask
  FirstTask = t1
  Task = {t1, t2, t3}
  SliceTicks = 2
  MaxSleep = 1
  Mutex = {m1}
  Sem = {s1}
  SemStart <- MCSemStart
  MaxDepth = 2
  MaxCount = 2
SPECIFICATION IpcSpec
INVARIANTS
  IpcTypeOK
  MutexConsistent
  NoTokenWhileWaiting
  WaitsForOneObject
PROPERTIES
  HandedOverInOrder
  ImplementsMutex
  ImplementsSem
