CONSTANTS
  t1 = t1
  t2 = t2
  t3 = t3
  Idle = Idle
  FirstTask = t1
  Task = {t1, t2, t3}
  SliceTicks = 2
  MaxSleep = 3
SPECIFICATION TFairSpec
INVARIANTS
  TypeOK
  CurrIsNextRun
  EachTaskInOneList
  EveryTickWalksOnce
  ReadyLatencyBounded
PROPERTIES
  PreemptedGoesLast
  SleepErrorBounded
  SleepersWake
