------------------------------ MODULE IpcProofs ------------------------------
(***************************************************************************)
(* The scheduler and, on top of it, mutexes and semaphores, for any number *)
(* of each, of tasks, any slice and any sleep.                             *)
(*                                                                         *)
(* The safety of the scheduler: the invariants of Sched are not inductive  *)
(* one by one.  list_remove takes the current task out of the ready list   *)
(* because it is the head (CurrIsNextRun), no task enters a list twice     *)
(* because it is in no other (EachTaskInOneList), and a task inside the    *)
(* timer handler stays ready because it can do nothing else first          *)
(* (WalkOwedIsReady).  Their conjunction SchedInv is inductive.            *)
(*                                                                         *)
(* Then how well it keeps time: no tick is lost or counted twice for a     *)
(* sleeper, though the walk of the sleep list may be put off, and the      *)
(* error of a sleep is less than the number of tasks.  The argument counts *)
(* the walks that are owed.                                                *)
(*                                                                         *)
(* Last, every step of Ipc is a step of the scheduler, so that all of this *)
(* holds underneath it, and Ipc has an invariant of its own, IpcInv: a     *)
(* task can join a wait list because it runs, hence is ready, hence waits  *)
(* nowhere else (SchedInv, WaitsForOneObject); and the task that a mutex   *)
(* is handed to has left the wait list because it was linked only once.    *)
(***************************************************************************)
EXTENDS Ipc, SchedTiming, KListProofs

SchedInv ==
  /\ TypeOK
  /\ CurrIsNextRun
  /\ EachTaskInOneList
  /\ SleepersHaveTicksLeft
  /\ WalkOwedIsReady

(* The head of a list is one of its members. *)
LEMMA HeadIsMember ==
  ASSUME NEW S, NEW l \in Seq(S), l # <<>>
  PROVE  Head(l) \in Members(l) /\ Head(l) \in S
BY DEF Members

(* The task the dispatcher chooses is idle or ready. *)
LEMMA NextRunType ==
  ASSUME NEW r \in Seq(Task)
  PROVE  /\ TaskNextRun(r) \in AllTasks
         /\ TaskNextRun(r) # Idle => TaskNextRun(r) \in Members(r)
BY HeadIsMember DEF TaskNextRun, AllTasks

(* Linking behind the others does not change who is first. *)
LEMMA NextRunOfInsertLast ==
  ASSUME NEW r \in Seq(Task), NEW t \in Task, r # <<>>
  PROVE  TaskNextRun(ListInsertLast(r, t)) = TaskNextRun(r)
<1>1. ListInsertLast(r, t) # <<>> /\ Head(ListInsertLast(r, t)) = Head(r)
  BY DEF ListInsertLast
<1> QED BY <1>1 DEF TaskNextRun

LEMMA SetReadyType ==
  ASSUME TypeOK, NEW T
  PROVE  SetReady(T) \in [AllTasks -> TaskState]
BY DEF TypeOK, SetReady, TaskState

(* task_dispatch leaves the first ready task current. *)
LEMMA DispatchProperties ==
  ASSUME NEW st \in [AllTasks -> TaskState], ready' \in Seq(Task), TaskDispatch(st)
  PROVE  /\ curr' \in AllTasks
         /\ state' \in [AllTasks -> TaskState]
         /\ CurrIsNextRun'
<1>1. curr' = TaskNextRun(ready') BY DEF TaskDispatch
<1>2. curr' \in AllTasks BY <1>1, NextRunType
<1>3. state' \in [AllTasks -> TaskState] BY <1>2 DEF TaskDispatch, TaskState
<1> QED BY <1>1, <1>2, <1>3 DEF CurrIsNextRun

(* The current task is ready unless it is the idle task. *)
LEMMA CurrIsReady ==
  ASSUME TypeOK, CurrIsNextRun, curr # Idle
  PROVE  curr \in Task /\ curr \in Members(ready) /\ ready # <<>>
<1>1. ready \in Seq(Task) BY DEF TypeOK
<1>2. curr \in Members(ready) BY <1>1, NextRunType DEF CurrIsNextRun
<1>3. ready # <<>> BY DEF CurrIsNextRun, TaskNextRun
<1> QED BY <1>1, <1>2, <1>3, MembersType

(* Rotating the ready list keeps its members. *)
LEMMA RotateProperties ==
  ASSUME SchedInv
  PROVE  /\ Rotate(ready) \in Seq(Task)
         /\ Members(Rotate(ready)) = Members(ready)
         /\ Distinct(Rotate(ready))
<1>1. ready \in Seq(Task) /\ Distinct(ready)
  BY DEF SchedInv, TypeOK, EachTaskInOneList
<1>2. CASE curr = Idle BY <1>1, <1>2 DEF Rotate
<1>3. CASE curr # Idle
  <2>1. curr \in Task /\ curr \in Members(ready)
    BY <1>3, CurrIsReady DEF SchedInv
  <2> DEFINE r == ListRemove(ready, curr)
  <2>2. r \in Seq(Task) /\ Members(r) = Members(ready) \ {curr} /\ Distinct(r)
    BY <1>1, ListRemoveProperties
  <2> HIDE DEF r
  <2>3. /\ ListInsertLast(r, curr) \in Seq(Task)
        /\ Members(ListInsertLast(r, curr)) = Members(r) \cup {curr}
        /\ Distinct(ListInsertLast(r, curr))
    BY <2>1, <2>2, ListInsertLastProperties
  <2>4. Rotate(ready) = ListInsertLast(r, curr) BY <1>3 DEF Rotate, r
  <2> QED BY <2>1, <2>2, <2>3, <2>4
<1> QED BY <1>2, <1>3

(* The walk of the sleep list moves the sleepers that are due and nothing  *)
(* else, and leaves the others with a tick to wait for.                    *)
LEMMA SleepWalkProperties ==
  ASSUME SchedInv, NEW r \in Seq(Task), NEW made,
         Members(r) = Members(ready), Distinct(r), SleepWalk(r, made)
  PROVE  /\ ready' \in Seq(Task) /\ sleepList' \in Seq(Task)
         /\ Distinct(ready') /\ Distinct(sleepList')
         /\ Members(ready) \subseteq Members(ready')
         /\ Members(ready') \cap Members(sleepList') = {}
         /\ Members(ready') \cup Members(sleepList')
              = Members(ready) \cup Members(sleepList)
         /\ sleepTicks' \in [AllTasks -> Nat]
         /\ SleepersHaveTicksLeft'
         /\ curr' \in AllTasks
         /\ state' \in [AllTasks -> TaskState]
         /\ CurrIsNextRun'
<1> DEFINE due == {t \in Members(sleepList) : sleepTicks[t] = 1}
           woken == ListKeep(sleepList, due)
<1>1. /\ sleepList \in Seq(Task) /\ Distinct(sleepList)
      /\ Members(ready) \cap Members(sleepList) = {}
      /\ sleepTicks \in [AllTasks -> Nat]
      /\ \A t \in Members(sleepList) : sleepTicks[t] >= 1
  BY DEF SchedInv, TypeOK, EachTaskInOneList, SleepersHaveTicksLeft
<1>2. /\ sleepTicks' = [t \in AllTasks |->
                          IF t \in Members(sleepList) THEN sleepTicks[t] - 1
                                                      ELSE sleepTicks[t]]
      /\ sleepList' = ListKeep(sleepList, Members(sleepList) \ due)
      /\ ready' = r \o woken
      /\ TaskDispatch(SetReady(made \cup due))
  BY DEF SleepWalk, Reached, Woken
<1>3. /\ sleepList' \in Seq(Task) /\ Distinct(sleepList')
      /\ Members(sleepList') = Members(sleepList) \ due
  BY <1>1, <1>2, ListKeepProperties
<1>4. woken \in Seq(Task) /\ Distinct(woken) /\ Members(woken) = due
  <2>1. Members(woken) = Members(sleepList) \cap due /\ woken \in Seq(Task) /\ Distinct(woken)
    BY <1>1, ListKeepProperties
  <2> QED BY <2>1
<1> HIDE DEF woken
<1>5. Members(r) \cap Members(woken) = {} BY <1>1, <1>4
<1>6. /\ ready' \in Seq(Task) /\ Distinct(ready')
      /\ Members(ready') = Members(ready) \cup due
  BY <1>2, <1>4, <1>5, ConcatProperties2
<1>7. sleepTicks' \in [AllTasks -> Nat]
  BY <1>1, <1>2
<1>8. ASSUME NEW t \in Members(sleepList') PROVE sleepTicks'[t] >= 1
  <2>1. t \in Members(sleepList) /\ sleepTicks[t] # 1 BY <1>3, <1>8
  <2>2. t \in AllTasks BY <1>1, <2>1, MembersType DEF AllTasks
  <2> QED BY <1>1, <1>2, <2>1, <2>2
<1>9. SetReady(made \cup due) \in [AllTasks -> TaskState]
  BY SetReadyType DEF SchedInv
<1>10. curr' \in AllTasks /\ state' \in [AllTasks -> TaskState] /\ CurrIsNextRun'
  BY <1>2, <1>6, <1>9, DispatchProperties
<1> QED BY <1>1, <1>3, <1>6, <1>7, <1>8, <1>10 DEF SleepersHaveTicksLeft

-----------------------------------------------------------------------------
(* Every action preserves SchedInv. *)
LEMMA InitInv == Init => SchedInv
<1> SUFFICES ASSUME Init PROVE SchedInv OBVIOUS
<1> USE SchedAssumption DEF Init
<1>1. /\ <<FirstTask>> \in Seq(Task) /\ <<>> \in Seq(Task)
      /\ Members(<<FirstTask>>) = {FirstTask} /\ Distinct(<<FirstTask>>)
      /\ Members(<<>>) = {} /\ Distinct(<<>>)
  BY DEF Members, Distinct
<1>2. TypeOK BY <1>1 DEF TypeOK, AllTasks, TaskState
<1>3. CurrIsNextRun BY DEF CurrIsNextRun, TaskNextRun
<1>4. EachTaskInOneList BY <1>1 DEF EachTaskInOneList
<1>5. SleepersHaveTicksLeft BY <1>1 DEF SleepersHaveTicksLeft
<1>6. WalkOwedIsReady BY DEF WalkOwedIsReady
<1> QED BY <1>2, <1>3, <1>4, <1>5, <1>6 DEF SchedInv

LEMMA TaskStartInv ==
  ASSUME SchedInv, NEW t \in Task, TaskStart(t)
  PROVE  SchedInv'
<1> USE DEF SchedInv
<1>1. /\ ready \in Seq(Task) /\ Distinct(ready) /\ curr # Idle /\ t \notin started
      /\ started = Members(ready) \cup Members(sleepList) \cup waiting
  BY DEF TaskStart, InTask, TypeOK, EachTaskInOneList
<1>2. /\ ready' \in Seq(Task) /\ Distinct(ready')
      /\ Members(ready') = Members(ready) \cup {t}
  BY <1>1, ListInsertLastProperties DEF TaskStart
<1>3. TypeOK'
  BY <1>2, SetReadyType DEF TypeOK, TaskStart
<1>4. CurrIsNextRun'
  BY <1>1, CurrIsReady, NextRunOfInsertLast DEF CurrIsNextRun, TaskStart
<1>5. EachTaskInOneList'
  BY <1>1, <1>2 DEF EachTaskInOneList, TaskStart
<1>6. SleepersHaveTicksLeft' BY DEF SleepersHaveTicksLeft, TaskStart
<1>7. WalkOwedIsReady' BY <1>2 DEF WalkOwedIsReady, TaskStart
<1> QED BY <1>3, <1>4, <1>5, <1>6, <1>7

LEMMA SysSchedYieldInv ==
  ASSUME SchedInv, SysSchedYield
  PROVE  SchedInv'
<1> USE DEF SchedInv
<1>1. /\ ready' \in Seq(Task) /\ Distinct(ready') /\ Members(ready') = Members(ready)
  BY RotateProperties DEF SysSchedYield
<1>2. curr' \in AllTasks /\ state' \in [AllTasks -> TaskState] /\ CurrIsNextRun'
  BY <1>1, SetReadyType, DispatchProperties DEF SysSchedYield
<1>3. TypeOK' BY <1>1, <1>2 DEF TypeOK, SysSchedYield
<1>4. EachTaskInOneList' BY <1>1 DEF EachTaskInOneList, SysSchedYield
<1>5. SleepersHaveTicksLeft' BY DEF SleepersHaveTicksLeft, SysSchedYield
<1>6. WalkOwedIsReady' BY <1>1 DEF WalkOwedIsReady, SysSchedYield
<1> QED BY <1>2, <1>3, <1>4, <1>5, <1>6

LEMMA SysSleepInv ==
  ASSUME SchedInv, NEW n \in 1 .. MaxSleep, SysSleep(n)
  PROVE  SchedInv'
<1> USE DEF SchedInv
<1>1. n \in Nat /\ n >= 1 BY SchedAssumption
<1>2. /\ ready \in Seq(Task) /\ Distinct(ready)
      /\ sleepList \in Seq(Task) /\ Distinct(sleepList)
      /\ sleepTicks \in [AllTasks -> Nat]
      /\ curr # Idle /\ curr \notin walkOwed
  BY DEF SysSleep, InTask, IrqOn, TypeOK, EachTaskInOneList
<1>3. curr \in Task /\ curr \in Members(ready) /\ curr \in AllTasks
  BY <1>2, CurrIsReady DEF AllTasks
<1>4. curr \notin Members(sleepList) BY <1>3 DEF EachTaskInOneList
<1>5. /\ ready' \in Seq(Task) /\ Distinct(ready')
      /\ Members(ready') = Members(ready) \ {curr}
  BY <1>2, ListRemoveProperties DEF SysSleep
<1>6. /\ sleepList' \in Seq(Task) /\ Distinct(sleepList')
      /\ Members(sleepList') = Members(sleepList) \cup {curr}
  BY <1>2, <1>3, <1>4, ListInsertLastProperties DEF SysSleep
<1>7. [state EXCEPT ![curr] = "SLEEP"] \in [AllTasks -> TaskState]
  BY <1>3 DEF TypeOK, TaskState
<1>8. curr' \in AllTasks /\ state' \in [AllTasks -> TaskState] /\ CurrIsNextRun'
  BY <1>5, <1>7, DispatchProperties DEF SysSleep
<1>9. sleepTicks' = [sleepTicks EXCEPT ![curr] = n]
  BY DEF SysSleep
<1>10. TypeOK' BY <1>1, <1>2, <1>5, <1>6, <1>8, <1>9 DEF TypeOK, SysSleep
<1>11. EachTaskInOneList'
  BY <1>3, <1>5, <1>6 DEF EachTaskInOneList, SysSleep
<1>12. SleepersHaveTicksLeft'
  <2> SUFFICES ASSUME NEW t \in Members(sleepList') PROVE sleepTicks'[t] >= 1
    BY DEF SleepersHaveTicksLeft
  <2>1. CASE t = curr BY <2>1, <1>1, <1>2, <1>3, <1>9
  <2>2. CASE t # curr
    <3>1. t \in Members(sleepList) BY <2>2, <1>6
    <3>2. sleepTicks'[t] = sleepTicks[t] BY <2>2, <1>2, <1>9
    <3> QED BY <3>1, <3>2 DEF SleepersHaveTicksLeft
  <2> QED BY <2>1, <2>2
<1>13. WalkOwedIsReady' BY <1>2, <1>5 DEF WalkOwedIsReady, SysSleep
<1> QED BY <1>8, <1>10, <1>11, <1>12, <1>13

LEMMA BlockInv ==
  ASSUME SchedInv, Block
  PROVE  SchedInv'
<1> USE DEF SchedInv
<1>1. ready \in Seq(Task) /\ Distinct(ready) /\ curr # Idle /\ curr \notin walkOwed
  BY DEF Block, InTask, IrqOn, TypeOK, EachTaskInOneList
<1>2. curr \in Task /\ curr \in Members(ready) BY <1>1, CurrIsReady
<1>3. /\ ready' \in Seq(Task) /\ Distinct(ready')
      /\ Members(ready') = Members(ready) \ {curr}
  BY <1>1, ListRemoveProperties DEF Block
<1>4. curr' \in AllTasks /\ state' \in [AllTasks -> TaskState] /\ CurrIsNextRun'
  BY <1>3, DispatchProperties DEF Block, TypeOK
<1>5. TypeOK' BY <1>2, <1>3, <1>4 DEF TypeOK, Block
<1>6. EachTaskInOneList' BY <1>2, <1>3 DEF EachTaskInOneList, Block
<1>7. SleepersHaveTicksLeft' BY DEF SleepersHaveTicksLeft, Block
<1>8. WalkOwedIsReady' BY <1>1, <1>3 DEF WalkOwedIsReady, Block
<1> QED BY <1>4, <1>5, <1>6, <1>7, <1>8

LEMMA WakeInv ==
  ASSUME SchedInv, NEW t \in Task, Wake(t)
  PROVE  SchedInv'
<1> USE DEF SchedInv
<1>1. /\ ready \in Seq(Task) /\ Distinct(ready) /\ t \in waiting
      /\ t \notin Members(ready) /\ t \notin Members(sleepList)
  BY DEF Wake, TypeOK, EachTaskInOneList
<1>2. /\ ready' \in Seq(Task) /\ Distinct(ready')
      /\ Members(ready') = Members(ready) \cup {t}
  BY <1>1, ListInsertLastProperties DEF Wake
<1>3. curr' \in AllTasks /\ state' \in [AllTasks -> TaskState] /\ CurrIsNextRun'
  BY <1>2, SetReadyType, DispatchProperties DEF Wake
<1>4. TypeOK' BY <1>2, <1>3 DEF TypeOK, Wake
<1>5. EachTaskInOneList' BY <1>1, <1>2 DEF EachTaskInOneList, Wake
<1>6. SleepersHaveTicksLeft' BY DEF SleepersHaveTicksLeft, Wake
<1>7. WalkOwedIsReady' BY <1>2 DEF WalkOwedIsReady, Wake
<1> QED BY <1>3, <1>4, <1>5, <1>6, <1>7

LEMMA TimerTickInv ==
  ASSUME SchedInv, TimerTick
  PROVE  SchedInv'
<1> USE DEF SchedInv
<1>0. /\ ready \in Seq(Task) /\ Distinct(ready)
      /\ sliceTicks \in [AllTasks -> 1 .. SliceTicks] /\ curr \in AllTasks
      /\ SliceTicks \in Nat \ {0}
  BY SchedAssumption DEF TypeOK, EachTaskInOneList
<1>1. CASE TickInSlice
  <2>1. sliceTicks' \in [AllTasks -> 1 .. SliceTicks]
    BY <1>0, <1>1 DEF TickInSlice
  <2>2. SleepWalk(ready, {}) BY <1>1 DEF TickInSlice
  <2>3. TypeOK'
    BY <1>0, <1>1, <2>1, <2>2, SleepWalkProperties DEF TypeOK, TickInSlice
  <2>4. CurrIsNextRun' /\ SleepersHaveTicksLeft'
    BY <1>0, <2>2, SleepWalkProperties
  <2>5. EachTaskInOneList'
    BY <1>0, <1>1, <2>2, SleepWalkProperties DEF EachTaskInOneList, TickInSlice
  <2>6. WalkOwedIsReady'
    BY <1>0, <1>1, <2>2, SleepWalkProperties DEF WalkOwedIsReady, TickInSlice
  <2> QED BY <2>3, <2>4, <2>5, <2>6
<1>2. CASE TickEndOfSliceAlone
  <2>1. sliceTicks' \in [AllTasks -> 1 .. SliceTicks]
    BY <1>0, <1>2 DEF TickEndOfSliceAlone
  <2>2. SleepWalk(Rotate(ready), {curr}) BY <1>2 DEF TickEndOfSliceAlone
  <2> DEFINE r == Rotate(ready)
  <2>3. r \in Seq(Task) /\ Members(r) = Members(ready) /\ Distinct(r)
    BY RotateProperties
  <2> HIDE DEF r
  <2>4. SleepWalk(r, {curr}) BY <2>2 DEF r
  <2>5. TypeOK'
    BY <1>2, <2>1, <2>3, <2>4, SleepWalkProperties DEF TypeOK, TickEndOfSliceAlone
  <2>6. CurrIsNextRun' /\ SleepersHaveTicksLeft'
    BY <2>3, <2>4, SleepWalkProperties
  <2>7. EachTaskInOneList'
    BY <1>2, <2>3, <2>4, SleepWalkProperties DEF EachTaskInOneList, TickEndOfSliceAlone
  <2>8. WalkOwedIsReady'
    BY <1>2, <2>3, <2>4, SleepWalkProperties DEF WalkOwedIsReady, TickEndOfSliceAlone
  <2> QED BY <2>5, <2>6, <2>7, <2>8
<1>3. CASE TickEndOfSliceSwitch
  <2>1. sliceTicks' \in [AllTasks -> 1 .. SliceTicks]
    BY <1>0, <1>3 DEF TickEndOfSliceSwitch
  <2>2. /\ ready' \in Seq(Task) /\ Distinct(ready')
        /\ Members(ready') = Members(ready)
    BY <1>3, RotateProperties DEF TickEndOfSliceSwitch
  <2>3. curr # Idle
    BY <1>3 DEF TickEndOfSliceSwitch, Rotate, CurrIsNextRun
  <2>4. curr \in Task /\ curr \in Members(ready) BY <2>3, CurrIsReady
  <2>5. curr' \in AllTasks /\ state' \in [AllTasks -> TaskState] /\ CurrIsNextRun'
    BY <1>3, <2>2, SetReadyType, DispatchProperties DEF TickEndOfSliceSwitch
  <2>6. TypeOK' BY <1>3, <2>1, <2>2, <2>4, <2>5 DEF TypeOK, TickEndOfSliceSwitch
  <2>7. EachTaskInOneList'
    BY <1>3, <2>2 DEF EachTaskInOneList, TickEndOfSliceSwitch
  <2>8. SleepersHaveTicksLeft'
    BY <1>3 DEF SleepersHaveTicksLeft, TickEndOfSliceSwitch
  <2>9. WalkOwedIsReady'
    BY <1>3, <2>2, <2>4 DEF WalkOwedIsReady, TickEndOfSliceSwitch
  <2> QED BY <2>5, <2>6, <2>7, <2>8, <2>9
<1> QED BY <1>1, <1>2, <1>3 DEF TimerTick

LEMMA FinishTickInv ==
  ASSUME SchedInv, FinishTick
  PROVE  SchedInv'
<1> USE DEF SchedInv
<1>1. ready \in Seq(Task) /\ Distinct(ready) /\ SleepWalk(ready, {})
  BY DEF TypeOK, EachTaskInOneList, FinishTick
<1>2. TypeOK' BY <1>1, SleepWalkProperties DEF TypeOK, FinishTick
<1>3. CurrIsNextRun' /\ SleepersHaveTicksLeft' BY <1>1, SleepWalkProperties
<1>4. EachTaskInOneList'
  BY <1>1, SleepWalkProperties DEF EachTaskInOneList, FinishTick
<1>5. WalkOwedIsReady'
  BY <1>1, SleepWalkProperties DEF WalkOwedIsReady, FinishTick
<1> QED BY <1>2, <1>3, <1>4, <1>5

LEMMA NextInv ==
  ASSUME SchedInv, [Next]_vars
  PROVE  SchedInv'
<1>1. CASE TimerTick BY <1>1, TimerTickInv
<1>2. ASSUME NEW t \in Task, TaskStart(t) PROVE SchedInv'
  BY <1>2, TaskStartInv
<1>3. CASE SysSchedYield BY <1>3, SysSchedYieldInv
<1>4. ASSUME NEW n \in 1 .. MaxSleep, SysSleep(n) PROVE SchedInv'
  BY <1>4, SysSleepInv
<1>5. CASE Block BY <1>5, BlockInv
<1>6. ASSUME NEW t \in Task, Wake(t) PROVE SchedInv'
  BY <1>6, WakeInv
<1>7. CASE FinishTick BY <1>7, FinishTickInv
<1>8. CASE UNCHANGED vars
  BY <1>8 DEF vars, SchedInv, TypeOK, CurrIsNextRun, EachTaskInOneList,
              SleepersHaveTicksLeft, WalkOwedIsReady
<1> QED BY <1>1, <1>2, <1>3, <1>4, <1>5, <1>6, <1>7, <1>8 DEF Next, NoTick

-----------------------------------------------------------------------------
(* The inductive invariant holds in every reachable state. *)
THEOREM SchedInvariant == Spec => []SchedInv
<1>1. SchedInv /\ [Next]_vars => SchedInv' BY NextInv
<1> QED BY InitInv, <1>1, PTL DEF Spec

(* Every variable of the scheduler keeps its type. *)
THEOREM TypeCorrect == Spec => []TypeOK
<1>1. SchedInv => TypeOK BY DEF SchedInv
<1> QED BY <1>1, SchedInvariant, PTL

(* The current task is always the one task_next_run would choose: the      *)
(* first ready task, or the idle task when none is ready.                  *)
THEOREM CurrentIsNext == Spec => []CurrIsNextRun
<1>1. SchedInv => CurrIsNextRun BY DEF SchedInv
<1> QED BY <1>1, SchedInvariant, PTL

(* No task is ever lost or linked twice. *)
THEOREM NoTaskLost == Spec => []EachTaskInOneList
<1>1. SchedInv => EachTaskInOneList BY DEF SchedInv
<1> QED BY <1>1, SchedInvariant, PTL

(* No sleeper counts down past zero, which task.c:328 warns would never    *)
(* end.                                                                    *)
THEOREM NoSleepUnderflow == Spec => []SleepersHaveTicksLeft
<1>1. SchedInv => SleepersHaveTicksLeft BY DEF SchedInv
<1> QED BY <1>1, SchedInvariant, PTL

(* A task with a walk to finish is always ready. *)
THEOREM OwnersOfWalksAreReady == Spec => []WalkOwedIsReady
<1>1. SchedInv => WalkOwedIsReady BY DEF SchedInv
<1> QED BY <1>1, SchedInvariant, PTL

-----------------------------------------------------------------------------
(* A walk links behind the others, so it takes the CPU from the idle task  *)
(* only.                                                                   *)
LEMMA WalkKeepsCurr ==
  ASSUME SchedInv, NEW made, SleepWalk(ready, made)
  PROVE  curr' = curr \/ curr = Idle
<1>1. /\ ready \in Seq(Task) /\ curr = TaskNextRun(ready)
      /\ sleepList \in Seq(Task)
  BY DEF SchedInv, TypeOK, CurrIsNextRun
<1>2. PICK woken \in Seq(Task) : ready' = ready \o woken
  BY <1>1, ListKeepProperties DEF SleepWalk, Woken
<1>3. curr' = TaskNextRun(ready') BY DEF SleepWalk, TaskDispatch
<1>4. CASE ready = <<>> BY <1>1, <1>4 DEF TaskNextRun
<1>5. CASE ready # <<>>
  <2>1. Head(ready \o woken) = Head(ready) /\ ready \o woken # <<>> BY <1>1, <1>5
  <2> QED BY <1>1, <1>2, <1>3, <1>5, <2>1 DEF TaskNextRun
<1> QED BY <1>4, <1>5

(* Rotating links the current task last. *)
LEMMA RotateLinksLast ==
  ASSUME SchedInv, curr # Idle
  PROVE  LET r == Rotate(ready) IN r[Len(r)] = curr
<1>1. ready \in Seq(Task) /\ curr \in Task
  BY CurrIsReady DEF SchedInv, TypeOK
<1>2. PICK r \in Seq(Task) : r = ListRemove(ready, curr)
  BY <1>1, ListRemoveProperties
<1>3. Append(r, curr)[Len(Append(r, curr))] = curr BY <1>1, <1>2
<1> QED BY <1>2, <1>3 DEF Rotate, ListInsertLast

(* A task that loses the CPU and could go on is the last of the ready      *)
(* tasks: only the end of its slice and a yield take the CPU from it,      *)
(* while a wake-up, a start and an expired sleep let it run on             *)
(* (core/task.c:249-257, 275-338).                                         *)
THEOREM PreemptedIsLast == Spec => PreemptedGoesLast
<1> DEFINE A == curr' # curr /\ curr \in Members(ready')
                  => ready'[Len(ready')] = curr
<1>1. ASSUME SchedInv, [Next]_vars PROVE [A]_vars
  <2> SUFFICES ASSUME Next, curr' # curr, curr \in Members(ready')
               PROVE  ready'[Len(ready')] = curr
    BY <1>1
  <2>0. /\ ready \in Seq(Task) /\ curr = TaskNextRun(ready) /\ SchedInv'
        /\ Idle \notin Members(ready')
    <3>1. SchedInv' BY <1>1, NextInv
    <3>2. ready' \in Seq(Task) BY <3>1 DEF SchedInv, TypeOK
    <3> QED BY <1>1, <3>1, <3>2, MembersType, SchedAssumption
        DEF SchedInv, TypeOK, CurrIsNextRun
  <2>1. curr # Idle BY <2>0
  <2>2. CASE \E t \in Task : TaskStart(t) BY <2>2 DEF TaskStart
  <2>3. CASE SysSchedYield
    BY <1>1, <2>1, <2>3, RotateLinksLast DEF SysSchedYield
  <2>4. CASE Block \/ \E n \in 1 .. MaxSleep : SysSleep(n)
    <3>1. ready' = ListRemove(ready, curr) BY <2>4 DEF Block, SysSleep
    <3> QED BY <2>0, <3>1, ListRemoveProperties
  <2>5. ASSUME NEW t \in Task, Wake(t) PROVE FALSE
    <3>1. ready # <<>> BY <2>0, <2>1 DEF TaskNextRun
    <3> QED BY <2>0, <2>5, <3>1, NextRunOfInsertLast DEF Wake, TaskDispatch
  <2>6. CASE FinishTick \/ TickInSlice
    BY <1>1, <2>1, <2>6, WalkKeepsCurr DEF FinishTick, TickInSlice
  <2>7. CASE TickEndOfSliceAlone
    <3>1. PICK r : r = Rotate(ready) OBVIOUS
    <3>2. r \in Seq(Task) /\ Members(r) = Members(ready) BY <1>1, <3>1, RotateProperties
    <3>3. SleepWalk(r, {curr}) /\ TaskNextRun(r) = curr
      BY <2>7, <3>1 DEF TickEndOfSliceAlone
    <3>4. PICK woken \in Seq(Task) : ready' = r \o woken
      BY <1>1, <3>3, ListKeepProperties DEF SleepWalk, Woken, SchedInv, TypeOK
    <3>5. r # <<>> BY <2>1, <3>3 DEF TaskNextRun
    <3>6. r \o woken # <<>> /\ Head(r \o woken) = Head(r) BY <3>2, <3>5
    <3>7. curr' = TaskNextRun(ready') BY <3>3 DEF SleepWalk, TaskDispatch
    <3> QED BY <3>3, <3>4, <3>5, <3>6, <3>7 DEF TaskNextRun
  <2>8. CASE TickEndOfSliceSwitch
    BY <1>1, <2>1, <2>8, RotateLinksLast DEF TickEndOfSliceSwitch
  <2> QED BY <2>2, <2>3, <2>4, <2>5, <2>6, <2>7, <2>8 DEF Next, NoTick, TimerTick
<1>2. PreemptedGoesLast <=> [][A]_vars BY DEF PreemptedGoesLast
<1> HIDE DEF A
<1> QED BY <1>1, <1>2, SchedInvariant, PTL DEF Spec

-----------------------------------------------------------------------------

tvars == <<vars, timingVars>>

TimingType ==
  /\ ticksLeft \in [Task -> Int]
  /\ owedAtSleep \in [Task -> 0 .. MaxOwed]

TimingInv == SchedInv /\ TimingType /\ EveryTickWalksOnce

(* How many walks can be owed, for W the set of tasks that owe one. *)
LEMMA OwedCardinality ==
  ASSUME NEW W \in SUBSET Task
  PROVE  /\ IsFiniteSet(W) /\ Cardinality(W) \in Nat
         /\ MaxOwed \in Nat
         /\ \A t \in Task \ W : Cardinality(W) <= MaxOwed
<1>1. IsFiniteSet(Task) /\ FirstTask \in Task BY SchedAssumption
<1>2. IsFiniteSet(W) /\ Cardinality(W) \in Nat /\ Cardinality(Task) \in Nat
  BY <1>1, FS_Subset, FS_CardinalityType
<1>3. Cardinality(Task) # 0 BY <1>1, FS_EmptySet
<1>4. ASSUME NEW t \in Task \ W PROVE Cardinality(W) <= MaxOwed
  <2>1. /\ IsFiniteSet(Task \ {t})
        /\ Cardinality(Task \ {t}) = Cardinality(Task) - 1
    BY <1>1, FS_RemoveElement
  <2>2. W \in SUBSET (Task \ {t}) BY <1>4
  <2> QED BY <2>1, <2>2, FS_Subset DEF MaxOwed
<1> QED BY <1>2, <1>3, <1>4 DEF MaxOwed

(* What a step that walks the sleep list does to a sleeper. *)
LEMMA WalkCounts ==
  ASSUME SchedInv, NEW r, NEW made, SleepWalk(r, made)
  PROVE  /\ Sleeping' \subseteq Sleeping
         /\ \A t \in Sleeping : sleepTicks'[t] = sleepTicks[t] - 1
         /\ \A t \in Sleeping \ Sleeping' : sleepTicks[t] = 1
<1> DEFINE due == {t \in Members(sleepList) : sleepTicks[t] = 1}
<1>1. /\ sleepList \in Seq(Task) /\ Members(sleepList) \subseteq Task
  BY MembersType DEF SchedInv, TypeOK
<1>2. /\ sleepList' = ListKeep(sleepList, Members(sleepList) \ due)
      /\ sleepTicks' = [t \in AllTasks |->
                          IF t \in Members(sleepList) THEN sleepTicks[t] - 1
                                                      ELSE sleepTicks[t]]
  BY DEF SleepWalk, Reached
<1>3. Members(sleepList') = Members(sleepList) \ due
  <2>1. Members(sleepList') = Members(sleepList) \cap (Members(sleepList) \ due)
    BY <1>1, <1>2, ListKeepProperties
  <2> QED BY <2>1
<1>4. \A t \in Sleeping : sleepTicks'[t] = sleepTicks[t] - 1
  BY <1>1, <1>2 DEF Sleeping, AllTasks
<1> QED BY <1>3, <1>4 DEF Sleeping

(* The walk and the tick of every step balance for every sleeper: a step   *)
(* of d ticks changes what is left to count by the walks it performs.      *)
LEMMA StepBalance ==
  ASSUME SchedInv, NEW d \in {0, 1}, d = 1 => TimerTick, d = 0 => NoTick
  PROVE  /\ \A t \in Sleeping :
              sleepTicks'[t] - Cardinality(walkOwed')
                = sleepTicks[t] - Cardinality(walkOwed) - d
         /\ \A t \in Sleeping \ Sleeping' : sleepTicks'[t] = 0
         /\ \A t \in Sleeping' \ Sleeping :
              /\ t \in Task \ walkOwed
              /\ sleepTicks'[t] \in Nat
              /\ walkOwed' = walkOwed
<1> USE DEF SchedInv
<1>0. /\ \A t \in Sleeping : sleepTicks[t] \in Nat
      /\ IsFiniteSet(walkOwed) /\ Cardinality(walkOwed) \in Nat
      /\ sleepTicks \in [AllTasks -> Nat] /\ sleepList \in Seq(Task)
  <2>1. Sleeping \subseteq AllTasks
    BY MembersType DEF Sleeping, TypeOK, AllTasks
  <2>2. walkOwed \in SUBSET Task BY DEF TypeOK
  <2> QED BY <2>1, <2>2, OwedCardinality DEF TypeOK
<1>1. CASE TickInSlice /\ d = 1
  <2>1. SleepWalk(ready, {}) /\ walkOwed' = walkOwed BY <1>1 DEF TickInSlice
  <2> QED BY <1>0, <1>1, <2>1, WalkCounts
<1>2. CASE TickEndOfSliceAlone /\ d = 1
  <2>1. SleepWalk(Rotate(ready), {curr}) /\ walkOwed' = walkOwed
    BY <1>2 DEF TickEndOfSliceAlone
  <2> QED BY <1>0, <1>2, <2>1, WalkCounts
<1>3. CASE TickEndOfSliceSwitch /\ d = 1
  <2>1. /\ curr \notin walkOwed /\ walkOwed' = walkOwed \cup {curr}
        /\ sleepTicks' = sleepTicks /\ Sleeping' = Sleeping
    BY <1>3 DEF TickEndOfSliceSwitch, IrqOn, Sleeping
  <2>2. Cardinality(walkOwed') = Cardinality(walkOwed) + 1
    BY <1>0, <2>1, FS_AddElement
  <2> QED BY <1>0, <1>3, <2>1, <2>2
<1>4. CASE FinishTick /\ d = 0
  <2>1. /\ SleepWalk(ready, {})
        /\ curr \in walkOwed /\ walkOwed' = walkOwed \ {curr}
    BY <1>4 DEF FinishTick
  <2>2. Cardinality(walkOwed') = Cardinality(walkOwed) - 1
    BY <1>0, <2>1, FS_RemoveElement
  <2> QED BY <1>0, <1>4, <2>1, <2>2, WalkCounts
<1>5. ASSUME NEW n \in 1 .. MaxSleep, SysSleep(n), d = 0
      PROVE  /\ walkOwed' = walkOwed
             /\ Sleeping' = Sleeping \cup {curr}
             /\ \A t \in Sleeping : sleepTicks'[t] = sleepTicks[t]
             /\ curr \in Task \ walkOwed
             /\ sleepTicks'[curr] \in Nat
  <2>1. curr # Idle /\ curr \notin walkOwed /\ walkOwed' = walkOwed
    BY <1>5 DEF SysSleep, InTask, IrqOn
  <2>2. curr \in Task /\ curr \in Members(ready) BY <2>1, CurrIsReady
  <2>3. curr \notin Sleeping BY <2>2 DEF EachTaskInOneList, Sleeping
  <2>4. sleepTicks' = [sleepTicks EXCEPT ![curr] = n] BY <1>5 DEF SysSleep
  <2>5. n \in Nat BY SchedAssumption
  <2>6. curr \in AllTasks /\ Sleeping \subseteq AllTasks
    BY <1>0, <2>2, MembersType DEF AllTasks, Sleeping
  <2>7. Sleeping' = Sleeping \cup {curr}
    BY <1>0, <1>5, <2>2, ListInsertLastProperties DEF SysSleep, Sleeping
  <2> QED BY <1>0, <2>1, <2>2, <2>3, <2>4, <2>5, <2>6, <2>7
<1>6. ASSUME d = 0, \/ \E t \in Task : TaskStart(t) \/ Wake(t)
                    \/ SysSchedYield \/ Block
      PROVE  sleepTicks' = sleepTicks /\ Sleeping' = Sleeping /\ walkOwed' = walkOwed
  BY <1>6 DEF TaskStart, Wake, SysSchedYield, Block, Sleeping
<1>7. CASE d = 1 BY <1>1, <1>2, <1>3, <1>7 DEF TimerTick
<1>8. CASE d = 0
  <2>1. CASE \E n \in 1 .. MaxSleep : SysSleep(n) BY <1>0, <1>5, <1>8, <2>1
  <2>2. CASE \/ \E t \in Task : TaskStart(t) \/ Wake(t)
             \/ SysSchedYield \/ Block
    BY <1>0, <1>6, <1>8, <2>2
  <2> QED BY <1>4, <1>8, <2>1, <2>2 DEF NoTick
<1> QED BY <1>7, <1>8

-----------------------------------------------------------------------------
LEMMA TimingInitInv == TInit => TimingInv
<1> SUFFICES ASSUME TInit PROVE TimingInv OBVIOUS
<1>1. SchedInv BY InitInv DEF TInit
<1>2. MaxOwed \in Nat BY OwedCardinality
<1>3. TimingType BY <1>2 DEF TInit, TimingType
<1>4. EveryTickWalksOnce BY DEF TInit, Init, EveryTickWalksOnce, Sleeping, Members
<1> QED BY <1>1, <1>3, <1>4 DEF TimingInv

(* A step of d ticks keeps the balance, and a sleeper that wakes up in it  *)
(* is off by the walks owed when it fell asleep less those owed now.       *)
LEMMA RecordStep ==
  ASSUME TimingInv, NEW d \in {0, 1}, d = 1 => TimerTick, d = 0 => NoTick, Record(d)
  PROVE  /\ TimingInv'
         /\ \A t \in Sleeping \ Sleeping' : ticksLeft'[t] \in -MaxOwed .. MaxOwed
<1>1. SchedInv /\ TimingType /\ EveryTickWalksOnce BY DEF TimingInv
<1>2. SchedInv' BY <1>1, NextInv DEF Next
<1>3. /\ Cardinality(walkOwed) \in Nat /\ Cardinality(walkOwed') \in Nat
      /\ MaxOwed \in Nat
      /\ \A t \in Task \ walkOwed : Cardinality(walkOwed) <= MaxOwed
      /\ \A t \in Task \ walkOwed' : Cardinality(walkOwed') <= MaxOwed
  <2>1. walkOwed \in SUBSET Task /\ walkOwed' \in SUBSET Task
    BY <1>1, <1>2 DEF SchedInv, TypeOK
  <2> QED BY <2>1, OwedCardinality
<1>4. /\ \A t \in Sleeping :
           sleepTicks'[t] - Cardinality(walkOwed')
             = sleepTicks[t] - Cardinality(walkOwed) - d
      /\ \A t \in Sleeping \ Sleeping' : sleepTicks'[t] = 0
      /\ \A t \in Sleeping' \ Sleeping :
           /\ t \in Task \ walkOwed
           /\ sleepTicks'[t] \in Nat
           /\ walkOwed' = walkOwed
  BY <1>1, StepBalance
<1>5. /\ Sleeping \subseteq Task /\ Sleeping' \subseteq Task
      /\ \A t \in Sleeping : sleepTicks[t] \in Nat /\ sleepTicks'[t] \in Nat
  <2>1. /\ sleepList \in Seq(Task) /\ sleepList' \in Seq(Task)
        /\ sleepTicks \in [AllTasks -> Nat] /\ sleepTicks' \in [AllTasks -> Nat]
    BY <1>1, <1>2 DEF SchedInv, TypeOK
  <2> QED BY <2>1, MembersType DEF Sleeping, AllTasks
<1>6. /\ ticksLeft' = [t \in Task |->
           IF t \in Sleeping THEN ticksLeft[t] - d
           ELSE IF t \in Sleeping' THEN sleepTicks'[t] ELSE 0]
      /\ owedAtSleep' = [t \in Task |->
           IF t \in Sleeping THEN owedAtSleep[t]
           ELSE IF t \in Sleeping' THEN Cardinality(walkOwed) ELSE 0]
  BY DEF Record
<1>7. /\ ticksLeft \in [Task -> Int] /\ owedAtSleep \in [Task -> 0 .. MaxOwed]
  BY <1>1 DEF TimingType
<1>8. ticksLeft' \in [Task -> Int]
  BY <1>4, <1>5, <1>6, <1>7
<1>9. owedAtSleep' \in [Task -> 0 .. MaxOwed]
  BY <1>3, <1>4, <1>6, <1>7
<1>10. ASSUME NEW t \in Sleeping
       PROVE  sleepTicks'[t] = ticksLeft'[t] - owedAtSleep'[t] + Cardinality(walkOwed')
  <2>1. sleepTicks[t] = ticksLeft[t] - owedAtSleep[t] + Cardinality(walkOwed)
    BY <1>1 DEF EveryTickWalksOnce
  <2>2. ticksLeft'[t] = ticksLeft[t] - d /\ owedAtSleep'[t] = owedAtSleep[t]
    BY <1>5, <1>6
  <2>3. ticksLeft[t] \in Int /\ owedAtSleep[t] \in Int BY <1>3, <1>5, <1>7
  <2>4. sleepTicks'[t] - Cardinality(walkOwed')
             = sleepTicks[t] - Cardinality(walkOwed) - d
    BY <1>4
  <2> QED BY <1>3, <1>5, <2>1, <2>2, <2>3, <2>4
<1>11. ASSUME NEW t \in Sleeping' \ Sleeping
       PROVE  sleepTicks'[t] = ticksLeft'[t] - owedAtSleep'[t] + Cardinality(walkOwed')
  <2>1. /\ ticksLeft'[t] = sleepTicks'[t]
        /\ owedAtSleep'[t] = Cardinality(walkOwed)
    BY <1>5, <1>6
  <2>2. sleepTicks'[t] \in Nat /\ walkOwed' = walkOwed BY <1>4
  <2> QED BY <1>3, <2>1, <2>2
<1>12. EveryTickWalksOnce' BY <1>10, <1>11 DEF EveryTickWalksOnce
<1>13. ASSUME NEW t \in Sleeping \ Sleeping'
       PROVE  ticksLeft'[t] \in -MaxOwed .. MaxOwed
  <2>1. ticksLeft'[t] - owedAtSleep'[t] + Cardinality(walkOwed') = 0
    BY <1>4, <1>10
  <2>2. ticksLeft'[t] \in Int /\ owedAtSleep'[t] \in 0 .. MaxOwed
    BY <1>5, <1>8, <1>9
  <2>3. t \in Task \ walkOwed'
    <3>1. t \notin Members(ready)
      BY <1>1 DEF SchedInv, EachTaskInOneList, Sleeping
    <3>2. t \notin walkOwed BY <1>1, <3>1 DEF SchedInv, WalkOwedIsReady
    <3>3. walkOwed' \subseteq walkOwed
      <4>1. CASE TimerTick /\ walkOwed' # walkOwed
        <5>1. TickEndOfSliceSwitch
          BY <4>1 DEF TimerTick, TickInSlice, TickEndOfSliceAlone
        <5>2. Sleeping' = Sleeping BY <5>1 DEF TickEndOfSliceSwitch, Sleeping
        <5> QED BY <5>2, <1>13
      <4>2. CASE NoTick
        BY <4>2 DEF NoTick, TaskStart, SysSchedYield, SysSleep, Block, Wake, FinishTick
      <4> QED BY <4>1, <4>2
    <3> QED BY <1>5, <3>2, <3>3
  <2> QED BY <1>3, <2>1, <2>2, <2>3
<1> QED BY <1>2, <1>8, <1>9, <1>12, <1>13 DEF TimingInv, TimingType

LEMMA TimingNextInv ==
  ASSUME TimingInv, [TNext]_tvars
  PROVE  TimingInv'
<1>1. CASE TimerTick /\ Record(1) BY <1>1, RecordStep
<1>2. CASE NoTick /\ Record(0) BY <1>2, RecordStep
<1>3. CASE UNCHANGED tvars
  BY <1>3 DEF tvars, vars, timingVars, TimingInv, TimingType, SchedInv, TypeOK,
              CurrIsNextRun, EachTaskInOneList, SleepersHaveTicksLeft,
              WalkOwedIsReady, EveryTickWalksOnce, Sleeping
<1> QED BY <1>1, <1>2, <1>3 DEF TNext

LEMMA TimingInvariant == TSpec => []TimingInv
<1>1. TimingInv /\ [TNext]_tvars => TimingInv' BY TimingNextInv
<1>2. TSpec => TInit /\ [][TNext]_tvars BY DEF TSpec, tvars
<1> QED BY TimingInitInv, <1>1, <1>2, PTL

(* Every tick walks the sleep list exactly once for every sleeper, at once *)
(* or when the task it interrupted runs again.                             *)
THEOREM TicksAreConserved == TSpec => []EveryTickWalksOnce
<1>1. TimingInv => EveryTickWalksOnce BY DEF TimingInv
<1> QED BY <1>1, TimingInvariant, PTL

(* The length of a sleep is off by less than the number of tasks, in       *)
(* either direction.                                                       *)
THEOREM SleepErrorIsBounded == TSpec => SleepErrorBounded
<1> DEFINE A == \A t \in Sleeping \ Sleeping' : ticksLeft'[t] \in -MaxOwed .. MaxOwed
<1>1. TimingInv /\ [TNext]_tvars => [A]_tvars
  <2> SUFFICES ASSUME TimingInv, TNext PROVE A OBVIOUS
  <2>1. CASE TimerTick /\ Record(1) BY <2>1, RecordStep
  <2>2. CASE NoTick /\ Record(0) BY <2>2, RecordStep
  <2> QED BY <2>1, <2>2 DEF TNext
<1>2. TSpec => [][TNext]_tvars BY DEF TSpec, tvars
<1>3. SleepErrorBounded <=> [][A]_tvars BY DEF SleepErrorBounded, tvars
<1> HIDE DEF A
<1> QED BY <1>1, <1>2, <1>3, TimingInvariant, PTL

-----------------------------------------------------------------------------
(* The latency bound.  A ready task waits for the tasks before it in the   *)
(* ready list, each of which has the rest of its slice: Due holds one pair *)
(* for each tick that they still have.  No step puts anyone before it, and *)
(* every tick takes one pair away.                                         *)
MaxWait == (Cardinality(Task) - 1) * SliceTicks

DueIn(l, slice, t) ==
  {x \in Task \X (1 .. SliceTicks) : Before(l, x[1], t) /\ x[2] <= slice[x[1]]}

Due(t) == DueIn(ready, sliceTicks, t)

LatencyInv ==
  /\ SchedInv
  /\ waited \in [Task -> Nat]
  /\ \A t \in WithoutCpu : waited[t] + Cardinality(Due(t)) <= MaxWait
  /\ \A t \in Task \ WithoutCpu : waited[t] = 0

(* A full slice of each other task is the most that can be due. *)
LEMMA DueIsBounded ==
  ASSUME NEW l \in Seq(Task), Distinct(l), NEW slice, NEW t \in Task
  PROVE  LET due == DueIn(l, slice, t)
         IN  /\ IsFiniteSet(due) /\ Cardinality(due) \in Nat
             /\ Cardinality(due) <= MaxWait
             /\ MaxWait \in Nat
<1> DEFINE others == Task \ {t}
<1>1. /\ IsFiniteSet(Task) /\ Cardinality(Task) \in Nat /\ SliceTicks \in Nat
  BY SchedAssumption, FS_CardinalityType
<1>2. IsFiniteSet(others) /\ Cardinality(others) = Cardinality(Task) - 1
  BY <1>1, FS_RemoveElement
<1>3. IsFiniteSet(1 .. SliceTicks) /\ Cardinality(1 .. SliceTicks) = SliceTicks
  <2>1. 1 \in Int /\ SliceTicks \in Int /\ ~ (1 > SliceTicks) /\ SliceTicks - 1 + 1 = SliceTicks
    BY SchedAssumption
  <2> QED BY <2>1, FS_Interval
<1>4. Cardinality(others) \in Nat BY <1>2, FS_CardinalityType
<1>5. /\ IsFiniteSet(others \X (1 .. SliceTicks))
      /\ Cardinality(others \X (1 .. SliceTicks)) = Cardinality(others) * SliceTicks
  <2> HIDE DEF others
  <2> QED BY <1>2, <1>3, FS_Product
<1>6. DueIn(l, slice, t) \subseteq others \X (1 .. SliceTicks)
  <2> SUFFICES ASSUME NEW x \in DueIn(l, slice, t) PROVE x[1] # t BY DEF DueIn
  <2> QED BY BeforeIsStrict DEF DueIn
<1>7. MaxWait = Cardinality(others) * SliceTicks BY <1>2 DEF MaxWait
<1> HIDE DEF others
<1>8. MaxWait \in Nat BY <1>1, <1>4, <1>7
<1> QED BY <1>5, <1>6, <1>7, <1>8, FS_Subset, FS_CardinalityType

(* A walk keeps the order of the tasks that were ready. *)
LEMMA WalkKeepsOrder ==
  ASSUME SchedInv, NEW r \in Seq(Task), Members(r) = Members(ready),
         NEW made, SleepWalk(r, made),
         NEW t \in Members(ready), NEW u, Before(ready', u, t)
  PROVE  Before(r, u, t)
<1>1. sleepList \in Seq(Task) /\ Members(ready) \cap Members(sleepList) = {}
  BY DEF SchedInv, TypeOK, EachTaskInOneList
<1> DEFINE woken == ListKeep(sleepList, {s \in Reached : sleepTicks[s] = 1})
<1>2. ready' = r \o woken BY DEF SleepWalk, Woken
<1>3. woken \in Seq(Task) /\ Members(woken) \subseteq Members(sleepList)
  BY <1>1, ListKeepProperties
<1> HIDE DEF woken
<1>4. t \notin Members(woken) BY <1>1, <1>3
<1> QED BY <1>2, <1>3, <1>4, ConcatKeepsOrder

(* Rotating takes the current task from before the others. *)
LEMMA RotateKeepsOrder ==
  ASSUME SchedInv, NEW t \in Members(ready), t # curr,
         NEW u, Before(Rotate(ready), u, t)
  PROVE  Before(ready, u, t) /\ u # curr
<1>1. ready \in Seq(Task) /\ curr = TaskNextRun(ready)
  BY DEF SchedInv, TypeOK, CurrIsNextRun
<1>2. curr # Idle
  <2>1. ready # <<>> BY DEF Members
  <2> QED BY <1>1, <2>1, HeadIsMember, SchedAssumption DEF TaskNextRun
<1>3. curr \in Task BY <1>2, CurrIsReady DEF SchedInv
<1>4. PICK r \in Seq(Task) :
        r = ListRemove(ready, curr) /\ Members(r) = Members(ready) \ {curr} /\ Distinct(r)
  BY <1>1, ListRemoveProperties DEF SchedInv, EachTaskInOneList
<1>5. /\ Rotate(ready) = r \o <<curr>>
      /\ <<curr>> \in Seq(Task) /\ Members(<<curr>>) = {curr}
  BY <1>2, <1>3, <1>4, AppendIsConcat DEF Rotate, ListInsertLast, Members
<1>6. Before(r, u, t) BY <1>4, <1>5, ConcatKeepsOrder
<1>7. u # curr BY <1>4, <1>6, BeforeIsStrict
<1>8. Before(ready, u, t) BY <1>1, <1>4, <1>6, KeepKeepsOrder DEF ListRemove
<1> QED BY <1>7, <1>8

(* Linking one task behind the others. *)
LEMMA InsertKeepsOrder ==
  ASSUME NEW l \in Seq(Task), NEW n \in Task, NEW t, t # n,
         NEW u, Before(ListInsertLast(l, n), u, t)
  PROVE  Before(l, u, t)
<1>1. ListInsertLast(l, n) = l \o <<n>> BY AppendIsConcat DEF ListInsertLast
<1>2. <<n>> \in Seq(Task) /\ Members(<<n>>) = {n} BY DEF Members
<1> QED BY <1>1, <1>2, ConcatKeepsOrder

(* A step that takes no tick brings nobody before a waiting task and gives *)
(* nobody more ticks.                                                      *)
LEMMA OthersKeepTheirTurn ==
  ASSUME SchedInv, NoTick, NEW t \in WithoutCpu, t \in Members(ready')
  PROVE  Due(t)' \subseteq Due(t)
<1>0. /\ t \in Members(ready) /\ t # curr
      /\ ready \in Seq(Task) /\ Members(ready) \subseteq Task
      /\ Members(ready) \cap waiting = {} /\ Members(ready) \subseteq started
  BY MembersType DEF WithoutCpu, SchedInv, TypeOK, EachTaskInOneList
<1>1. sliceTicks' = sliceTicks
  BY DEF NoTick, TaskStart, SysSchedYield, SysSleep, Block, Wake, FinishTick
<1> SUFFICES ASSUME NEW u, Before(ready', u, t) PROVE Before(ready, u, t)
  BY <1>1 DEF Due, DueIn
<1>2. ASSUME NEW n \in Task, TaskStart(n) \/ Wake(n) PROVE Before(ready, u, t)
  <2>1. n \notin Members(ready) /\ ready' = ListInsertLast(ready, n)
    BY <1>0, <1>2 DEF TaskStart, Wake
  <2> QED BY <1>0, <2>1, InsertKeepsOrder
<1>3. CASE SysSchedYield BY <1>0, <1>3, RotateKeepsOrder DEF SysSchedYield
<1>4. CASE Block \/ \E n \in 1 .. MaxSleep : SysSleep(n)
  BY <1>0, <1>4, KeepKeepsOrder DEF Block, SysSleep, ListRemove
<1>5. CASE FinishTick BY <1>0, <1>5, WalkKeepsOrder DEF FinishTick
<1> QED BY <1>2, <1>3, <1>4, <1>5 DEF NoTick

(* A tick takes one of the ticks away for which a task has to wait. *)
LEMMA TickIsTaken ==
  ASSUME SchedInv, TimerTick, NEW t \in WithoutCpu
  PROVE  Due(t)' \subseteq Due(t) /\ \E x \in Due(t) : x \notin Due(t)'
<1>0. /\ t \in Members(ready) /\ t # curr /\ t \in Task
      /\ ready \in Seq(Task) /\ Distinct(ready)
      /\ curr = TaskNextRun(ready)
      /\ sliceTicks \in [AllTasks -> 1 .. SliceTicks] /\ SliceTicks \in Nat
  BY MembersType, SchedAssumption
  DEF WithoutCpu, SchedInv, TypeOK, EachTaskInOneList, CurrIsNextRun
<1>1. curr # Idle /\ curr = Head(ready) /\ curr \in Task /\ curr \in AllTasks
  <2>1. ready # <<>> BY <1>0 DEF Members
  <2>2. curr = Head(ready) /\ Head(ready) \in Task BY <1>0, <2>1 DEF TaskNextRun
  <2> QED BY <2>2, SchedAssumption DEF AllTasks
<1>2. Before(ready, curr, t) BY <1>0, <1>1, HeadIsBefore
<1>3. <<curr, sliceTicks[curr]>> \in Due(t)
  <2>1. sliceTicks[curr] \in 1 .. SliceTicks /\ sliceTicks[curr] <= sliceTicks[curr]
    BY <1>0, <1>1
  <2> QED BY <1>1, <1>2, <2>1 DEF Due, DueIn
<1>4. CASE TickInSlice
  <2>1. /\ SleepWalk(ready, {}) /\ sliceTicks' = [sliceTicks EXCEPT ![curr] = @ - 1]
    BY <1>4 DEF TickInSlice
  <2>2. \A u \in Task : sliceTicks'[u] \in Int /\ sliceTicks[u] \in Int
                          /\ sliceTicks'[u] <= sliceTicks[u]
    BY <1>0, <1>1, <2>1 DEF AllTasks
  <2>3. \A u : Before(ready', u, t) => Before(ready, u, t)
    BY <1>0, <2>1, WalkKeepsOrder
  <2>4. ASSUME NEW x \in Due(t)' PROVE x \in Due(t)
    <3>1. /\ x \in Task \X (1 .. SliceTicks) /\ Before(ready', x[1], t)
          /\ x[2] <= sliceTicks'[x[1]]
      BY <2>4 DEF Due, DueIn
    <3>2. x[2] \in Int /\ x[1] \in Task BY <1>0, <3>1
    <3>3. x[2] <= sliceTicks[x[1]] BY <2>2, <3>1, <3>2
    <3> QED BY <2>3, <3>1, <3>3 DEF Due, DueIn
  <2>5. <<curr, sliceTicks[curr]>> \notin Due(t)'
    <3>1. sliceTicks'[curr] = sliceTicks[curr] - 1 /\ sliceTicks[curr] \in Int
      BY <1>0, <1>1, <2>1
    <3>2. ~ (sliceTicks[curr] <= sliceTicks'[curr]) BY <3>1
    <3> QED BY <3>2 DEF Due, DueIn
  <2> QED BY <1>3, <2>4, <2>5
<1>5. CASE TickEndOfSliceAlone \/ TickEndOfSliceSwitch
  <2>1. sliceTicks' = [sliceTicks EXCEPT ![curr] = SliceTicks]
    BY <1>5 DEF TickEndOfSliceAlone, TickEndOfSliceSwitch
  <2>2. \A u : Before(ready', u, t) => Before(Rotate(ready), u, t)
    <3>1. PICK r : r = Rotate(ready) OBVIOUS
    <3>2. r \in Seq(Task) /\ Members(r) = Members(ready) BY <3>1, RotateProperties
    <3>3. CASE TickEndOfSliceAlone
      <4>1. SleepWalk(r, {curr}) BY <3>1, <3>3 DEF TickEndOfSliceAlone
      <4> QED BY <1>0, <3>1, <3>2, <4>1, WalkKeepsOrder
    <3>4. CASE TickEndOfSliceSwitch BY <3>4 DEF TickEndOfSliceSwitch
    <3> QED BY <1>5, <3>3, <3>4
  <2>3. \A u : Before(ready', u, t) => Before(ready, u, t) /\ u # curr
    BY <1>0, <2>2, RotateKeepsOrder
  <2>4. \A u \in Task \ {curr} : sliceTicks'[u] = sliceTicks[u]
    BY <1>0, <2>1 DEF AllTasks
  <2>5. ASSUME NEW x \in Due(t)' PROVE x \in Due(t) /\ x[1] # curr
    <3>1. /\ x \in Task \X (1 .. SliceTicks) /\ Before(ready', x[1], t)
          /\ x[2] <= sliceTicks'[x[1]]
      BY <2>5 DEF Due, DueIn
    <3> QED BY <2>3, <2>4, <3>1 DEF Due, DueIn
  <2>6. <<curr, sliceTicks[curr]>> \notin Due(t)' BY <2>5
  <2> QED BY <1>3, <2>5, <2>6
<1> QED BY <1>4, <1>5 DEF TimerTick

LEMMA LatencyInitInv == TInit => LatencyInv
<1> SUFFICES ASSUME TInit PROVE LatencyInv OBVIOUS
<1>1. SchedInv BY InitInv DEF TInit
<1>2. WithoutCpu = {}
  BY DEF TInit, Init, WithoutCpu, Members
<1> QED BY <1>1, <1>2 DEF TInit, LatencyInv

LEMMA LatencyStep ==
  ASSUME LatencyInv, NEW d \in {0, 1}, d = 1 => TimerTick, d = 0 => NoTick, Record(d)
  PROVE  LatencyInv'
<1>1. SchedInv BY DEF LatencyInv
<1>2. SchedInv' BY <1>1, NextInv DEF Next
<1>3. /\ waited' = [t \in Task |->
           IF t \in WithoutCpu \cap WithoutCpu' THEN waited[t] + d ELSE 0]
      /\ waited \in [Task -> Nat]
  BY DEF LatencyInv, Record
<1>4. waited' \in [Task -> Nat] BY <1>3
<1>5. WithoutCpu \subseteq Task /\ WithoutCpu' \subseteq Task
  BY <1>1, <1>2, MembersType DEF WithoutCpu, SchedInv, TypeOK
<1>6. ASSUME NEW t \in WithoutCpu'
      PROVE  waited'[t] + Cardinality(Due(t)') <= MaxWait
  <2>1. t \in Task BY <1>5
  <2>2. /\ IsFiniteSet(Due(t)) /\ Cardinality(Due(t)) \in Nat /\ MaxWait \in Nat
    BY <1>1, <2>1, DueIsBounded DEF Due, SchedInv, TypeOK, EachTaskInOneList
  <2>3. /\ IsFiniteSet(Due(t)') /\ Cardinality(Due(t)') \in Nat
        /\ Cardinality(Due(t)') <= MaxWait
    BY <1>2, <2>1, DueIsBounded DEF Due, SchedInv, TypeOK, EachTaskInOneList
  <2>4. CASE t \notin WithoutCpu
    <3>1. waited'[t] = 0 BY <1>3, <2>1, <2>4
    <3> QED BY <2>2, <2>3, <3>1
  <2>5. CASE t \in WithoutCpu
    <3>1. waited'[t] = waited[t] + d /\ waited[t] \in Nat
      BY <1>3, <1>6, <2>1, <2>5
    <3>2. waited[t] + Cardinality(Due(t)) <= MaxWait BY <2>5 DEF LatencyInv
    <3>3. Cardinality(Due(t)') + d <= Cardinality(Due(t))
      <4>1. CASE d = 0
        <5>1. t \in Members(ready') BY <1>6 DEF WithoutCpu
        <5>2. Due(t)' \subseteq Due(t) BY <1>1, <2>5, <4>1, <5>1, OthersKeepTheirTurn
        <5> QED BY <2>2, <2>3, <4>1, <5>2, FS_Subset
      <4>2. CASE d = 1
        <5>1. PICK x \in Due(t) : x \notin Due(t)' BY <1>1, <2>5, <4>2, TickIsTaken
        <5>2. Due(t)' \subseteq Due(t) \ {x} BY <1>1, <2>5, <4>2, <5>1, TickIsTaken
        <5>3. /\ IsFiniteSet(Due(t) \ {x})
              /\ Cardinality(Due(t) \ {x}) = Cardinality(Due(t)) - 1
          BY <2>2, <5>1, FS_RemoveElement
        <5>4. Cardinality(Due(t)') <= Cardinality(Due(t) \ {x})
          BY <5>2, <5>3, FS_Subset
        <5> QED BY <2>2, <2>3, <4>2, <5>3, <5>4
      <4> QED BY <4>1, <4>2
    <3> QED BY <2>2, <2>3, <3>1, <3>2, <3>3
  <2> QED BY <2>4, <2>5
<1>7. \A t \in Task \ WithoutCpu' : waited'[t] = 0 BY <1>3
<1> QED BY <1>2, <1>4, <1>6, <1>7 DEF LatencyInv, MaxWait

LEMMA LatencyNextInv ==
  ASSUME LatencyInv, [TNext]_tvars
  PROVE  LatencyInv'
<1>1. CASE TimerTick /\ Record(1) BY <1>1, LatencyStep
<1>2. CASE NoTick /\ Record(0) BY <1>2, LatencyStep
<1>3. CASE UNCHANGED tvars
  BY <1>3 DEF tvars, vars, timingVars, LatencyInv, SchedInv, TypeOK, CurrIsNextRun,
              EachTaskInOneList, SleepersHaveTicksLeft, WalkOwedIsReady,
              WithoutCpu, Due, DueIn, MaxWait
<1> QED BY <1>1, <1>2, <1>3 DEF TNext

(* A ready task gets the CPU after a full slice of each other task at the  *)
(* latest, whatever they do meanwhile: slices used up, yields, wake-ups    *)
(* and sleeps that end all link behind it (core/task.c:249-257, 310-321).  *)
THEOREM LatencyIsBounded == TSpec => []ReadyLatencyBounded
<1>1. LatencyInv => ReadyLatencyBounded
  <2> SUFFICES ASSUME LatencyInv, NEW t \in Task PROVE waited[t] <= MaxWait
    BY DEF ReadyLatencyBounded, MaxWait
  <2>1. /\ Cardinality(Due(t)) \in Nat /\ MaxWait \in Nat /\ waited[t] \in Nat
    BY DueIsBounded DEF LatencyInv, Due, SchedInv, TypeOK, EachTaskInOneList
  <2>2. t \in WithoutCpu => waited[t] + Cardinality(Due(t)) <= MaxWait
    BY DEF LatencyInv
  <2>3. t \notin WithoutCpu => waited[t] = 0 BY DEF LatencyInv
  <2> QED BY <2>1, <2>2, <2>3
<1>2. LatencyInv /\ [TNext]_tvars => LatencyInv' BY LatencyNextInv
<1>3. TSpec => TInit /\ [][TNext]_tvars BY DEF TSpec, tvars
<1> QED BY LatencyInitInv, <1>1, <1>2, <1>3, PTL

-----------------------------------------------------------------------------
(* The mutexes, the semaphores and who waits for them. *)
IpcInv ==
  /\ IpcTypeOK
  /\ MutexConsistent
  /\ NoTokenWhileWaiting
  /\ WaitsForOneObject

USE IpcAssumption

-----------------------------------------------------------------------------
(* What a step of Ipc does to the scheduler is a step of the scheduler. *)
LEMMA IpcStepIsSchedStep ==
  ASSUME IpcTypeOK, [IpcNext]_ipcVars
  PROVE  [Next]_vars
<1>1. ASSUME SchedOnly PROVE Next
  BY <1>1 DEF SchedOnly, Next, NoTick
<1>2. ASSUME NEW m \in Mutex, MutexLock(m) PROVE [Next]_vars
  BY <1>2 DEF MutexLock, LockFree, LockAgain, LockTaken, Next, NoTick
<1>3. ASSUME NEW m \in Mutex, MutexUnlock(m) PROVE [Next]_vars
  <2>1. CASE UnlockInner(m) BY <2>1 DEF UnlockInner
  <2>2. CASE UnlockLast(m) BY <2>2 DEF UnlockLast
  <2>3. CASE UnlockHandOver(m)
    <3>1. mutexWait[m] \in Seq(Task) /\ mutexWait[m] # <<>>
      BY <2>3 DEF IpcTypeOK, UnlockHandOver
    <3>2. Head(mutexWait[m]) \in Task BY <3>1, HeadIsMember
    <3> QED BY <2>3, <3>2 DEF UnlockHandOver, Next, NoTick
  <2> QED BY <1>3, <2>1, <2>2, <2>3 DEF MutexUnlock
<1>4. ASSUME NEW s \in Sem, SemWait(s) PROVE [Next]_vars
  BY <1>4 DEF SemWait, WaitPass, WaitBlock, Next, NoTick
<1>5. ASSUME NEW s \in Sem, SemNotify(s) PROVE [Next]_vars
  <2>1. CASE NotifyCount(s) BY <2>1 DEF NotifyCount
  <2>2. CASE NotifyWaiter(s)
    <3>1. semWait[s] \in Seq(Task) /\ semWait[s] # <<>>
      BY <2>2 DEF IpcTypeOK, NotifyWaiter
    <3>2. Head(semWait[s]) \in Task BY <3>1, HeadIsMember
    <3> QED BY <2>2, <3>2 DEF NotifyWaiter, Next, NoTick
  <2> QED BY <1>5, <2>1, <2>2 DEF SemNotify
<1>6. CASE UNCHANGED ipcVars BY <1>6 DEF ipcVars
<1> QED BY <1>1, <1>2, <1>3, <1>4, <1>5, <1>6 DEF IpcNext

(* The task that runs waits for nothing. *)
LEMMA CurrWaitsNowhere ==
  ASSUME SchedInv, InTask
  PROVE  curr \in Task /\ curr \notin waiting
<1>1. curr \in Task /\ curr \in Members(ready)
  BY CurrIsReady DEF SchedInv, InTask
<1> QED BY <1>1 DEF SchedInv, EachTaskInOneList

-----------------------------------------------------------------------------
(* Only Block and Wake change the set of waiting tasks. *)
LEMMA OthersLeaveWaiting ==
  ASSUME SchedOnly
  PROVE  waiting' = waiting /\ UNCHANGED <<mutexVars, semVars>>
BY DEF SchedOnly, TaskStart, SysSchedYield, SysSleep, TimerTick, TickInSlice,
       TickEndOfSliceAlone, TickEndOfSliceSwitch, FinishTick

(* A step that leaves the waiting tasks and the wait lists alone. *)
LEMMA WaitsUnchanged ==
  ASSUME WaitsForOneObject, UNCHANGED <<waiting, mutexWait, semWait>>
  PROVE  WaitsForOneObject'
BY DEF WaitsForOneObject, Waiters

(* A task that waits nowhere joins the wait list of a mutex. *)
LEMMA JoinsMutex ==
  ASSUME IpcInv, NEW m \in Mutex, NEW t \in Task, t \notin waiting,
         waiting' = waiting \cup {t},
         mutexWait' = [mutexWait EXCEPT ![m] = ListInsertLast(@, t)],
         semWait' = semWait
  PROVE  /\ mutexWait' \in [Mutex -> Seq(Task)]
         /\ WaitsForOneObject'
         /\ Waiters(m)' = Waiters(m) \cup {t}
         /\ \A n \in Mutex \ {m} : Waiters(n)' = Waiters(n)
<1>1. /\ mutexWait \in [Mutex -> Seq(Task)]
      /\ t \notin Waiters(m)
      /\ Distinct(mutexWait[m])
  BY DEF IpcInv, IpcTypeOK, WaitsForOneObject
<1>2. /\ mutexWait'[m] \in Seq(Task)
      /\ Members(mutexWait'[m]) = Members(mutexWait[m]) \cup {t}
      /\ Distinct(mutexWait'[m])
  BY <1>1, ListInsertLastProperties DEF Waiters
<1>3. \A n \in Mutex \ {m} : mutexWait'[n] = mutexWait[n] BY <1>1
<1>4. mutexWait' \in [Mutex -> Seq(Task)] BY <1>1, <1>2
<1>5. /\ Waiters(m)' = Waiters(m) \cup {t}
      /\ \A n \in Mutex \ {m} : Waiters(n)' = Waiters(n)
  BY <1>2, <1>3 DEF Waiters
<1>6. WaitsForOneObject'
  <2>1. waiting' = (UNION {Waiters(n)' : n \in Mutex}) \cup
                   (UNION {Members(semWait'[s]) : s \in Sem})
    <3>1. (UNION {Waiters(n)' : n \in Mutex}) = (UNION {Waiters(n) : n \in Mutex}) \cup {t}
      BY <1>5
    <3> QED BY <3>1 DEF IpcInv, WaitsForOneObject
  <2>2. \A n \in Mutex : Distinct(mutexWait'[n])
    BY <1>2, <1>3 DEF IpcInv, WaitsForOneObject
  <2>3. /\ \A n \in Mutex : t \notin Waiters(n)
        /\ \A s \in Sem : t \notin Members(semWait[s])
    BY DEF IpcInv, WaitsForOneObject
  <2>4. \A n, k \in Mutex : n # k => Waiters(n)' \cap Waiters(k)' = {}
    BY <1>5, <2>3 DEF IpcInv, WaitsForOneObject
  <2>5. \A n \in Mutex, s \in Sem : Waiters(n)' \cap Members(semWait'[s]) = {}
    BY <1>5, <2>3 DEF IpcInv, WaitsForOneObject
  <2> QED BY <2>1, <2>2, <2>4, <2>5 DEF IpcInv, WaitsForOneObject, Waiters
<1> QED BY <1>4, <1>5, <1>6

(* The first waiter of a mutex leaves its wait list. *)
LEMMA LeavesMutex ==
  ASSUME IpcInv, NEW m \in Mutex, mutexWait[m] # <<>>,
         waiting' = waiting \ {Head(mutexWait[m])},
         mutexWait' = [mutexWait EXCEPT ![m] = ListRemoveFirst(@)],
         semWait' = semWait
  PROVE  /\ Head(mutexWait[m]) \in Task
         /\ mutexWait' \in [Mutex -> Seq(Task)]
         /\ WaitsForOneObject'
         /\ Waiters(m)' = Waiters(m) \ {Head(mutexWait[m])}
         /\ \A n \in Mutex \ {m} : Waiters(n)' = Waiters(n)
<1> DEFINE t == Head(mutexWait[m])
<1>1. /\ mutexWait \in [Mutex -> Seq(Task)]
      /\ Distinct(mutexWait[m])
  BY DEF IpcInv, IpcTypeOK, WaitsForOneObject
<1>2. /\ t \in Task /\ t \in Waiters(m)
      /\ mutexWait'[m] \in Seq(Task)
      /\ Members(mutexWait'[m]) = Members(mutexWait[m]) \ {t}
      /\ Distinct(mutexWait'[m])
  BY <1>1, ListRemoveFirstProperties DEF Waiters
<1>3. \A n \in Mutex \ {m} : mutexWait'[n] = mutexWait[n] BY <1>1
<1>4. mutexWait' \in [Mutex -> Seq(Task)] BY <1>1, <1>2
<1>5. /\ Waiters(m)' = Waiters(m) \ {t}
      /\ \A n \in Mutex \ {m} : Waiters(n)' = Waiters(n)
  BY <1>2, <1>3 DEF Waiters
<1> HIDE DEF t
<1>6. WaitsForOneObject'
  <2>1. /\ \A n \in Mutex \ {m} : t \notin Waiters(n)
        /\ \A s \in Sem : t \notin Members(semWait[s])
    BY <1>2 DEF IpcInv, WaitsForOneObject
  <2>2. waiting' = (UNION {Waiters(n)' : n \in Mutex}) \cup
                   (UNION {Members(semWait'[s]) : s \in Sem})
    <3>1. (UNION {Waiters(n)' : n \in Mutex}) = (UNION {Waiters(n) : n \in Mutex}) \ {t}
      BY <1>5, <2>1
    <3> QED BY <3>1, <2>1 DEF IpcInv, WaitsForOneObject, t
  <2>3. \A n \in Mutex : Distinct(mutexWait'[n])
    BY <1>2, <1>3 DEF IpcInv, WaitsForOneObject
  <2>4. \A n \in Mutex : Waiters(n)' \subseteq Waiters(n) BY <1>5
  <2>5. \A n, k \in Mutex : n # k => Waiters(n)' \cap Waiters(k)' = {}
    BY <2>4 DEF IpcInv, WaitsForOneObject
  <2>6. \A n \in Mutex, s \in Sem : Waiters(n)' \cap Members(semWait'[s]) = {}
    BY <2>4 DEF IpcInv, WaitsForOneObject
  <2> QED BY <2>2, <2>3, <2>5, <2>6 DEF IpcInv, WaitsForOneObject, Waiters
<1> QED BY <1>2, <1>4, <1>5, <1>6 DEF t

(* A task that waits nowhere joins the wait list of a semaphore. *)
LEMMA JoinsSem ==
  ASSUME IpcInv, NEW s \in Sem, NEW t \in Task, t \notin waiting,
         waiting' = waiting \cup {t},
         semWait' = [semWait EXCEPT ![s] = ListInsertLast(@, t)],
         mutexWait' = mutexWait
  PROVE  semWait' \in [Sem -> Seq(Task)] /\ WaitsForOneObject'
<1>1. /\ semWait \in [Sem -> Seq(Task)]
      /\ \A r \in Sem : t \notin Members(semWait[r])
      /\ \A m \in Mutex : t \notin Waiters(m)
      /\ Distinct(semWait[s])
  BY DEF IpcInv, IpcTypeOK, WaitsForOneObject
<1>2. /\ semWait'[s] \in Seq(Task)
      /\ Members(semWait'[s]) = Members(semWait[s]) \cup {t}
      /\ Distinct(semWait'[s])
  BY <1>1, ListInsertLastProperties
<1>3. \A r \in Sem \ {s} : semWait'[r] = semWait[r] BY <1>1
<1>4. \A m \in Mutex : Waiters(m)' = Waiters(m) BY DEF Waiters
<1>5. (UNION {Members(semWait'[r]) : r \in Sem})
        = (UNION {Members(semWait[r]) : r \in Sem}) \cup {t}
  BY <1>2, <1>3
<1>6. waiting' = (UNION {Waiters(m)' : m \in Mutex}) \cup
                 (UNION {Members(semWait'[r]) : r \in Sem})
  BY <1>4, <1>5 DEF IpcInv, WaitsForOneObject
<1>7. \A r \in Sem : Distinct(semWait'[r])
  BY <1>2, <1>3 DEF IpcInv, WaitsForOneObject
<1>8. \A r, q \in Sem : r # q => Members(semWait'[r]) \cap Members(semWait'[q]) = {}
  BY <1>1, <1>2, <1>3 DEF IpcInv, WaitsForOneObject
<1>9. \A m \in Mutex, r \in Sem : Waiters(m)' \cap Members(semWait'[r]) = {}
  BY <1>1, <1>2, <1>3, <1>4 DEF IpcInv, WaitsForOneObject
<1>10. semWait' \in [Sem -> Seq(Task)] BY <1>1, <1>2
<1> QED BY <1>6, <1>7, <1>8, <1>9, <1>10 DEF IpcInv, WaitsForOneObject, Waiters

(* The first waiter of a semaphore leaves its wait list. *)
LEMMA LeavesSem ==
  ASSUME IpcInv, NEW s \in Sem, semWait[s] # <<>>,
         waiting' = waiting \ {Head(semWait[s])},
         semWait' = [semWait EXCEPT ![s] = ListRemoveFirst(@)],
         mutexWait' = mutexWait
  PROVE  semWait' \in [Sem -> Seq(Task)] /\ WaitsForOneObject'
<1> DEFINE t == Head(semWait[s])
<1>1. semWait \in [Sem -> Seq(Task)] /\ Distinct(semWait[s])
  BY DEF IpcInv, IpcTypeOK, WaitsForOneObject
<1>2. /\ t \in Members(semWait[s])
      /\ semWait'[s] \in Seq(Task)
      /\ Members(semWait'[s]) = Members(semWait[s]) \ {t}
      /\ Distinct(semWait'[s])
  BY <1>1, ListRemoveFirstProperties
<1>3. \A r \in Sem \ {s} : semWait'[r] = semWait[r] BY <1>1
<1>4. \A m \in Mutex : Waiters(m)' = Waiters(m) BY DEF Waiters
<1> HIDE DEF t
<1>5. /\ \A r \in Sem \ {s} : t \notin Members(semWait[r])
      /\ \A m \in Mutex : t \notin Waiters(m)
  BY <1>2 DEF IpcInv, WaitsForOneObject
<1>6. (UNION {Members(semWait'[r]) : r \in Sem})
        = (UNION {Members(semWait[r]) : r \in Sem}) \ {t}
  BY <1>2, <1>3, <1>5
<1>7. waiting' = (UNION {Waiters(m)' : m \in Mutex}) \cup
                 (UNION {Members(semWait'[r]) : r \in Sem})
  BY <1>4, <1>5, <1>6 DEF IpcInv, WaitsForOneObject, t
<1>8. \A r \in Sem : Distinct(semWait'[r])
  BY <1>2, <1>3 DEF IpcInv, WaitsForOneObject
<1>9. \A r \in Sem : Members(semWait'[r]) \subseteq Members(semWait[r])
  BY <1>2, <1>3
<1>10. \A r, q \in Sem : r # q => Members(semWait'[r]) \cap Members(semWait'[q]) = {}
  BY <1>9 DEF IpcInv, WaitsForOneObject
<1>11. \A m \in Mutex, r \in Sem : Waiters(m)' \cap Members(semWait'[r]) = {}
  BY <1>4, <1>9 DEF IpcInv, WaitsForOneObject
<1>12. semWait' \in [Sem -> Seq(Task)] BY <1>1, <1>2
<1> QED BY <1>7, <1>8, <1>10, <1>11, <1>12 DEF IpcInv, WaitsForOneObject, Waiters

-----------------------------------------------------------------------------
(* IpcInv holds before any task runs. *)
LEMMA IpcInitInv ==
  ASSUME IpcInit
  PROVE  IpcInv
<1>1. SchedInv BY InitInv DEF IpcInit
<1>2. IpcTypeOK BY <1>1 DEF SchedInv, IpcInit, IpcTypeOK
<1>3. MutexConsistent
  BY DEF IpcInit, MutexConsistent, Waiters, Members
<1>4. NoTokenWhileWaiting BY DEF IpcInit, NoTokenWhileWaiting
<1>5. WaitsForOneObject
  BY DEF IpcInit, Init, WaitsForOneObject, Waiters, Members, Distinct
<1> QED BY <1>2, <1>3, <1>4, <1>5 DEF IpcInv

(* A step that leaves the mutexes alone. *)
LEMMA MutexUnchanged ==
  ASSUME MutexConsistent, UNCHANGED mutexVars
  PROVE  MutexConsistent'
BY DEF MutexConsistent, mutexVars, Waiters

(* The part of the type invariant that is Ipc's own. *)
ObjectTypes ==
  /\ owner \in [Mutex -> Task \cup {NoTask}]
  /\ lockedCount \in [Mutex -> Nat]
  /\ mutexWait \in [Mutex -> Seq(Task)]
  /\ semCount \in [Sem -> Nat]
  /\ semWait \in [Sem -> Seq(Task)]

(* mutex_lock of a free mutex: nobody waits, and the new owner does not. *)
LEMMA LockFreeInv ==
  ASSUME SchedInv, IpcInv, NEW m \in Mutex, LockFree(m)
  PROVE  ObjectTypes' /\ MutexConsistent' /\ NoTokenWhileWaiting' /\ WaitsForOneObject'
<1>1. curr \in Task /\ curr \notin waiting BY CurrWaitsNowhere DEF LockFree
<1>2. /\ owner' = [owner EXCEPT ![m] = curr]
      /\ lockedCount' = [lockedCount EXCEPT ![m] = 1]
      /\ UNCHANGED <<waiting, mutexWait, semCount, semWait>>
  BY DEF LockFree, vars, semVars
<1>3. ObjectTypes' BY <1>1, <1>2 DEF IpcInv, IpcTypeOK, ObjectTypes
<1>4. curr \notin Waiters(m) BY <1>1 DEF IpcInv, WaitsForOneObject
<1>5. curr # NoTask BY <1>1 DEF AllTasks
<1>6. MutexConsistent'
  BY <1>2, <1>4, <1>5 DEF IpcInv, IpcTypeOK, MutexConsistent, Waiters
<1>7. NoTokenWhileWaiting' BY <1>2 DEF IpcInv, NoTokenWhileWaiting
<1>8. WaitsForOneObject' BY <1>2, WaitsUnchanged DEF IpcInv
<1> QED BY <1>3, <1>6, <1>7, <1>8

(* mutex_lock by the owner, and mutex_unlock that only counts down. *)
LEMMA DepthInv ==
  ASSUME SchedInv, IpcInv, NEW m \in Mutex, LockAgain(m) \/ UnlockInner(m)
  PROVE  ObjectTypes' /\ MutexConsistent' /\ NoTokenWhileWaiting' /\ WaitsForOneObject'
<1>1. /\ lockedCount[m] \in Nat \ {0}
      /\ \E n \in Nat \ {0} : lockedCount' = [lockedCount EXCEPT ![m] = n]
      /\ UNCHANGED <<waiting, owner, mutexWait, semCount, semWait>>
  BY DEF LockAgain, UnlockInner, vars, semVars, IpcInv, IpcTypeOK
<1>2. ObjectTypes' BY <1>1 DEF IpcInv, IpcTypeOK, ObjectTypes
<1>3. MutexConsistent'
  BY <1>1 DEF IpcInv, IpcTypeOK, MutexConsistent, Waiters
<1>4. NoTokenWhileWaiting' BY <1>1 DEF IpcInv, NoTokenWhileWaiting
<1>5. WaitsForOneObject' BY <1>1, WaitsUnchanged DEF IpcInv
<1> QED BY <1>2, <1>3, <1>4, <1>5

(* mutex_lock of a taken mutex: the task that runs joins the wait list. *)
LEMMA LockTakenInv ==
  ASSUME SchedInv, IpcInv, NEW m \in Mutex, LockTaken(m)
  PROVE  ObjectTypes' /\ MutexConsistent' /\ NoTokenWhileWaiting' /\ WaitsForOneObject'
<1>1. curr \in Task /\ curr \notin waiting
  BY CurrWaitsNowhere DEF LockTaken, Block
<1>2. /\ lockedCount[m] # 0 /\ owner[m] # curr
      /\ waiting' = waiting \cup {curr}
      /\ mutexWait' = [mutexWait EXCEPT ![m] = ListInsertLast(@, curr)]
      /\ UNCHANGED <<owner, lockedCount, semCount, semWait>>
  BY DEF LockTaken, Block, semVars
<1>3. /\ mutexWait' \in [Mutex -> Seq(Task)]
      /\ WaitsForOneObject'
      /\ Waiters(m)' = Waiters(m) \cup {curr}
      /\ \A n \in Mutex \ {m} : Waiters(n)' = Waiters(n)
  BY <1>1, <1>2, JoinsMutex
<1>4. ObjectTypes' BY <1>2, <1>3 DEF IpcInv, IpcTypeOK, ObjectTypes
<1>5. \A n \in Mutex \ {m} : mutexWait'[n] = mutexWait[n]
  BY <1>2 DEF IpcInv, IpcTypeOK
<1>6. MutexConsistent'
  BY <1>2, <1>3, <1>5 DEF IpcInv, MutexConsistent
<1>7. NoTokenWhileWaiting' BY <1>2 DEF IpcInv, NoTokenWhileWaiting
<1> QED BY <1>3, <1>4, <1>6, <1>7

(* mutex_unlock that frees the mutex: nobody waits for it. *)
LEMMA UnlockLastInv ==
  ASSUME SchedInv, IpcInv, NEW m \in Mutex, UnlockLast(m)
  PROVE  ObjectTypes' /\ MutexConsistent' /\ NoTokenWhileWaiting' /\ WaitsForOneObject'
<1>1. /\ mutexWait[m] = <<>>
      /\ owner' = [owner EXCEPT ![m] = NoTask]
      /\ lockedCount' = [lockedCount EXCEPT ![m] = 0]
      /\ UNCHANGED <<waiting, mutexWait, semCount, semWait>>
  BY DEF UnlockLast, vars, semVars
<1>2. ObjectTypes' BY <1>1 DEF IpcInv, IpcTypeOK, ObjectTypes
<1>3. Waiters(m) = {} BY <1>1 DEF Waiters, Members
<1>4. MutexConsistent'
  BY <1>1, <1>3 DEF IpcInv, IpcTypeOK, MutexConsistent, Waiters
<1>5. NoTokenWhileWaiting' BY <1>1 DEF IpcInv, NoTokenWhileWaiting
<1>6. WaitsForOneObject' BY <1>1, WaitsUnchanged DEF IpcInv
<1> QED BY <1>2, <1>4, <1>5, <1>6

(* mutex_unlock that hands the mutex over: the new owner waits no more. *)
LEMMA UnlockHandOverInv ==
  ASSUME SchedInv, IpcInv, NEW m \in Mutex, UnlockHandOver(m)
  PROVE  ObjectTypes' /\ MutexConsistent' /\ NoTokenWhileWaiting' /\ WaitsForOneObject'
<1> DEFINE t == Head(mutexWait[m])
<1>1. /\ lockedCount[m] = 1 /\ mutexWait[m] # <<>>
      /\ waiting' = waiting \ {t}
      /\ mutexWait' = [mutexWait EXCEPT ![m] = ListRemoveFirst(@)]
      /\ owner' = [owner EXCEPT ![m] = t]
      /\ UNCHANGED <<lockedCount, semCount, semWait>>
  BY DEF UnlockHandOver, Wake, semVars
<1>2. /\ t \in Task
      /\ mutexWait' \in [Mutex -> Seq(Task)]
      /\ WaitsForOneObject'
      /\ Waiters(m)' = Waiters(m) \ {t}
      /\ \A n \in Mutex \ {m} : Waiters(n)' = Waiters(n)
  BY <1>1, LeavesMutex
<1> HIDE DEF t
<1>3. ObjectTypes' BY <1>1, <1>2 DEF IpcInv, IpcTypeOK, ObjectTypes
<1>4. t # NoTask BY <1>2 DEF AllTasks
<1>5. \A n \in Mutex \ {m} : mutexWait'[n] = mutexWait[n] /\ owner'[n] = owner[n]
  BY <1>1 DEF IpcInv, IpcTypeOK
<1>6. owner'[m] = t BY <1>1 DEF IpcInv, IpcTypeOK
<1>7. MutexConsistent'
  BY <1>1, <1>2, <1>4, <1>5, <1>6 DEF IpcInv, MutexConsistent
<1>8. NoTokenWhileWaiting' BY <1>1 DEF IpcInv, NoTokenWhileWaiting
<1> QED BY <1>2, <1>3, <1>7, <1>8

(* sem_wait: a task blocks only when there is no token. *)
LEMMA SemWaitInv ==
  ASSUME SchedInv, IpcInv, NEW s \in Sem, SemWait(s)
  PROVE  ObjectTypes' /\ MutexConsistent' /\ NoTokenWhileWaiting' /\ WaitsForOneObject'
<1>1. MutexConsistent'
  BY MutexUnchanged DEF IpcInv, SemWait, WaitPass, WaitBlock
<1>2. CASE WaitPass(s)
  <2>1. /\ semCount[s] > 0
        /\ semCount' = [semCount EXCEPT ![s] = @ - 1]
        /\ UNCHANGED <<waiting, owner, lockedCount, mutexWait, semWait>>
    BY <1>2 DEF WaitPass, vars, mutexVars
  <2>2. ObjectTypes' BY <2>1 DEF IpcInv, IpcTypeOK, ObjectTypes
  <2>3. NoTokenWhileWaiting'
    BY <2>1 DEF IpcInv, IpcTypeOK, NoTokenWhileWaiting
  <2>4. WaitsForOneObject' BY <2>1, WaitsUnchanged DEF IpcInv
  <2> QED BY <1>1, <2>2, <2>3, <2>4
<1>3. CASE WaitBlock(s)
  <2>1. curr \in Task /\ curr \notin waiting
    BY <1>3, CurrWaitsNowhere DEF WaitBlock, Block
  <2>2. /\ semCount[s] <= 0
        /\ waiting' = waiting \cup {curr}
        /\ semWait' = [semWait EXCEPT ![s] = ListInsertLast(@, curr)]
        /\ UNCHANGED <<owner, lockedCount, mutexWait, semCount>>
    BY <1>3 DEF WaitBlock, Block, mutexVars
  <2>3. semWait' \in [Sem -> Seq(Task)] /\ WaitsForOneObject'
    BY <2>1, <2>2, JoinsSem
  <2>4. ObjectTypes' BY <2>2, <2>3 DEF IpcInv, IpcTypeOK, ObjectTypes
  <2>5. semCount[s] = 0 BY <2>2 DEF IpcInv, IpcTypeOK
  <2>6. NoTokenWhileWaiting'
    BY <2>2, <2>5 DEF IpcInv, IpcTypeOK, NoTokenWhileWaiting
  <2> QED BY <1>1, <2>3, <2>4, <2>6
<1> QED BY <1>2, <1>3 DEF SemWait

(* sem_notify: the token goes to the first waiter, or is counted. *)
LEMMA SemNotifyInv ==
  ASSUME SchedInv, IpcInv, NEW s \in Sem, SemNotify(s)
  PROVE  ObjectTypes' /\ MutexConsistent' /\ NoTokenWhileWaiting' /\ WaitsForOneObject'
<1>1. MutexConsistent'
  BY MutexUnchanged DEF IpcInv, SemNotify, NotifyWaiter, NotifyCount
<1>2. CASE NotifyCount(s)
  <2>1. /\ semWait[s] = <<>>
        /\ semCount' = [semCount EXCEPT ![s] = @ + 1]
        /\ UNCHANGED <<waiting, owner, lockedCount, mutexWait, semWait>>
    BY <1>2 DEF NotifyCount, vars, mutexVars
  <2>2. ObjectTypes' BY <2>1 DEF IpcInv, IpcTypeOK, ObjectTypes
  <2>3. NoTokenWhileWaiting'
    BY <2>1 DEF IpcInv, IpcTypeOK, NoTokenWhileWaiting
  <2>4. WaitsForOneObject' BY <2>1, WaitsUnchanged DEF IpcInv
  <2> QED BY <1>1, <2>2, <2>3, <2>4
<1>3. CASE NotifyWaiter(s)
  <2>1. /\ semWait[s] # <<>>
        /\ waiting' = waiting \ {Head(semWait[s])}
        /\ semWait' = [semWait EXCEPT ![s] = ListRemoveFirst(@)]
        /\ UNCHANGED <<owner, lockedCount, mutexWait, semCount>>
    BY <1>3 DEF NotifyWaiter, Wake, mutexVars
  <2>2. semWait' \in [Sem -> Seq(Task)] /\ WaitsForOneObject'
    BY <2>1, LeavesSem
  <2>3. ObjectTypes' BY <2>1, <2>2 DEF IpcInv, IpcTypeOK, ObjectTypes
  <2>4. NoTokenWhileWaiting'
    BY <2>1 DEF IpcInv, IpcTypeOK, NoTokenWhileWaiting
  <2> QED BY <1>1, <2>2, <2>3, <2>4
<1> QED BY <1>2, <1>3 DEF SemNotify

(* IpcInv is inductive on top of the scheduler's invariant. *)
LEMMA IpcNextInv ==
  ASSUME SchedInv, IpcInv, [IpcNext]_ipcVars
  PROVE  SchedInv' /\ IpcInv'
<1>1. SchedInv' BY IpcStepIsSchedStep, NextInv DEF IpcInv
<1> DEFINE Goal == ObjectTypes' /\ MutexConsistent' /\ NoTokenWhileWaiting' /\ WaitsForOneObject'
<1>2. ASSUME UNCHANGED <<waiting, mutexVars, semVars>> PROVE Goal
  <2>1. ObjectTypes'
    BY <1>2 DEF IpcInv, IpcTypeOK, ObjectTypes, mutexVars, semVars
  <2>2. MutexConsistent' BY <1>2, MutexUnchanged DEF IpcInv
  <2>3. NoTokenWhileWaiting' BY <1>2 DEF IpcInv, NoTokenWhileWaiting, semVars
  <2>4. WaitsForOneObject' BY <1>2, WaitsUnchanged DEF IpcInv, mutexVars, semVars
  <2> QED BY <2>1, <2>2, <2>3, <2>4
<1>3. ASSUME SchedOnly PROVE Goal BY <1>2, <1>3, OthersLeaveWaiting
<1>4. ASSUME UNCHANGED ipcVars PROVE Goal BY <1>2, <1>4 DEF ipcVars, vars
<1>5. ASSUME NEW m \in Mutex, MutexLock(m) PROVE Goal
  BY <1>5, LockFreeInv, DepthInv, LockTakenInv DEF MutexLock
<1>6. ASSUME NEW m \in Mutex, MutexUnlock(m) PROVE Goal
  BY <1>6, DepthInv, UnlockLastInv, UnlockHandOverInv DEF MutexUnlock
<1>7. ASSUME NEW s \in Sem, SemWait(s) PROVE Goal BY <1>7, SemWaitInv
<1>8. ASSUME NEW s \in Sem, SemNotify(s) PROVE Goal BY <1>8, SemNotifyInv
<1>9. Goal BY <1>3, <1>4, <1>5, <1>6, <1>7, <1>8 DEF IpcNext
<1> HIDE DEF Goal
<1>10. IpcInv'
  BY <1>1, <1>9 DEF Goal, IpcInv, IpcTypeOK, ObjectTypes, SchedInv
<1> QED BY <1>1, <1>10

-----------------------------------------------------------------------------
(* Both invariants hold in every reachable state. *)
THEOREM IpcInvariant == IpcSpec => [](SchedInv /\ IpcInv)
<1>1. IpcInit => SchedInv /\ IpcInv BY InitInv, IpcInitInv DEF IpcInit
<1>2. SchedInv /\ IpcInv /\ [IpcNext]_ipcVars => (SchedInv /\ IpcInv)' BY IpcNextInv
<1> QED BY <1>1, <1>2, PTL DEF IpcSpec

(* Every variable of the mutexes and semaphores keeps its type. *)
THEOREM IpcTypeCorrect == IpcSpec => []IpcTypeOK
<1>1. IpcInv => IpcTypeOK BY DEF IpcInv
<1> QED BY <1>1, IpcInvariant, PTL

(* No mutex is free while a task waits for it, and none is held by a task  *)
(* that waits for it: mutex_unlock loses no wake-up.                       *)
THEOREM NoLostMutex == IpcSpec => []MutexConsistent
<1>1. IpcInv => MutexConsistent BY DEF IpcInv
<1> QED BY <1>1, IpcInvariant, PTL

(* No task waits for a semaphore that has a token: sem_notify loses none.  *)
THEOREM NoLostToken == IpcSpec => []NoTokenWhileWaiting
<1>1. IpcInv => NoTokenWhileWaiting BY DEF IpcInv
<1> QED BY <1>1, IpcInvariant, PTL

(* A blocked task waits for exactly one mutex or semaphore. *)
THEOREM OneWaitList == IpcSpec => []WaitsForOneObject
<1>1. IpcInv => WaitsForOneObject BY DEF IpcInv
<1> QED BY <1>1, IpcInvariant, PTL

(* A step of another part leaves the order of a mutex's waiters alone. *)
LEMMA HandOverStep ==
  ASSUME SchedInv, IpcInv, [IpcNext]_ipcVars, NEW m \in Mutex
  PROVE  /\ \A t \in Waiters(m) \ Waiters(m)' :
              t = Head(mutexWait[m]) /\ owner'[m] = t /\ lockedCount'[m] = 1
         /\ (mutexWait[m] # <<>> /\ owner'[m] # owner[m])
              => owner'[m] = Head(mutexWait[m])
<1> DEFINE Same == mutexWait'[m] = mutexWait[m] /\ owner'[m] = owner[m]
<1>1. ASSUME Same PROVE Waiters(m)' = Waiters(m) /\ owner'[m] = owner[m]
  BY <1>1 DEF Waiters
<1>2. ASSUME UNCHANGED mutexVars PROVE Same BY <1>2 DEF mutexVars
<1>3. ASSUME NEW n \in Mutex, MutexLock(n) \/ MutexUnlock(n), n # m PROVE Same
  BY <1>3 DEF IpcInv, IpcTypeOK, MutexLock, MutexUnlock, LockFree, LockAgain,
              LockTaken, UnlockInner, UnlockLast, UnlockHandOver
<1>4. ASSUME LockFree(m) PROVE mutexWait[m] = <<>> /\ mutexWait'[m] = mutexWait[m]
  BY <1>4 DEF LockFree, IpcInv, MutexConsistent
<1>5. ASSUME LockAgain(m) \/ UnlockInner(m) PROVE Same
  BY <1>5 DEF LockAgain, UnlockInner
<1>6. ASSUME LockTaken(m) PROVE Waiters(m) \subseteq Waiters(m)' /\ owner'[m] = owner[m]
  <2>1. /\ mutexWait'[m] = ListInsertLast(mutexWait[m], curr)
        /\ mutexWait[m] \in Seq(Task) /\ owner' = owner
    BY <1>6 DEF LockTaken, IpcInv, IpcTypeOK
  <2>2. curr \in Task BY <1>6, CurrWaitsNowhere DEF LockTaken, Block
  <2> QED BY <2>1, <2>2, ListInsertLastProperties DEF Waiters
<1>7. ASSUME UnlockLast(m) PROVE mutexWait[m] = <<>> /\ mutexWait'[m] = mutexWait[m]
  BY <1>7 DEF UnlockLast
<1>8. ASSUME UnlockHandOver(m)
      PROVE  /\ Waiters(m) \ Waiters(m)' \subseteq {Head(mutexWait[m])}
             /\ owner'[m] = Head(mutexWait[m]) /\ lockedCount'[m] = 1
  <2>1. /\ mutexWait[m] # <<>> /\ mutexWait[m] \in Seq(Task)
        /\ mutexWait'[m] = ListRemoveFirst(mutexWait[m])
        /\ owner'[m] = Head(mutexWait[m]) /\ lockedCount'[m] = 1
    BY <1>8 DEF UnlockHandOver, IpcInv, IpcTypeOK
  <2> QED BY <2>1, ListRemoveFirstProperties DEF Waiters
<1> HIDE DEF Same
<1>9. CASE Same BY <1>1, <1>9
<1>10. CASE mutexWait[m] = <<>> /\ mutexWait'[m] = mutexWait[m]
  BY <1>10 DEF Waiters
<1>11. CASE SchedOnly BY <1>2, <1>9, <1>11 DEF SchedOnly
<1>12. CASE UNCHANGED ipcVars BY <1>2, <1>9, <1>12 DEF ipcVars
<1>13. CASE \E n \in Mutex : MutexLock(n) \/ MutexUnlock(n)
  BY <1>3, <1>4, <1>5, <1>6, <1>7, <1>8, <1>9, <1>10, <1>13 DEF MutexLock, MutexUnlock
<1>14. CASE \E s \in Sem : SemWait(s) \/ SemNotify(s)
  <2>1. UNCHANGED mutexVars
    BY <1>14 DEF SemWait, WaitPass, WaitBlock, SemNotify, NotifyWaiter, NotifyCount
  <2> QED BY <2>1, <1>2, <1>9
<1> QED BY <1>11, <1>12, <1>13, <1>14 DEF IpcNext

(* A mutex is handed over in the order in which the tasks asked for it, to *)
(* a task that owns it from then on.                                       *)
THEOREM HandOverIsFair == IpcSpec => HandedOverInOrder
<1>1. SchedInv /\ IpcInv /\ [IpcNext]_ipcVars
        => [\A m \in Mutex :
              /\ \A t \in Waiters(m) \ Waiters(m)' :
                   t = Head(mutexWait[m]) /\ owner'[m] = t /\ lockedCount'[m] = 1
              /\ (mutexWait[m] # <<>> /\ owner'[m] # owner[m])
                   => owner'[m] = Head(mutexWait[m])]_ipcVars
  BY HandOverStep
<1> QED BY <1>1, IpcInvariant, PTL DEF IpcSpec, HandedOverInOrder

(* A step of Ipc is, for each mutex, a step of MutexSpec or a stutter. *)
LEMMA MutexStep ==
  ASSUME SchedInv, IpcInv, [IpcNext]_ipcVars, NEW m \in Mutex
  PROVE  [AsMutex(m)!Next]_(AsMutex(m)!mutexSpecVars)
<1> USE DEF AsMutex!mutexSpecVars
<1> DEFINE Goal == [AsMutex(m)!Next]_(AsMutex(m)!mutexSpecVars)
           types == /\ owner \in [Mutex -> Task \cup {NoTask}]
                    /\ lockedCount \in [Mutex -> Nat]
                    /\ mutexWait \in [Mutex -> Seq(Task)]
<1>0. types BY DEF IpcInv, IpcTypeOK
<1>1. ASSUME UNCHANGED mutexVars PROVE Goal BY <1>1 DEF mutexVars, Waiters
<1>2. ASSUME NEW n \in Mutex, MutexLock(n) \/ MutexUnlock(n), n # m PROVE Goal
  <2>1. UNCHANGED <<owner[m], lockedCount[m], mutexWait[m]>>
    BY <1>0, <1>2 DEF MutexLock, MutexUnlock, LockFree, LockAgain,
                LockTaken, UnlockInner, UnlockLast, UnlockHandOver
  <2> QED BY <2>1 DEF Waiters
<1>3. ASSUME LockFree(m) PROVE AsMutex(m)!Take
  <2>1. owner[m] = NoTask BY <1>3 DEF LockFree, IpcInv, MutexConsistent
  <2>2. owner'[m] = curr /\ lockedCount'[m] = 1 /\ mutexWait' = mutexWait
    BY <1>0, <1>3 DEF LockFree
  <2> QED BY <2>1, <2>2 DEF AsMutex!Take, Waiters
<1>4. ASSUME LockAgain(m) PROVE AsMutex(m)!Nest
  BY <1>0, <1>4 DEF LockAgain, AsMutex!Nest, Waiters
<1>5. ASSUME LockTaken(m) PROVE AsMutex(m)!Want
  <2>1. curr \in Task /\ curr \notin waiting
    BY <1>5, CurrWaitsNowhere DEF LockTaken, Block
  <2>2. /\ owner[m] # curr /\ lockedCount[m] # 0
        /\ mutexWait'[m] = ListInsertLast(mutexWait[m], curr)
        /\ UNCHANGED <<owner, lockedCount>>
    BY <1>0, <1>5 DEF LockTaken
  <2>3. owner[m] # NoTask BY <2>2 DEF IpcInv, MutexConsistent
  <2>4. curr \notin Waiters(m) BY <2>1 DEF IpcInv, WaitsForOneObject
  <2>5. Waiters(m)' = Waiters(m) \cup {curr}
    BY <1>0, <2>1, <2>2, ListInsertLastProperties DEF Waiters
  <2> QED BY <2>2, <2>3, <2>4, <2>5 DEF AsMutex!Want
<1>6. ASSUME UnlockInner(m) PROVE AsMutex(m)!Unnest
  BY <1>0, <1>6 DEF UnlockInner, AsMutex!Unnest, Waiters
<1>7. ASSUME UnlockLast(m) PROVE AsMutex(m)!Free
  BY <1>0, <1>7 DEF UnlockLast, AsMutex!Free, Waiters, Members
<1>8. ASSUME UnlockHandOver(m) PROVE AsMutex(m)!Give
  <2> DEFINE t == Head(mutexWait[m])
  <2>1. /\ owner[m] = curr /\ lockedCount[m] = 1 /\ mutexWait[m] # <<>>
        /\ owner'[m] = t /\ mutexWait'[m] = ListRemoveFirst(mutexWait[m])
        /\ UNCHANGED lockedCount
    BY <1>0, <1>8 DEF UnlockHandOver
  <2>2. Distinct(mutexWait[m]) BY DEF IpcInv, WaitsForOneObject
  <2>3. t \in Waiters(m) /\ Waiters(m)' = Waiters(m) \ {t}
    BY <1>0, <2>1, <2>2, ListRemoveFirstProperties DEF Waiters
  <2> HIDE DEF t
  <2> QED BY <2>1, <2>3 DEF AsMutex!Give
<1>9. CASE SchedOnly BY <1>1, <1>9 DEF SchedOnly
<1>10. CASE UNCHANGED ipcVars BY <1>1, <1>10 DEF ipcVars
<1>11. CASE \E n \in Mutex : MutexLock(n) \/ MutexUnlock(n)
  <2>1. CASE MutexLock(m) \/ MutexUnlock(m)
    <3>1. AsMutex(m)!Next
      BY <2>1, <1>3, <1>4, <1>5, <1>6, <1>7, <1>8
      DEF MutexLock, MutexUnlock, AsMutex!Next
    <3> QED BY <3>1
  <2> QED BY <1>2, <1>11, <2>1
<1>12. CASE \E s \in Sem : SemWait(s) \/ SemNotify(s)
  <2>1. UNCHANGED mutexVars
    BY <1>12 DEF SemWait, WaitPass, WaitBlock, SemNotify, NotifyWaiter, NotifyCount
  <2> QED BY <1>1, <2>1
<1> QED BY <1>9, <1>10, <1>11, <1>12 DEF IpcNext

(* The code's mutexes implement the recursive lock of MutexSpec: held by   *)
(* one task, released by its holder alone, given to a task that wants it.  *)
THEOREM MutexesImplementSpec == IpcSpec => ImplementsMutex
<1>1. IpcInit => \A m \in Mutex : AsMutex(m)!Init
  BY DEF IpcInit, AsMutex!Init, Waiters, Members
<1>2. SchedInv /\ IpcInv /\ [IpcNext]_ipcVars
        => [\A m \in Mutex : [AsMutex(m)!Next]_(AsMutex(m)!mutexSpecVars)]_ipcVars
  BY MutexStep
<1> QED BY <1>1, <1>2, IpcInvariant, PTL DEF IpcSpec, ImplementsMutex

(* A step of Ipc is, for each semaphore, a step of SemSpec or a stutter. *)
LEMMA SemStep ==
  ASSUME SchedInv, IpcInv, [IpcNext]_ipcVars, NEW s \in Sem
  PROVE  [AsSem(s)!Next]_(AsSem(s)!semSpecVars)
<1> USE DEF AsSem!semSpecVars
<1> DEFINE Goal == [AsSem(s)!Next]_(AsSem(s)!semSpecVars)
<1>0. semCount \in [Sem -> Nat] /\ semWait \in [Sem -> Seq(Task)]
  BY DEF IpcInv, IpcTypeOK
<1>1. ASSUME UNCHANGED semVars PROVE Goal BY <1>1 DEF semVars
<1>2. ASSUME NEW r \in Sem, SemWait(r) \/ SemNotify(r), r # s PROVE Goal
  <2>1. UNCHANGED <<semCount[s], semWait[s]>>
    BY <1>0, <1>2 DEF SemWait, WaitPass, WaitBlock, SemNotify, NotifyWaiter, NotifyCount
  <2> QED BY <2>1
<1>3. ASSUME WaitPass(s) PROVE \E t \in Task : AsSem(s)!P(t)
  <2>1. curr \in Task /\ curr \notin waiting BY <1>3, CurrWaitsNowhere DEF WaitPass
  <2>2. /\ semCount[s] > 0 /\ semCount'[s] = semCount[s] - 1
        /\ semWait'[s] = semWait[s]
    BY <1>0, <1>3 DEF WaitPass
  <2>3. Len(semWait[s]) = 0 BY <1>0, <2>2 DEF IpcInv, NoTokenWhileWaiting
  <2>4. curr \notin Members(semWait[s]) BY <2>1 DEF IpcInv, WaitsForOneObject
  <2>5. /\ (semCount'[s] - Len(semWait'[s])) = (semCount[s] - Len(semWait[s])) - 1
        /\ semCount[s] - Len(semWait[s]) > 0
    BY <1>0, <2>2, <2>3
  <2>6. AsSem(s)!P(curr) BY <2>2, <2>4, <2>5 DEF AsSem!P
  <2> QED BY <2>1, <2>6
<1>4. ASSUME WaitBlock(s) PROVE \E t \in Task : AsSem(s)!P(t)
  <2>1. curr \in Task /\ curr \notin waiting
    BY <1>4, CurrWaitsNowhere DEF WaitBlock, Block
  <2>2. /\ semCount[s] = 0 /\ semCount'[s] = 0
        /\ semWait'[s] = ListInsertLast(semWait[s], curr)
    BY <1>0, <1>4 DEF WaitBlock
  <2>3. curr \notin Members(semWait[s]) BY <2>1 DEF IpcInv, WaitsForOneObject
  <2>4. Members(semWait'[s]) = Members(semWait[s]) \cup {curr}
    BY <1>0, <2>1, <2>2, ListInsertLastProperties
  <2>5. Len(semWait[s]) \in Nat /\ Len(semWait'[s]) = Len(semWait[s]) + 1
    BY <1>0, <2>1, <2>2 DEF ListInsertLast
  <2>6. /\ (semCount'[s] - Len(semWait'[s])) = (semCount[s] - Len(semWait[s])) - 1
        /\ ~ (semCount[s] - Len(semWait[s]) > 0)
    BY <2>2, <2>5
  <2>7. AsSem(s)!P(curr) BY <2>3, <2>4, <2>6 DEF AsSem!P
  <2> QED BY <2>1, <2>7
<1>5. ASSUME NotifyWaiter(s) PROVE AsSem(s)!V
  <2> DEFINE t == Head(semWait[s])
  <2>1. /\ semWait[s] # <<>> /\ semWait'[s] = ListRemoveFirst(semWait[s])
        /\ semCount'[s] = semCount[s]
    BY <1>0, <1>5 DEF NotifyWaiter
  <2>2. semCount[s] = 0 BY <2>1 DEF IpcInv, NoTokenWhileWaiting
  <2>3. Distinct(semWait[s]) BY DEF IpcInv, WaitsForOneObject
  <2>4. /\ t \in Members(semWait[s])
        /\ Members(semWait'[s]) = Members(semWait[s]) \ {t}
    BY <1>0, <2>1, <2>3, ListRemoveFirstProperties
  <2>5. Len(semWait[s]) \in Nat \ {0} /\ Len(semWait'[s]) = Len(semWait[s]) - 1
    BY <1>0, <2>1 DEF ListRemoveFirst
  <2> HIDE DEF t
  <2> QED BY <2>1, <2>2, <2>4, <2>5 DEF AsSem!V
<1>6. ASSUME NotifyCount(s) PROVE AsSem(s)!V
  <2>1. /\ semWait[s] = <<>> /\ semWait'[s] = semWait[s]
        /\ semCount'[s] = semCount[s] + 1
    BY <1>0, <1>6 DEF NotifyCount
  <2> QED BY <1>0, <2>1 DEF AsSem!V
<1>7. CASE SchedOnly BY <1>1, <1>7 DEF SchedOnly
<1>8. CASE UNCHANGED ipcVars BY <1>1, <1>8 DEF ipcVars
<1>9. CASE \E r \in Sem : SemWait(r) \/ SemNotify(r)
  <2>1. CASE SemWait(s) \/ SemNotify(s)
    <3>1. AsSem(s)!Next
      BY <2>1, <1>3, <1>4, <1>5, <1>6 DEF SemWait, SemNotify, AsSem!Next
    <3> QED BY <3>1
  <2> QED BY <1>2, <1>9, <2>1
<1>10. CASE \E m \in Mutex : MutexLock(m) \/ MutexUnlock(m)
  <2>1. UNCHANGED semVars
    BY <1>10 DEF MutexLock, MutexUnlock, LockFree, LockAgain,
                 LockTaken, UnlockInner, UnlockLast, UnlockHandOver
  <2> QED BY <1>1, <2>1
<1> QED BY <1>7, <1>8, <1>9, <1>10 DEF IpcNext

(* The code's semaphores implement SemSpec: a notification is never lost   *)
(* and never counts twice, whoever waits.                                  *)
THEOREM SemaphoresImplementSpec == IpcSpec => ImplementsSem
<1>1. IpcInit => \A s \in Sem : AsSem(s)!Init
  BY DEF IpcInit, AsSem!Init, Members
<1>2. SchedInv /\ IpcInv /\ [IpcNext]_ipcVars
        => [\A s \in Sem : [AsSem(s)!Next]_(AsSem(s)!semSpecVars)]_ipcVars
  BY SemStep
<1> QED BY <1>1, <1>2, IpcInvariant, PTL DEF IpcSpec, ImplementsSem

=============================================================================
