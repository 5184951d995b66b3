------------------------------- MODULE Sched -------------------------------
(***************************************************************************)
(* The scheduler of core/task.c: the ready list, the sleep list, the       *)
(* current task and the timer interrupt (dev/time.c).                      *)
(*                                                                         *)
(* The machine has one CPU.  Every operation below runs between            *)
(* irq_enter_protection and irq_leave_protection or in an interrupt gate,  *)
(* with interrupts off, so each is one action; everything else a task does *)
(* can be interrupted between two actions.  task_dispatch switches stacks  *)
(* in the middle of its caller: what the caller has left to do happens     *)
(* when the task is switched back to.  Only the timer handler has          *)
(* something left to do there (its walk of the sleep list), and that debt  *)
(* is the variable walkOwed.                                               *)
(*                                                                         *)
(* What mutex.c and sem.c do to the scheduler is Block and Wake; module    *)
(* Ipc conjoins them with the locks and the semaphores.                    *)
(***************************************************************************)
EXTENDS KList

CONSTANTS
  Task,         \* the tasks that can be created, without the idle task
  Idle,         \* task_manager.idle_task
  FirstTask,    \* task_manager.first_task
  SliceTicks,   \* TASK_TIME_SLICE_DEFAULT
  MaxSleep      \* the longest sleep, in ticks

ASSUME SchedAssumption ==
  /\ IsFiniteSet(Task)
  /\ FirstTask \in Task
  /\ Idle \notin Task
  /\ SliceTicks \in Nat \ {0}
  /\ MaxSleep \in Nat \ {0}

VARIABLES
  curr,         \* task_manager.curr_task
  ready,        \* task_manager.ready_list
  sleepList,    \* task_manager.sleep_list
  waiting,      \* tasks linked by wait_node into a wait list of an ipc object
  started,      \* tasks for which task_start has run (no task ever ends)
  sleepTicks,   \* task_t.sleep_ticks
  sliceTicks,   \* task_t.slice_ticks
  state,        \* task_t.state
  walkOwed      \* tasks switched away from inside task_time_tick, line 321

vars == <<curr, ready, sleepList, waiting, started, sleepTicks, sliceTicks,
          state, walkOwed>>

AllTasks == Task \cup {Idle}

TaskState == {"CREATED", "RUNNING", "SLEEP", "READY", "WAITTING"}

(* Interrupts are on, and the current task runs code of its own.  A task   *)
(* that comes back inside the timer handler has them off until the end.    *)
IrqOn == curr \notin walkOwed

(* A task, not the idle loop, runs: system calls come from here. *)
InTask == IrqOn /\ curr # Idle

-----------------------------------------------------------------------------
(* task_next_run: the first ready task stays linked while it runs. *)
TaskNextRun(r) == IF r = <<>> THEN Idle ELSE Head(r)

(* Three bugs of Rotate: no look at the idle task in task_set_ready, no     *)
(* task_set_block before it, no rotation at all.                           *)
RotateIdleToo(r) == ListInsertLast(ListRemove(r, curr), curr)
RotateNoBlock(r) == IF curr = Idle THEN r ELSE ListInsertLast(r, curr)
RotateNothing(r) == r

(* task_set_block then task_set_ready of the current task. *)
Rotate(r) == IF curr = Idle THEN r ELSE ListInsertLast(ListRemove(r, curr), curr)

(* The states after task_set_ready of the tasks in T. *)
SetReady(T) == [t \in AllTasks |-> IF t \in T \ {Idle} THEN "READY" ELSE state[t]]

(* task_dispatch, with ready' the list it looks at and st the task states  *)
(* it finds.                                                               *)
TaskDispatch(st) ==
  /\ curr' = TaskNextRun(ready')
  /\ state' = IF curr' = curr THEN st ELSE [st EXCEPT ![curr'] = "RUNNING"]

(* A bug: the next node is read after the wake-up has unlinked this one,   *)
(* so the walk ends at the first task that it wakes.                       *)
ReachedUpToFirstWake ==
  {sleepList[i] : i \in {k \in DOMAIN sleepList :
                          \A j \in 1 .. k - 1 : sleepTicks[sleepList[j]] # 1}}

(* The sleepers whose ticks a walk of the sleep list counts. *)
Reached == Members(sleepList)

(* Two bugs: woken tasks are linked at the head, or not at all. *)
WokenFirst(r, due) == ListKeep(sleepList, due) \o r
WokenLost(r, due) == r

(* The ready list r with the tasks that a walk wakes, in its order. *)
Woken(r, due) == r \o ListKeep(sleepList, due)

(* The second half of task_time_tick: every sleeper is a tick closer to    *)
(* its end, those that reach it join the tail of the ready list r, and the *)
(* handler dispatches.  made: tasks its first half has made ready.         *)
SleepWalk(r, made) ==
  LET due == {t \in Reached : sleepTicks[t] = 1}
  IN  /\ sleepTicks' = [t \in AllTasks |->
                          IF t \in Reached THEN sleepTicks[t] - 1 ELSE sleepTicks[t]]
      /\ sleepList' = ListKeep(sleepList, Members(sleepList) \ due)
      /\ ready' = Woken(r, due)
      /\ TaskDispatch(SetReady(made \cup due))

-----------------------------------------------------------------------------
(* After task_first_init and the iret of move_to_first_task.  task_start   *)
(* of the idle task links nothing, and the first task is made current      *)
(* before task_start sets its state.                                       *)
Init ==
  /\ curr = FirstTask
  /\ ready = <<FirstTask>>
  /\ sleepList = <<>>
  /\ waiting = {}
  /\ started = {FirstTask}
  /\ sleepTicks = [t \in AllTasks |-> 0]
  /\ sliceTicks = [t \in AllTasks |-> SliceTicks]
  /\ state = [t \in AllTasks |-> IF t = FirstTask THEN "READY" ELSE "CREATED"]
  /\ walkOwed = {}

(* task_start of a task that task_init has prepared, the end of sys_fork. *)
TaskStart(t) ==
  /\ InTask
  /\ t \in Task \ started
  /\ started' = started \cup {t}
  /\ ready' = ListInsertLast(ready, t)
  /\ state' = SetReady({t})
  /\ UNCHANGED <<curr, sleepList, waiting, sleepTicks, sliceTicks, walkOwed>>

(* With one ready task the call changes nothing. *)
SysSchedYield ==
  /\ InTask
  /\ Len(ready) > 1
  /\ ready' = Rotate(ready)
  /\ TaskDispatch(SetReady({curr}))
  /\ UNCHANGED <<sleepList, waiting, started, sleepTicks, sliceTicks, walkOwed>>

(* sys_sleep of n ticks.  ms_sleep of applib passes no ms <= 0, so n > 0. *)
SysSleep(n) ==
  /\ InTask
  /\ ready' = ListRemove(ready, curr)
  /\ sleepTicks' = [sleepTicks EXCEPT ![curr] = n]
  /\ sleepList' = ListInsertLast(sleepList, curr)
  /\ TaskDispatch([state EXCEPT ![curr] = "SLEEP"])
  /\ UNCHANGED <<waiting, started, sliceTicks, walkOwed>>

(* The current task joins a wait list: the last branches of mutex_lock and *)
(* sem_wait.  Neither sets a state.                                        *)
Block ==
  /\ InTask
  /\ ready' = ListRemove(ready, curr)
  /\ waiting' = waiting \cup {curr}
  /\ TaskDispatch(state)
  /\ UNCHANGED <<sleepList, started, sleepTicks, sliceTicks, walkOwed>>

(* Task t leaves its wait list: the hand-over of mutex_unlock and          *)
(* sem_notify, by a task or by the keyboard interrupt.                     *)
Wake(t) ==
  /\ IrqOn
  /\ t \in waiting
  /\ waiting' = waiting \ {t}
  /\ ready' = ListInsertLast(ready, t)
  /\ TaskDispatch(SetReady({t}))
  /\ UNCHANGED <<sleepList, started, sleepTicks, sliceTicks, walkOwed>>

(* The timer interrupt while the slice of the current task lasts. *)
TickInSlice ==
  /\ IrqOn
  /\ sliceTicks[curr] > 1
  /\ sliceTicks' = [sliceTicks EXCEPT ![curr] = @ - 1]
  /\ SleepWalk(ready, {})
  /\ UNCHANGED <<waiting, started, walkOwed>>

(* The slice ends and there is nothing else to run: the dispatch of line   *)
(* 321 returns at once and the handler goes on to the sleep list.          *)
TickEndOfSliceAlone ==
  /\ IrqOn
  /\ sliceTicks[curr] = 1
  /\ TaskNextRun(Rotate(ready)) = curr
  /\ sliceTicks' = [sliceTicks EXCEPT ![curr] = SliceTicks]
  /\ SleepWalk(Rotate(ready), {curr})
  /\ UNCHANGED <<waiting, started, walkOwed>>

(* The slice ends and the dispatch of line 321 switches to another task:   *)
(* the rest of the handler waits until the current task runs again.        *)
TickEndOfSliceSwitch ==
  /\ IrqOn
  /\ sliceTicks[curr] = 1
  /\ TaskNextRun(Rotate(ready)) # curr
  /\ sliceTicks' = [sliceTicks EXCEPT ![curr] = SliceTicks]
  /\ ready' = Rotate(ready)
  /\ TaskDispatch(SetReady({curr}))
  /\ walkOwed' = walkOwed \cup {curr}
  /\ UNCHANGED <<sleepList, waiting, started, sleepTicks>>

TimerTick == TickInSlice \/ TickEndOfSliceAlone \/ TickEndOfSliceSwitch

(* A bug: the handler returns after its first dispatch. *)
FinishTickNoWalk ==
  /\ curr \in walkOwed
  /\ walkOwed' = walkOwed \ {curr}
  /\ UNCHANGED <<curr, ready, sleepList, waiting, started, sleepTicks, sliceTicks, state>>

(* The current task is back in the timer handler it was switched away      *)
(* from, with interrupts off, and walks the sleep list as it is now.       *)
FinishTick ==
  /\ curr \in walkOwed
  /\ walkOwed' = walkOwed \ {curr}
  /\ SleepWalk(ready, {})
  /\ UNCHANGED <<waiting, started, sliceTicks>>

(* What the timer interrupt does not start. *)
NoTick ==
  \/ \E t \in Task : TaskStart(t)
  \/ SysSchedYield
  \/ \E n \in 1 .. MaxSleep : SysSleep(n)
  \/ Block
  \/ \E t \in Task : Wake(t)
  \/ FinishTick

Next == TimerTick \/ NoTick

Spec == Init /\ [][Next]_vars

(* The timer never stops, and a task inside its handler is executed: the   *)
(* handler runs with interrupts off, so nothing can come between.          *)
FairSpec == Spec /\ WF_vars(TimerTick) /\ WF_vars(FinishTick)

-----------------------------------------------------------------------------
(* Type correctness. *)
TypeOK ==
  /\ curr \in AllTasks
  /\ ready \in Seq(Task)
  /\ sleepList \in Seq(Task)
  /\ waiting \subseteq Task
  /\ started \subseteq Task
  /\ sleepTicks \in [AllTasks -> Nat]
  /\ sliceTicks \in [AllTasks -> 1 .. SliceTicks]
  /\ state \in [AllTasks -> TaskState]
  /\ walkOwed \subseteq Task

(* The task that runs is the first ready task, and the idle task runs only *)
(* when nothing is ready.  task_set_block relies on it: list_remove takes  *)
(* the current task out of the ready list without looking for it.          *)
CurrIsNextRun == curr = TaskNextRun(ready)

(* Every task that was started is linked exactly once, into one of the     *)
(* ready list, the sleep list and the wait lists: no task is lost between  *)
(* two lists, and run_node is never in two of them.                        *)
EachTaskInOneList ==
  /\ Distinct(ready)
  /\ Distinct(sleepList)
  /\ Members(ready) \cap Members(sleepList) = {}
  /\ waiting \cap (Members(ready) \cup Members(sleepList)) = {}
  /\ started = Members(ready) \cup Members(sleepList) \cup waiting

(* A sleeper still has a tick to wait for: the walk decrements first, and  *)
(* a task linked with 0 would sleep until the counter wraps around.        *)
SleepersHaveTicksLeft == \A t \in Members(sleepList) : sleepTicks[t] >= 1

(* A task with a walk to finish is ready: it left the CPU by its slice,    *)
(* and it cannot block or sleep before it has finished its handler.        *)
WalkOwedIsReady == walkOwed \subseteq Members(ready)

(* A task that loses the CPU and could go on is behind every other ready   *)
(* task: no wake-up and no expired sleep preempts, because both link at    *)
(* the tail and task_dispatch takes the head.                              *)
PreemptedGoesLast ==
  [][(curr' # curr /\ curr \in Members(ready'))
       => ready'[Len(ready')] = curr]_vars

(* Every sleeper wakes up, though walks of the sleep list are put off when *)
(* the tick ends a slice.                                                  *)
SleepersWake == \A t \in Task : t \in Members(sleepList) ~> t \in Members(ready)

=============================================================================
