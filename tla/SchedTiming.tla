----------------------------- MODULE SchedTiming -----------------------------
(***************************************************************************)
(* How well the scheduler keeps time: Sched with three history variables,  *)
(* which no action reads.  A tick is one timer interrupt.                  *)
(***************************************************************************)
EXTENDS Sched

VARIABLES
  ticksLeft,    \* ticks a sleeper has asked for less the ticks since then
  owedAtSleep,  \* how many walks were owed when the sleeper fell asleep
  waited        \* ticks for which a ready task has been without the CPU

timingVars == <<ticksLeft, owedAtSleep, waited>>

Sleeping == Members(sleepList)

(* The tasks that could run and do not. *)
WithoutCpu == Members(ready) \ {curr}

(* Keeps the histories over a step that takes d ticks.  The entry of a     *)
(* sleeper that wakes up in the step is its last one.                      *)
Record(d) ==
  /\ ticksLeft' = [t \in Task |->
       IF t \in Sleeping THEN ticksLeft[t] - d
       ELSE IF t \in Sleeping' THEN sleepTicks'[t] ELSE 0]
  /\ owedAtSleep' = [t \in Task |->
       IF t \in Sleeping THEN owedAtSleep[t]
       ELSE IF t \in Sleeping' THEN Cardinality(walkOwed) ELSE 0]
  /\ waited' = [t \in Task |->
       IF t \in WithoutCpu \cap WithoutCpu' THEN waited[t] + d ELSE 0]

TInit ==
  /\ Init
  /\ ticksLeft = [t \in Task |-> 0]
  /\ owedAtSleep = [t \in Task |-> 0]
  /\ waited = [t \in Task |-> 0]

TNext ==
  \/ TimerTick /\ Record(1)
  \/ NoTick /\ Record(0)

TSpec == TInit /\ [][TNext]_<<vars, timingVars>>

(* The fairness of FairSpec, with the histories kept. *)
TFairSpec ==
  /\ TSpec
  /\ WF_<<vars, timingVars>>(TimerTick /\ Record(1))
  /\ WF_<<vars, timingVars>>(FinishTick /\ Record(0))

-----------------------------------------------------------------------------
(* Every tick walks the sleep list once, though maybe late: what a sleeper *)
(* has still to count is what it asked for, less the ticks since then,     *)
(* less the old walks that also count for it, plus the walks now owed.     *)
EveryTickWalksOnce ==
  \A t \in Sleeping :
    sleepTicks[t] = ticksLeft[t] - owedAtSleep[t] + Cardinality(walkOwed)

(* The most walks that can be owed while a task sleeps or falls asleep. *)
MaxOwed == Cardinality(Task) - 1

(* A sleep of n ticks ends no sooner and no later than one tick per other  *)
(* task away from n: each can owe at most one walk at a time.              *)
SleepErrorBounded ==
  [][\A t \in Sleeping \ Sleeping' : ticksLeft'[t] \in -MaxOwed .. MaxOwed
    ]_<<vars, timingVars>>

(* A ready task waits at most one full slice of every other task. *)
ReadyLatencyBounded ==
  \A t \in Task : waited[t] <= (Cardinality(Task) - 1) * SliceTicks

(* What sys_sleep's comment (core/task.c:380) says of it: one tick is      *)
(* 10 ms, and the sleep is ms divided by 10 in ticks, rounded up.  So a    *)
(* sleeper has had every tick it asked for when it wakes up.               *)
NeverWokenEarly ==
  [][\A t \in Sleeping \ Sleeping' : ticksLeft'[t] <= 0]_<<vars, timingVars>>

=============================================================================
