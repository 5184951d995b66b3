-------------------------------- MODULE Ipc --------------------------------
(***************************************************************************)
(* Mutexes (ipc/mutex.c) and counting semaphores (ipc/sem.c) on top of the *)
(* scheduler.  Every operation runs with interrupts off, so it is one      *)
(* action: what it does to its object and, conjoined, what it does to the  *)
(* scheduler (Block and Wake of Sched, or nothing).                        *)
(*                                                                         *)
(* A mutex is handed over: mutex_unlock makes the first waiter the owner   *)
(* before that task runs.  A semaphore with waiters is not counted up: the *)
(* token goes to the waiter at once.                                       *)
(***************************************************************************)
EXTENDS Sched

CONSTANTS
  Mutex,        \* mutex_t objects
  Sem,          \* sem_t objects
  SemStart,     \* the init_count of sem_init, by semaphore
  NoTask,       \* the null owner
  MaxDepth,     \* bound of the model: how deep a mutex is locked
  MaxCount      \* bound of the model: how far a semaphore is counted up

ASSUME IpcAssumption ==
  /\ NoTask \notin AllTasks
  /\ SemStart \in [Sem -> Nat]
  /\ MaxDepth \in Nat \ {0}
  /\ MaxCount \in Nat
  /\ \A s \in Sem : SemStart[s] <= MaxCount

VARIABLES
  owner,        \* mutex_t.owner
  lockedCount,  \* mutex_t.locked_count
  mutexWait,    \* mutex_t.wait_list
  semCount,     \* sem_t.count
  semWait       \* sem_t.wait_list

mutexVars == <<owner, lockedCount, mutexWait>>
semVars == <<semCount, semWait>>
ipcVars == <<vars, mutexVars, semVars>>

-----------------------------------------------------------------------------
(* mutex_init and sem_init of every object, before any task runs. *)
IpcInit ==
  /\ Init
  /\ owner = [m \in Mutex |-> NoTask]
  /\ lockedCount = [m \in Mutex |-> 0]
  /\ mutexWait = [m \in Mutex |-> <<>>]
  /\ semCount = SemStart
  /\ semWait = [s \in Sem |-> <<>>]

LockFree(m) ==
  /\ InTask
  /\ lockedCount[m] = 0
  /\ lockedCount' = [lockedCount EXCEPT ![m] = 1]
  /\ owner' = [owner EXCEPT ![m] = curr]
  /\ UNCHANGED <<vars, mutexWait, semVars>>

(* A bug: the owner is not compared. *)
LockAgainAnyone(m) ==
  /\ InTask
  /\ lockedCount[m] \in 1 .. MaxDepth - 1
  /\ lockedCount' = [lockedCount EXCEPT ![m] = @ + 1]
  /\ UNCHANGED <<vars, owner, mutexWait, semVars>>

LockAgain(m) ==
  /\ InTask
  /\ lockedCount[m] \in 1 .. MaxDepth - 1
  /\ owner[m] = curr
  /\ lockedCount' = [lockedCount EXCEPT ![m] = @ + 1]
  /\ UNCHANGED <<vars, owner, mutexWait, semVars>>

LockTaken(m) ==
  /\ lockedCount[m] # 0
  /\ owner[m] # curr
  /\ Block
  /\ mutexWait' = [mutexWait EXCEPT ![m] = ListInsertLast(@, curr)]
  /\ UNCHANGED <<owner, lockedCount, semVars>>

MutexLock(m) == LockFree(m) \/ LockAgain(m) \/ LockTaken(m)

UnlockInner(m) ==
  /\ InTask
  /\ owner[m] = curr
  /\ lockedCount[m] > 1
  /\ lockedCount' = [lockedCount EXCEPT ![m] = @ - 1]
  /\ UNCHANGED <<vars, owner, mutexWait, semVars>>

(* A bug: the owner is not compared, nor is the mutex known to be locked. *)
UnlockAnyone(m) ==
  /\ InTask
  /\ lockedCount[m] <= 1
  /\ mutexWait[m] = <<>>
  /\ lockedCount' = [lockedCount EXCEPT ![m] = @ - 1]
  /\ owner' = [owner EXCEPT ![m] = NoTask]
  /\ UNCHANGED <<vars, mutexWait, semVars>>

UnlockLast(m) ==
  /\ InTask
  /\ owner[m] = curr
  /\ lockedCount[m] = 1
  /\ mutexWait[m] = <<>>
  /\ lockedCount' = [lockedCount EXCEPT ![m] = 0]
  /\ owner' = [owner EXCEPT ![m] = NoTask]
  /\ UNCHANGED <<vars, mutexWait, semVars>>

(* Two bugs: the owner is not set, or the last waiter is chosen. *)
HandOverNoOwner(m) ==
  /\ InTask
  /\ owner[m] = curr
  /\ lockedCount[m] = 1
  /\ mutexWait[m] # <<>>
  /\ mutexWait' = [mutexWait EXCEPT ![m] = ListRemoveFirst(@)]
  /\ owner' = [owner EXCEPT ![m] = NoTask]
  /\ Wake(Head(mutexWait[m]))
  /\ UNCHANGED <<lockedCount, semVars>>

HandOverToLast(m) ==
  LET t == mutexWait[m][Len(mutexWait[m])]
  IN  /\ InTask
      /\ owner[m] = curr
      /\ lockedCount[m] = 1
      /\ mutexWait[m] # <<>>
      /\ mutexWait' = [mutexWait EXCEPT ![m] = ListRemove(@, t)]
      /\ owner' = [owner EXCEPT ![m] = t]
      /\ Wake(t)
      /\ UNCHANGED <<lockedCount, semVars>>

UnlockHandOver(m) ==
  /\ InTask
  /\ owner[m] = curr
  /\ lockedCount[m] = 1
  /\ mutexWait[m] # <<>>
  /\ mutexWait' = [mutexWait EXCEPT ![m] = ListRemoveFirst(@)]
  /\ owner' = [owner EXCEPT ![m] = Head(mutexWait[m])]
  /\ Wake(Head(mutexWait[m]))
  /\ UNCHANGED <<lockedCount, semVars>>

(* A task that is not the owner changes nothing. *)
MutexUnlock(m) == UnlockInner(m) \/ UnlockLast(m) \/ UnlockHandOver(m)

(* A bug: a wait passes at zero. *)
WaitPassAtZero(s) ==
  /\ InTask
  /\ semCount[s] >= 0
  /\ semCount' = [semCount EXCEPT ![s] = @ - 1]
  /\ UNCHANGED <<vars, semWait, mutexVars>>

WaitPass(s) ==
  /\ InTask
  /\ semCount[s] > 0
  /\ semCount' = [semCount EXCEPT ![s] = @ - 1]
  /\ UNCHANGED <<vars, semWait, mutexVars>>

WaitBlock(s) ==
  /\ semCount[s] <= 0
  /\ Block
  /\ semWait' = [semWait EXCEPT ![s] = ListInsertLast(@, curr)]
  /\ UNCHANGED <<semCount, mutexVars>>

SemWait(s) == WaitPass(s) \/ WaitBlock(s)

(* A bug: the waiter is woken and stays in the wait list. *)
NotifyKeepsWaiter(s) ==
  /\ semWait[s] # <<>>
  /\ Wake(Head(semWait[s]))
  /\ UNCHANGED <<semWait, semCount, mutexVars>>

NotifyWaiter(s) ==
  /\ semWait[s] # <<>>
  /\ semWait' = [semWait EXCEPT ![s] = ListRemoveFirst(@)]
  /\ Wake(Head(semWait[s]))
  /\ UNCHANGED <<semCount, mutexVars>>

(* A bug: the wait list is not looked at. *)
NotifyCountAlways(s) ==
  /\ IrqOn
  /\ semCount[s] < MaxCount
  /\ semCount' = [semCount EXCEPT ![s] = @ + 1]
  /\ UNCHANGED <<vars, semWait, mutexVars>>

NotifyCount(s) ==
  /\ IrqOn
  /\ semWait[s] = <<>>
  /\ semCount[s] < MaxCount
  /\ semCount' = [semCount EXCEPT ![s] = @ + 1]
  /\ UNCHANGED <<vars, semWait, mutexVars>>

(* Called by tasks (console_write) and by the keyboard interrupt (tty_in), *)
(* which may find the idle task running.                                   *)
SemNotify(s) == NotifyWaiter(s) \/ NotifyCount(s)

(* What the tasks and the timer do without touching an ipc object. *)
SchedOnly ==
  /\ \/ \E t \in Task : TaskStart(t)
     \/ SysSchedYield
     \/ \E n \in 1 .. MaxSleep : SysSleep(n)
     \/ TimerTick
     \/ FinishTick
  /\ UNCHANGED <<mutexVars, semVars>>

IpcNext ==
  \/ SchedOnly
  \/ \E m \in Mutex : MutexLock(m) \/ MutexUnlock(m)
  \/ \E s \in Sem : SemWait(s) \/ SemNotify(s)

IpcSpec == IpcInit /\ [][IpcNext]_ipcVars

-----------------------------------------------------------------------------
Waiters(m) == Members(mutexWait[m])

IpcTypeOK ==
  /\ TypeOK
  /\ owner \in [Mutex -> Task \cup {NoTask}]
  /\ lockedCount \in [Mutex -> Nat]
  /\ mutexWait \in [Mutex -> Seq(Task)]
  /\ semCount \in [Sem -> Nat]
  /\ semWait \in [Sem -> Seq(Task)]

(* A mutex is free exactly when it has no owner, nobody waits for a free   *)
(* mutex (the wake-up is never lost), and its owner does not wait for it.  *)
MutexConsistent ==
  \A m \in Mutex :
    /\ owner[m] = NoTask <=> lockedCount[m] = 0
    /\ mutexWait[m] # <<>> => owner[m] # NoTask
    /\ owner[m] \notin Waiters(m)

(* Nobody waits for a semaphore that has a token. *)
NoTokenWhileWaiting == \A s \in Sem : semWait[s] # <<>> => semCount[s] = 0

(* A blocked task waits for exactly one object, and its wait_node is       *)
(* linked once: the wait lists partition the tasks that are neither ready  *)
(* nor asleep.                                                             *)
WaitsForOneObject ==
  /\ waiting = (UNION {Waiters(m) : m \in Mutex}) \cup
               (UNION {Members(semWait[s]) : s \in Sem})
  /\ \A m \in Mutex : Distinct(mutexWait[m])
  /\ \A s \in Sem : Distinct(semWait[s])
  /\ \A m, n \in Mutex : m # n => Waiters(m) \cap Waiters(n) = {}
  /\ \A s, r \in Sem : s # r => Members(semWait[s]) \cap Members(semWait[r]) = {}
  /\ \A m \in Mutex, s \in Sem : Waiters(m) \cap Members(semWait[s]) = {}

(* A task leaves the wait list of a mutex only as its new owner, and as    *)
(* the one that has waited longest; nobody else gets past it.              *)
HandedOverInOrder ==
  [][\A m \in Mutex :
       /\ \A t \in Waiters(m) \ Waiters(m)' :
            t = Head(mutexWait[m]) /\ owner'[m] = t /\ lockedCount'[m] = 1
       /\ (mutexWait[m] # <<>> /\ owner'[m] # owner[m])
            => owner'[m] = Head(mutexWait[m])]_ipcVars

(* Each mutex implements MutexSpec, with waiters in some order: the        *)
(* conjunction of the AsMutex(m)!Spec, as one action property.             *)
AsMutex(m) == INSTANCE MutexSpec
  WITH runs <- curr, holder <- owner[m], depth <- lockedCount[m],
       wanting <- Waiters(m)

ImplementsMutex ==
  /\ \A m \in Mutex : AsMutex(m)!Init
  /\ [][\A m \in Mutex :
          [AsMutex(m)!Next]_(AsMutex(m)!mutexSpecVars)]_ipcVars

(* Each semaphore implements SemSpec: tokens are neither lost nor made. *)
AsSem(s) == INSTANCE SemSpec
  WITH value <- semCount[s] - Len(semWait[s]), blocked <- Members(semWait[s]),
       Start <- SemStart[s]

ImplementsSem ==
  /\ \A s \in Sem : AsSem(s)!Init
  /\ [][\A s \in Sem : [AsSem(s)!Next]_(AsSem(s)!semSpecVars)]_ipcVars

=============================================================================
