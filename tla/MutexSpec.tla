----------------------------- MODULE MutexSpec ------------------------------
(* What a mutex promises: a recursive lock that a task holds or wants, and  *)
(* that is given to one of those who want it as soon as it is released.     *)
(* Only the task that runs can take, want or release it.                    *)
EXTENDS Integers

CONSTANT NoTask

VARIABLES
  runs,         \* the task that runs; the lock has no say in it
  holder, depth, wanting

mutexSpecVars == <<holder, depth, wanting>>

Init == holder = NoTask /\ depth = 0 /\ wanting = {}

Take ==
  /\ holder = NoTask
  /\ holder' = runs /\ depth' = 1
  /\ UNCHANGED wanting

Nest == holder = runs /\ depth' = depth + 1 /\ UNCHANGED <<holder, wanting>>

Want ==
  /\ holder \notin {runs, NoTask}
  /\ runs \notin wanting
  /\ wanting' = wanting \cup {runs}
  /\ UNCHANGED <<holder, depth>>

Unnest ==
  /\ holder = runs
  /\ depth > 1
  /\ depth' = depth - 1
  /\ UNCHANGED <<holder, wanting>>

Free ==
  /\ holder = runs
  /\ depth = 1 /\ wanting = {}
  /\ holder' = NoTask /\ depth' = 0
  /\ UNCHANGED wanting

Give ==
  /\ holder = runs
  /\ depth = 1
  /\ \E t \in wanting : holder' = t /\ wanting' = wanting \ {t}
  /\ UNCHANGED depth

Next == Take \/ Nest \/ Want \/ Unnest \/ Free \/ Give

Spec == Init /\ [][Next]_mutexSpecVars

=============================================================================
