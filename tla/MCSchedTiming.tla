---------------------------- MODULE MCSchedTiming ----------------------------
(* Three tasks and the idle task under the scheduler, with its histories. *)
EXTENDS SchedTiming, TLC

CONSTANTS t1, t2, t3

(* The first task is special in the initial state only: the others are     *)
(* interchangeable.  Not for the run that checks liveness.                 *)
Symm == Permutations({t1, t2, t3} \ {FirstTask})

==============================================================================
