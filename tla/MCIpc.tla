-------------------------------- MODULE MCIpc --------------------------------
(* Three tasks, one mutex and one semaphore that starts with one token. *)
EXTENDS Ipc, TLC

CONSTANTS t1, t2, t3, m1, s1

MCSemStart == [s \in {s1} |-> 1]

==============================================================================
