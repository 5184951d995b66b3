----------------------------- MODULE MCProcess -----------------------------
(* The first task and two more, on machines with 4 to 13 frames: with 4 the *)
(* first task has all of them.  A page directory has two user entries, a   *)
(* table two entries, and the pages 0 and 1 are the kernel's.              *)
EXTENDS Process

=============================================================================
