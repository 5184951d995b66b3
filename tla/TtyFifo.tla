------------------------------ MODULE TtyFifo ------------------------------
(***************************************************************************)
(* The ring buffer of dev/tty.c (tty_fifo_t), cut into the memory accesses *)
(* that its unlocked users can be interrupted between.  A fifo is a record *)
(* of buf, read, write and count; its size is a parameter.                 *)
(***************************************************************************)
EXTENDS Integers, Sequences, Chars

FifoInit(size) ==
  [buf |-> [i \in 0 .. size - 1 |-> Junk], read |-> 0, write |-> 0, count |-> 0]

FifoEmpty(f) == f.count <= 0

FifoFull(f, size) == f.count >= size

(* The load and the store of count, write and read are steps of their own. *)
(* The access to buf is one step with the store of write or read beside    *)
(* it, and the test of write or read is one with the reset to 0: a task    *)
(* that came in between would find another character in the ring, or place *)
(* one there.  That needs writers with no lock, or a count that has fallen *)
(* behind, and no property says which characters come through these.       *)

(* buf[write++] = c, with i the value of write that was loaded. *)
FifoStore(f, i, c) == [f EXCEPT !.buf[i] = c, !.write = i + 1]

FifoWrapWrite(f, size) == IF f.write >= size THEN [f EXCEPT !.write = 0] ELSE f

(* The read++ of c = buf[read++], with i the value of read that was loaded. *)
FifoFetch(f, i) == [f EXCEPT !.read = i + 1]

FifoWrapRead(f, size) == IF f.read >= size THEN [f EXCEPT !.read = 0] ELSE f

(* The second half of count++ and count--: the store. *)
FifoSetCount(f, n) == [f EXCEPT !.count = n]

(* tty_fifo_put on a fifo that is not full, with interrupts off. *)
FifoPut(f, c, size) ==
  FifoSetCount(FifoWrapWrite(FifoStore(f, f.write, c), size), f.count + 1)

=============================================================================
