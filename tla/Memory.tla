------------------------------- MODULE Memory -------------------------------
(***************************************************************************)
(* Physical pages and address spaces (core/memory.c): which frames the     *)
(* bitmap of paddr_alloc marks as used, and what a frame holds while it is *)
(* a page directory or a page table.  What pages of programs hold is left  *)
(* out, and so is the part of a directory that all tasks share with the    *)
(* kernel: the pages below Base are the kernel's, present in every         *)
(* address space.                                                          *)
(***************************************************************************)
EXTENDS Integers, FiniteSets

CONSTANTS
  Frame,        \* the page frames a machine can have, by number from 1
  EntryCnt,     \* user entries of a page directory, entries of a page table
  Base          \* the first page of MEMORY_TASK_BASE

ASSUME MemoryAssumption ==
  /\ Frame \subseteq Nat \ {0}
  /\ IsFiniteSet(Frame)
  /\ EntryCnt \in Nat \ {0}
  /\ Base \in Nat \ {0}

VARIABLES
  frameCnt,     \* bit_count of the bitmap: the frames that the machine has
  used,         \* frames whose bit is set
  entry         \* frame -> entry number -> frame it points to, or NoFrame

memVars == <<used, entry>>

NoFrame == 0

Index == 0 .. EntryCnt - 1

(* The pages of programs, by virtual page number. *)
UserPage == Base .. Base + EntryCnt * EntryCnt - 1

Zeroed == [i \in Index |-> NoFrame]

-----------------------------------------------------------------------------
Free == {f \in Frame : f <= frameCnt} \ used

(* bitmap_alloc_nbits for one bit: the lowest one that is clear. *)
FirstFree == CHOOSE f \in Free : \A g \in Free : f <= g

(* pde_index and pte_index of a page of a program. *)
PdeIndex(v) == (v - Base) \div EntryCnt
PteIndex(v) == (v - Base) % EntryCnt

TableOf(d, v) == entry[d][PdeIndex(v)]

(* find_pte without allocation: the frame behind v, if it has one. *)
FrameOf(d, v) ==
  IF TableOf(d, v) = NoFrame THEN NoFrame ELSE entry[TableOf(d, v)][PteIndex(v)]

(* The pages of programs that are present in directory d. *)
Mapped(d) == {v \in UserPage : FrameOf(d, v) # NoFrame}

(* The order in which memory_destroy_uvm frees: the pages of a table, then *)
(* the table, then the next table, and the directory at the end.           *)
LastPosition == EntryCnt * (EntryCnt + 1)

(* A bug: a table is freed before the pages that only it knows of. *)
FreedTableFirst(d, p) ==
  LET i == p \div (EntryCnt + 1)
      j == p % (EntryCnt + 1)
  IN  IF p = LastPosition THEN d
      ELSE IF entry[d][i] = NoFrame THEN NoFrame
      ELSE IF j = 0 THEN entry[d][i] ELSE entry[entry[d][i]][j - 1]

(* The frame that is freed at position p of that order, if there is one. *)
FreedAt(d, p) ==
  LET i == p \div (EntryCnt + 1)
      j == p % (EntryCnt + 1)
  IN  IF p = LastPosition THEN d
      ELSE IF entry[d][i] = NoFrame THEN NoFrame
      ELSE IF j < EntryCnt THEN entry[entry[d][i]][j] ELSE entry[d][i]

-----------------------------------------------------------------------------
(* addr_alloc_page and addr_free_page of one frame f.  What a freed frame  *)
(* holds is the next owner's: here nothing is left of it at once.          *)
AllocPage(f) == f \in Free /\ f = FirstFree /\ used' = used \cup {f}
FreePage(f) == used' = used \ {f} /\ entry' = [entry EXCEPT ![f] = Zeroed]

(* memory_create_uvm. *)
CreateUvm(d) == AllocPage(d) /\ entry' = [entry EXCEPT ![d] = Zeroed]

(* memory_create_map of one page that is not present.  The function ends   *)
(* without a return; compiled with -O0 its caller finds the loop counter   *)
(* there, which is not negative.                                           *)
CreateMap(d, v, f) ==
  IF TableOf(d, v) # NoFrame
  THEN /\ entry' = [entry EXCEPT ![TableOf(d, v)][PteIndex(v)] = f]
       /\ UNCHANGED used
  ELSE /\ Free # {}
       /\ AllocPage(FirstFree)
       /\ entry' = [entry EXCEPT ![FirstFree] = [Zeroed EXCEPT ![PteIndex(v)] = f],
                                 ![d][PdeIndex(v)] = FirstFree]

(* memory_create_map finds no frame for a table that it needs. *)
NoTable(d, v) == TableOf(d, v) = NoFrame /\ Free = {}

=============================================================================
