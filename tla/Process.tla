------------------------------ MODULE Process ------------------------------
(***************************************************************************)
(* sys_fork, sys_execve and sys_sbrk: the task table and the descriptors   *)
(* of task state segments (core/task.c, cpu/cpu.c) on top of the memory of *)
(* module Memory.  They run with interrupts on, so tasks interleave between*)
(* any two actions; what is one action is one allocation or release (each  *)
(* under its mutex) and the accesses to private data that follow it.       *)
(*                                                                         *)
(* Not modelled: task_uninit and free_task, which sys_fork never reaches   *)
(* with a child (task_init returns 0 always, and an unsigned value is not  *)
(* < 0); registers; what the ELF file holds; tasks do not end.             *)
(***************************************************************************)
EXTENDS Memory

CONSTANTS
  First,        \* task_manager.first_task
  Slot,         \* the entries of task_table, by index
  Sel,          \* descriptors of the GDT that tasks can get, by number
  Forker,       \* the tasks that call fork
  PageUnits,    \* units in a page: sizes are counted in units
  FrameCounts,  \* the numbers of frames that machines have
  MaxIncr,      \* the most that one sbrk asks for, in units
  ProgramEnd,   \* p_vaddr + p_memsz of the program that is loaded, in units
  ProgramNamed, \* whether the paths given to execve have a file name at the end
  HeapLimit,    \* bound of the model: no heap_end beyond it, in units
  MaxCalls      \* bound of the model: system calls made by all tasks

(* The first unit of the pages of programs, and the first behind them.     *)
UserStart == Base * PageUnits
UserEnd == (Base + EntryCnt * EntryCnt) * PageUnits

ASSUME ProcessAssumption ==
  /\ First \notin Slot
  /\ Slot \subseteq Nat /\ Sel \subseteq Nat \ {0}
  /\ IsFiniteSet(Slot) /\ IsFiniteSet(Sel) /\ Sel # {}
  /\ FrameCounts \subseteq Frame
  /\ Forker \subseteq Slot \cup {First}
  /\ PageUnits \in Nat \ {0} /\ MaxIncr \in Nat \ {0}
  /\ ProgramEnd \in UserStart + 1 .. UserEnd
  /\ ProgramNamed \subseteq BOOLEAN
  /\ HeapLimit \in 0 .. UserEnd /\ MaxCalls \in Nat

VARIABLES
  gdt,          \* descriptors whose attribute is not 0
  task,         \* task_t by task: name in use, tss_sel, esp0, cr3, heap_end
  loc,          \* where a task is in a system call, and its local variables
  started,      \* tasks that task_start has made ready
  stopped,      \* a task without TSS or page directory was switched to
  short,        \* tasks that miss pages they were told they have
  dropped,      \* frames that the code forgets
  calls         \* system calls made so far, for MaxCalls

procVars == <<frameCnt, memVars, gdt, task, loc, started, stopped, short,
              dropped, calls>>

AllTasks == Slot \cup {First}
NoSel == 0

(* The pages that execve fills: those of the program, and one page for the *)
(* stack.  The code has 500 of them and writes arguments to the last; that *)
(* memory runs out among them, with the last one there, is not told apart. *)
PagesUpTo(u) == (u + PageUnits - 1) \div PageUnits
LastPage == Base + EntryCnt * EntryCnt - 1
ArgPage == LastPage

IdleLoc == [pc |-> "run", child |-> First, sel |-> NoSel, dir |-> NoFrame,
            page |-> NoFrame, at |-> 0, end |-> 0, then |-> "run", missing |-> FALSE,
            newEnd |-> 0]

(* A task that can go on with pc at l. *)
At(t, l) == ~ stopped /\ t \in started /\ loc[t].pc = l

(* A task that executes its program: one that the CPU can switch to. *)
CanRun(t) == At(t, "run") /\ task[t].sel # NoSel /\ task[t].cr3 # NoFrame

GoTo(t, l) == loc' = [loc EXCEPT ![t].pc = l]
BeginCall == calls < MaxCalls /\ calls' = calls + 1
EndCall(t) == loc' = [loc EXCEPT ![t] = IdleLoc]

-----------------------------------------------------------------------------
(* After kernel_init (the frames of the idle task, which are never freed,   *)
(* are not in Frame): the first task has a kernel stack, a directory and   *)
(* one table with one page; its heap_end is the load address of its image, *)
(* in the memory of the kernel.                                            *)
Init ==
  \E s, d, tb, p \in Frame :
    /\ frameCnt \in FrameCounts
    /\ s < d /\ d < tb /\ tb < p /\ \A f \in Frame : f < p => f \in {s, d, tb}
    /\ used = {s, d, tb, p}
    /\ entry = [f \in Frame |-> IF f = d THEN [Zeroed EXCEPT ![0] = tb]
                                ELSE IF f = tb THEN [Zeroed EXCEPT ![0] = p]
                                ELSE Zeroed]
    /\ \E sel \in Sel :
         /\ \A other \in Sel : sel <= other
         /\ gdt = {sel}
         /\ task = [t \in AllTasks |->
              IF t = First
              THEN [named |-> TRUE, sel |-> sel, stack |-> s, cr3 |-> d, heapEnd |-> 1]
              ELSE [named |-> FALSE, sel |-> NoSel, stack |-> NoFrame,
                    cr3 |-> NoFrame, heapEnd |-> 0]]
    /\ loc = [t \in AllTasks |-> IdleLoc]
    /\ started = {First}
    /\ stopped = FALSE
    /\ short = {} /\ dropped = {}
    /\ calls = 0

-----------------------------------------------------------------------------
(* sys_fork.  alloc_task finds the first slot without a name, and leaves   *)
(* it as it is: the name comes with task_init.                             *)
AllocTask(t) ==
  /\ CanRun(t) /\ t \in Forker /\ BeginCall
  /\ \E c \in Slot :
       /\ ~ task[c].named
       /\ \A b \in Slot : b < c => task[b].named
       /\ loc' = [loc EXCEPT ![t].pc = "desc", ![t].child = c]
  /\ UNCHANGED <<frameCnt, memVars, gdt, task, started, stopped, short, dropped>>

(* gdt_alloc_desc in tss_init: the first descriptor with attribute 0 is    *)
(* left as it is, too.  When there is none, tss_init returns -1 at once.   *)
GdtAllocDesc(t) ==
  /\ At(t, "desc")
  /\ IF Sel \subseteq gdt THEN GoTo(t, "name")
     ELSE \E s \in Sel \ gdt :
            /\ \A r \in Sel \ gdt : s <= r
            /\ loc' = [loc EXCEPT ![t].pc = "stack", ![t].sel = s]
  /\ UNCHANGED <<frameCnt, memVars, gdt, task, started, stopped, short, dropped, calls>>

(* A bug: tss_init fails and does not give the descriptor back. *)
KeepsDescriptor(t) ==
  /\ At(t, "stack")
  /\ gdt' = gdt \cup {loc[t].sel}
  /\ IF Free = {}
     THEN /\ task' = [task EXCEPT ![loc[t].child].stack = NoFrame,
                                  ![loc[t].child].cr3 = NoFrame]
          /\ GoTo(t, "name")
          /\ UNCHANGED used
     ELSE /\ AllocPage(FirstFree)
          /\ task' = [task EXCEPT ![loc[t].child].stack = FirstFree,
                                  ![loc[t].child].cr3 = NoFrame]
          /\ GoTo(t, "uvm")
  /\ UNCHANGED <<frameCnt, entry, started, stopped, short, dropped, calls>>

(* segment_desc_set, kernel_memset of the TSS, memory_alloc_page. *)
AllocStack(t) ==
  /\ At(t, "stack")
  /\ gdt' = IF Free = {} THEN gdt \ {loc[t].sel} ELSE gdt \cup {loc[t].sel}
  /\ IF Free = {}
     THEN /\ task' = [task EXCEPT ![loc[t].child].stack = NoFrame,
                                  ![loc[t].child].cr3 = NoFrame]
          /\ GoTo(t, "name")
          /\ UNCHANGED used
     ELSE /\ AllocPage(FirstFree)
          /\ task' = [task EXCEPT ![loc[t].child].stack = FirstFree,
                                  ![loc[t].child].cr3 = NoFrame]
          /\ GoTo(t, "uvm")
  /\ UNCHANGED <<frameCnt, entry, started, stopped, short, dropped, calls>>

(* memory_create_uvm in tss_init, and its failure path: the stack is freed *)
(* and esp0 goes on pointing to it.                                        *)
TssCreateUvm(t) ==
  LET c == loc[t].child
  IN  /\ At(t, "uvm")
      /\ IF Free = {}
         THEN /\ gdt' = gdt \ {loc[t].sel}
              /\ FreePage(task[c].stack)
              /\ UNCHANGED task
         ELSE /\ CreateUvm(FirstFree)
              /\ task' = [task EXCEPT ![c].cr3 = FirstFree, ![c].sel = loc[t].sel]
              /\ UNCHANGED gdt
      /\ GoTo(t, "name")
      /\ UNCHANGED <<frameCnt, started, stopped, short, dropped, calls>>

(* The rest of task_init, which does not look at what tss_init returned. *)
TaskInit(t) ==
  /\ At(t, "name")
  /\ task' = [task EXCEPT ![loc[t].child].named = task[t].named,
                        ![loc[t].child].heapEnd = 0]
  /\ GoTo(t, "copyUvm")
  /\ UNCHANGED <<frameCnt, memVars, gdt, started, stopped, short, dropped, calls>>

(* The end of memory_copy_uvm with result d: it overwrites the cr3 that    *)
(* tss_init has set.  A result of 0 passes the test for failure.           *)
SetCr3(t, d) ==
  /\ task' = [task EXCEPT ![loc[t].child].cr3 = d]
  /\ dropped' = dropped \cup ({task[loc[t].child].cr3} \ {NoFrame})

(* memory_create_uvm in memory_copy_uvm. *)
CopyCreateUvm(t) ==
  /\ At(t, "copyUvm")
  /\ IF Free = {}
     THEN SetCr3(t, NoFrame) /\ GoTo(t, "start") /\ UNCHANGED memVars
     ELSE /\ CreateUvm(FirstFree)
          /\ loc' = [loc EXCEPT ![t].pc = "copyPage", ![t].dir = FirstFree,
                                ![t].at = Base]
          /\ UNCHANGED <<task, dropped>>
  /\ UNCHANGED <<frameCnt, gdt, started, stopped, short, calls>>

(* A bug: the copy passes over the page it has come to. *)
ToCopyBehind(t) == {v \in Mapped(task[t].cr3) : v > loc[t].at}

(* The pages of the parent that memory_copy_uvm has still to copy. *)
ToCopy(t) == {v \in Mapped(task[t].cr3) : v >= loc[t].at}

(* addr_alloc_page for the next page of the parent. *)
CopyPage(t) ==
  /\ At(t, "copyPage")
  /\ ToCopy(t) # {}
  /\ IF Free = {}
     THEN /\ loc' = [loc EXCEPT ![t].pc = "destroy", ![t].at = 0, ![t].then = "copyFailed"]
          /\ UNCHANGED used
     ELSE /\ AllocPage(FirstFree)
          /\ loc' = [loc EXCEPT ![t].pc = "copyMap", ![t].page = FirstFree,
                       ![t].at = CHOOSE v \in ToCopy(t) : \A w \in ToCopy(t) : v <= w]
  /\ UNCHANGED <<frameCnt, entry, gdt, task, started, stopped, short, dropped, calls>>

(* memory_create_map for it.  On failure the page is not given back. *)
CopyMap(t) ==
  LET l == loc[t]
  IN  /\ At(t, "copyMap")
      /\ IF NoTable(l.dir, l.at)
         THEN /\ loc' = [loc EXCEPT ![t].pc = "destroy", ![t].page = NoFrame,
                                    ![t].at = 0, ![t].then = "copyFailed"]
              /\ dropped' = dropped \cup {l.page}
              /\ UNCHANGED memVars
         ELSE /\ CreateMap(l.dir, l.at, l.page)
              /\ loc' = [loc EXCEPT ![t].pc = "copyPage", ![t].page = NoFrame,
                                    ![t].at = l.at + 1]
              /\ UNCHANGED dropped
      /\ UNCHANGED <<frameCnt, gdt, task, started, stopped, short, calls>>

(* A bug, the one that core/task.c:429 keeps as a comment: the child runs  *)
(* on the page directory of its parent.                                    *)
SharesDirectory(t) ==
  /\ At(t, "copyPage")
  /\ ToCopy(t) = {}
  /\ SetCr3(t, task[t].cr3)
  /\ loc' = [loc EXCEPT ![t].pc = "start", ![t].dir = NoFrame]
  /\ UNCHANGED <<frameCnt, memVars, gdt, started, stopped, short, calls>>

(* The copy is complete. *)
CopyDone(t) ==
  /\ At(t, "copyPage")
  /\ ToCopy(t) = {}
  /\ SetCr3(t, loc[t].dir)
  /\ loc' = [loc EXCEPT ![t].pc = "start", ![t].dir = NoFrame]
  /\ UNCHANGED <<frameCnt, memVars, gdt, started, stopped, short, calls>>

CopyFailed(t) ==
  /\ At(t, "copyFailed")
  /\ SetCr3(t, NoFrame)
  /\ GoTo(t, "start")
  /\ UNCHANGED <<frameCnt, memVars, gdt, started, stopped, short, calls>>

(* task_start, and the return from sys_fork. *)
StartChild(t) ==
  /\ At(t, "start")
  /\ started' = started \cup {loc[t].child}
  /\ EndCall(t)
  /\ UNCHANGED <<frameCnt, memVars, gdt, task, stopped, short, dropped, calls>>

(* The scheduler switches to a child that tss_init or memory_copy_uvm has  *)
(* failed for: the CPU takes an exception that stops the system.           *)
SwitchToBroken(t) ==
  /\ At(t, "run")
  /\ task[t].sel = NoSel \/ task[t].cr3 = NoFrame
  /\ stopped' = TRUE
  /\ UNCHANGED <<frameCnt, memVars, gdt, task, loc, started, short, dropped, calls>>

-----------------------------------------------------------------------------
(* memory_destroy_uvm, one frame at a time. *)
DestroyUvm(t) ==
  LET l == loc[t]
      rest == {p \in l.at .. LastPosition : FreedAt(l.dir, p) # NoFrame}
      p == CHOOSE q \in rest : \A r \in rest : q <= r
  IN  /\ At(t, "destroy")
      /\ FreePage(FreedAt(l.dir, p))
      /\ IF p < LastPosition THEN loc' = [loc EXCEPT ![t].at = p + 1]
         ELSE IF l.then = "run" THEN EndCall(t)
         ELSE loc' = [loc EXCEPT ![t].pc = l.then, ![t].dir = NoFrame]
      /\ UNCHANGED <<frameCnt, gdt, task, started, stopped, short, dropped, calls>>

(* memory_alloc_for_page_dir for the pages from .at to .end: a frame for   *)
(* the next page.  When there is none the function returns 0, as it does   *)
(* when it is done.                                                        *)
AllocFor(t) ==
  LET l == loc[t]
  IN  /\ At(t, "alloc")
      /\ IF l.at < l.end /\ Free # {}
         THEN /\ AllocPage(FirstFree)
              /\ loc' = [loc EXCEPT ![t].pc = "map", ![t].page = FirstFree]
         ELSE /\ loc' = [loc EXCEPT ![t].pc = l.then,
                                    ![t].missing = l.missing \/ l.at < l.end]
              /\ UNCHANGED used
      /\ UNCHANGED <<frameCnt, entry, gdt, task, started, stopped, short, dropped, calls>>

(* A page of the kernel, or one that is mapped already. *)
IsPresent(d, v) == v < Base \/ v \in Mapped(d)

(* memory_create_map for it: the page must not be present, or the task     *)
(* hangs in pannic; without a table the frame is not given back.           *)
MapFor(t) ==
  LET l == loc[t]
  IN  /\ At(t, "map")
      /\ IF IsPresent(l.dir, l.at)
         THEN GoTo(t, "pannic") /\ UNCHANGED <<memVars, dropped>>
         ELSE IF NoTable(l.dir, l.at)
         THEN /\ loc' = [loc EXCEPT ![t].pc = l.then, ![t].page = NoFrame,
                                    ![t].missing = TRUE]
              /\ dropped' = dropped \cup {l.page}
              /\ UNCHANGED memVars
         ELSE /\ CreateMap(l.dir, l.at, l.page)
              /\ loc' = [loc EXCEPT ![t].pc = "alloc", ![t].page = NoFrame,
                                    ![t].at = l.at + 1]
              /\ UNCHANGED dropped
      /\ UNCHANGED <<frameCnt, gdt, task, started, stopped, short, calls>>

-----------------------------------------------------------------------------
(* sys_execve gives the task its new name before anything can fail: what   *)
(* get_file_name finds behind the last '/' of the path, if anything.       *)
ExecName(t) ==
  /\ CanRun(t) /\ BeginCall
  /\ \E named \in ProgramNamed : task' = [task EXCEPT ![t].named = named]
  /\ GoTo(t, "exec")
  /\ UNCHANGED <<frameCnt, memVars, gdt, started, stopped, short, dropped>>

(* memory_create_uvm, and the pages of the program from load_elf_file,     *)
(* whose open and headers can be bad.                                      *)
ExecCreateUvm(t) ==
  /\ At(t, "exec")
  /\ IF Free = {} THEN EndCall(t) /\ UNCHANGED memVars
     ELSE /\ CreateUvm(FirstFree)
          /\ \/ loc' = [loc EXCEPT ![t].pc = "alloc", ![t].dir = FirstFree, ![t].at = Base,
                                   ![t].end = PagesUpTo(ProgramEnd), ![t].then = "loaded"]
             \/ loc' = [loc EXCEPT ![t].pc = "destroy", ![t].dir = FirstFree,
                                   ![t].at = 0, ![t].then = "run"]
  /\ UNCHANGED <<frameCnt, gdt, task, started, stopped, short, dropped, calls>>

(* The end of load_elf_file: the heap of the task that still has its old   *)
(* program starts behind the new one.                                      *)
ExecLoaded(t) ==
  /\ At(t, "loaded")
  /\ task' = [task EXCEPT ![t].heapEnd = ProgramEnd]
  /\ loc' = [loc EXCEPT ![t].pc = "alloc", ![t].at = ArgPage,
                        ![t].end = LastPage + 1, ![t].then = "args"]
  /\ UNCHANGED <<frameCnt, memVars, gdt, started, stopped, short, dropped, calls>>

(* load_elf_file fails later than at its first header: a segment cannot be *)
(* read, or one behind a segment that has set heap_end already.            *)
ExecLoadFailed(t) ==
  /\ At(t, "loaded")
  /\ loc' = [loc EXCEPT ![t].pc = "destroy", ![t].at = 0, ![t].then = "run",
                        ![t].missing = FALSE]
  /\ \/ UNCHANGED <<task, short>>
     \/ /\ task' = [task EXCEPT ![t].heapEnd = ProgramEnd]
        /\ short' = short \cup {t}
  /\ UNCHANGED <<frameCnt, memVars, gdt, started, stopped, dropped, calls>>

(* copy_args, and the switch to the new directory.  An assertion fails     *)
(* when there are arguments and not even a table for them.                 *)
ExecSwap(t) ==
  /\ At(t, "args")
  /\ ArgPage \in Mapped(loc[t].dir)
  /\ task' = [task EXCEPT ![t].cr3 = loc[t].dir]
  /\ loc' = [loc EXCEPT ![t].pc = "destroy", ![t].dir = task[t].cr3, ![t].at = 0,
                        ![t].then = "run", ![t].missing = FALSE]
  /\ short' = IF loc[t].missing THEN short \cup {t} ELSE short \ {t}
  /\ UNCHANGED <<frameCnt, memVars, gdt, started, stopped, dropped, calls>>

(* A bug: a failed execve destroys the address space it returns to. *)
DestroysOld(t) ==
  /\ At(t, "args")
  /\ ArgPage \notin Mapped(loc[t].dir)
  /\ loc' = [loc EXCEPT ![t].pc = "destroy", ![t].dir = task[t].cr3, ![t].at = 0,
                        ![t].then = "run", ![t].missing = FALSE]
  /\ short' = short \cup {t}
  /\ UNCHANGED <<frameCnt, memVars, gdt, task, started, stopped, dropped, calls>>

(* copy_args fails: the task keeps its address space, but its heap_end is  *)
(* the one that load_elf_file has set.                                     *)
ExecFailed(t) ==
  /\ At(t, "args")
  /\ ArgPage \notin Mapped(loc[t].dir)
  /\ \/ loc' = [loc EXCEPT ![t].pc = "destroy", ![t].at = 0, ![t].then = "run",
                           ![t].missing = FALSE]
     \/ TableOf(loc[t].dir, ArgPage) = NoFrame /\ GoTo(t, "pannic")
  /\ short' = short \cup {t}
  /\ UNCHANGED <<frameCnt, memVars, gdt, task, started, stopped, dropped, calls>>

-----------------------------------------------------------------------------
(* The bound on heaps: that of the kernel's memory, or HeapLimit. *)
HeapFits(t, end) == end <= IF task[t].heapEnd < UserStart THEN UserStart ELSE HeapLimit

(* sys_sbrk, n > 0, as long as the page of heap_end has room. *)
SbrkInPage(t, n) ==
  LET off == task[t].heapEnd % PageUnits
  IN  /\ CanRun(t) /\ BeginCall
      /\ off # 0 /\ off + n <= PageUnits
      /\ task' = [task EXCEPT ![t].heapEnd = @ + n]
      /\ UNCHANGED <<frameCnt, memVars, gdt, loc, started, stopped, short, dropped>>

(* A bug: the first page is the one behind that of heap_end. *)
SkipsPage(t, n) ==
  LET end == task[t].heapEnd + n
      off == task[t].heapEnd % PageUnits
  IN  /\ CanRun(t) /\ BeginCall
      /\ off = 0 \/ off + n > PageUnits
      /\ HeapFits(t, end)
      /\ loc' = [loc EXCEPT ![t].pc = "alloc", ![t].dir = task[t].cr3, ![t].newEnd = end,
                            ![t].at = task[t].heapEnd \div PageUnits + 1,
                            ![t].end = PagesUpTo(end), ![t].then = "grown"]
      /\ UNCHANGED <<frameCnt, memVars, gdt, task, started, stopped, short, dropped>>

(* sys_sbrk with pages to allocate. *)
SbrkPages(t, n) ==
  LET end == task[t].heapEnd + n
      off == task[t].heapEnd % PageUnits
  IN  /\ CanRun(t) /\ BeginCall
      /\ off = 0 \/ off + n > PageUnits
      /\ HeapFits(t, end)
      /\ loc' = [loc EXCEPT ![t].pc = "alloc", ![t].dir = task[t].cr3, ![t].newEnd = end,
                            ![t].at = PagesUpTo(task[t].heapEnd),
                            ![t].end = PagesUpTo(end), ![t].then = "grown"]
      /\ UNCHANGED <<frameCnt, memVars, gdt, task, started, stopped, short, dropped>>

SbrkDone(t) ==
  /\ At(t, "grown")
  /\ task' = [task EXCEPT ![t].heapEnd = loc[t].newEnd]
  /\ short' = IF loc[t].missing THEN short \cup {t} ELSE short
  /\ EndCall(t)
  /\ UNCHANGED <<frameCnt, memVars, gdt, started, stopped, dropped, calls>>

-----------------------------------------------------------------------------
Fork(t) ==
  \/ AllocTask(t) \/ GdtAllocDesc(t) \/ AllocStack(t) \/ TssCreateUvm(t) \/ TaskInit(t)
  \/ CopyCreateUvm(t) \/ CopyPage(t) \/ CopyMap(t) \/ CopyDone(t) \/ CopyFailed(t)
  \/ StartChild(t) \/ SwitchToBroken(t)

Exec(t) ==
  \/ ExecName(t) \/ ExecCreateUvm(t) \/ ExecLoaded(t) \/ ExecLoadFailed(t)
  \/ ExecSwap(t) \/ ExecFailed(t)

Sbrk(t) ==
  \/ \E n \in 1 .. MaxIncr : SbrkInPage(t, n) \/ SbrkPages(t, n)
  \/ SbrkDone(t)

Next ==
  \E t \in AllTasks :
    Fork(t) \/ Exec(t) \/ Sbrk(t) \/ DestroyUvm(t) \/ AllocFor(t) \/ MapFor(t)

Spec == Init /\ [][Next]_procVars

-----------------------------------------------------------------------------
(* Where a frame can be in use: as the kernel stack of a task, at some      *)
(* position of its address space or of the one that its system call builds *)
(* or destroys, or as the page that the call has yet to map.               *)
Place ==
  AllTasks \X ({<<"stack", 0>>, <<"page", 0>>}
                 \cup {"space", "call"} \X (0 .. LastPosition))

(* A task without selector was left behind by a failed tss_init, or it is  *)
(* one that tss_init has not done with.                                    *)
HasStack(t) ==
  task[t].sel # NoSel \/ \E f \in Forker : loc[f].pc = "uvm" /\ loc[f].child = t

InOldSpace(t, p) == loc[t].pc = "destroy" /\ p < loc[t].at

FrameAt(pl) ==
  LET t == pl[1]
      p == pl[2][2]
      d == loc[t].dir
  IN  CASE pl[2][1] = "stack" -> IF HasStack(t) THEN task[t].stack ELSE NoFrame
        [] pl[2][1] = "page"  -> loc[t].page
        [] pl[2][1] = "space" -> IF task[t].cr3 = NoFrame THEN NoFrame
                                 ELSE FreedAt(task[t].cr3, p)
        [] OTHER -> IF d \in {NoFrame, task[t].cr3} \/ InOldSpace(t, p) THEN NoFrame
                    ELSE FreedAt(d, p)

(* No frame is used in two places, and none that is in use can be           *)
(* allocated again: tasks share no memory but that of the kernel, through  *)
(* all interleavings of fork, exec and sbrk, and on their failure paths.   *)
OneOwner ==
  LET held == {pl \in Place : FrameAt(pl) # NoFrame}
      frames == {FrameAt(pl) : pl \in held}
  IN  frames \subseteq used \ dropped /\ Cardinality(frames) = Cardinality(held)

(* No frame gets lost, but for those known to be: the directory that       *)
(* tss_init made and memory_copy_uvm replaces, and pages that could not be *)
(* mapped for want of a table.                                             *)
NothingElseLost ==
  used \ dropped \subseteq {FrameAt(pl) : pl \in Place}

(* A descriptor in use belongs to the TSS of one task, or to one that is   *)
(* being made, and a task has none that is free.                           *)
DescriptorsOwned ==
  /\ \A t \in AllTasks : task[t].sel \in gdt \cup {NoSel}
  /\ \A t, u \in AllTasks : task[t].sel = task[u].sel => t = u \/ task[t].sel = NoSel
  /\ \A s \in gdt : \E t \in AllTasks :
       task[t].sel = s \/ (loc[t].pc = "uvm" /\ loc[t].sel = s)

(* Every page below the end of the heap of a task that is not in a system  *)
(* call is there, unless memory ran out when the task asked for it, or an  *)
(* execve failed that had moved heap_end already.                          *)
HeapMapped ==
  \A t \in started \ short :
    loc[t].pc = "run" /\ task[t].cr3 # NoFrame =>
      \A v \in UserPage : v * PageUnits < task[t].heapEnd => v \in Mapped(task[t].cr3)

(* A child that is started with an address space has the pages of its      *)
(* parent, no more and no less.                                            *)
ForkCopiesAll ==
  [][\A c \in started' \ started : \E t \in Forker :
       /\ loc[t].child = c
       /\ task[c].cr3 # NoFrame => Mapped(task[c].cr3) = Mapped(task[t].cr3)]_procVars

(* A task that was started keeps its pages, in the same frames, until it   *)
(* has a new address space that is ready: a failed execve, and all that    *)
(* other tasks do, leave them alone.                                       *)
KeepsPages ==
  [][\A t \in started :
       LET old == task[t].cr3
           new == task'[t].cr3
       IN  IF new = old
           THEN old = NoFrame \/ \A v \in Mapped(old) : FrameOf(old, v)' = FrameOf(old, v)
           ELSE {ArgPage, Base} \subseteq Mapped(new) \/ t \in short']_procVars

(* The assertion of memory_create_map (core/memory.c:89): the page that is *)
(* to be mapped is not present, here for tasks that fork has made.         *)
NeverMapsPresentPage ==
  \A t \in Slot : loc[t].pc = "map" => ~ IsPresent(loc[t].dir, loc[t].at)

(* sys_fork "allocates a new task" (core/task.c:394): the slot it works on *)
(* is the slot of no task that runs, and no other fork works on it.        *)
SlotTakenOnce ==
  \A t, u \in AllTasks :
    LET c == loc[t].child
    IN  c # First => c \notin started /\ (loc[u].child = c => u = t)

=============================================================================
