# The m_os_x86 kernel in TLA+

`src/m_os_x86_learning/os/start/` is a small teaching kernel for one 32-bit
x86 CPU: tasks with address spaces of their own, a round-robin scheduler,
mutexes and semaphores, terminals on the VGA text screen and the PS/2 keyboard,
a file interface over devices, and a shell. This directory holds its TLA+
models, the TLC runs that check them and the TLAPS proofs about them.
`K/` below stands for `src/m_os_x86_learning/os/start/source/kernel/`.

## The system

The kernel has one CPU and no kernel threads of its own besides an idle task.
Three things make code interleave:

* **Interrupts.** The timer (IRQ0, every 10 ms) and the keyboard (IRQ1) come
  through interrupt gates, so their handlers run with interrupts off. They
  acknowledge the interrupt controller *first*, so a handler that switches tasks
  in its middle does not hold up later interrupts.
* **Preemption.** System calls come through a call gate that leaves interrupts
  on: kernel code is preempted by the timer at any instruction outside
  `irq_enter_protection` / `irq_leave_protection` (`K/cpu/irq.c:352-362`).
  These save and restore the interrupt flag and nest.
* **Blocking.** `task_dispatch` switches stacks in the middle of its caller.

The kernel is compiled with `-O0` (`os/start/CMakeLists.txt:20`): `count++` is
a load, an addition and a store, which an interrupt can separate.

| part | state | operations | what makes it correct |
|---|---|---|---|
| Scheduler, timer (`core/task.c`, `dev/time.c`) | ready, sleep and task list; current task; `slice_ticks`, `sleep_ticks`, `state` | `task_start`, `sys_sched_yield`, `sys_sleep`, `task_time_tick`, `task_dispatch` | no task lost or linked twice; no starvation; sleepers wake, and in time |
| Lists (`tools/list.c`) | first, last, count; pre and next of the nodes | insert first/last, remove first, remove | pointers implement sequences, also when nodes move between lists |
| Mutex, semaphore (`ipc/`) | owner, count, wait list | lock, unlock, wait, notify | mutual exclusion, hand-over in order, no lost wake-up, no lost token |
| Terminal (`dev/tty.c`) | input and output ring, a semaphore for each | open, read, write, `tty_in` of the keyboard | ring and semaphore agree; readers and writers neither overlooked nor stuck |
| Log (`tools/log.c`) | a mutex | `log_printf` | lines do not mix |
| Console (`dev/console.c`) | cursor, colours, escape-sequence state | `console_write` and the escape commands | cursor on the screen, parameters in bounds |
| Keyboard (`dev/kbd.c`) | modifier keys, E0/E1 state | the interrupt handler | each key once, modifiers released |
| Task table, fork, exec (`core/task.c`, `cpu/cpu.c`) | 128 slots, GDT descriptors | `alloc_task`, `task_init`, `task_uninit`, `sys_fork`, `sys_execve` | slots and selectors have one owner; a failed fork leaves nothing behind |
| Memory (`core/memory.c`, `tools/bitmap.c`) | page bitmap, page directories and tables | allocate and free pages, map, copy and destroy an address space, `sys_sbrk` | a page has one owner, none leaks, mapping and bitmap agree |
| Files, devices (`fs/`, `dev/dev.c`) | descriptor tables, open-file table, reference counts, device table | open, read, write, lseek, close, dup | references equal descriptors; failures give everything back |
| Loader, start of memory (`loader/loader_16.c`, `core/memory.c`) | the BIOS's map, page bitmap, kernel page tables | `detect_memory`, `memory_init`, `create_kernel_table` | map, bitmap and page tables agree on the memory there is |
| klib (`tools/klib.c`) | — | formats, names, strings | a log line tells its arguments, a task is called after its program |
| Interrupt set-up, system call dispatch, rest of start and loader, library, shell | — | — | straight-line or sequential code |

**Interactions.** `sys_write` → `fs` → `dev` → `tty_write` → `console_write`;
`sys_read` → … → `tty_read`; keyboard interrupt → `tty_in` → `sem_notify` →
`task_dispatch`; `log_printf` → mutex → `tty_write`; semaphores and mutexes move
tasks between the ready list and their own wait lists; the timer moves them
between the sleep list and the ready list. `sys_fork` and `sys_execve` use the
task table (under a mutex), the GDT, the page allocator (under a mutex) and
finally `task_start`.

**What is hard here.** The tick handler may be left in its middle and finished
much later by the task it interrupted; wake-ups come from interrupts that find
any task, or the idle task, running; terminals are used without a lock by
several tasks and the keyboard handler; slots and selectors are chosen in one
step and marked in another; failure paths of fork, exec and open have to undo
several allocations. `PROJECT.json` lists these hazards line by line.

## Modules

| module | models | how its state and actions correspond to the code |
|---|---|---|
| `KList` | lists as sequences | one operator per function of `tools/list.c`; no recursion, so that it can be proved about |
| `LinkedList`, `ListSpec` | `tools/list.c` with its pointers, and what it promises | one action per function; nodes shared by several lists |
| `Sched` | scheduler and timer | one action per operation that runs with interrupts off; `TimerTick` in three cases; `FinishTick` is the rest of a handler that line 321 left; `Block` and `Wake` are what `ipc/` does to the scheduler |
| `SchedTiming` | `Sched` with history variables | ticks a sleeper has still due, walks owed when it fell asleep, ticks a ready task has waited |
| `Ipc` | `ipc/mutex.c`, `ipc/sem.c` | one action per branch, conjoined with `Block` or `Wake` of `Sched` |
| `MutexSpec`, `SemSpec` | what one mutex and one semaphore promise | refined by `Ipc` |
| `Chars` | the characters the code names | |
| `TtyFifo` | `tty_fifo_t` | the memory accesses of get and put |
| `Keyboard` | `dev/kbd.c`, and the keyboard in front of it | one interrupt per byte; the keyboard's bytes wait in `wire`, so that a byte can come long after its key; what a user expects of each key is kept beside what the driver hands to `tty_in` |
| `TtyInput` | `tty_in`, `tty_read`, input ring and `isem` | the keyboard handler is one action, a reader one action per access to shared memory; `line` is the caller's buffer |
| `TtyOutput` | `tty_write`, `console_write`'s loop, `log_printf`, output ring and `osem` | a writer is one action per access to shared memory |
| `Terminal` | one terminal and all that use it | composes `Keyboard` and `TtyInput` in the interrupt handler, `TtyInput` and `TtyOutput` in the echo of `tty_read`: a reader that is at "echo" is a writer |
| `Memory` | `tools/bitmap.c`, page tables and address spaces of `core/memory.c` | operators, and one action per allocation or release of a frame; a table is a frame's content |
| `Process` | `sys_fork`, `sys_execve`, `sys_sbrk` with the task table and the GDT, on `Memory` | one action per step under a mutex, with the accesses to private data that follow it; `loc` is where a task is and its local variables; a slot is free while its task has no name, which `TaskInit` and `ExecName` write |
| `Files` | `sys_open`, `sys_dup`; descriptor, file and device tables; which terminal `sys_read` and `sys_write` get to | one action per critical section; reads and writes leave the tables as they are, so their way through `task_file`, `is_devid_bad` and `get_tty` is the operators `ReadTty` and `WriteTty` |
| `Console`, `TerminalSpec` | one console of `dev/console.c`, and what a terminal promises | one action per kind of character in each state of the escape machine, in both; the array and offsets of the code are lines and a position there, `esc_param` and its index are the numbers of the sequence so far (`Numbers`), and `AsTerminal` pairs the actions |
| `Klib` | `kernel_vsprintf`, `kernel_itoa`; `get_file_name`, `kernel_strncpy` | a format is read character by character, a variable remembers which text belongs to which argument; the name of a task is given again and again |
| `Tools` | lists, formats and names for one run | no interaction: a behaviour uses one of them |
| `Boot` | `detect_memory`, `memory_init`, `create_kernel_table` | one action per call of the BIOS and per page mapped; the machine, one of a constant set, is a memory map; sizes are kept modulo `Wrap`, the 2^32 of the code |
| `MC...` | instances for TLC | |
| `KListProofs`, `IpcProofs` (with the scheduler), `ToolsProofs`, `TerminalProofs`, `FilesProofs`, `ProcessProofs`, `ConsoleProofs`, `BootProofs` | theorems | |

Atomicity is taken from the code: an operation between
`irq_enter_protection` and `irq_leave_protection`, or in a handler, is one
action up to its `task_dispatch`. What follows the dispatch in every operation
but one is only the return; in `task_time_tick` it is the walk of the sleep
list, so the model keeps the set `walkOwed` of tasks that are inside it.
A few neighbouring steps are one where no property can tell: in `TtyFifo` the access to
the ring with the update of its index, and the test of an index with its reset; in
`Files` the release of a file with that of the descriptor, which only its task sees.
A task is in `state` `RUNNING` until something sets another value: a task that
blocks on a semaphore keeps it, as in the code, and no property relies on it.

## Runs

| run | checks | bounds and why they are enough |
|---|---|---|
| `sched` | invariants, order and fairness of the scheduler, timing of sleeps, liveness | 3 tasks and the idle task: two can owe a walk while the third falls asleep, which is the worst case of the timing bound. Slices of 2 ticks and sleeps of 1 to 3 give ticks inside and at the end of a slice. |
| `sched_early` | finding: a sleeper wakes early | the same, with symmetry of the tasks that are not first |
| `tools` | list pointers implement sequences; log lines tell their arguments; tasks are called after their programs | 4 nodes give a first, a last and two inner neighbours, and 2 lists share them; formats of 5 characters have two arguments next to each other, with numbers of both signs, of 1 to 6 digits and at 0; names of 0 to 6 characters for a field of 4, with either separator or none |
| `ipc` | mutex and semaphore on the scheduler | 3 tasks: an owner and two waiters whose order matters; depth 2 tells nesting from hand-over; one token, bound 2; sleeps of 1 tick, since `sched` has longer ones |
| `terminal` | the terminal, keys to screen, in six scenes | rings of 2, the smallest that a line feed passes, so that they fill and wrap. `LogLines`: two tasks in `log_printf`, with a feed inside and at the end of a text. `TwoWriters`: two tasks in `sys_write`, a plain character against a line feed. `Shell` and `ManyLines`: a reader with a buffer of 3, which a line end reaches with 3, 2 and 1 places left, and 3 keys or 4 presses of Enter, which fill the ring, go round it twice and are dropped. `AnyKeys` and `SomeKeys`: every kind of key, two at a time, and three at a time of those that interfere, with up to 8 bytes under way, more than the longest key sends |
| `tty_input_lost` | finding: a token without a character | the scene `Shell` |
| `process` | who owns each frame and descriptor, what fork copies, what a failed call may not touch | tables of 2 entries, so a table can be missing or half full; machines of 4 to 13 frames, so memory runs out at every allocation of fork, execve and sbrk; 4 calls in all, enough for fork, execve and sbrk of parent and child to overlap |
| `sbrk_child` | finding: a child's first sbrk | the same |
| `fork_race` | finding: two forks get one slot | the same, with a child that forks, too |
| `files` | open and dup of two tasks: references, open counts, and the terminals that reads and writes get to | 3 descriptors, 3 files and 2 devices: each of them runs out first in some execution, with 3 terminals and a number that is none |
| `console` | each character does what it does to a terminal: the place, the number of columns, the end of a sequence | 2 lines of 2 columns scroll, wrap and go back over a line end; parameters of 0 to 3 name places before, on and behind the screen; room for 2 parameters, so that a third is one too many |
| `boot` | loader, bitmap and page tables agree | 625 machines, a usual PC among them: memory below the display that ends in or at the end of a page; above it 2 pages, which the tables do not fit in, up to 75; among them memory that ends before, at and behind `ExtEnd`, with a bitmap too long for its place, and beyond `Wrap`; with reserved areas between and behind, in two orders, with an entry to ignore inside or at the end, with a hole, with more entries than are asked for, the last one marked or not. A page is 2 units and a table 4 entries, so that areas share tables and pages |

`MaxSleep`, `MaxDepth`, `MaxCount`, `MaxExtra`, `MaxFormat`, `MaxCalls`,
`HeapLimit`, `ParamLimit` and a scene's `presses` and `pending` bound the
models: the longest sleep, how deep a mutex is locked, how far a semaphore
counts up, characters shown beyond those asked for, characters of a format,
system calls made, how far a heap grows, the value of a parameter of an escape
sequence, keys pressed, and bytes that the keyboard holds back. The code has
no such limits short of overflow. `Rows`, `Cols`, `ParamMax`, `BufSize`, `Wrap`,
`NameSize`, `RegionMax` and the sizes of the tables are constants of the code,
here small; `Path` and `Machine` are sets of inputs. In `process` the constant
`Forker` lets the first task fork and no other, since with two forkers tasks
share a slot, and with it frames: that is the finding of `fork_race`. `ProgramNamed` says that paths end in the
name of a program: one that ends in a separator would empty the task's name.
`MaxExtra` cuts executions in which two writers undo each other's `count--` for
ever. `boot` takes any map: `MachineAssumption` says no more
than that entries have numbers for start and size. What `PagesUsable` claims depends on
the machine instead: which pages the kernel reaches, for machines whose page tables fit
in their memory (`TablesHold`); that all pages of the bitmap are memory, where memory
is in one piece (`OnePiece`).
Deadlock is checked in `sched`, `ipc` and `console`. It is not in the other
runs: when the last key has been pressed a reader blocks for good, two unprotected writers can
really lose the tokens they both wait for (and the model stops where a store
would leave the buffer); `process` ends with its last call or with a
switch to a task whose page directory could not be allocated; in `files`
nothing is closed, so the tables fill up; a format ends, and so does the start.

**Fairness.** `TFairSpec` lets the timer interrupt go on and lets a task
inside its interrupt handler be executed: interrupts are off there, so
nothing else can be. Nothing is assumed of system calls. In `Terminal` a task
that can take a step does (weak fairness of each task; `Begin` waits for the log's mutex,
which `ipc` hands over in order), keys are pressed or not, and their bytes come or not: `sched` shows
that a ready task is behind each of the others for one slice at most.

### What the runs found

* *A sleep can end early* (`sched_early`). When a tick ends the slice of task
  A, the dispatch at `K/core/task.c:321` leaves the handler before its walk of
  the sleep list. The walk happens when A runs again, and counts for tasks
  that fell asleep meanwhile, of which one tick may not have passed at all.
  `K/core/task.c:377,380` say that the sleep is ms in ticks of 10 ms. How wrong it can be is
  `SleepErrorBounded`: one tick per other task, early or late.
* *A token without a character* (`tty_input_lost`). `count--` of
  `tty_fifo_get` races with the keyboard handler's `count++`; the lost
  update leaves `isem` ahead of `count`, and `tty_read` comes past `sem_wait`
  to an empty ring, does not look at the result, and hands out an
  uninitialised variable. `K/dev/tty.c:126` says the wait makes sure of data.
  What still holds, `CountNeverAhead`, is that the error goes one way. A count
  that fell behind also makes a full ring look as if it had room, so that a key may
  overwrite one that was not read yet.
* *A child cannot use its heap* (`sbrk_child`). `task_init` sets `heap_end`
  to 0 (`K/core/task.c:129`) and `sys_fork` does not copy the parent's; a child
  that calls `sbrk` before `execve` asks for page 0, which the kernel has mapped,
  and the assertion at `K/core/memory.c:89` fails.
* *Two forks share a slot* (`fork_race`). `alloc_task` finds a free slot under
  the table's mutex, but the slot looks free until `task_init` writes its name,
  after two pages and a descriptor have been allocated (`K/core/task.c:353`).
  A task that forks in between gets the same slot. `gdt_alloc_desc`
  (`K/cpu/cpu.c:39`) has the same gap. `K/core/task.c:394` says that the call
  allocates a new task.

More was met on the way and is part of the models, because the
properties are stated around it. Every fork loses the page directory that
`tss_init` made (`K/core/task.c:424`), and a page is lost when there is no frame
for the table to map it with: `NothingElseLost` says that nothing more
is lost. `memory_alloc_for_page_dir`
returns 0 when it fails and its callers test for < 0; the set `short` of
`Process` has the tasks that go on without their pages. An escape
sequence that moves to the right by just enough leaves the cursor one column
behind the last (`K/dev/console.c:287`), and `Right` of `TerminalSpec` says so; others name a
place that there is not. What a sequence does to a cursor that is off the
screen is checked, what text does then is not, and the model stops at a store
outside the display or outside the parameters. `sys_read` overwrites its
descriptor with 0 (`K/fs/fs.c:111`): a task reads from the terminal of
descriptor 0 whatever descriptor it names, and `ReachesItsTerminal` says that. On the keyboard, Pause sends two codes of three
bytes that begin with E1 (`K/include/dev/kbd.h:36`); the handler skips one byte behind
E1 and takes the next for Num Lock, which, like the keypad, is behind the end of
`map_table`, so that a character that nobody typed reaches the reader. Caps Lock
that is held switches with every repetition. `Star` of the keypad lies inside `map_table`
but has no entry, so that it gives a zero byte. `Expected` of `Keyboard` allows these, a zero
byte for `Star` included, and nothing else: for these keys it is taken from the code, not from what the keys say. The capital of `s` in `map_table` is `B` (`K/dev/kbd.c:41`), a wrong entry
that is left out with the rest of the table's letters. `kernel_strncpy` cuts the last
character of a name that fits exactly and ends a longer one behind the field, in
`run_node`, which `NamedAfterProgram` does not judge;
`%x` of a negative number turns its digits around, all but the first, the wrong
way; and a log line is not held to the 128 bytes of its buffer. A program path
that ends in a separator gives its task an empty name, before the load can fail, and its slot
counts as free from then on (`K/core/task.c:560`). `memory_init` counts all
memory, less 1 MB, as pages from 1 MB on (`K/core/memory.c:161`): 126.5 MB on a PC of
128 MB. `create_kernel_table` maps 1 MB to 127 MB, so the kernel faults on
the last half megabyte when it hands it out, although `K/core/memory.c:142` says that all of 0 to
0x80000000 is mapped; `PagesUsable` says that those pages, and no others, are out of reach. And
`memory_init` knows the sizes of areas and not where they are: with a hole above
1 MB, pages are handed out that are no memory, which `PagesUsable` excludes only for memory in one
piece. And when a BIOS sets the bit to ignore in the last entry, `detect_memory`
does not see that it is the last and asks for the map a second time.

## Proofs

Theorems hold for every value of the constants that meets the named assumptions
(`SchedAssumption`, `ProcessAssumption` and so on): any finite set of tasks, any
slice and sleep, any mutexes, semaphores, lists and nodes, any size of the rings
and tables, any number of frames and pages, any texts, numbers, paths, screens
and layouts. What a theorem assumes beyond that stands in its statement and
below. Every invariant, action property and refinement that a run checks is a
theorem; of the liveness properties none is.

* `KListProofs` has the principle that the proofs use for induction: of the
  numbers for which a claim fails there is a least one (`LeastNumber`). It characterises `ListKeep` (a filter written with `CHOOSE` over
  ranks instead of recursion) and the list operators built on it: members,
  distinctness, length, head and last, and which element is before which
  (`Before`) when elements are dropped or appended.
* `IpcProofs`, the scheduler: the properties are not inductive by themselves.
  `CurrIsNextRun` breaks in a walk unless a sleeper is linked once; that needs
  `EachTaskInOneList`; and that needs, for `task_set_block`, that the
  current task is the head of the ready list. A task in `walkOwed` must be
  ready, or `FinishTick` could run in a task that also sleeps; and
  `sleepTicks` must be positive for the walk to stay in its type. The
  inductive invariant is the conjunction of the five, proved action by action.
  `PreemptedGoesLast` then follows: only the end of a slice and a yield take
  the CPU from a task that stays ready, and both rotate, which links it last.
* `IpcProofs`, its timing, adds that a sleeper's `owedAtSleep` is bounded and that
  the balance of `EveryTickWalksOnce` is kept: each tick either walks, or adds
  one to the walks owed; each `FinishTick` walks and takes one away.
  `SleepErrorBounded` follows from the balance at 0 and from at most one walk
  owed per task other than the sleeper. `ReadyLatencyBounded` needs a measure: `Due(t)`
  has one element per tick that the tasks before `t` in the ready list still have in
  their slices. No step puts a task before `t`, every tick takes one element away,
  and what `t` has waited plus what is due stays within a slice per other task.
* `IpcProofs`, the locks: each action of `Ipc` is built on one of `Sched` or leaves the
  scheduler alone, so the scheduler's invariant (`SchedInv`) carries over to the composed
  system; the inductive invariant then ties `waiting` to the wait lists. The
  refinements of `MutexSpec` and `SemSpec` are proved step by step
  under it.
* `ToolsProofs`, lists: the pointers are right when there are sequences, one for
  each list, that share no node and whose chains the pointers are. That is the
  invariant, and each call of `list.c` is shown to do to the sequences what
  `ListSpec` says. `ImplementsSequences` reads the sequence off the pointers
  by a walk that counts steps; that it finds the sequence of the invariant is
  proved by a least counterexample, since the library's induction is out of
  reach. Nodes are assumed to be finitely many, as in the code.
* `ToolsProofs`, names: what `get_file_name` finds has no separator and ends the
  path; `kernel_strncpy` of a string without a zero byte leaves its beginning and
  an end, or cuts as described above. Paths are assumed to have no zero byte.
* `ToolsProofs`, texts: `Value` and `LastFirst` are recursive functions, so that
  each has a lemma for its existence, one for nothing and one for one more digit;
  `ItoaTellsNumber` then says that the text of a number has its value, for every
  integer, by the least number for which it could fail. The invariant is that
  `buf` only grows, and each text in it stays where `shown` says.
* `FilesProofs`: `RefsCounted` needs to know what each half-done call has
  taken; `DevicesCounted` that a file in use, which nobody is just opening, is
  bound to a device (`OpenFilesAreBound`), and that no two calls are opening the
  same file (`OpeningOwnsItsFile`). Where reads and writes get to follows from it:
  the file of a descriptor is bound to an open device when its task is in no call
  (`UsableFilesAreBound`). The counts are cardinalities, and each
  action adds or removes one element of the set that is counted.
* `TerminalProofs` has four arguments. Semaphores: a task is blocked exactly
  while it is in one wait list, and the handler and the writers wake the one
  they take out (`Turns`); the tokens of `osem` are shared out between
  semaphore, ring and the writer (`Tokens`), and those of `isem` follow from
  one inequality for each place of a reader (`InFits`, `InWaits`). Keyboard: for any
  sequence of keys, the invariant says what each rest of `wire` will do to the
  driver, so that it holds between two bytes of a key as well. Reader: `line`
  and the rest of the buffer add up to its size, less the place that a line end
  needs. `CountNeverAhead` is proved for one reader of a terminal, and
  `TokensConserved` and `LinesDoNotMix` where writers hold the log's mutex or are
  alone; beyond that the code really loses updates. Lines: at most one writer is
  then between its first and its last step, and the invariant `InOrder` says of
  every place it can be at (`OnTheWay`) that what the calls so far should show is
  the screen, then the character in hand and what is in the ring, then what is left
  of its call; between calls the ring is empty (`Quiet`). `Holds` says what is in a
  ring, counting from `read`, and the token that the writer holds is why there is
  room to store. `Expanded` is a flattened sequence of flattened sequences; lemmas
  say that flattening what is joined joins what is flattened. `CallsAssumption`
  says that calls are sequences of texts.
* `ProcessProofs`: a place is a task together with its stack, a page in hand,
  or an entry of its address space or of the one that its call is building.
  `Owned` says that places that are not empty have different frames, that these
  are in use and that no other is, but for those dropped; every action takes a free frame
  into an empty place, gives one back, drops one, or moves frames from places
  to other places (a fork moves an address space to the child, an execve replaces the
  old one). It is inductive with `Control` (where each call is, which local
  variables mean something there, and that a slot being filled belongs to
  one fork), `DescriptorFound` (a found descriptor is still free or the
  finder's), `CopyIsAhead` (the copy of an address space has nothing from the
  place on where the copying is) and `ChildIsEmpty` (the child has nothing but its directory
  until `memory_copy_uvm` returns). The lemmas about `Memory` say what a changed entry of
  a directory or a table does to the frames an address space uses.
  `PagesInv` adds what address spaces hold: the one that a fork builds has the
  parent's pages up to the place where the copying is (`ForkPages`); the one that
  an execve builds has the program's pages up to the place where the loading is,
  unless memory ran out (`ExecPages`); and a task has the pages of its heap, while
  sbrk adds some those up to the place where it is (`HeapPages`). It needs
  ownership: a step can write entries only in free frames, in the stack that `tss_init` gives
  back, and in the address space of its own call (`StepWrites`), so
  every other address space has its pages in the frames it had them in (`SpacesLeft`).
  From it follow `HeapMapped`, `ForkCopiesAll` and `KeepsPages`.
  The six theorems assume `Ordered`: one task at most forks, and paths name a
  program. Without the first, `fork_race` shows two tasks in one slot;
  without the second, `execve` empties the name and the slot looks free. Both
  are what the code does (see above), and no frame has one owner after either.
* `ConsoleProofs`: the code keeps one
  array and offsets into it, the terminal lines and a position; that a row and a column
  in range are the quotient and the remainder of their offset makes them the same
  (`PlaceDivides`, `PlaceIsUnique`). Each action of the escape machine then does to
  the lines what `TerminalSpec` says, scrolling line by line. A sequence of the terminal has
  the numbers that were typed, and 0 for the others, while the code reads its whole
  array: that nothing is left in it behind the current parameter
  (`NothingLeftOver`) is the invariant that makes these equal (`NumbersSeen`).
* `BootProofs` has two parts, for any map that a BIOS tells. While the loader asks, it has the
  sizes of the entries behind it (`Detected`, where the loader ends with the last entry:
  `Listened`), so that `total_mem_size` is the sum that `OnePiece` speaks of and every page
  of the bitmap lies in that piece (`FramesAreMemory`).
  `Mapping` says which pages are mapped at every step of `create_kernel_table`
  (some of `Done`, and all of them if there are enough frames for the tables), that each is mapped
  to itself with the permission of its area, and that
  entries of the directory, tables and set bits of the bitmap are one to one.
  That no page is mapped twice follows from the order of the areas after rounding
  (`Layout`), which the layout of the kernel image and of a PC gives (`BootAssumption`). Where
  the tables fit, `FramesReached` and `KernelIsReached` read off what is mapped at the end.

Some definitions are written for the prover: sums, digits and file names are
recursive functions; `CountNeverAhead` counts
with `Cardinality`, because a filter of a sequence is opaque to it; the tables of the
keyboard are function constructors; and `ProcessAssumption` bounds the end of
programs and heaps by the end of the address space, `UserEnd`.

Only model-checked: liveness (`SleepersWake`, `TokensAreUsed`,
`WritersFinish`), which needs ENABLED and is beyond the prover, and the four
findings, each a counterexample. `fork_race` is why the theorems on `Process` have one task that
forks: what holds with two is not stated.

## Not modelled

In modules that are there, these parts are left out: the content of the program
file at `TEMP_ADDR`, which all tasks share together with the position in it
(`K/fs/fs.c:107`; two tasks in `execve` at the same time would read from each other's position, and
`Process` lets every load succeed or fail), more than one reader of a terminal,
colours and the hardware cursor, the serial port of the log, the pages of a program's stack
but one (the code has 500), and
`bitmap_alloc_nbits` for more than one page, which nobody asks for. `task_uninit`,
`free_task`, `dev_close` and `file_free` of an open file are never reached.

Left out for good: interrupt and GDT set-up, the boot sector, the mode switch and
the copying of the kernel by the loader, the order of start-up (straight-line code
and port I/O), exception handlers (they print and halt), the memory and string
functions of `klib` that copy or compare in one loop, the application library
and the shell beyond the calls they make, and the separate `helloworld` demo.
