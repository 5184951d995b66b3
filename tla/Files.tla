------------------------------- MODULE Files -------------------------------
(***************************************************************************)
(* sys_open and sys_dup (fs/fs.c) with the tables behind them: the         *)
(* descriptors of a task (core/task.c), the open files (fs/file.c) and the *)
(* devices (dev/dev.c).  Tasks interleave between any two actions; one     *)
(* action is one critical section (file_alloc_mutex, or interrupts off in  *)
(* dev_open) and the accesses to data of the task that follow it.          *)
(*                                                                         *)
(* sys_read and sys_write leave these tables as they are.  They are        *)
(* operators, WriteTty and ReadTty: the terminal that a call gets to.      *)
(*                                                                         *)
(* sys_close changes nothing and dev_close is not called, so open files    *)
(* and devices stay open.  The program file that execve reads (TEMP_ADDR)  *)
(* has none of this state and is left out.                                 *)
(***************************************************************************)
EXTENDS Integers, FiniteSetsExt

CONSTANTS
  Task,         \* the tasks that open terminals
  File,         \* the entries of file_table, by index
  Fd,           \* the entries of the file_table of a task, by index
  Dev,          \* the entries of dev_tbl, by index
  Num,          \* the terminal numbers that tasks ask for
  TtyNr         \* the number of terminals there are

ASSUME FilesAssumption ==
  /\ IsFiniteSet(Task) /\ IsFiniteSet(File) /\ IsFiniteSet(Fd) /\ IsFiniteSet(Dev)
  /\ File \subseteq Nat /\ Fd \subseteq Nat /\ Dev \subseteq Nat /\ Dev # {}
  /\ Num \subseteq Int /\ TtyNr \in Nat \ {0}

VARIABLES
  ref,          \* file -> its reference count
  devId,        \* file -> its dev_id, or NoDev after file_alloc
  fds,          \* task -> descriptor -> file, or NoFile
  openCount,    \* device -> open_count
  minor,        \* device -> minor, meaningful when it is open
  loc,          \* where a task is in sys_open, and its local variables
  named         \* file -> the number it was opened with (a history variable)

vars == <<ref, devId, fds, openCount, minor, loc, named>>

NoFile == -1
NoFd == -1
NoDev == -1

(* A name that is too short for a number. *)
NoNum == TtyNr + 1000

Idle == [pc |-> "run", file |-> NoFile, fd |-> NoFd, num |-> NoNum]

At(t, l) == loc[t].pc = l

LogDev == Max(Dev)

Init ==
  /\ ref = [f \in File |-> 0]
  /\ devId = [f \in File |-> NoDev]
  /\ fds = [t \in Task |-> [d \in Fd |-> NoFile]]
  /\ openCount = [d \in Dev |-> IF d = LogDev THEN 1 ELSE 0]
  /\ minor = [d \in Dev |-> 0]
  /\ loc = [t \in Task |-> Idle]
  /\ named = [f \in File |-> NoNum]

-----------------------------------------------------------------------------
FreeFiles == {f \in File : ref[f] = 0}
FreeFds(t) == {d \in Fd : fds[t][d] = NoFile}

(* A bug: file_alloc finds an entry, and sys_open marks it when it is done. *)
FindsFile(t, num) ==
  LET f == Min(FreeFiles)
      d == IF FreeFds(t) = {} THEN NoFd ELSE Min(FreeFds(t))
  IN  /\ At(t, "run") /\ FreeFiles # {}
      /\ devId' = [devId EXCEPT ![f] = NoDev]
      /\ fds' = IF d = NoFd THEN fds ELSE [fds EXCEPT ![t][d] = f]
      /\ loc' = [loc EXCEPT ![t] =
           [pc |-> IF d = NoFd \/ num = NoNum THEN "failed" ELSE "device",
            file |-> f, fd |-> d, num |-> num]]
      /\ named' = [named EXCEPT ![f] = num]
      /\ UNCHANGED <<ref, openCount, minor>>

(* file_alloc, task_alloc_fd and the check of the name. *)
OpenFile(t, num) ==
  LET f == Min(FreeFiles)
      d == IF FreeFds(t) = {} THEN NoFd ELSE Min(FreeFds(t))
  IN  /\ At(t, "run") /\ FreeFiles # {}
      /\ ref' = [ref EXCEPT ![f] = 1]
      /\ devId' = [devId EXCEPT ![f] = NoDev]
      /\ fds' = IF d = NoFd THEN fds ELSE [fds EXCEPT ![t][d] = f]
      /\ loc' = [loc EXCEPT ![t] =
           [pc |-> IF d = NoFd \/ num = NoNum THEN "failed" ELSE "device",
            file |-> f, fd |-> d, num |-> num]]
      /\ named' = [named EXCEPT ![f] = num]
      /\ UNCHANGED <<openCount, minor>>

(* The entries that dev_open can return: one that is open already, or the  *)
(* last that is free.                                                      *)
OpenDevs(num) == {d \in Dev : openCount[d] > 0 /\ minor[d] = num}
FreeDevs == {d \in Dev : openCount[d] = 0}

(* A bug: a second open of a device is not counted. *)
OpensUncounted(t) ==
  LET d == Min(OpenDevs(loc[t].num))
  IN  /\ At(t, "device") /\ OpenDevs(loc[t].num) # {}
      /\ devId' = [devId EXCEPT ![loc[t].file] = d]
      /\ ref' = [ref EXCEPT ![loc[t].file] = 1]
      /\ loc' = [loc EXCEPT ![t] = Idle]
      /\ UNCHANGED <<fds, openCount, minor, named>>

(* dev_open of a device that is open, and the rest of sys_open. *)
OpenAgain(t) ==
  LET d == Min(OpenDevs(loc[t].num))
  IN  /\ At(t, "device") /\ OpenDevs(loc[t].num) # {}
      /\ openCount' = [openCount EXCEPT ![d] = @ + 1]
      /\ devId' = [devId EXCEPT ![loc[t].file] = d]
      /\ ref' = [ref EXCEPT ![loc[t].file] = 1]
      /\ loc' = [loc EXCEPT ![t] = Idle]
      /\ UNCHANGED <<fds, minor, named>>

IsTty(num) == num \in 0 .. TtyNr - 1

(* dev_open of another one: the entry is bound before tty_open has looked  *)
(* at the number.                                                          *)
OpenDevice(t) ==
  LET num == loc[t].num
      d == Max(FreeDevs)
  IN  /\ At(t, "device") /\ OpenDevs(num) = {}
      /\ minor' = IF FreeDevs = {} THEN minor ELSE [minor EXCEPT ![d] = num]
      /\ IF FreeDevs # {} /\ IsTty(num)
         THEN /\ openCount' = [openCount EXCEPT ![d] = 1]
              /\ devId' = [devId EXCEPT ![loc[t].file] = d]
              /\ ref' = [ref EXCEPT ![loc[t].file] = 1]
              /\ loc' = [loc EXCEPT ![t] = Idle]
         ELSE /\ loc' = [loc EXCEPT ![t].pc = "failed"]
              /\ UNCHANGED <<openCount, devId, ref>>
      /\ UNCHANGED <<fds, named>>

(* A bug: a failed open leaves its descriptor behind. *)
KeepsFd(t) ==
  /\ At(t, "failed")
  /\ ref' = [ref EXCEPT ![loc[t].file] = IF @ > 0 THEN @ - 1 ELSE 0]
  /\ loc' = [loc EXCEPT ![t] = Idle]
  /\ UNCHANGED <<fds, devId, openCount, minor, named>>

(* sys_open_failed: file_free, and task_remove_fd of a descriptor that only *)
(* this task looks at.                                                     *)
OpenFailed(t) ==
  LET l == loc[t]
  IN  /\ At(t, "failed")
      /\ ref' = [ref EXCEPT ![l.file] = IF @ > 0 THEN @ - 1 ELSE 0]
      /\ fds' = IF l.fd = NoFd THEN fds ELSE [fds EXCEPT ![t][l.fd] = NoFile]
      /\ loc' = [loc EXCEPT ![t] = Idle]
      /\ UNCHANGED <<devId, openCount, minor, named>>

(* What sys_read and sys_write go through: task_file; is_devid_bad, where  *)
(* a device whose desc is not set has open_count 0 as well; get_tty.       *)
NoTty == -1
TaskFile(t, d) == IF d \in Fd THEN fds[t][d] ELSE NoFile
GetTty(e) == IF IsTty(minor[e]) /\ openCount[e] > 0 THEN minor[e] ELSE NoTty
DevTty(id) == IF id \in Dev THEN GetTty(id) ELSE NoTty

(* The terminal that sys_write of descriptor d writes to, if any. *)
WriteTty(t, d) ==
  IF TaskFile(t, d) = NoFile THEN NoTty ELSE DevTty(devId[TaskFile(t, d)])

(* The terminal that sys_read of descriptor d reads from, if any: whatever *)
(* d is, sys_read takes descriptor 0.                                      *)
ReadTty(t, d) == WriteTty(t, 0)

(* sys_dup of an open descriptor: the lowest free one refers to its file.  *)
(* No other task has the file, so ref++ needs no protection.               *)
Dup(t, d) ==
  LET f == fds[t][d]
  IN  /\ At(t, "run") /\ f # NoFile /\ FreeFds(t) # {}
      /\ fds' = [fds EXCEPT ![t][Min(FreeFds(t))] = f]
      /\ ref' = [ref EXCEPT ![f] = @ + 1]
      /\ UNCHANGED <<devId, openCount, minor, loc, named>>

Next ==
  \E t \in Task :
    \/ \E num \in Num \cup {NoNum} : OpenFile(t, num)
    \/ OpenAgain(t) \/ OpenDevice(t) \/ OpenFailed(t)
    \/ \E d \in Fd : Dup(t, d)

Spec == Init /\ [][Next]_vars

-----------------------------------------------------------------------------
(* The descriptors that refer to a file. *)
Refs(f) == {p \in Task \X Fd : fds[p[1]][p[2]] = f}

(* A task is between file_alloc and the failure of task_alloc_fd. *)
Pending(f) == {t \in Task : loc[t].file = f /\ loc[t].fd = NoFd}

(* The reference count of a file is the number of descriptors that refer   *)
(* to it, across open, dup and all failures of open.                       *)
RefsCounted ==
  \A f \in File : ref[f] = Cardinality(Refs(f)) + Cardinality(Pending(f))

(* A task that is not in sys_open writes, on each of its descriptors, to   *)
(* the terminal that this descriptor was opened for, and reads, whatever   *)
(* descriptor it names, from the one that its descriptor 0 was opened for: *)
(* whatever other tasks open at the same time, and whichever tables fill   *)
(* up.  A read with no descriptor 0 fails.                                 *)
ReachesItsTerminal ==
  \A t \in Task : \A d \in Fd : At(t, "run") =>
    /\ fds[t][d] # NoFile =>
         WriteTty(t, d) = named[fds[t][d]] /\ IsTty(WriteTty(t, d))
    /\ ReadTty(t, d) = IF TaskFile(t, 0) = NoFile THEN NoTty ELSE named[TaskFile(t, 0)]

(* The device table has each terminal once, and counts its files; the log  *)
(* has terminal 0 open besides them.                                       *)
DevicesCounted ==
  /\ \A d, e \in Dev : openCount[d] > 0 /\ openCount[e] > 0 /\ minor[d] = minor[e] => d = e
  /\ \A d \in Dev :
       openCount[d] = (IF d = LogDev THEN 1 ELSE 0)
                      + Cardinality({f \in File : ref[f] > 0 /\ devId[f] = d})

=============================================================================
