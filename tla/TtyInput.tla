------------------------------ MODULE TtyInput ------------------------------
(***************************************************************************)
(* The input side of a terminal (dev/tty.c): the keyboard interrupt puts   *)
(* characters into ififo and notifies isem (tty_in); tasks in tty_read     *)
(* wait for isem and get a character from ififo (tty_fifo_get).            *)
(*                                                                         *)
(* The interrupt handler is one action.  A reader runs with interrupts on, *)
(* except inside sem_wait: the handler, and another reader, can come       *)
(* between any two of its accesses to ififo.  The kernel is compiled with  *)
(* -O0, so count-- is a load and a store.                                  *)
(*                                                                         *)
(* A reader calls tty_read again and again, with a buffer of BufSize, and  *)
(* is at "echo" while tty_write shows the character: see module Terminal.  *)
(* tty_open has set the flags for both conversions, and nothing resets     *)
(* them.                                                                   *)
(***************************************************************************)
EXTENDS TtyFifo, FiniteSets

CONSTANTS
  Reader,       \* tasks that read from this terminal
  Char,         \* the characters that there are
  IbufSize,     \* TTY_IBUF_SIZE
  BufSize       \* the size that readers give to tty_read

InputAssumption ==
  /\ IbufSize \in Nat \ {0} /\ BufSize \in Nat \ {0}
  /\ LF \in Char /\ Junk \notin Char

VARIABLES
  ififo,        \* tty_t.ififo
  isem,         \* tty_t.isem.count
  isemWait,     \* tty_t.isem.wait_list
  pc,           \* where each reader is in its loop
  reg,          \* the index or the count that a reader has loaded
  ch,           \* the character that tty_read has got
  line,         \* what tty_read has put into the buffer of its caller
  typed,        \* characters put into ififo, in order
  got           \* what the readers came back with: Junk when ififo was empty

vars == <<ififo, isem, isemWait, pc, reg, ch, line, typed, got>>

GoTo(r, l) == pc' = [pc EXCEPT ![r] = l]

Init ==
  /\ ififo = FifoInit(IbufSize)
  /\ isem = 0
  /\ isemWait = <<>>
  /\ pc = [r \in Reader |-> "wait"]
  /\ reg = [r \in Reader |-> 0]
  /\ ch = [r \in Reader |-> Junk]
  /\ line = [r \in Reader |-> <<>>]
  /\ typed = <<>>
  /\ got = <<>>

(* A bug of sem_notify: the wait list is not looked at. *)
NotifyIsemCounts == isem' = isem + 1 /\ UNCHANGED <<isemWait, pc>>

(* sem_notify(&tty->isem) *)
NotifyIsem ==
  \/ isemWait = <<>> /\ isem' = isem + 1 /\ UNCHANGED <<isemWait, pc>>
  \/ /\ isemWait # <<>>
     /\ GoTo(Head(isemWait), "check")
     /\ isemWait' = Tail(isemWait)
     /\ UNCHANGED isem

(* tty_in, from the keyboard interrupt.  A key that finds as many tokens   *)
(* as the buffer has room is dropped.  The result of tty_fifo_put is not   *)
(* looked at: the semaphore is notified even when the buffer was full.     *)
KeyDropped(c) == isem >= IbufSize /\ UNCHANGED vars

KeyTaken(c) ==
  /\ isem < IbufSize
  /\ IF FifoFull(ififo, IbufSize)
     THEN UNCHANGED <<ififo, typed>>
     ELSE ififo' = FifoPut(ififo, c, IbufSize) /\ typed' = Append(typed, c)
  /\ NotifyIsem
  /\ UNCHANGED <<reg, ch, line, got>>

TtyIn(c) == KeyDropped(c) \/ KeyTaken(c)

(* sem_wait(&tty->isem) *)
WaitIsem(r) ==
  \/ isem > 0 /\ isem' = isem - 1 /\ GoTo(r, "check") /\ UNCHANGED isemWait
  \/ /\ isem <= 0
     /\ GoTo(r, "blocked")
     /\ isemWait' = Append(isemWait, r)
     /\ UNCHANGED isem

(* The head of the loop in tty_read. *)
ReadWait(r) ==
  /\ pc[r] = "wait"
  /\ WaitIsem(r)
  /\ UNCHANGED <<ififo, reg, ch, line, typed, got>>

(* A bug: the room for the '\r' is not looked for. *)
StoreNoRoom(r, c) ==
  line' = [line EXCEPT ![r] = IF c = LF THEN @ \o <<CR, LF>> ELSE Append(@, c)]

(* The character goes into the caller's buffer, a '\n' with a '\r' in      *)
(* front as long as there is room for both.                                *)
Store(r, c) ==
  line' = [line EXCEPT ![r] = IF c = LF /\ Len(@) < BufSize - 1
                              THEN @ \o <<CR, LF>> ELSE Append(@, c)]

(* tty_fifo_get finds the buffer empty and returns -1, which tty_read does *)
(* not look at: it goes on with an uninitialised variable.                 *)
GetEmpty(r) ==
  /\ pc[r] = "check"
  /\ FifoEmpty(ififo)
  /\ got' = Append(got, Junk)
  /\ \E c \in Char : ch' = [ch EXCEPT ![r] = c] /\ Store(r, c)
  /\ GoTo(r, "echo")
  /\ UNCHANGED <<ififo, isem, isemWait, reg, typed>>

GetIndex(r) ==
  /\ pc[r] = "check"
  /\ ~ FifoEmpty(ififo)
  /\ reg' = [reg EXCEPT ![r] = ififo.read]
  /\ GoTo(r, "fetch")
  /\ UNCHANGED <<ififo, isem, isemWait, ch, line, typed, got>>

(* The index stays below the size as long as there is one reader. *)
GetFetch(r) ==
  /\ pc[r] = "fetch"
  /\ ch' = [ch EXCEPT ![r] = IF reg[r] < IbufSize THEN ififo.buf[reg[r]] ELSE Junk]
  /\ ififo' = FifoFetch(ififo, reg[r])
  /\ GoTo(r, "wrap")
  /\ UNCHANGED <<isem, isemWait, reg, line, typed, got>>

GetWrap(r) ==
  /\ pc[r] = "wrap"
  /\ ififo' = FifoWrapRead(ififo, IbufSize)
  /\ GoTo(r, "load")
  /\ UNCHANGED <<isem, isemWait, reg, ch, line, typed, got>>

GetLoadCount(r) ==
  /\ pc[r] = "load"
  /\ reg' = [reg EXCEPT ![r] = ififo.count]
  /\ GoTo(r, "store")
  /\ UNCHANGED <<ififo, isem, isemWait, ch, line, typed, got>>

(* A bug: count-- is forgotten. *)
GetKeepsCount(r) ==
  /\ pc[r] = "store"
  /\ got' = Append(got, ch[r])
  /\ Store(r, ch[r])
  /\ GoTo(r, "echo")
  /\ UNCHANGED <<ififo, isem, isemWait, reg, ch, typed>>

GetStoreCount(r) ==
  /\ pc[r] = "store"
  /\ ififo' = FifoSetCount(ififo, reg[r] - 1)
  /\ got' = Append(got, ch[r])
  /\ Store(r, ch[r])
  /\ GoTo(r, "echo")
  /\ reg' = [reg EXCEPT ![r] = 0]
  /\ UNCHANGED <<isem, isemWait, ch, typed>>

(* The end of the loop, and of tty_read with a line or a full buffer: the  *)
(* caller comes back with an empty one.                                    *)
ReadNext(r) ==
  /\ pc[r] = "echo"
  /\ GoTo(r, "wait")
  /\ line' = [line EXCEPT ![r] = IF ch[r] \in {LF, CR} \/ Len(@) >= BufSize THEN <<>> ELSE @]
  /\ ch' = [ch EXCEPT ![r] = Junk]
  /\ UNCHANGED <<ififo, isem, isemWait, reg, typed, got>>

ReadStep(r) ==
  \/ ReadWait(r) \/ GetEmpty(r) \/ GetIndex(r) \/ GetFetch(r)
  \/ GetWrap(r) \/ GetLoadCount(r) \/ GetStoreCount(r) \/ ReadNext(r)

-----------------------------------------------------------------------------
(* A blocked reader has been overlooked by no key: it is in the wait list, *)
(* and the semaphore has no token.                                         *)
NoKeyWhileBlocked ==
  /\ \A r \in Reader : pc[r] = "blocked" <=> \E i \in DOMAIN isemWait : isemWait[i] = r
  /\ isemWait # <<>> => isem = 0

(* The lost updates of count go one way: with one reader the count may     *)
(* fall behind the characters in the buffer but never gets ahead of them,  *)
(* so nothing that was not typed is read out of the buffer.                *)
CountNeverAhead ==
  ififo.count <= Len(typed) - Cardinality({i \in DOMAIN got : got[i] # Junk})

(* tty_read stays inside the caller's buffer, though a '\n' takes two      *)
(* places; a '\n' ends a read, and has its '\r' unless it took the last    *)
(* place.                                                                  *)
ReadsFit ==
  \A r \in Reader :
    LET n == Len(line[r])
    IN  /\ n <= BufSize
        /\ \A i \in 1 .. n : line[r][i] = LF =>
             i = n /\ (n < BufSize => n > 1 /\ line[r][n - 1] = CR)

(* "Wait for the input semaphore, to make sure that the input buffer has   *)
(* data" (dev/tty.c:126): past sem_wait, tty_fifo_get finds a character.   *)
WaitMakesSureOfData == \A r \in Reader : pc[r] = "check" => ~ FifoEmpty(ififo)

=============================================================================
