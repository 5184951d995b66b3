----------------------------- MODULE TtyOutput -----------------------------
(***************************************************************************)
(* The output side of a terminal (tty_write of dev/tty.c, console_write of *)
(* dev/console.c).  A task takes a token of osem for every character it    *)
(* puts into ofifo, twice for a line feed, which gets a carriage return in *)
(* front; then it empties ofifo to the screen, and gives a token back for  *)
(* every character.                                                        *)
(*                                                                         *)
(* Interrupts are on except inside sem_wait and sem_notify: another task   *)
(* that writes to the same terminal can come between any two accesses to   *)
(* ofifo, and with -O0 count++ and count-- are a load and a store.         *)
(* log_printf holds its mutex around two calls of tty_write, the text and  *)
(* the line feed; sys_write and the echo of tty_read hold nothing.  Who    *)
(* writes what is said by module Terminal.                                 *)
(***************************************************************************)
EXTENDS TtyFifo, FiniteSets, SequencesExt

CONSTANTS
  Writer,       \* tasks that write to this terminal
  NoTask,       \* the null owner of the mutex of log_printf
  ObufSize,     \* TTY_OBUF_SIZE
  MaxExtra      \* bound of the model: characters on the screen beyond those asked for

ASSUME OutputAssumption ==
  /\ NoTask \notin Writer
  /\ ObufSize \in Nat \ {0}
  /\ MaxExtra \in Nat

VARIABLES
  ofifo,        \* tty_t.ofifo
  osem,         \* tty_t.osem.count
  osemWait,     \* tty_t.osem.wait_list
  pc,           \* where each writer is
  logging,      \* the writers that write through log_printf; never changes
  logOwner,     \* the mutex of log_printf; who gets it next is MutexSpec's
  left,         \* the calls of tty_write a writer has to make, and what is
                \* left of this one: sequences of sequences of characters
  char,         \* the character being put
  reg,          \* the index or the count that a writer has loaded
  ch,           \* the character that console_write has got
  screen,       \* the characters console_write has handled, in order
  begun         \* the calls that writers have begun to make, in order

outVars == <<ofifo, osem, osemWait, pc, logging, logOwner, left, char, reg, ch,
             screen, begun>>

GoTo(t, l) == pc' = [pc EXCEPT ![t] = l]

OutInit(calls, logs) ==
  /\ ofifo = FifoInit(ObufSize)
  /\ osem = ObufSize
  /\ osemWait = <<>>
  /\ pc = [t \in Writer |-> IF calls[t] = <<>> THEN "done" ELSE "begin"]
  /\ logging = logs
  /\ logOwner = NoTask
  /\ left = calls
  /\ char = [t \in Writer |-> Junk]
  /\ reg = [t \in Writer |-> 0]
  /\ ch = [t \in Writer |-> Junk]
  /\ screen = <<>>
  /\ begun = <<>>

-----------------------------------------------------------------------------
(* A bug: log_printf without its mutex. *)
BeginNoLock(t) ==
  /\ pc[t] = "begin"
  /\ begun' = begun \o left[t]
  /\ GoTo(t, "next")
  /\ UNCHANGED <<ofifo, osem, osemWait, logging, logOwner, left, char, reg, ch, screen>>

(* mutex_lock in log_printf; sys_write goes straight to tty_write. *)
Begin(t) ==
  /\ pc[t] = "begin"
  /\ t \in logging => logOwner = NoTask
  /\ logOwner' = IF t \in logging THEN t ELSE logOwner
  /\ begun' = begun \o left[t]
  /\ GoTo(t, "next")
  /\ UNCHANGED <<ofifo, osem, osemWait, logging, left, char, reg, ch, screen>>

(* The loop of tty_write: the next character, or its carriage return first. *)
NextChar(t) ==
  /\ pc[t] = "next"
  /\ left[t] # <<>> /\ Head(left[t]) # <<>>
  /\ LET c == Head(Head(left[t]))
     IN  char' = [char EXCEPT ![t] = IF c = LF THEN CR ELSE c]
  /\ GoTo(t, "wait")
  /\ UNCHANGED <<ofifo, osem, osemWait, logging, logOwner, left, reg, ch, screen, begun>>

(* tty_write returns; what it returns is of no interest to log_printf. *)
Return(t) ==
  /\ pc[t] = "next"
  /\ left[t] # <<>> /\ Head(left[t]) = <<>>
  /\ left' = [left EXCEPT ![t] = Tail(@)]
  /\ UNCHANGED <<ofifo, osem, osemWait, logging, pc, logOwner, char, reg, ch, screen, begun>>

(* mutex_unlock in log_printf. *)
End(t) ==
  /\ pc[t] = "next"
  /\ left[t] = <<>>
  /\ logOwner' = IF t \in logging THEN NoTask ELSE logOwner
  /\ GoTo(t, "done")
  /\ UNCHANGED <<ofifo, osem, osemWait, logging, left, char, reg, ch, screen, begun>>

(* sem_wait(&tty->osem) *)
WaitForRoom(t) ==
  /\ pc[t] = "wait"
  /\ IF osem > 0
     THEN osem' = osem - 1 /\ GoTo(t, "putCheck") /\ UNCHANGED osemWait
     ELSE GoTo(t, "blocked") /\ osemWait' = Append(osemWait, t) /\ UNCHANGED osem
  /\ UNCHANGED <<ofifo, logging, logOwner, left, char, reg, ch, screen, begun>>

(* tty_fifo_put fails: tty_write gives up, the token is gone. *)
PutFull(t) ==
  /\ pc[t] = "putCheck"
  /\ FifoFull(ofifo, ObufSize)
  /\ left' = [left EXCEPT ![t] = Tail(@)]
  /\ GoTo(t, "next")
  /\ UNCHANGED <<ofifo, osem, osemWait, logging, logOwner, char, reg, ch, screen, begun>>

PutIndex(t) ==
  /\ pc[t] = "putCheck"
  /\ ~ FifoFull(ofifo, ObufSize)
  /\ reg' = [reg EXCEPT ![t] = ofifo.write]
  /\ GoTo(t, "putStore")
  /\ UNCHANGED <<ofifo, osem, osemWait, logging, logOwner, left, char, ch, screen, begun>>

(* Two writers at the end of the buffer can both pass the check for room   *)
(* before one wraps the index around; the later store would hit ofifo.buf, *)
(* which lies behind obuf.  Nothing is said of what follows: the model     *)
(* does not take that step.                                                *)
PutStore(t) ==
  /\ pc[t] = "putStore"
  /\ reg[t] < ObufSize
  /\ ofifo' = FifoStore(ofifo, reg[t], char[t])
  /\ GoTo(t, "putWrap")
  /\ UNCHANGED <<osem, osemWait, logging, logOwner, left, char, reg, ch, screen, begun>>

PutWrap(t) ==
  /\ pc[t] = "putWrap"
  /\ ofifo' = FifoWrapWrite(ofifo, ObufSize)
  /\ GoTo(t, "putLoad")
  /\ UNCHANGED <<osem, osemWait, logging, logOwner, left, char, reg, ch, screen, begun>>

PutLoadCount(t) ==
  /\ pc[t] = "putLoad"
  /\ reg' = [reg EXCEPT ![t] = ofifo.count]
  /\ GoTo(t, "putCount")
  /\ UNCHANGED <<ofifo, osem, osemWait, logging, logOwner, left, char, ch, screen, begun>>

(* A bug: count++ is forgotten. *)
PutKeepsCount(t) ==
  /\ pc[t] = "putCount"
  /\ left' = [left EXCEPT ![t] = <<Tail(Head(@))>> \o Tail(@)]
  /\ GoTo(t, "getCheck")
  /\ UNCHANGED <<ofifo, osem, osemWait, logging, logOwner, char, reg, ch, screen, begun>>

(* After the carriage return comes the line feed; after any other          *)
(* character the console is called.                                        *)
PutStoreCount(t) ==
  /\ pc[t] = "putCount"
  /\ ofifo' = FifoSetCount(ofifo, reg[t] + 1)
  /\ IF char[t] = CR /\ Head(Head(left[t])) = LF
     THEN char' = [char EXCEPT ![t] = LF] /\ GoTo(t, "wait") /\ UNCHANGED left
     ELSE /\ left' = [left EXCEPT ![t] = <<Tail(Head(@))>> \o Tail(@)]
          /\ GoTo(t, "getCheck")
          /\ UNCHANGED char
  /\ reg' = [reg EXCEPT ![t] = 0]
  /\ UNCHANGED <<osem, osemWait, logging, logOwner, ch, screen, begun>>

(* The loop of console_write, which ends when ofifo is empty. *)
GetEmpty(t) ==
  /\ pc[t] = "getCheck"
  /\ FifoEmpty(ofifo)
  /\ GoTo(t, "next")
  /\ UNCHANGED <<ofifo, osem, osemWait, logging, logOwner, left, char, reg, ch, screen, begun>>

GetIndex(t) ==
  /\ pc[t] = "getCheck"
  /\ ~ FifoEmpty(ofifo)
  /\ reg' = [reg EXCEPT ![t] = ofifo.read]
  /\ GoTo(t, "getFetch")
  /\ UNCHANGED <<ofifo, osem, osemWait, logging, logOwner, left, char, ch, screen, begun>>

GetFetch(t) ==
  /\ pc[t] = "getFetch"
  /\ ch' = [ch EXCEPT ![t] = IF reg[t] < ObufSize THEN ofifo.buf[reg[t]] ELSE Junk]
  /\ ofifo' = FifoFetch(ofifo, reg[t])
  /\ GoTo(t, "getWrap")
  /\ UNCHANGED <<osem, osemWait, logging, logOwner, left, char, reg, screen, begun>>

GetWrap(t) ==
  /\ pc[t] = "getWrap"
  /\ ofifo' = FifoWrapRead(ofifo, ObufSize)
  /\ GoTo(t, "getLoad")
  /\ UNCHANGED <<osem, osemWait, logging, logOwner, left, char, reg, ch, screen, begun>>

GetLoadCount(t) ==
  /\ pc[t] = "getLoad"
  /\ reg' = [reg EXCEPT ![t] = ofifo.count]
  /\ GoTo(t, "getCount")
  /\ UNCHANGED <<ofifo, osem, osemWait, logging, logOwner, left, char, ch, screen, begun>>

GetStoreCount(t) ==
  /\ pc[t] = "getCount"
  /\ ofifo' = FifoSetCount(ofifo, reg[t] - 1)
  /\ reg' = [reg EXCEPT ![t] = 0]
  /\ GoTo(t, "notify")
  /\ UNCHANGED <<osem, osemWait, logging, logOwner, left, char, ch, screen, begun>>

(* Two bugs: console_write does not notify, or sem_notify does not look at *)
(* the wait list.                                                          *)
NotifyNobody(t) ==
  /\ pc[t] = "notify"
  /\ GoTo(t, "show")
  /\ UNCHANGED <<ofifo, osem, osemWait, logging, logOwner, left, char, reg, ch, screen, begun>>

NotifyCounts(t) ==
  /\ pc[t] = "notify"
  /\ osem' = osem + 1
  /\ GoTo(t, "show")
  /\ UNCHANGED <<ofifo, osemWait, logging, logOwner, left, char, reg, ch, screen, begun>>

(* sem_notify(&tty->osem) *)
NotifyRoom(t) ==
  /\ pc[t] = "notify"
  /\ IF osemWait = <<>>
     THEN osem' = osem + 1 /\ GoTo(t, "show") /\ UNCHANGED osemWait
     ELSE /\ pc' = [pc EXCEPT ![Head(osemWait)] = "putCheck", ![t] = "show"]
          /\ osemWait' = Tail(osemWait)
          /\ UNCHANGED osem
  /\ UNCHANGED <<ofifo, logging, logOwner, left, char, reg, ch, screen, begun>>

(* The characters that the calls should bring to the screen. *)
Expanded(calls) ==
  LET put(c) == IF c = LF THEN <<CR, LF>> ELSE <<c>>
  IN  FlattenSeq([i \in DOMAIN calls |->
        FlattenSeq([j \in DOMAIN calls[i] |-> put(calls[i][j])])])

(* What the console does with the character is not modelled here.  Two     *)
(* writers can undo each other's count-- for ever, hence the bound.        *)
Show(t) ==
  /\ pc[t] = "show"
  /\ Len(screen) < Len(Expanded(begun)) + MaxExtra
  /\ screen' = Append(screen, ch[t])
  /\ ch' = [ch EXCEPT ![t] = Junk]
  /\ GoTo(t, "getCheck")
  /\ UNCHANGED <<ofifo, osem, osemWait, logging, logOwner, left, char, reg, begun>>

WriteStep(t) ==
  \/ Begin(t) \/ NextChar(t) \/ Return(t) \/ End(t) \/ WaitForRoom(t) \/ PutFull(t)
  \/ PutIndex(t) \/ PutStore(t) \/ PutWrap(t) \/ PutLoadCount(t) \/ PutStoreCount(t)
  \/ GetEmpty(t) \/ GetIndex(t) \/ GetFetch(t) \/ GetWrap(t)
  \/ GetLoadCount(t) \/ GetStoreCount(t) \/ NotifyRoom(t) \/ Show(t)

-----------------------------------------------------------------------------
(* The tasks between sem_wait and the end of the put it paid for, and      *)
(* between the end of a get and its sem_notify, hold a token.              *)
Holders ==
  {t \in Writer : pc[t] \in {"putCheck", "putStore", "putWrap", "putLoad",
                             "putCount", "notify"}}

(* As long as writers keep to the mutex of log_printf, or there is only    *)
(* one, a token of osem is in the semaphore, in the buffer or in the hands *)
(* of a task, at every point of tty_write and console_write: none is lost  *)
(* and none is made.                                                       *)
NoTokenLost == osem + ofifo.count + Cardinality(Holders) = ObufSize

(* Lines do not mix: the screen has seen the texts one after the other in  *)
(* the order in which the calls began, every character once and a carriage *)
(* return in front of every line feed.                                     *)
ScreenInOrder ==
  /\ IsPrefix(screen, Expanded(begun))
  /\ (\A t \in Writer : pc[t] = "done") => screen = Expanded(begun)

(* Whatever two unprotected writers do to the buffer, no wake-up is lost:  *)
(* a writer is blocked exactly while it is in the wait list of osem, and   *)
(* nobody waits there while osem has a token.                              *)
NoRoomWhileBlocked ==
  /\ \A t \in Writer : pc[t] = "blocked" <=> t \in ToSet(osemWait)
  /\ osemWait # <<>> => osem = 0

=============================================================================
