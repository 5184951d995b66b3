------------------------------ MODULE Terminal ------------------------------
(***************************************************************************)
(* One terminal with everything that uses it: the keyboard whose handler   *)
(* calls tty_in, tasks in tty_read, which show what they read, and tasks   *)
(* that write, through log_printf or sys_write.  Terminal 0 is the one     *)
(* that the keyboard types for and that the log is written to.             *)
(*                                                                         *)
(* Keyboard and TtyInput meet in the interrupt handler, TtyInput and       *)
(* TtyOutput in the echo: a reader is a writer, too, that has a call of    *)
(* tty_write to make whenever it is at "echo".                             *)
(*                                                                         *)
(* A scene says who uses the terminal: the calls that writers make, which  *)
(* of them log, whether the readers read, and the keys that are used.      *)
(***************************************************************************)
EXTENDS TtyOutput

CONSTANTS
  Reader,       \* tasks that read from this terminal
  Char,         \* the characters that there are
  IbufSize,     \* TTY_IBUF_SIZE
  BufSize,      \* the size that readers give to tty_read
  Scene         \* records of calls, logs, reads and keys, and of two bounds: how
                \* often keys are pressed, and bytes that the keyboard holds back

VARIABLES
  ififo, isem, isemWait, inPc, inReg, inCh, line, typed, got,
  held, last, locked, wire, presses, recvState, kbdState, asked, handed,
  scene         \* the scene; never changes

In == INSTANCE TtyInput WITH pc <- inPc, reg <- inReg, ch <- inCh

Kbd == INSTANCE Keyboard

ASSUME TerminalAssumption ==
  /\ In!InputAssumption /\ Kbd!KeyboardAssumption
  /\ Reader \subseteq Writer
  /\ \A s \in Scene : s.logs \subseteq Writer /\ \A r \in Reader : s.reads => s.calls[r] = <<>>

ASSUME CallsAssumption == \A s \in Scene : s.calls \in [Writer -> Seq(Seq(Char))]

inVars == <<ififo, isem, isemWait, inPc, inReg, inCh, line, typed, got>>
kbdVars == <<held, last, locked, wire, presses, recvState, kbdState, asked, handed>>
termVars == <<outVars, inVars, kbdVars, scene>>

Init ==
  /\ scene \in Scene
  /\ OutInit(scene.calls, scene.logs)
  /\ In!Init
  /\ Kbd!KbdInit

(* Somebody presses or releases a key. *)
UseKey ==
  /\ \E k \in scene.keys : Kbd!UseKey(k)
  /\ presses' <= scene.presses /\ Len(wire') <= scene.pending
  /\ UNCHANGED <<outVars, inVars, scene>>

(* The keyboard interrupt, with tty_in(0, key) when there is a character. *)
KeyboardInterrupt ==
  /\ Kbd!Interrupt
  /\ IF handed' = handed THEN UNCHANGED inVars ELSE In!TtyIn(Last(handed'))
  /\ UNCHANGED <<outVars, scene>>

(* A reader that is not at its echo, or back from it.  With the character  *)
(* it calls tty_write(dev, 0, &ch, 1).                                     *)
Read(r) ==
  /\ scene.reads /\ pc[r] = "done"
  /\ In!ReadStep(r)
  /\ IF inPc'[r] = "echo"
     THEN /\ left' = [left EXCEPT ![r] = <<<<inCh'[r]>>>>]
          /\ GoTo(r, "begin")
     ELSE UNCHANGED <<left, pc>>
  /\ UNCHANGED <<ofifo, osem, osemWait, logging, logOwner, char, reg, ch, screen,
                 begun, kbdVars, scene>>

Write(t) == WriteStep(t) /\ UNCHANGED <<inVars, kbdVars, scene>>

Next ==
  \/ UseKey \/ KeyboardInterrupt
  \/ \E r \in Reader : Read(r)
  \/ \E t \in Writer : Write(t)

(* A task that can run does run (SchedTiming: ReadyLatencyBounded); keys   *)
(* are pressed or not.                                                     *)
Spec ==
  /\ Init /\ [][Next]_termVars
  /\ \A r \in Reader : WF_termVars(Read(r))
  /\ \A t \in Writer : WF_termVars(Write(t))

-----------------------------------------------------------------------------
(* The keyboard driver and the reader keep their promises, here with each  *)
(* other: modifiers as held, the characters of the keys in order.          *)
ModifiersAsHeld == Kbd!ModifiersAsHeld
KeysGiveTheirChars == Kbd!KeysGiveTheirChars
(* The input ring has no more than was typed, and reads fit their buffer.  *)
CountNeverAhead == In!CountNeverAhead
ReadsFit == In!ReadsFit
(* What a comment promises of the wait for isem (dev/tty.c:126).           *)
WaitMakesSureOfData == In!WaitMakesSureOfData

(* Whatever unprotected writers do to the output ring, and the keyboard to *)
(* the input ring, no wake-up is lost: a task is blocked exactly while it  *)
(* is in the wait list of isem or of osem, and nobody waits there while    *)
(* the semaphore has a token.                                              *)
NobodyOverlooked == In!NoKeyWhileBlocked /\ NoRoomWhileBlocked

(* A character is in the semaphore or on its way to a reader only for a    *)
(* while: as long as readers come back for more, no token stays when keys  *)
(* are no longer pressed.                                                  *)
TokensAreUsed == isem > 0 /\ scene.reads ~> isem = 0

(* Nobody writes that does not hold the mutex of log_printf, or there is   *)
(* one task that writes.                                                   *)
Protected ==
  LET writes == {t \in Writer : scene.calls[t] # <<>>}
                  \cup IF scene.reads THEN Reader ELSE {}
  IN  writes \subseteq logging \/ \E t \in Writer : writes = {t}

TokensConserved == Protected => NoTokenLost
LinesDoNotMix == Protected => ScreenInOrder

(* A writer comes to the end of its text, though it waits for room before  *)
(* it empties the buffer itself: the two tokens of a line feed never run   *)
(* out for a writer that has the terminal for itself.                      *)
WritersFinish ==
  \A t \in Writer : Protected /\ pc[t] # "done" ~> pc[t] = "done"

=============================================================================
