---------------------------- MODULE TerminalSpec ----------------------------
(***************************************************************************)
(* What a console promises (dev/console.c): a screen of lines, a cursor, a *)
(* saved place, and escape sequences that end with one character and leave *)
(* nothing to the next one but what they have done.  Places on the screen  *)
(* are counted from the top left corner along the lines.                   *)
(*                                                                         *)
(* There is one action per kind of character.  Sequences can name a place  *)
(* that is not on the screen; text does to the lines and the cursor what   *)
(* it likes then, but the next sequence still does what it says.           *)
(***************************************************************************)
EXTENDS Integers, Sequences

CONSTANTS Rows, Cols, Char, Blank, Digit, ParamMax

VARIABLES
  lines,        \* the lines of the screen, from the top
  cursor,       \* <<row, column>>, from 0
  saved,        \* the cursor that ESC 7 has saved
  mode,         \* "normal", "esc" after an ESC, "square" after ESC [
  numbers       \* of the sequence that is under way, as far as it has come

specVars == <<lines, cursor, saved, mode, numbers>>

BlankLine == [c \in 0 .. Cols - 1 |-> Blank]
OnScreen == cursor[1] \in 0 .. Rows - 1 /\ cursor[2] \in 0 .. Cols - 1

Pos == cursor[1] * Cols + cursor[2]
PlaceOf(p) == <<p \div Cols, p % Cols>>
LastPos == Rows * Cols - 1
LineStart(p) == p - (p % Cols)

With(p, ch) == [lines EXCEPT ![(p \div Cols) + 1][p % Cols] = ch]
Scrolled(ls) == Append(Tail(ls), BlankLine)

TermInit == OnScreen /\ saved = cursor /\ mode = "normal" /\ numbers = <<>>

-----------------------------------------------------------------------------
(* Text leaves the lines ls and the cursor at p, if it is on the screen. *)
Text(ls, p) ==
  /\ mode = "normal"
  /\ OnScreen => lines' = ls /\ cursor' = PlaceOf(p)
  /\ UNCHANGED <<saved, mode, numbers>>

Show(ch) ==
  IF Pos < LastPos THEN Text(With(Pos, ch), Pos + 1)
                   ELSE Text(Scrolled(With(Pos, ch)), LineStart(LastPos))

Backspace == Text(lines, IF Pos > 0 THEN Pos - 1 ELSE 0)
Delete == (OnScreen => Pos > 0) /\ Text(With(Pos - 1, Blank), Pos - 1)
CarriageReturn == Text(lines, LineStart(Pos))

LineFeed ==
  IF Pos < LineStart(LastPos) THEN Text(lines, LineStart(Pos) + Cols)
                              ELSE Text(Scrolled(lines), LineStart(LastPos))

Escape == mode = "normal" /\ mode' = "esc" /\ UNCHANGED <<lines, cursor, saved, numbers>>

-----------------------------------------------------------------------------
Save ==
  /\ mode = "esc" /\ mode' = "normal"
  /\ saved' = cursor
  /\ UNCHANGED <<lines, cursor, numbers>>

Restore ==
  /\ mode = "esc" /\ mode' = "normal"
  /\ cursor' = saved
  /\ UNCHANGED <<lines, saved, numbers>>

Unknown == mode = "esc" /\ mode' = "normal" /\ UNCHANGED <<lines, cursor, saved, numbers>>

Bracket ==
  /\ mode = "esc" /\ mode' = "square"
  /\ numbers' = <<0>>
  /\ UNCHANGED <<lines, cursor, saved>>

-----------------------------------------------------------------------------
(* One number more than ParamMax can begin; its digits are dropped. *)
AddDigit(d) ==
  /\ mode = "square"
  /\ numbers' = IF Len(numbers) <= ParamMax
                THEN [numbers EXCEPT ![Len(numbers)] = @ * 10 + d] ELSE numbers
  /\ UNCHANGED <<lines, cursor, saved, mode>>

NextNumber ==
  /\ mode = "square" /\ Len(numbers) <= ParamMax
  /\ numbers' = Append(numbers, 0)
  /\ UNCHANGED <<lines, cursor, saved, mode>>

(* The end of a sequence, with the lines ls and the cursor at c. *)
End(ls, c) ==
  /\ mode = "square" /\ mode' = "normal"
  /\ lines' = ls /\ cursor' = c /\ numbers' = <<>>
  /\ UNCHANGED saved

(* A number that was not given is 0, and no distance is a distance of 1. *)
Number(i) == IF i <= Len(numbers) THEN numbers[i] ELSE 0
Distance == IF Number(1) = 0 THEN 1 ELSE Number(1)

Left ==
  End(lines, <<cursor[1], IF Distance > cursor[2] THEN 0 ELSE cursor[2] - Distance>>)

(* The column behind the last is not off the screen enough to be stopped. *)
Right ==
  End(lines, <<cursor[1], IF cursor[2] + Distance > Cols THEN Cols - 1
                                                         ELSE cursor[2] + Distance>>)

MoveTo == End(lines, <<Number(1) - 1, Number(2) - 1>>)

Clear == Number(1) = 2 /\ End([i \in 1 .. Rows |-> BlankLine], <<0, 0>>)

OtherEnd == End(lines, cursor)

TermNext ==
  \/ \E ch \in Char : Show(ch)
  \/ Backspace \/ Delete \/ CarriageReturn \/ LineFeed \/ Escape
  \/ Save \/ Restore \/ Unknown \/ Bracket
  \/ \E d \in Digit : AddDigit(d)
  \/ NextNumber \/ Left \/ Right \/ MoveTo \/ Clear \/ OtherEnd

TermSpec == TermInit /\ [][TermNext]_specVars

=============================================================================
