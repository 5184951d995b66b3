------------------------------ MODULE Console ------------------------------
(***************************************************************************)
(* One console (dev/console.c): each action is console_write handling one  *)
(* character of a class that it tells apart.  Characters come in any       *)
(* order, since tasks write what they like.  Colours, which no property    *)
(* is about, and the cursor of the hardware are left out.                  *)
(*                                                                         *)
(* The model stops before a store outside this console's memory: a         *)
(* character shown with the cursor off the screen may be one, and so is a  *)
(* digit of a parameter after the number of parameters was overwritten.    *)
(***************************************************************************)
EXTENDS Integers

CONSTANTS
  Rows, Cols,   \* display_rows and display_cols
  Char,         \* the characters that can be shown
  Blank,        \* the space
  Digit,        \* the digits that parameters are made of
  ParamMax,     \* ESC_PARAM_MAX
  ParamLimit    \* bounds the value of a parameter

ASSUME ConsoleAssumption ==
  /\ Rows \in Nat \ {0} /\ Cols \in Nat \ {0}
  /\ Blank \in Char /\ Digit \subseteq 0 .. 9
  /\ ParamMax \in Nat \ {0, 1} /\ ParamLimit \in Nat

VARIABLES
  state,        \* write_state
  row, col,     \* cursor_row, cursor_col
  old,          \* <<old_cursor_row, old_cursor_col>>
  disp,         \* the characters at disp_base, by offset
  param,        \* esc_param
  idx           \* curr_param_index

escVars == <<param, idx>>
vars == <<state, row, col, old, disp, param, idx>>

Offsets == 0 .. Rows * Cols - 1
ParamIdx == 0 .. ParamMax - 1

(* console_init: the first console goes on where the loader left the       *)
(* screen, the others start empty.                                         *)
Init ==
  /\ state = "normal"
  /\ row \in 0 .. Rows - 1 /\ col \in 0 .. Cols - 1
  /\ old = <<row, col>>
  /\ disp \in [Offsets -> Char]
  /\ param = [i \in ParamIdx |-> 0]
  /\ idx = 0

-----------------------------------------------------------------------------
(* The helpers, on the part of the console that they change. *)
Screen == [row |-> row, col |-> col, disp |-> disp]

EraseRows(d, start, end) ==
  [i \in Offsets |-> IF i >= Cols * start /\ i < Cols * (end + 1) THEN Blank ELSE d[i]]

ScrollUp(d) ==
  EraseRows([i \in Offsets |-> IF i + Cols \in Offsets THEN d[i + Cols] ELSE d[i]],
            Rows - 1, Rows - 1)

(* scroll_up takes back the increment of the row. *)
MoveNextLine(s) ==
  IF s.row + 1 >= Rows THEN [s EXCEPT !.disp = ScrollUp(@)] ELSE [s EXCEPT !.row = @ + 1]

MoveForward(s) ==
  IF s.col + 1 >= Cols THEN MoveNextLine([s EXCEPT !.col = 0]) ELSE [s EXCEPT !.col = @ + 1]

Offset(s) == s.col + s.row * Cols
ShowChar(s, ch) == MoveForward([s EXCEPT !.disp[Offset(s)] = ch])

CanMoveBack(s) == s.col > 0 \/ (s.col = 0 /\ s.row > 0)
MoveBackword(s) ==
  IF s.col > 0 THEN [s EXCEPT !.col = @ - 1]
  ELSE IF CanMoveBack(s) THEN [s EXCEPT !.row = @ - 1, !.col = Cols - 1] ELSE s

SetScreen(s) == row' = s.row /\ col' = s.col /\ disp' = s.disp

-----------------------------------------------------------------------------
(* write_normal. *)
Normal(s) == state = "normal" /\ SetScreen(s) /\ UNCHANGED <<state, old, escVars>>

Show(ch) == Offset(Screen) \in Offsets /\ Normal(ShowChar(Screen, ch))

EraseBackword ==
  LET s == MoveBackword(Screen)
  IN  /\ CanMoveBack(Screen) /\ Offset(s) \in Offsets
      /\ Normal(MoveBackword(ShowChar(s, Blank)))

Backspace == Normal(MoveBackword(Screen))
CarriageReturn == Normal([Screen EXCEPT !.col = 0])
LineFeed == Normal(MoveNextLine([Screen EXCEPT !.col = 0]))

Escape == state = "normal" /\ state' = "esc" /\ UNCHANGED <<row, col, old, disp, escVars>>

-----------------------------------------------------------------------------
(* write_esc. *)
SaveCursor ==
  /\ state = "esc" /\ state' = "normal"
  /\ old' = <<row, col>>
  /\ UNCHANGED <<row, col, disp, escVars>>

RestoreCursor ==
  /\ state = "esc" /\ state' = "normal"
  /\ row' = old[1] /\ col' = old[2]
  /\ UNCHANGED <<old, disp, escVars>>

(* A bug: the parameters of the sequence before are still there. *)
KeepsParams ==
  /\ state = "esc" /\ state' = "square"
  /\ idx' = 0
  /\ UNCHANGED <<row, col, old, disp, param>>

SquareBracket ==
  /\ state = "esc" /\ state' = "square"
  /\ param' = [i \in ParamIdx |-> 0] /\ idx' = 0
  /\ UNCHANGED <<row, col, old, disp>>

EscOther == state = "esc" /\ state' = "normal" /\ UNCHANGED <<row, col, old, disp, escVars>>

-----------------------------------------------------------------------------
(* write_esc_square.  One element behind esc_param is curr_param_index. *)
ParamDigit(d) ==
  /\ state = "square" /\ idx <= ParamMax
  /\ IF idx < ParamMax
     THEN /\ param[idx] * 10 + d <= ParamLimit
          /\ param' = [param EXCEPT ![idx] = @ * 10 + d]
          /\ UNCHANGED idx
     ELSE idx' = idx * 10 + d /\ UNCHANGED param
  /\ UNCHANGED <<state, row, col, old, disp>>

Semicolon ==
  /\ state = "square" /\ idx < ParamMax
  /\ idx' = idx + 1
  /\ UNCHANGED <<state, row, col, old, disp, param>>

Final(s) == state = "square" /\ state' = "normal" /\ SetScreen(s) /\ UNCHANGED <<old, escVars>>

Count == IF param[0] = 0 THEN 1 ELSE param[0]

MoveLeft == Final([Screen EXCEPT !.col = IF @ >= Count THEN @ - Count ELSE 0])

MoveRight ==
  Final([Screen EXCEPT !.col = IF @ + Count > Cols THEN Cols - 1 ELSE @ + Count])

MoveCursor == Final([Screen EXCEPT !.row = param[0] - 1, !.col = param[1] - 1])

EraseInDisplay ==
  /\ param[0] = 2
  /\ Final([row |-> 0, col |-> 0, disp |-> EraseRows(disp, 0, Rows - 1)])

(* Any other end: a style, an erasure that is not supported, a parameter   *)
(* too many.                                                               *)
SquareOther == Final(Screen)

Next ==
  \/ \E ch \in Char : Show(ch)
  \/ EraseBackword \/ Backspace \/ CarriageReturn \/ LineFeed \/ Escape
  \/ SaveCursor \/ RestoreCursor \/ SquareBracket \/ EscOther
  \/ \E d \in Digit : ParamDigit(d)
  \/ Semicolon \/ MoveLeft \/ MoveRight \/ MoveCursor \/ EraseInDisplay \/ SquareOther

Spec == Init /\ [][Next]_vars

-----------------------------------------------------------------------------
Line(r) == [c \in 0 .. Cols - 1 |-> disp[r * Cols + c]]

(* The parameters so far: the last one may be the one that has no room. *)
Numbers ==
  IF state # "square" THEN <<>>
  ELSE [i \in 1 .. (IF idx < ParamMax THEN idx ELSE ParamMax) + 1 |->
          IF i <= ParamMax THEN param[i - 1] ELSE 0]

Terminal == INSTANCE TerminalSpec WITH
  lines <- [i \in 1 .. Rows |-> Line(i - 1)],
  cursor <- <<row, col>>,
  saved <- old,
  mode <- state,
  numbers <- Numbers

(* What the terminal does with the same character. *)
AsTerminal ==
  /\ \A ch \in Char : Show(ch) => Terminal!Show(ch)
  /\ EraseBackword => Terminal!Delete
  /\ Backspace => Terminal!Backspace
  /\ CarriageReturn => Terminal!CarriageReturn
  /\ LineFeed => Terminal!LineFeed
  /\ Escape => Terminal!Escape
  /\ SaveCursor => Terminal!Save
  /\ RestoreCursor => Terminal!Restore
  /\ EscOther => Terminal!Unknown
  /\ SquareBracket => Terminal!Bracket
  /\ \A d \in Digit : ParamDigit(d) => Terminal!AddDigit(d)
  /\ Semicolon => Terminal!NextNumber
  /\ MoveLeft => Terminal!Left
  /\ MoveRight => Terminal!Right
  /\ MoveCursor => Terminal!MoveTo
  /\ EraseInDisplay => Terminal!Clear
  /\ SquareOther => Terminal!OtherEnd

(* Each character does what a terminal does with that character: the rows, *)
(* columns and offsets of the code agree across line ends and scrolling; a *)
(* sequence moves the cursor exactly as far as its numbers say, or to the  *)
(* edge; a sequence that is cut short, unknown, or has too many numbers    *)
(* leaves nothing behind for the next one; and a cursor that has been sent *)
(* off the screen is still where the sequences say.                        *)
ImplementsTerminal == Terminal!TermSpec /\ [][AsTerminal]_vars

=============================================================================
