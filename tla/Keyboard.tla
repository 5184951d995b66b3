------------------------------ MODULE Keyboard ------------------------------
(***************************************************************************)
(* The keyboard driver (dev/kbd.c) and the keyboard in front of it.  A key *)
(* sends one or more bytes when it is pressed, held and released; each     *)
(* byte is one interrupt, and the driver keeps in recv_state where in a    *)
(* sequence it is and in kbd_state the keys that change what others mean.  *)
(*                                                                         *)
(* The keyboard speaks scan code set 1, for which the driver is written.   *)
(* It holds bytes back while interrupts are off, so a byte can come long   *)
(* after its key.  An interrupt that finds no byte changes nothing.        *)
(*                                                                         *)
(* A few keys of each kind stand for the rest of map_table.                *)
(***************************************************************************)
EXTENDS Integers, Sequences, Chars

CONSTANT Char   \* the characters that there are

KeyboardAssumption == {LF, NUL, "a", "A", "1", "!"} \subseteq Char

VARIABLES
  held,         \* keys that are down
  last,         \* the key pressed last, as a set: the one that repeats
  locked,       \* Caps Lock: every code of its key switches it
  wire,         \* bytes that the keyboard has still to deliver
  presses,      \* presses and repeats so far, for the bounds of models
  recvState,    \* recv_state
  kbdState,     \* kbd_state
  asked,        \* per press of a key with characters, those that it may give
  handed        \* the characters given to tty_in

user == <<held, last, locked, presses, asked>>
driver == <<recvState, kbdState, handed>>
kbdVars == <<user, wire, driver>>

-----------------------------------------------------------------------------
(* The keyboard: the codes of keys with one byte, and of those that send   *)
(* E0 in front.  Print Screen pretends that a shift key is held; Pause     *)
(* sends its release at once, and starts both with E1.                     *)
PlainCode ==
  [A |-> 30, One |-> 2, Enter |-> 28, LShift |-> 42, RShift |-> 54, Caps |-> 58,
   LCtrl |-> 29, LAlt |-> 56, F1 |-> 59, Star |-> 55, NumLock |-> 69]

ExtendedCode == [RCtrl |-> 29, RAlt |-> 56, Up |-> 72]

KEY_E0 == 224
KEY_E1 == 225
Released(code) == code + 128

PressBytes(k) ==
  IF k \in DOMAIN PlainCode THEN <<PlainCode[k]>>
  ELSE IF k \in DOMAIN ExtendedCode THEN <<KEY_E0, ExtendedCode[k]>>
  ELSE IF k = "PrintScreen" THEN <<KEY_E0, 42, KEY_E0, 55>>
  ELSE <<KEY_E1, 29, 69, KEY_E1, Released(29), Released(69)>>

ReleaseBytes(k) ==
  IF k \in DOMAIN PlainCode THEN <<Released(PlainCode[k])>>
  ELSE IF k \in DOMAIN ExtendedCode THEN <<KEY_E0, Released(ExtendedCode[k])>>
  ELSE IF k = "PrintScreen" THEN <<KEY_E0, Released(55), KEY_E0, Released(42)>>
  ELSE <<>>

Key == DOMAIN PlainCode \cup DOMAIN ExtendedCode \cup {"PrintScreen", "Pause"}

(* What the user expects of a key while the keys in down are held: nothing *)
(* of most; letters are capital if either shift or Caps Lock is in effect, *)
(* and other characters do not care for Caps Lock.  Num Lock and Pause     *)
(* are no characters, but the driver gives one for each: any.  Star of the *)
(* keypad gives NUL, not what its key says: map_table has the key without  *)
(* a character.                                                            *)
Expected(k, down, caps) ==
  LET shift == down \cap {"LShift", "RShift"} # {}
  IN  CASE k = "A"     -> {IF shift # caps THEN "A" ELSE "a"}
        [] k = "One"   -> {IF shift THEN "!" ELSE "1"}
        [] k = "Enter" -> {LF}
        [] k = "Star"  -> {NUL}
        [] k \in {"NumLock", "Pause"} -> Char
        [] OTHER -> {}

-----------------------------------------------------------------------------
NORMAL == "NORMAL"
BEGIN_E0 == "BEGIN_E0"
BBEGIN_E1 == "BBEGIN_E1"

IsMakeCode(raw) == raw < 128
GetKey(raw) == raw % 128

KEY_CAPS == 58
NormalModifier ==
  [key \in {54, 42, 56, 29} |->
     CASE key = 54 -> "rshift" [] key = 42 -> "lshift" [] key = 56 -> "lalt"
       [] key = 29 -> "lctrl"]
E0Modifier == [key \in {56, 29} |-> IF key = 56 THEN "ralt" ELSE "rctrl"]
FunctionKey == (59 .. 68) \cup {87, 88}

(* map_table has an entry up to the code of the space bar; those that are  *)
(* not named are 0.                                                        *)
LastMapped == 57
MapTable ==
  [code \in 0 .. LastMapped |->
     CASE code = 2  -> [normal |-> "1", func |-> "!"]
       [] code = 28 -> [normal |-> LF, func |-> LF]
       [] code = 30 -> [normal |-> "a", func |-> "A"]
       [] OTHER     -> [normal |-> NUL, func |-> NUL]]

SwapCase(c) == CASE c = "a" -> "A" [] c = "A" -> "a" [] OTHER -> c

(* A bug: Caps Lock only makes capitals. *)
CapsMakesCapitals(key) ==
  LET shift == kbdState.lshift \/ kbdState.rshift
      entry == MapTable[key]
      c == IF shift THEN entry.func ELSE entry.normal
  IN  IF key > LastMapped THEN Char
      ELSE {IF kbdState.capsLock /\ c = "a" THEN "A" ELSE c}

(* The character of a key; behind the end of map_table lies whatever the   *)
(* build has put there.                                                    *)
CharsOf(key) ==
  LET shift == kbdState.lshift \/ kbdState.rshift
      entry == MapTable[key]
      c == IF shift THEN entry.func ELSE entry.normal
  IN  IF key > LastMapped THEN Char
      ELSE {IF kbdState.capsLock THEN SwapCase(c) ELSE c}

ToggleCaps(make) == kbdState' = [kbdState EXCEPT !.capsLock = (@ # make)]

DoNormalKey(raw) ==
  LET key == GetKey(raw)
      make == IsMakeCode(raw)
  IN  IF key \in DOMAIN NormalModifier
      THEN kbdState' = [kbdState EXCEPT ![NormalModifier[key]] = make] /\ UNCHANGED handed
      ELSE IF key = KEY_CAPS THEN ToggleCaps(make) /\ UNCHANGED handed
      ELSE /\ IF make /\ key \notin FunctionKey
              THEN \E c \in CharsOf(key) : handed' = Append(handed, c)
              ELSE UNCHANGED handed
           /\ UNCHANGED kbdState

DoE0Key(raw) ==
  LET key == GetKey(raw)
  IN  /\ kbdState' = IF key \in DOMAIN E0Modifier
                     THEN [kbdState EXCEPT ![E0Modifier[key]] = IsMakeCode(raw)]
                     ELSE kbdState
      /\ UNCHANGED handed

(* A bug: E0 is taken for a prefix that does not matter. *)
IgnoresE0(raw) ==
  CASE raw = KEY_E0 -> UNCHANGED driver
    [] raw = KEY_E1 -> recvState' = BBEGIN_E1 /\ UNCHANGED <<kbdState, handed>>
    [] OTHER -> /\ recvState' = NORMAL
                /\ IF recvState = NORMAL THEN DoNormalKey(raw)
                   ELSE UNCHANGED <<kbdState, handed>>

(* do_handler_kbd: of the bytes behind E1 it skips one. *)
DoHandlerKbd(raw) ==
  CASE raw = KEY_E0 -> recvState' = BEGIN_E0 /\ UNCHANGED <<kbdState, handed>>
    [] raw = KEY_E1 -> recvState' = BBEGIN_E1 /\ UNCHANGED <<kbdState, handed>>
    [] OTHER -> /\ recvState' = NORMAL
                /\ CASE recvState = NORMAL    -> DoNormalKey(raw)
                     [] recvState = BEGIN_E0  -> DoE0Key(raw)
                     [] recvState = BBEGIN_E1 -> UNCHANGED <<kbdState, handed>>

Interrupt ==
  /\ wire # <<>>
  /\ wire' = Tail(wire)
  /\ DoHandlerKbd(Head(wire))
  /\ UNCHANGED user

-----------------------------------------------------------------------------
(* kbd_init clears kbd_state. *)
KbdInit ==
  /\ held = {} /\ last = {} /\ locked = FALSE
  /\ wire = <<>>
  /\ presses = 0
  /\ recvState = NORMAL
  /\ kbdState = [m \in {"capsLock", "lshift", "rshift", "lalt", "ralt", "lctrl",
                        "rctrl"} |-> FALSE]
  /\ asked = <<>> /\ handed = <<>>

(* A key goes down, or sends its code once more while it is held. *)
Make(k) ==
  /\ presses' = presses + 1
  /\ wire' = wire \o PressBytes(k)
  /\ locked' = (locked # (k = "Caps"))
  /\ asked' = LET chars == Expected(k, held, locked)
              IN  IF chars = {} THEN asked ELSE Append(asked, chars)

Press(k) ==
  /\ k \in Key \ held
  /\ Make(k)
  /\ held' = held \cup {k}
  /\ last' = {k}
  /\ UNCHANGED driver

Repeat(k) ==
  /\ k \in last \ {"Pause"}
  /\ Make(k)
  /\ UNCHANGED <<held, last, driver>>

Release(k) ==
  /\ k \in held
  /\ wire' = wire \o ReleaseBytes(k)
  /\ held' = held \ {k}
  /\ last' = last \ {k}
  /\ UNCHANGED <<locked, presses, asked, driver>>

UseKey(k) == Press(k) \/ Repeat(k) \/ Release(k)

-----------------------------------------------------------------------------
(* When the keyboard has nothing more to say, the driver is not inside a   *)
(* sequence, and knows of every key that is held what it needs: no code of *)
(* several bytes, not even the pretended shift of Print Screen, is taken   *)
(* for a modifier, and none stays pressed.                                 *)
ModifiersAsHeld ==
  wire = <<>> =>
    /\ recvState = NORMAL
    /\ kbdState = [capsLock |-> locked,
                   lshift |-> "LShift" \in held, rshift |-> "RShift" \in held,
                   lalt |-> "LAlt" \in held, ralt |-> "RAlt" \in held,
                   lctrl |-> "LCtrl" \in held, rctrl |-> "RCtrl" \in held]

(* Every key gives its character, once, in the order of the keys and with  *)
(* the modifiers that were in effect when it was pressed, however late     *)
(* its bytes come.                                                         *)
KeysGiveTheirChars ==
  /\ Len(handed) <= Len(asked)
  /\ \A i \in DOMAIN handed : handed[i] \in asked[i]
  /\ wire = <<>> => Len(handed) = Len(asked)

=============================================================================
