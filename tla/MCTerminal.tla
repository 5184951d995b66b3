----------------------------- MODULE MCTerminal -----------------------------
(* Two tasks at one terminal; the first is the one that may read. *)
EXTENDS Terminal

CONSTANTS w1, w2

Characters == {"a", "A", "1", "!", LF, NUL}
NoCalls == w1 :> <<>> @@ w2 :> <<>>

(* Two lines of log_printf: a text, then a line feed. *)
LogLines ==
  [calls |-> w1 :> <<<<"a", LF, "a">>, <<LF>>>> @@ w2 :> <<<<"1">>, <<LF>>>>,
   logs |-> {w1, w2}, reads |-> FALSE, keys |-> {}, presses |-> 0, pending |-> 0]

(* Two calls of sys_write, one with a line feed. *)
TwoWriters ==
  [calls |-> w1 :> <<<<"a">>>> @@ w2 :> <<<<LF>>>>,
   logs |-> {}, reads |-> FALSE, keys |-> {}, presses |-> 0, pending |-> 0]

(* The shell reads lines and the echo shows them: three keys fill the      *)
(* buffer of two, four of them go round it twice.                          *)
Shell ==
  [calls |-> NoCalls, logs |-> {}, reads |-> TRUE,
   keys |-> {"A", "Enter"}, presses |-> 3, pending |-> 1]

ManyLines == [Shell EXCEPT !.keys = {"Enter"}, !.presses = 4]

(* Nobody reads: two keys of any kind, or three with those that interfere. *)
AnyKeys ==
  [calls |-> NoCalls, logs |-> {}, reads |-> FALSE,
   keys |-> {"A", "One", "Enter", "LShift", "RShift", "Caps", "LCtrl", "RCtrl", "LAlt",
             "RAlt", "F1", "Up", "Star", "NumLock", "PrintScreen", "Pause"},
   presses |-> 2, pending |-> 8]

SomeKeys ==
  [AnyKeys EXCEPT !.keys = {"A", "LShift", "Caps", "RCtrl", "PrintScreen", "Pause"},
                  !.presses = 3]

Scenes == {LogLines, TwoWriters, Shell, ManyLines, AnyKeys, SomeKeys}
ShellOnly == {Shell}

=============================================================================
