-------------------------------- MODULE Klib --------------------------------
(***************************************************************************)
(* Two uses of the strings of tools/klib.c: kernel_vsprintf, which makes   *)
(* the lines of the log, and the name that sys_execve and task_init give   *)
(* to a task with get_file_name and kernel_strncpy.                        *)
(*                                                                         *)
(* A format can be anything: sys_print_msg takes it from the program.      *)
(* log_printf clears its buffer, so the end of the text is the end of the  *)
(* string; the size of the buffer is not modelled.  A string is a sequence *)
(* of characters without the zero byte behind it.                          *)
(***************************************************************************)
EXTENDS Integers, FiniteSetsExt, SequencesExt, Chars

CONSTANTS
  Letter,       \* characters of formats and of arguments
  Number,       \* arguments of %d and %x
  MaxFormat,    \* bound of the model: characters of a format
  Path,         \* paths of programs
  NameSize      \* TASK_NAME_SIZE

ASSUME KlibAssumption ==
  /\ NameSize \in Nat \ {0, 1} /\ Number \subseteq Int
  /\ \A s \in Path : s \in Seq(ToSet(s)) /\ NUL \notin ToSet(s)

VARIABLES
  state,        \* the state of kernel_vsprintf: NORMAL or READ_FMT
  read,         \* how many characters of the format it has read
  buf,          \* the text that it has made
  shown,        \* per argument: conversion, value, and where its text is
  path,         \* a path that a program was loaded from
  name          \* task_t.name, and the byte behind it

formatVars == <<state, read, buf, shown>>
nameVars == <<path, name>>

KlibInit ==
  /\ state = "NORMAL" /\ read = 0 /\ buf = <<>> /\ shown = <<>>
  /\ path = <<>> /\ name = [i \in 0 .. NameSize |-> NUL]

-----------------------------------------------------------------------------
Digits == <<"0", "1", "2", "3", "4", "5", "6", "7", "8", "9", "A", "B", "C", "D", "E", "F">>

(* The digits of a number, the last one first. *)
LastFirst(n, base) ==
  LET d[k \in 0 .. n] ==
        <<Digits[(k % base) + 1]>> \o (IF k < base THEN <<>> ELSE d[k \div base])
  IN  d[n]

(* A bug: the sign is turned around with the digits. *)
ItoaTurnsSign(num, base) ==
  Reverse((IF num < 0 /\ base = 10 THEN <<"-">> ELSE <<>>)
            \o LastFirst(IF num < 0 THEN -num ELSE num, base))

(* kernel_itoa: the remainders of a negative number are its digits, too.   *)
(* All but the first character are turned around unless num is positive:   *)
(* the sign of %d stays, and so does the last digit of a negative %x.      *)
KernelItoa(num, base) ==
  LET p == (IF num < 0 /\ base = 10 THEN <<"-">> ELSE <<>>)
             \o LastFirst(IF num < 0 THEN -num ELSE num, base)
  IN  IF num > 0 THEN Reverse(p) ELSE <<Head(p)>> \o Reverse(Tail(p))

(* One character of the format. *)
Plain(c) ==
  /\ state = "NORMAL"
  /\ IF c = "%" THEN state' = "READ_FMT" /\ UNCHANGED buf
     ELSE buf' = Append(buf, c) /\ UNCHANGED state
  /\ UNCHANGED shown

Put(c, arg, text) ==
  /\ buf' = buf \o text
  /\ shown' = Append(shown, [conv |-> c, arg |-> arg, from |-> Len(buf) + 1, to |-> Len(buf')])

Convert(c) ==
  /\ state = "READ_FMT"
  /\ CASE c = "d" -> \E n \in Number : Put(c, n, KernelItoa(n, 10))
       [] c = "x" -> \E n \in Number : Put(c, n, KernelItoa(n, 16))
       [] c = "c" -> \E l \in Letter : Put(c, l, <<l>>)
       [] c = "s" -> \E s \in SeqOf(Letter, 2) : Put(c, s, s)
       [] OTHER -> UNCHANGED <<buf, shown>>
  /\ state' = "NORMAL"

KernelVsprintf ==
  /\ read < MaxFormat
  /\ read' = read + 1
  /\ \E c \in Letter \cup {"%", "d", "x", "c", "s"} : Plain(c) \/ Convert(c)
  /\ UNCHANGED nameVars

-----------------------------------------------------------------------------
Separators == {"/", "\\"}

(* get_file_name goes backwards from the end to a separator, or to the     *)
(* byte before the string.                                                 *)
GetFileName(s) ==
  LET back == Max({0} \cup {i \in DOMAIN s : s[i] \in Separators})
  IN  SubSeq(s, back + 1, Len(s))

(* A bug: a string that fits is not ended. *)
CopyNoEnd(dest, src, size) ==
  [i \in DOMAIN dest |->
     IF i < size /\ i < Len(src) THEN src[i + 1]
     ELSE IF i = size - 1 /\ Len(src) = size - 1 THEN NUL ELSE dest[i]]

(* kernel_strncpy: size has been counted down once more than characters    *)
(* were copied, so that it is 0 for a string that fits exactly: this one   *)
(* loses its last character, and a longer one ends behind the field.       *)
KernelStrncpy(dest, src, size) ==
  LET n == Min({Len(src), size})
      end == IF Len(src) = size - 1 THEN n - 1 ELSE n
  IN  [i \in DOMAIN dest |-> IF i = end THEN NUL ELSE IF i < n THEN src[i + 1] ELSE dest[i]]

(* The program of a path becomes the task's. *)
NameTask ==
  /\ \E s \in Path :
       path' = s /\ name' = KernelStrncpy(name, GetFileName(s), NameSize)
  /\ UNCHANGED formatVars

-----------------------------------------------------------------------------
(* What a reader of a text makes of it. *)
DigitOf(c) == Max({0} \cup {k \in DOMAIN Digits : Digits[k] = c}) - 1

Value(digits, base) ==
  LET v[i \in 0 .. Len(digits)] ==
        IF i = 0 THEN 0 ELSE v[i - 1] * base + DigitOf(digits[i])
  IN  v[Len(digits)]

(* A line of the log tells its arguments: however many follow each other,  *)
(* the text of each is still in the buffer, and gives the number back if   *)
(* it is read, of any sign for %d, of those that are not negative for %x.  *)
TextsTellArguments ==
  \A i \in DOMAIN shown :
    LET a == shown[i]
        text == SubSeq(buf, a.from, a.to)
    IN  /\ a.conv = "s" => text = a.arg
        /\ a.conv = "c" => text = <<a.arg>>
        /\ a.conv = "x" /\ a.arg >= 0 => Value(text, 16) = a.arg
        /\ a.conv = "d" => a.arg = IF Head(text) = "-" THEN -Value(Tail(text), 10)
                                   ELSE Value(text, 10)

(* A task is called after its program, by what stands behind the last      *)
(* separator: a name that leaves room is complete, a longer one is cut     *)
(* short, and nothing of an earlier name is left in it.                    *)
NamedAfterProgram ==
  LET end == Min({i \in DOMAIN name : name[i] = NUL})
      called == [i \in 1 .. end |-> name[i - 1]]
  IN  path # <<>> =>
        \E p \in 0 .. Len(path) :
          LET file == SubSeq(path, p + 1, Len(path))
          IN  /\ p = 0 \/ path[p] \in Separators
              /\ ToSet(file) \cap Separators = {}
              /\ IsPrefix(called, file)
              /\ Len(file) < NameSize - 1 => called = file
              /\ Len(called) >= NameSize - 2 \/ called = file

=============================================================================
