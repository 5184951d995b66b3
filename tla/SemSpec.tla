------------------------------ MODULE SemSpec ------------------------------
(* What a counting semaphore promises, after Dijkstra: its value is the    *)
(* start value plus the notifications less the waits that have begun, and  *)
(* a negative value counts the tasks that are blocked.                     *)
EXTENDS Integers, FiniteSets

CONSTANTS Task, Start

VARIABLES value, blocked

semSpecVars == <<value, blocked>>

Init == value = Start /\ blocked = {}

P(t) ==
  /\ t \notin blocked
  /\ value' = value - 1
  /\ blocked' = IF value > 0 THEN blocked ELSE blocked \cup {t}

V ==
  /\ value' = value + 1
  /\ IF value < 0 THEN \E t \in blocked : blocked' = blocked \ {t}
                  ELSE UNCHANGED blocked

Next == V \/ \E t \in Task : P(t)

Spec == Init /\ [][Next]_semSpecVars

=============================================================================
