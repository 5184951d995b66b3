------------------------------ MODULE MCFiles ------------------------------
(* Two tasks, tables small enough that each of them fills up first in some  *)
(* execution, and a number that no terminal has.                           *)
EXTENDS Files, TLC

TaskSymmetry == Permutations(Task)

=============================================================================
