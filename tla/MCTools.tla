------------------------------ MODULE MCTools ------------------------------
(* Four nodes shared by two lists, such as the ready and the sleep list;   *)
(* formats with up to two arguments, and names of up to two more           *)
(* characters than there is room for.                                      *)
EXTENDS Tools

CONSTANTS n1, n2, n3, n4, readyList, sleepingList

Numbers == {-123456, -31, -10, -1, 0, 1, 9, 10, 15, 16, 127, 4095, 74565}

Paths ==
  {dir \o [i \in 1 .. n |-> c] :
     dir \in {<<>>, <<"/">>, <<"a", "/">>, <<"/", "a", "\\">>}, n \in 0 .. 6, c \in {"a", "b"}}

=============================================================================
