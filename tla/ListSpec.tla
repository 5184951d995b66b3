------------------------------ MODULE ListSpec ------------------------------
(* What the lists of tools/list.c promise: each is a sequence of nodes, and *)
(* a node is in at most one of them.                                       *)
EXTENDS KList

CONSTANTS Node, List

VARIABLE lists

Linked == UNION {Members(lists[l]) : l \in List}

Init == lists = [l \in List |-> <<>>]

InsertFirst(l, n) ==
  n \notin Linked /\ lists' = [lists EXCEPT ![l] = ListInsertFirst(@, n)]

InsertLast(l, n) ==
  n \notin Linked /\ lists' = [lists EXCEPT ![l] = ListInsertLast(@, n)]

RemoveFirst(l) ==
  lists[l] # <<>> /\ lists' = [lists EXCEPT ![l] = ListRemoveFirst(@)]

Remove(l, n) ==
  n \in Members(lists[l]) /\ lists' = [lists EXCEPT ![l] = ListRemove(@, n)]

Next ==
  \E l \in List :
    \/ RemoveFirst(l)
    \/ \E n \in Node : InsertFirst(l, n) \/ InsertLast(l, n) \/ Remove(l, n)

Spec == Init /\ [][Next]_lists

=============================================================================
