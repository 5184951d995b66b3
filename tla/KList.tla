------------------------------- MODULE KList -------------------------------
(***************************************************************************)
(* The kernel's intrusive lists (tools/list.c) seen as sequences of their  *)
(* members, first node first.  The pointers behind them are module         *)
(* LinkedList, which shows that the C code implements these operators on   *)
(* every list whose nodes are distinct.                                    *)
(*                                                                         *)
(* ListKeep is a SelectSeq written without recursion, so that TLAPS can    *)
(* reason about it: KListProofs proves its properties for every list.      *)
(***************************************************************************)
EXTENDS Integers, Sequences, FiniteSets

(* The members of a list. *)
Members(l) == {l[i] : i \in DOMAIN l}

(* No node is linked twice. *)
Distinct(l) == \A i, j \in DOMAIN l : l[i] = l[j] => i = j

(* The nodes of l that are in K, in the order of l. *)
ListKeep(l, K) ==
  LET kept    == {i \in DOMAIN l : l[i] \in K}
      rank(i) == Cardinality({j \in kept : j <= i})
  IN  [k \in 1 .. Cardinality(kept) |-> l[CHOOSE i \in kept : rank(i) = k]]

(* A bug: list_insert_last links at the wrong end. *)
ListInsertWrongEnd(l, n) == <<n>> \o l

ListInsertLast(l, n) == Append(l, n)

ListInsertFirst(l, n) == <<n>> \o l

ListRemoveFirst(l) == Tail(l)

(* list_remove unlinks a member; the C code does not look whether n is one. *)
ListRemove(l, n) == ListKeep(l, Members(l) \ {n})

=============================================================================
