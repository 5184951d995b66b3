----------------------------- MODULE LinkedList -----------------------------
(***************************************************************************)
(* tools/list.c with its pointers: doubly linked lists whose nodes live in *)
(* the objects they link.  The nodes are shared between several lists, as  *)
(* run_node is between the ready list and the sleep list.  The callers     *)
(* link a node only while it is in no list and unlink it only from the     *)
(* list it is in: Sched shows that the scheduler keeps to that.            *)
(***************************************************************************)
EXTENDS KList

CONSTANTS
  Node,     \* list_node_t objects
  List,     \* list_t objects
  Null      \* the null pointer

ASSUME NodeAssumption == Null \notin Node /\ IsFiniteSet(Node)

VARIABLES
  first, last, count,   \* fields of a list_t
  pre, next             \* fields of a list_node_t

vars == <<first, last, count, pre, next>>

Pointer == Node \cup {Null}

(* A store through the pointer p, skipped in the code when p is null. *)
Store(field, p, v) == IF p = Null THEN field ELSE [field EXCEPT ![p] = v]

(* The nodes reached from first in count steps. *)
Forward(l) ==
  LET n[i \in 1 .. count[l]] == IF i = 1 THEN first[l] ELSE next[n[i - 1]]
  IN  n

(* The nodes reached from last in count steps. *)
Backward(l) ==
  LET n[i \in 1 .. count[l]] == IF i = 1 THEN last[l] ELSE pre[n[i - 1]]
  IN  n

IsLinked(n) == \E l \in List : n \in Members(Forward(l))

-----------------------------------------------------------------------------
(* list_init of each list, and list_node_init of each node. *)
Init ==
  /\ first = [l \in List |-> Null]
  /\ last = [l \in List |-> Null]
  /\ count = [l \in List |-> 0]
  /\ pre = [n \in Node |-> Null]
  /\ next = [n \in Node |-> Null]

ListIsEmpty(l) == count[l] = 0

ListInsertFirstNode(l, n) ==
  /\ ~ IsLinked(n)
  /\ next' = [next EXCEPT ![n] = first[l]]
  /\ pre' = Store([pre EXCEPT ![n] = Null], first[l], n)
  /\ first' = [first EXCEPT ![l] = n]
  /\ last' = IF ListIsEmpty(l) THEN [last EXCEPT ![l] = n] ELSE last
  /\ count' = [count EXCEPT ![l] = @ + 1]

ListInsertLastNode(l, n) ==
  /\ ~ IsLinked(n)
  /\ next' = Store([next EXCEPT ![n] = Null], last[l], n)
  /\ pre' = [pre EXCEPT ![n] = last[l]]
  /\ first' = IF ListIsEmpty(l) THEN [first EXCEPT ![l] = n] ELSE first
  /\ last' = [last EXCEPT ![l] = n]
  /\ count' = [count EXCEPT ![l] = @ + 1]

(* On an empty list the call returns null and changes nothing. *)
ListRemoveFirstNode(l) ==
  LET n == first[l]
  IN  /\ ~ ListIsEmpty(l)
      /\ first' = [first EXCEPT ![l] = next[n]]
      /\ last' = IF next[n] = Null THEN [last EXCEPT ![l] = Null] ELSE last
      /\ pre' = [Store(pre, next[n], Null) EXCEPT ![n] = Null]
      /\ next' = [next EXCEPT ![n] = Null]
      /\ count' = [count EXCEPT ![l] = @ - 1]

(* Two bugs of list_remove: last is forgotten, or the node before. *)
ListRemoveForgetsLast(l, n) ==
  /\ n \in Members(Forward(l))
  /\ first' = IF n = first[l] THEN [first EXCEPT ![l] = next[n]] ELSE first
  /\ next' = [Store(next, pre[n], next[n]) EXCEPT ![n] = Null]
  /\ pre' = [Store(pre, next[n], pre[n]) EXCEPT ![n] = Null]
  /\ count' = [count EXCEPT ![l] = @ - 1]
  /\ UNCHANGED last

ListRemoveForgetsPre(l, n) ==
  /\ n \in Members(Forward(l))
  /\ first' = IF n = first[l] THEN [first EXCEPT ![l] = next[n]] ELSE first
  /\ last' = IF n = last[l] THEN [last EXCEPT ![l] = pre[n]] ELSE last
  /\ next' = [next EXCEPT ![n] = Null]
  /\ pre' = [Store(pre, next[n], pre[n]) EXCEPT ![n] = Null]
  /\ count' = [count EXCEPT ![l] = @ - 1]

ListRemoveNode(l, n) ==
  /\ n \in Members(Forward(l))
  /\ first' = IF n = first[l] THEN [first EXCEPT ![l] = next[n]] ELSE first
  /\ last' = IF n = last[l] THEN [last EXCEPT ![l] = pre[n]] ELSE last
  /\ next' = [Store(next, pre[n], next[n]) EXCEPT ![n] = Null]
  /\ pre' = [Store(pre, next[n], pre[n]) EXCEPT ![n] = Null]
  /\ count' = [count EXCEPT ![l] = @ - 1]

Next ==
  \E l \in List :
    \/ ListRemoveFirstNode(l)
    \/ \E n \in Node :
         ListInsertFirstNode(l, n) \/ ListInsertLastNode(l, n) \/ ListRemoveNode(l, n)

Spec == Init /\ [][Next]_vars

-----------------------------------------------------------------------------
TypeOK ==
  /\ first \in [List -> Pointer] /\ last \in [List -> Pointer]
  /\ count \in [List -> 0 .. Cardinality(Node)]
  /\ pre \in [Node -> Pointer] /\ next \in [Node -> Pointer]

(* Both directions of a list agree, its ends are marked by null pointers,  *)
(* and an unlinked node points nowhere: the chain from last along pre is   *)
(* the chain from first along next, read backwards.                        *)
WellLinked ==
  /\ TypeOK
  /\ \A l \in List :
       LET f == Forward(l)
           b == Backward(l)
           c == count[l]
       IN  IF c = 0 THEN first[l] = Null /\ last[l] = Null
           ELSE /\ \A i \in 1 .. c : f[i] = b[c + 1 - i]
                /\ pre[first[l]] = Null /\ next[last[l]] = Null
  /\ \A n \in Node : IsLinked(n) \/ (pre[n] = Null /\ next[n] = Null)

(* The pointers implement the sequences of ListSpec. *)
Abstract == INSTANCE ListSpec WITH lists <- [l \in List |-> Forward(l)]

ImplementsSequences == Abstract!Spec

=============================================================================
