-------------------------- MODULE ToolsProofs --------------------------
(***************************************************************************)
(* The pointers of tools/list.c implement the sequences of ListSpec, for   *)
(* any number of lists and of nodes that they share; the names of tasks    *)
(* are those of their programs, and the texts of a line of the log tell    *)
(* its arguments.                                                          *)
(***************************************************************************)
EXTENDS Tools, KListProofs

USE NodeAssumption

(* The node at i, or the null pointer beyond the ends. *)
At(s, i) == IF i \in 1 .. Len(s) THEN s[i] ELSE Null

(* The fields of list l, and of the nodes in it, are those of s. *)
Chain(l, s) ==
  /\ s \in Seq(Node) /\ Distinct(s)
  /\ count[l] = Len(s)
  /\ first[l] = At(s, 1) /\ last[l] = At(s, Len(s))
  /\ \A i \in 1 .. Len(s) : next[s[i]] = At(s, i + 1) /\ pre[s[i]] = At(s, i - 1)

Fields ==
  /\ first \in [List -> Pointer] /\ last \in [List -> Pointer] /\ count \in [List -> Nat]
  /\ pre \in [Node -> Pointer] /\ next \in [Node -> Pointer]

(* The fields are those of the lists L: this is the inductive invariant,   *)
(* for some L.                                                             *)
Shape(L) ==
  /\ Fields
  /\ L \in [List -> Seq(Node)]
  /\ \A l \in List : Chain(l, L[l])
  /\ \A k, l \in List : k # l => Members(L[k]) \cap Members(L[l]) = {}
  /\ \A n \in Node : (\A l \in List : n \notin Members(L[l])) => pre[n] = Null /\ next[n] = Null

-----------------------------------------------------------------------------
(* Following the pointers. *)
(* Following f from a for c steps gives one sequence. *)
Follows(n, c, a, f) == n = [i \in 1 .. c |-> IF i = 1 THEN a ELSE f[n[i - 1]]]

LEMMA OneWay ==
  ASSUME NEW c \in Nat, NEW a, NEW f, NEW s, NEW t, Follows(s, c, a, f), Follows(t, c, a, f)
  PROVE  s = t
<1> USE DEF Follows
<1> DEFINE D == {i \in 1 .. c : s[i] # t[i]}
<1>1. D = {}
  <2> SUFFICES ASSUME D # {} PROVE FALSE OBVIOUS
  <2>1. D \subseteq Nat OBVIOUS
  <2>2. PICK m \in D : \A k \in D : ~ (k < m)
    <3> HIDE DEF D
    <3> QED BY <2>1, LeastNumber
  <2>3. m \in 1 .. c /\ s[m] # t[m] OBVIOUS
  <2>4. s[m] = IF m = 1 THEN a ELSE f[s[m - 1]] BY <2>3
  <2>5. t[m] = IF m = 1 THEN a ELSE f[t[m - 1]] BY <2>3
  <2>6. m # 1 BY <2>3, <2>4, <2>5
  <2>7. m - 1 \in 1 .. c /\ m - 1 < m BY <2>3, <2>6
  <2>8. s[m - 1] = t[m - 1] BY <2>2, <2>7
  <2> QED BY <2>3, <2>4, <2>5, <2>6, <2>8
<1>2. \A i \in 1 .. c : s[i] = t[i] BY <1>1
<1>3. DOMAIN s = 1 .. c /\ DOMAIN t = 1 .. c BY Zenon
<1>4. s = [i \in 1 .. c |-> s[i]] /\ t = [i \in 1 .. c |-> t[i]] BY Zenon
<1> QED BY <1>2, <1>4

(* The chain from first along next is the list, and the chain from last    *)
(* along pre is the list backwards.                                        *)
LEMMA ForwardIsChain ==
  ASSUME NEW l \in List, NEW s, Chain(l, s)
  PROVE  Forward(l) = s
<1> DEFINE c == Len(s)
           Ahead(n) == Follows(n, c, first[l], next)
<1>1. c \in Nat /\ s = [i \in 1 .. c |-> s[i]] BY DEF Chain
<1>2. Ahead(s)
  <2>1. ASSUME NEW i \in 1 .. c PROVE s[i] = IF i = 1 THEN first[l] ELSE next[s[i - 1]]
    <3>1. CASE i = 1 BY <3>1 DEF Chain, At
    <3>2. CASE i # 1
      <4>1. PICK j \in 1 .. c : j = i - 1 BY <1>1, <3>2
      <4>2. next[s[j]] = At(s, j + 1) BY <4>1 DEF Chain
      <4>3. j + 1 = i BY <4>1
      <4> QED BY <3>2, <4>1, <4>2, <4>3 DEF At
    <3> QED BY <3>1, <3>2
  <2> QED BY <1>1, <2>1 DEF Follows
<1>3. Forward(l) = CHOOSE n : Ahead(n) BY DEF Forward, Chain, Follows
<1>4. Ahead(Forward(l)) BY <1>2, <1>3
<1>5. PICK t : t = Forward(l) OBVIOUS
<1>6. s = t BY <1>1, <1>2, <1>4, <1>5, OneWay
<1> QED BY <1>5, <1>6

LEMMA BackwardIsChain ==
  ASSUME NEW l \in List, NEW s, Chain(l, s)
  PROVE  Backward(l) = [i \in 1 .. Len(s) |-> s[Len(s) + 1 - i]]
<1> DEFINE c == Len(s)
           r == [i \in 1 .. c |-> s[c + 1 - i]]
           Back(n) == Follows(n, c, last[l], pre)
<1>1. c \in Nat BY DEF Chain
<1>2. Back(r)
  <2>1. ASSUME NEW i \in 1 .. c PROVE r[i] = IF i = 1 THEN last[l] ELSE pre[r[i - 1]]
    <3>1. CASE i = 1 BY <1>1, <3>1 DEF Chain, At
    <3>2. CASE i # 1
      <4>1. PICK j \in 1 .. c : j = c + 2 - i BY <1>1, <3>2
      <4>2. pre[s[j]] = At(s, j - 1) BY <4>1 DEF Chain
      <4>3. j - 1 \in 1 .. c /\ j - 1 = c + 1 - i /\ j = c + 1 - (i - 1) /\ i - 1 \in 1 .. c
        BY <1>1, <3>2, <4>1
      <4> QED BY <3>2, <4>2, <4>3 DEF At
    <3> QED BY <3>1, <3>2
  <2> QED BY <2>1 DEF Follows
<1>3. Backward(l) = CHOOSE n : Back(n) BY DEF Backward, Chain, Follows
<1>4. Back(Backward(l)) BY <1>2, <1>3
<1>5. PICK t, u : t = Backward(l) /\ u = r OBVIOUS
<1>6. u = t
  <2>1. Back(u) /\ Back(t) BY <1>2, <1>4, <1>5
  <2> HIDE DEF r
  <2> QED BY <1>1, <2>1, OneWay
<1> QED BY <1>5, <1>6

-----------------------------------------------------------------------------
(* The sequences that the operations make. *)
Without(s, p) == [i \in 1 .. Len(s) - 1 |-> IF i < p THEN s[i] ELSE s[i + 1]]

LEMMA FunctionIsSequence ==
  ASSUME NEW S, NEW n \in Nat, NEW f \in [1 .. n -> S]
  PROVE  f \in Seq(S) /\ Len(f) = n /\ DOMAIN f = 1 .. n
OBVIOUS

LEMMA WithoutProperties ==
  ASSUME NEW s \in Seq(Node), NEW p \in 1 .. Len(s), Distinct(s)
  PROVE  /\ Without(s, p) \in Seq(Node) /\ Len(Without(s, p)) = Len(s) - 1
         /\ Distinct(Without(s, p))
         /\ Members(Without(s, p)) = Members(s) \ {s[p]}
         /\ \A i \in 0 .. Len(s) :
              At(Without(s, p), i) = IF i < p THEN At(s, i) ELSE At(s, i + 1)
<1> DEFINE w == Without(s, p)
           c == Len(s)
<1>0. c \in Nat \ {0} /\ s \in [1 .. c -> Node] OBVIOUS
<1>1. w \in [1 .. c - 1 -> Node]
  <2>1. \A i \in 1 .. c - 1 : i \in 1 .. c /\ i + 1 \in 1 .. c BY <1>0
  <2>2. \A i \in 1 .. c - 1 : s[i] \in Node /\ s[i + 1] \in Node BY <1>0, <2>1
  <2>3. w = [i \in 1 .. c - 1 |-> IF i < p THEN s[i] ELSE s[i + 1]] BY DEF Without
  <2> QED BY <2>2, <2>3
<1>2. w \in Seq(Node) /\ Len(w) = c - 1 /\ DOMAIN w = 1 .. c - 1
  <2>0. PICK m \in Nat : m = c - 1
    <3>1. c \in Nat \ {0} OBVIOUS
    <3> QED BY <3>1
  <2>1. PICK v : v = w OBVIOUS
  <2>2. v \in [1 .. m -> Node] BY <1>1, <2>0, <2>1
  <2>3. v \in Seq(Node) /\ Len(v) = m /\ DOMAIN v = 1 .. m BY <2>2, FunctionIsSequence
  <2> QED BY <2>0, <2>1, <2>3
<1>3. \A i \in 1 .. c - 1 : w[i] = IF i < p THEN s[i] ELSE s[i + 1] BY DEF Without
<1>4. Distinct(w)
  <2> SUFFICES ASSUME NEW i \in 1 .. c - 1, NEW j \in 1 .. c - 1, w[i] = w[j] PROVE i = j
    BY <1>2 DEF Distinct
  <2>1. PICK a \in 1 .. c : a = IF i < p THEN i ELSE i + 1 BY <1>0
  <2>2. PICK b \in 1 .. c : b = IF j < p THEN j ELSE j + 1 BY <1>0
  <2>3. s[a] = s[b] BY <1>3, <2>1, <2>2
  <2>4. a = b BY <1>0, <2>3 DEF Distinct
  <2> QED BY <2>1, <2>2, <2>4
<1>5. Members(w) = Members(s) \ {s[p]}
  <2>1. ASSUME NEW i \in 1 .. c - 1 PROVE w[i] \in Members(s) \ {s[p]}
    <3>1. PICK a \in 1 .. c : a = (IF i < p THEN i ELSE i + 1) /\ a # p BY <1>0
    <3>2. w[i] = s[a] BY <1>3, <3>1
    <3>3. s[a] # s[p] BY <1>0, <3>1 DEF Distinct
    <3> QED BY <1>0, <3>2, <3>3 DEF Members
  <2>2. ASSUME NEW a \in 1 .. c, s[a] # s[p] PROVE s[a] \in Members(w)
    <3>1. a # p BY <2>2
    <3>2. PICK i \in 1 .. c - 1 : i = IF a < p THEN a ELSE a - 1 BY <1>0, <3>1
    <3>3. w[i] = s[a] BY <1>0, <1>3, <3>1, <3>2
    <3> QED BY <1>2, <3>3 DEF Members
  <2> QED BY <1>0, <1>2, <2>1, <2>2 DEF Members
<1>6. ASSUME NEW i \in 0 .. c PROVE At(w, i) = IF i < p THEN At(s, i) ELSE At(s, i + 1)
  <2>1. At(w, i) = IF i \in 1 .. c - 1 THEN w[i] ELSE Null BY <1>2 DEF At
  <2>2. CASE i \in 1 .. c - 1
    BY <1>0, <1>3, <2>1, <2>2 DEF At
  <2>3. CASE i \notin 1 .. c - 1
    BY <1>0, <2>1, <2>3 DEF At
  <2> QED BY <2>2, <2>3
<1> QED BY <1>2, <1>4, <1>5, <1>6

(* list_remove_first and list_remove on sequences. *)
LEMMA TailIsWithout ==
  ASSUME NEW s \in Seq(Node), s # <<>>
  PROVE  ListRemoveFirst(s) = Without(s, 1)
<1>1. Tail(s) = [i \in 1 .. Len(s) - 1 |-> s[i + 1]]
  <2>1. Tail(s) \in Seq(Node) /\ Len(Tail(s)) = Len(s) - 1 OBVIOUS
  <2>2. ASSUME NEW i \in 1 .. Len(s) - 1 PROVE Tail(s)[i] = s[i + 1] OBVIOUS
  <2>3. PICK t \in Seq(Node) : t = Tail(s) BY <2>1
  <2>4. t = [i \in 1 .. Len(t) |-> t[i]] OBVIOUS
  <2> QED BY <2>1, <2>2, <2>3, <2>4
<1>2. \A i \in 1 .. Len(s) - 1 : ~ (i < 1) OBVIOUS
<1> QED BY <1>1, <1>2 DEF ListRemoveFirst, Without

LEMMA RemoveIsWithout ==
  ASSUME NEW s \in Seq(Node), NEW p \in 1 .. Len(s), Distinct(s)
  PROVE  ListRemove(s, s[p]) = Without(s, p)
<1> DEFINE c == Len(s)
           K == Members(s) \ {s[p]}
           kept == {i \in DOMAIN s : s[i] \in K}
<1>0. c \in Nat \ {0} /\ DOMAIN s = 1 .. c OBVIOUS
<1>1. kept = (1 .. c) \ {p} BY <1>0 DEF Members, Distinct
<1>2. IsFiniteSet(1 .. c) /\ Cardinality(1 .. c) = c BY <1>0, FS_Interval
<1>3. Cardinality(kept) = c - 1
  <2>1. Cardinality((1 .. c) \ {p}) = c - 1 BY <1>2, FS_RemoveElement
  <2> QED BY <1>1, <2>1
<1>4. ASSUME NEW i \in kept PROVE Rank(kept, i) = IF i < p THEN i ELSE i - 1
  <2>0. i \in 1 .. c /\ i # p /\ p \in Int BY <1>1
  <2>1. IsFiniteSet(1 .. i) /\ Cardinality(1 .. i) = i BY <2>0, FS_Interval
  <2>2. CASE i < p
    <3>1. {j \in kept : j <= i} = 1 .. i BY <1>0, <1>1, <2>0, <2>2
    <3> QED BY <2>1, <2>2, <3>1 DEF Rank
  <2>3. CASE ~ (i < p)
    <3>1. {j \in kept : j <= i} = (1 .. i) \ {p} BY <1>0, <1>1, <2>0
    <3>2. p \in 1 .. i BY <2>0, <2>3
    <3>3. Cardinality((1 .. i) \ {p}) = i - 1 BY <2>1, <3>2, FS_RemoveElement
    <3> QED BY <2>3, <3>1, <3>3 DEF Rank
  <2> QED BY <2>2, <2>3
<1>5. ASSUME NEW k \in 1 .. c - 1
      PROVE  s[CHOOSE i \in kept : Rank(kept, i) = k] = IF k < p THEN s[k] ELSE s[k + 1]
  <2>1. PICK a \in 1 .. c : a = (IF k < p THEN k ELSE k + 1) /\ a # p BY <1>0
  <2>2. a \in kept /\ Rank(kept, a) = k BY <1>0, <1>1, <1>4, <2>1
  <2>3. ASSUME NEW i \in kept, Rank(kept, i) = k PROVE i = a
    <3>1. i \in 1 .. c /\ i # p BY <1>1
    <3>2. k = IF i < p THEN i ELSE i - 1 BY <1>4, <2>3
    <3> QED BY <1>0, <2>1, <3>1, <3>2
  <2>4. (CHOOSE i \in kept : Rank(kept, i) = k) = a
    <3> HIDE DEF kept
    <3> QED BY <2>2, <2>3
  <2>5. s[CHOOSE i \in kept : Rank(kept, i) = k] = s[a] BY <2>4, Zenon
  <2>6. s[a] = IF k < p THEN s[k] ELSE s[k + 1] BY <2>1
  <2> QED BY <2>5, <2>6, Zenon
<1>6. ListKeep(s, K) = [k \in 1 .. c - 1 |-> s[CHOOSE i \in kept : Rank(kept, i) = k]]
  BY <1>3 DEF ListKeep, Rank
<1> QED BY <1>5, <1>6 DEF ListRemove, Without

LEMMA FirstProperties ==
  ASSUME NEW s \in Seq(Node), NEW n \in Node, Distinct(s), n \notin Members(s)
  PROVE  /\ ListInsertFirst(s, n) \in Seq(Node) /\ Len(ListInsertFirst(s, n)) = Len(s) + 1
         /\ Distinct(ListInsertFirst(s, n))
         /\ Members(ListInsertFirst(s, n)) = Members(s) \cup {n}
         /\ \A i \in 0 .. Len(s) + 2 :
              At(ListInsertFirst(s, n), i) = IF i = 1 THEN n ELSE At(s, i - 1)
<1> DEFINE m == <<n>>
           w == ListInsertFirst(s, n)
<1>1. m \in Seq(Node) /\ Members(m) = {n} /\ Distinct(m)
  BY DEF Members, Distinct
<1>2. w = m \o s BY DEF ListInsertFirst
<1>3. w \in Seq(Node) /\ Members(w) = Members(s) \cup {n} /\ Distinct(w)
  <2> HIDE DEF m, w
  <2>1. /\ m \o s \in Seq(Node)
        /\ Members(m \o s) = {n} \cup Members(s)
        /\ Distinct(m) /\ Distinct(s) /\ Members(m) \cap Members(s) = {} => Distinct(m \o s)
    BY <1>1, ConcatProperties2
  <2> QED BY <1>1, <1>2, <2>1
<1>4. Len(w) = Len(s) + 1 /\ \A i \in 1 .. Len(s) + 1 : w[i] = IF i = 1 THEN n ELSE s[i - 1]
  BY <1>2
<1>5. ASSUME NEW i \in 0 .. Len(s) + 2 PROVE At(w, i) = IF i = 1 THEN n ELSE At(s, i - 1)
  <2> HIDE DEF w
  <2>1. Len(s) \in Nat OBVIOUS
  <2>2. CASE i \in 1 .. Len(s) + 1 BY <1>4, <2>1, <2>2 DEF At
  <2>3. CASE i \notin 1 .. Len(s) + 1 BY <1>4, <2>1, <2>3 DEF At
  <2> QED BY <2>2, <2>3
<1> QED BY <1>3, <1>4, <1>5

LEMMA LastProperties ==
  ASSUME NEW s \in Seq(Node), NEW n \in Node, Distinct(s), n \notin Members(s)
  PROVE  /\ ListInsertLast(s, n) \in Seq(Node) /\ Len(ListInsertLast(s, n)) = Len(s) + 1
         /\ Distinct(ListInsertLast(s, n))
         /\ Members(ListInsertLast(s, n)) = Members(s) \cup {n}
         /\ \A i \in 0 .. Len(s) + 2 :
              At(ListInsertLast(s, n), i) = IF i = Len(s) + 1 THEN n ELSE At(s, i)
<1> DEFINE w == ListInsertLast(s, n)
<1>1. w \in Seq(Node) /\ Members(w) = Members(s) \cup {n} /\ Distinct(w)
  BY ListInsertLastProperties
<1>2. Len(w) = Len(s) + 1 /\ \A i \in 1 .. Len(s) + 1 : w[i] = IF i = Len(s) + 1 THEN n ELSE s[i]
  BY DEF ListInsertLast
<1>3. ASSUME NEW i \in 0 .. Len(s) + 2
      PROVE  At(w, i) = IF i = Len(s) + 1 THEN n ELSE At(s, i)
  <2> HIDE DEF w
  <2>1. Len(s) \in Nat OBVIOUS
  <2>2. CASE i \in 1 .. Len(s) + 1 BY <1>2, <2>1, <2>2 DEF At
  <2>3. CASE i \notin 1 .. Len(s) + 1 BY <1>2, <2>1, <2>3 DEF At
  <2> QED BY <2>2, <2>3
<1> QED BY <1>1, <1>2, <1>3

-----------------------------------------------------------------------------
(* Only the nodes of one list and a node that is in no list are touched.   *)
LEMMA ShapeAfter ==
  ASSUME NEW L, Shape(L), NEW l \in List, NEW s, Chain(l, s)', Fields',
         \A k \in List : k # l =>
           first'[k] = first[k] /\ last'[k] = last[k] /\ count'[k] = count[k],
         \A x \in Node : x \notin Members(L[l]) \cup Members(s) =>
           pre'[x] = pre[x] /\ next'[x] = next[x],
         \A x \in Members(s) \ Members(L[l]) : \A k \in List : x \notin Members(L[k]),
         \A x \in Members(L[l]) \ Members(s) : pre'[x] = Null /\ next'[x] = Null
  PROVE  Shape([L EXCEPT ![l] = s])'
<1> DEFINE M == [L EXCEPT ![l] = s]
<1>0. L \in [List -> Seq(Node)] /\ s \in Seq(Node) BY DEF Shape, Chain
<1>1. M \in [List -> Seq(Node)] /\ M[l] = s /\ \A k \in List : k # l => M[k] = L[k]
  BY <1>0
<1>2. \A k \in List : k # l => Members(L[k]) \cap Members(s) = {}
  BY DEF Shape
<1>3. ASSUME NEW k \in List PROVE Chain(k, M[k])'
  <2>1. CASE k = l BY <1>1, <2>1
  <2>2. CASE k # l
    <3>1. PICK t \in Seq(Node) : t = L[k] BY <1>0
    <3>2. Chain(k, t) BY <3>1 DEF Shape
    <3>3. ASSUME NEW i \in 1 .. Len(t)
          PROVE  pre'[t[i]] = pre[t[i]] /\ next'[t[i]] = next[t[i]]
      <4>1. t[i] \in Members(t) /\ t[i] \in Node BY DEF Members
      <4>2. Members(L[k]) \cap Members(L[l]) = {} BY <2>2 DEF Shape
      <4> QED BY <1>2, <2>2, <3>1, <4>1, <4>2
    <3>4. first'[k] = first[k] /\ last'[k] = last[k] /\ count'[k] = count[k]
      BY <2>2
    <3>5. Chain(k, t)' BY <3>2, <3>3, <3>4 DEF Chain
    <3> QED BY <1>1, <2>2, <3>1, <3>5
  <2> QED BY <2>1, <2>2
<1>4. ASSUME NEW j \in List, NEW k \in List, j # k
      PROVE  Members(M[j]) \cap Members(M[k]) = {}
  <2>1. Members(L[j]) \cap Members(L[k]) = {} BY <1>4 DEF Shape
  <2> QED BY <1>1, <1>2, <1>4, <2>1
<1>5. ASSUME NEW x \in Node, \A k \in List : x \notin Members(M[k])
      PROVE  pre'[x] = Null /\ next'[x] = Null
  <2>1. x \notin Members(s) /\ \A k \in List : k # l => x \notin Members(L[k])
    BY <1>1, <1>5
  <2>2. CASE x \in Members(L[l]) BY <2>1, <2>2
  <2>3. CASE x \notin Members(L[l])
    <3>1. pre[x] = Null /\ next[x] = Null BY <2>1, <2>3 DEF Shape
    <3> QED BY <2>1, <2>3, <3>1
  <2> QED BY <2>2, <2>3
<1> HIDE DEF M
<1>6. Shape(M)' BY <1>1, <1>3, <1>4, <1>5 DEF Shape
<1> QED BY <1>6 DEF M

LEMMA LinkedInShape ==
  ASSUME NEW L, Shape(L), NEW n \in Node
  PROVE  IsLinked(n) <=> \E l \in List : n \in Members(L[l])
<1>1. ASSUME NEW l \in List PROVE Forward(l) = L[l]
  BY ForwardIsChain DEF Shape
<1> QED BY <1>1 DEF IsLinked

(* list_is_empty looks at the count: the first node tells the same.        *)
LEMMA EmptyHasNoFirst ==
  ASSUME NEW L, Shape(L), NEW l \in List
  PROVE  ListIsEmpty(l) <=> first[l] = Null
<1>1. PICK s \in Seq(Node) : s = L[l] /\ Chain(l, s) BY DEF Shape
<1>2. count[l] = Len(s) /\ first[l] = At(s, 1) BY <1>1 DEF Chain
<1>3. Len(s) # 0 => s[1] \in Node /\ 1 \in 1 .. Len(s) BY <1>1
<1> QED BY <1>2, <1>3, NodeAssumption DEF ListIsEmpty, At

(* list_insert_first *)
LEMMA InsertFirstShapes ==
  ASSUME NEW L, Shape(L), NEW l \in List, NEW n \in Node, ListInsertFirstNode(l, n)
  PROVE  /\ Shape([L EXCEPT ![l] = ListInsertFirst(L[l], n)])'
         /\ \A k \in List : n \notin Members(L[k])
<1>1. PICK s \in Seq(Node) : s = L[l] BY DEF Shape
<1>2. Chain(l, s) BY <1>1 DEF Shape
<1>3. \A k \in List : n \notin Members(L[k])
  BY LinkedInShape DEF ListInsertFirstNode
<1>4. PICK w \in Seq(Node) : w = ListInsertFirst(s, n) BY <1>1, <1>2, <1>3, FirstProperties DEF Chain
<1>5. /\ Len(w) = Len(s) + 1 /\ Distinct(w) /\ Members(w) = Members(s) \cup {n}
      /\ \A i \in 0 .. Len(s) + 2 : At(w, i) = IF i = 1 THEN n ELSE At(s, i - 1)
  BY <1>1, <1>2, <1>3, <1>4, FirstProperties DEF Chain
<1>6. PICK h \in Pointer : h = first[l] /\ h = At(s, 1) BY <1>2 DEF Chain, Shape, Fields
<1>7. /\ first' = [first EXCEPT ![l] = n]
      /\ last' = IF h = Null THEN [last EXCEPT ![l] = n] ELSE last
      /\ count' = [count EXCEPT ![l] = count[l] + 1]
      /\ next' = [next EXCEPT ![n] = h]
      /\ pre' = Store([pre EXCEPT ![n] = Null], h, n)
  BY <1>6, EmptyHasNoFirst DEF ListInsertFirstNode
<1>8. Fields'
  <2>1. first' \in [List -> Pointer] /\ last' \in [List -> Pointer]
    BY <1>7 DEF Shape, Fields, Pointer
  <2>2. count' \in [List -> Nat] BY <1>7 DEF Shape, Fields
  <2>3. next' \in [Node -> Pointer] BY <1>7 DEF Shape, Fields
  <2>4. pre' \in [Node -> Pointer]
    <3>1. [pre EXCEPT ![n] = Null] \in [Node -> Pointer] BY DEF Shape, Fields, Pointer
    <3>2. h = Null \/ h \in Node BY DEF Pointer
    <3> QED BY <1>7, <3>1, <3>2 DEF Store, Pointer
  <2> QED BY <2>1, <2>2, <2>3, <2>4 DEF Fields
<1>9. Len(s) \in Nat /\ (h = Null <=> Len(s) = 0) /\ (h # Null => h = s[1] /\ h \in Members(s))
  BY <1>1, <1>6 DEF At, Members
<1>10. \A x \in Node : x # n => next'[x] = next[x] /\ (x # h => pre'[x] = pre[x])
  BY <1>7 DEF Shape, Fields, Store
<1>11. /\ next'[n] = h /\ pre'[n] = Null /\ (h # Null => pre'[h] = n)
       /\ first'[l] = n /\ last'[l] = (IF h = Null THEN n ELSE last[l])
       /\ count'[l] = Len(s) + 1
  <2>1. h # n BY <1>1, <1>3, <1>9
  <2> QED BY <1>2, <1>7, <2>1 DEF Shape, Fields, Store, Chain, Pointer
<1>12. Chain(l, w)'
  <2>1. first'[l] = At(w, 1) BY <1>5, <1>9, <1>11
  <2>2. last'[l] = At(w, Len(w))
    <3>1. At(w, Len(s) + 1) = IF Len(s) = 0 THEN n ELSE At(s, Len(s)) BY <1>5, <1>9
    <3> QED BY <1>2, <1>5, <1>9, <1>11, <3>1 DEF Chain
  <2>3. ASSUME NEW i \in 1 .. Len(w)
        PROVE  next'[w[i]] = At(w, i + 1) /\ pre'[w[i]] = At(w, i - 1)
    <3>0. w[i] = At(w, i) /\ i \in 0 .. Len(s) + 2 /\ i + 1 \in 0 .. Len(s) + 2
          /\ i - 1 \in 0 .. Len(s) + 2
      BY <1>5, <1>9 DEF At
    <3>1. CASE i = 1
      <4>1. w[i] = n BY <1>5, <3>0, <3>1
      <4>2. At(w, 2) = At(s, 1) BY <1>5, <1>9
      <4>3. At(w, 0) = Null BY DEF At
      <4> QED BY <1>6, <1>11, <3>1, <4>1, <4>2, <4>3
    <3>2. CASE i # 1
      <4>1. PICK j \in 1 .. Len(s) : j = i - 1 BY <1>5, <1>9, <3>2
      <4>2. w[i] = s[j] /\ At(w, i + 1) = At(s, j + 1)
            /\ At(w, i - 1) = IF j = 1 THEN n ELSE At(s, j - 1)
        BY <1>5, <1>9, <3>0, <3>2, <4>1 DEF At
      <4>3. next[s[j]] = At(s, j + 1) /\ pre[s[j]] = At(s, j - 1) BY <1>2 DEF Chain
      <4>4. s[j] \in Node /\ s[j] # n /\ (s[j] = h <=> j = 1)
        BY <1>1, <1>2, <1>3, <1>9 DEF Chain, Distinct, Members
      <4>5. h \in Pointer /\ h # Null BY <1>9, <4>1
      <4> QED BY <1>10, <1>11, <4>2, <4>3, <4>4, <4>5
    <3> QED BY <3>1, <3>2
  <2> QED BY <1>5, <1>9, <1>11, <2>1, <2>2, <2>3 DEF Chain
<1>13. \A k \in List : k # l =>
         first'[k] = first[k] /\ last'[k] = last[k] /\ count'[k] = count[k]
  BY <1>7 DEF Shape, Fields
<1>14. \A x \in Node : x \notin Members(L[l]) \cup Members(w) =>
         pre'[x] = pre[x] /\ next'[x] = next[x]
  BY <1>1, <1>5, <1>9, <1>10
<1>15. \A x \in Members(w) \ Members(L[l]) : \A k \in List : x \notin Members(L[k])
  BY <1>1, <1>3, <1>5
<1>16. \A x \in Members(L[l]) \ Members(w) : pre'[x] = Null /\ next'[x] = Null
  BY <1>1, <1>5
<1>17. Shape([L EXCEPT ![l] = w])'
  BY <1>8, <1>12, <1>13, <1>14, <1>15, <1>16, ShapeAfter
<1> QED BY <1>1, <1>3, <1>4, <1>17

(* list_insert_last *)
LEMMA InsertLastShapes ==
  ASSUME NEW L, Shape(L), NEW l \in List, NEW n \in Node, ListInsertLastNode(l, n)
  PROVE  /\ Shape([L EXCEPT ![l] = ListInsertLast(L[l], n)])'
         /\ \A k \in List : n \notin Members(L[k])
<1>1. PICK s \in Seq(Node) : s = L[l] BY DEF Shape
<1>2. Chain(l, s) BY <1>1 DEF Shape
<1>3. \A k \in List : n \notin Members(L[k])
  BY LinkedInShape DEF ListInsertLastNode
<1>4. PICK w \in Seq(Node) : w = ListInsertLast(s, n) BY <1>1, <1>2, <1>3, LastProperties DEF Chain
<1>5. /\ Len(w) = Len(s) + 1 /\ Distinct(w) /\ Members(w) = Members(s) \cup {n}
      /\ \A i \in 0 .. Len(s) + 2 : At(w, i) = IF i = Len(s) + 1 THEN n ELSE At(s, i)
  BY <1>1, <1>2, <1>3, <1>4, LastProperties DEF Chain
<1>6. PICK h \in Pointer : h = last[l] /\ h = At(s, Len(s)) BY <1>2 DEF Chain, Shape, Fields
<1>7. /\ first' = IF first[l] = Null THEN [first EXCEPT ![l] = n] ELSE first
      /\ last' = [last EXCEPT ![l] = n]
      /\ count' = [count EXCEPT ![l] = count[l] + 1]
      /\ next' = Store([next EXCEPT ![n] = Null], h, n)
      /\ pre' = [pre EXCEPT ![n] = h]
  BY <1>6, EmptyHasNoFirst DEF ListInsertLastNode
<1>8. Fields'
  <2>1. first' \in [List -> Pointer] /\ last' \in [List -> Pointer]
    BY <1>7 DEF Shape, Fields, Pointer
  <2>2. count' \in [List -> Nat] BY <1>7 DEF Shape, Fields
  <2>3. pre' \in [Node -> Pointer] BY <1>7 DEF Shape, Fields
  <2>4. next' \in [Node -> Pointer]
    <3>1. [next EXCEPT ![n] = Null] \in [Node -> Pointer] BY DEF Shape, Fields, Pointer
    <3>2. h = Null \/ h \in Node BY DEF Pointer
    <3> QED BY <1>7, <3>1, <3>2 DEF Store, Pointer
  <2> QED BY <2>1, <2>2, <2>3, <2>4 DEF Fields
<1>9. /\ Len(s) \in Nat /\ (h = Null <=> Len(s) = 0)
      /\ (h # Null => h = s[Len(s)] /\ h \in Members(s))
      /\ (first[l] = Null <=> Len(s) = 0)
  BY <1>1, <1>2, <1>6 DEF At, Members, Chain
<1>10. \A x \in Node : x # n => pre'[x] = pre[x] /\ (x # h => next'[x] = next[x])
  BY <1>7 DEF Shape, Fields, Store
<1>11. /\ pre'[n] = h /\ next'[n] = Null /\ (h # Null => next'[h] = n)
       /\ last'[l] = n /\ first'[l] = (IF Len(s) = 0 THEN n ELSE first[l])
       /\ count'[l] = Len(s) + 1
  <2>1. h # n BY <1>1, <1>3, <1>9
  <2> QED BY <1>2, <1>7, <1>9, <2>1 DEF Shape, Fields, Store, Chain, Pointer
<1>12. Chain(l, w)'
  <2>1. last'[l] = At(w, Len(w)) BY <1>5, <1>9, <1>11
  <2>2. first'[l] = At(w, 1)
    <3>1. At(w, 1) = IF Len(s) = 0 THEN n ELSE At(s, 1) BY <1>5, <1>9
    <3> QED BY <1>2, <1>9, <1>11, <3>1 DEF Chain
  <2>3. ASSUME NEW i \in 1 .. Len(w)
        PROVE  next'[w[i]] = At(w, i + 1) /\ pre'[w[i]] = At(w, i - 1)
    <3>0. w[i] = At(w, i) /\ i \in 0 .. Len(s) + 2 /\ i + 1 \in 0 .. Len(s) + 2
          /\ i - 1 \in 0 .. Len(s) + 2
      BY <1>5, <1>9 DEF At
    <3>1. CASE i = Len(s) + 1
      <4>1. w[i] = n BY <1>5, <3>0, <3>1
      <4>2. At(w, i - 1) = At(s, Len(s)) BY <1>5, <1>9, <3>1
      <4>3. At(w, i + 1) = Null BY <1>5, <1>9, <3>1 DEF At
      <4> QED BY <1>6, <1>11, <4>1, <4>2, <4>3
    <3>2. CASE i # Len(s) + 1
      <4>1. i \in 1 .. Len(s) BY <1>5, <1>9, <3>2
      <4>2. /\ w[i] = s[i] /\ At(w, i - 1) = At(s, i - 1)
            /\ At(w, i + 1) = IF i = Len(s) THEN n ELSE At(s, i + 1)
        BY <1>5, <1>9, <3>0, <3>2, <4>1 DEF At
      <4>3. next[s[i]] = At(s, i + 1) /\ pre[s[i]] = At(s, i - 1) BY <1>2, <4>1 DEF Chain
      <4>4. s[i] \in Node /\ s[i] # n /\ (s[i] = h <=> i = Len(s))
        BY <1>1, <1>2, <1>3, <1>9, <4>1 DEF Chain, Distinct, Members
      <4>5. h # Null BY <1>9, <4>1
      <4> QED BY <1>10, <1>11, <4>2, <4>3, <4>4, <4>5
    <3> QED BY <3>1, <3>2
  <2> QED BY <1>5, <1>9, <1>11, <2>1, <2>2, <2>3 DEF Chain
<1>13. \A k \in List : k # l =>
         first'[k] = first[k] /\ last'[k] = last[k] /\ count'[k] = count[k]
  BY <1>7 DEF Shape, Fields
<1>14. \A x \in Node : x \notin Members(L[l]) \cup Members(w) =>
         pre'[x] = pre[x] /\ next'[x] = next[x]
  BY <1>1, <1>5, <1>9, <1>10
<1>15. \A x \in Members(w) \ Members(L[l]) : \A k \in List : x \notin Members(L[k])
  BY <1>1, <1>3, <1>5
<1>16. \A x \in Members(L[l]) \ Members(w) : pre'[x] = Null /\ next'[x] = Null
  BY <1>1, <1>5
<1>17. Shape([L EXCEPT ![l] = w])'
  BY <1>8, <1>12, <1>13, <1>14, <1>15, <1>16, ShapeAfter
<1> QED BY <1>1, <1>3, <1>4, <1>17

(* list_remove, of the node at p. *)
LEMMA RemoveShapes ==
  ASSUME NEW L, Shape(L), NEW l \in List, NEW p \in 1 .. Len(L[l]),
         ListRemoveNode(l, L[l][p])
  PROVE  Shape([L EXCEPT ![l] = Without(L[l], p)])'
<1>1. PICK s \in Seq(Node) : s = L[l] BY DEF Shape
<1>2. Chain(l, s) /\ p \in 1 .. Len(s) BY <1>1 DEF Shape
<1>d. \A i, j \in 1 .. Len(s) : s[i] = s[j] => i = j
  <2>1. Distinct(s) /\ DOMAIN s = 1 .. Len(s) BY <1>1, <1>2 DEF Chain
  <2> QED BY <2>1 DEF Distinct
<1>3. PICK n \in Node : n = s[p] /\ n \in Members(s) BY <1>2 DEF Members
<1>4. PICK w \in Seq(Node) : w = Without(s, p) BY <1>2, WithoutProperties DEF Chain
<1>5. /\ Len(w) = Len(s) - 1 /\ Distinct(w) /\ Members(w) = Members(s) \ {n}
      /\ \A i \in 0 .. Len(s) : At(w, i) = IF i < p THEN At(s, i) ELSE At(s, i + 1)
  <2>1. Distinct(s) BY <1>2 DEF Chain
  <2>2. /\ Len(Without(s, p)) = Len(s) - 1 /\ Distinct(Without(s, p))
        /\ Members(Without(s, p)) = Members(s) \ {s[p]}
    BY <1>2, <2>1, WithoutProperties
  <2>3. \A i \in 0 .. Len(s) :
          At(Without(s, p), i) = IF i < p THEN At(s, i) ELSE At(s, i + 1)
    BY <1>2, <2>1, WithoutProperties
  <2> QED BY <1>3, <1>4, <2>2, <2>3
<1>6. PICK a \in Pointer, b \in Pointer :
        /\ a = pre[n] /\ a = At(s, p - 1)
        /\ b = next[n] /\ b = At(s, p + 1)
  BY <1>2, <1>3 DEF Chain, Shape, Fields
<1>7. /\ first' = IF n = first[l] THEN [first EXCEPT ![l] = b] ELSE first
      /\ last' = IF n = last[l] THEN [last EXCEPT ![l] = a] ELSE last
      /\ count' = [count EXCEPT ![l] = count[l] - 1]
      /\ next' = [Store(next, a, b) EXCEPT ![n] = Null]
      /\ pre' = [Store(pre, b, a) EXCEPT ![n] = Null]
  BY <1>1, <1>3, <1>6 DEF ListRemoveNode
<1>9. /\ Len(s) \in Nat \ {0}
      /\ (n = first[l] <=> p = 1) /\ (n = last[l] <=> p = Len(s))
      /\ a # Null <=> p > 1
      /\ b # Null <=> p < Len(s)
      /\ a # Null => a = s[p - 1] /\ a \in Members(s) /\ a # n
      /\ b # Null => b = s[p + 1] /\ b \in Members(s) /\ b # n
      /\ a # Null /\ b # Null => a # b
  <2>1. Len(s) \in Nat \ {0} /\ p \in Int BY <1>2
  <2>2. first[l] = s[1] /\ last[l] = s[Len(s)] BY <1>2, <2>1 DEF Chain, At
  <2>3. \A i, j \in 1 .. Len(s) : s[i] = s[j] => i = j BY <1>d
  <2>5. (n = first[l] <=> p = 1) /\ (n = last[l] <=> p = Len(s))
    BY <1>2, <1>3, <2>1, <2>2, <2>3
  <2>6. /\ a # Null <=> p > 1
        /\ a # Null => a = s[p - 1] /\ a \in Members(s) /\ a # n
    <3>1. CASE p = 1 BY <1>6, <3>1 DEF At
    <3>2. CASE p # 1
      <4>1. p - 1 \in 1 .. Len(s) /\ p - 1 # p BY <1>2, <2>1, <3>2
      <4>2. a = s[p - 1] /\ s[p - 1] \in Node BY <1>6, <4>1 DEF At
      <4> QED BY <1>2, <1>3, <2>1, <2>3, <3>2, <4>1, <4>2 DEF Members
    <3> QED BY <3>1, <3>2
  <2>7. /\ b # Null <=> p < Len(s)
        /\ b # Null => b = s[p + 1] /\ b \in Members(s) /\ b # n
    <3>1. CASE p = Len(s) BY <1>6, <2>1, <3>1 DEF At
    <3>2. CASE p # Len(s)
      <4>1. p + 1 \in 1 .. Len(s) /\ p + 1 # p BY <1>2, <2>1, <3>2
      <4>2. b = s[p + 1] /\ s[p + 1] \in Node BY <1>6, <4>1 DEF At
      <4> QED BY <1>2, <1>3, <2>1, <2>3, <3>2, <4>1, <4>2 DEF Members
    <3> QED BY <3>1, <3>2
  <2>8. a # Null /\ b # Null => a # b BY <1>2, <2>1, <2>3, <2>6, <2>7
  <2> QED BY <2>1, <2>5, <2>6, <2>7, <2>8
<1>8. Fields'
  <2>1. first' \in [List -> Pointer] /\ last' \in [List -> Pointer]
    BY <1>7 DEF Shape, Fields
  <2>2. count' \in [List -> Nat]
    <3>1. count[l] - 1 \in Nat BY <1>2, <1>9 DEF Chain
    <3> QED BY <1>7, <3>1 DEF Shape, Fields
  <2>3. next' \in [Node -> Pointer]
    <3>1. Store(next, a, b) \in [Node -> Pointer] BY DEF Shape, Fields, Pointer, Store
    <3>2. Null \in Pointer BY DEF Pointer
    <3> QED BY <1>7, <3>1, <3>2
  <2>4. pre' \in [Node -> Pointer]
    <3>1. Store(pre, b, a) \in [Node -> Pointer] BY DEF Shape, Fields, Pointer, Store
    <3>2. Null \in Pointer BY DEF Pointer
    <3> QED BY <1>7, <3>1, <3>2
  <2> QED BY <2>1, <2>2, <2>3, <2>4 DEF Fields
<1>10. \A x \in Node : x # n =>
         /\ next'[x] = IF x = a THEN b ELSE next[x]
         /\ pre'[x] = IF x = b THEN a ELSE pre[x]
  BY <1>7 DEF Shape, Fields, Store, Pointer
<1>11. /\ pre'[n] = Null /\ next'[n] = Null
       /\ first'[l] = IF p = 1 THEN b ELSE first[l]
       /\ last'[l] = IF p = Len(s) THEN a ELSE last[l]
       /\ count'[l] = Len(s) - 1
  <2>1. first'[l] = IF p = 1 THEN b ELSE first[l] BY <1>7, <1>9 DEF Shape, Fields
  <2>2. last'[l] = IF p = Len(s) THEN a ELSE last[l] BY <1>7, <1>9 DEF Shape, Fields
  <2>3. count'[l] = Len(s) - 1 BY <1>2, <1>7 DEF Shape, Fields, Chain
  <2>4. next'[n] = Null BY <1>7 DEF Store, Shape, Fields
  <2>5. pre'[n] = Null BY <1>7 DEF Store, Shape, Fields
  <2> QED BY <2>1, <2>2, <2>3, <2>4, <2>5
<1>12. Chain(l, w)'
  <2>0. p \in Int /\ 1 <= p /\ p <= Len(s) BY <1>2, <1>9
  <2>1. first'[l] = At(w, 1)
    <3>1. At(w, 1) = IF 1 < p THEN At(s, 1) ELSE At(s, 2) BY <1>5, <1>9
    <3> QED BY <1>2, <1>6, <1>11, <2>0, <3>1 DEF Chain
  <2>2. last'[l] = At(w, Len(w))
    <3>1. At(w, Len(s) - 1) = IF Len(s) - 1 < p THEN At(s, Len(s) - 1) ELSE At(s, Len(s))
      BY <1>5, <1>9
    <3>2. CASE p = Len(s) BY <1>5, <1>6, <1>9, <1>11, <3>1, <3>2
    <3>3. CASE p # Len(s) BY <1>2, <1>5, <1>9, <1>11, <2>0, <3>1, <3>3 DEF Chain
    <3> QED BY <3>2, <3>3
  <2>3. ASSUME NEW i \in 1 .. Len(w)
        PROVE  next'[w[i]] = At(w, i + 1) /\ pre'[w[i]] = At(w, i - 1)
    <3>0. /\ i \in 1 .. Len(s) - 1 /\ w[i] = At(w, i)
          /\ At(w, i) = IF i < p THEN At(s, i) ELSE At(s, i + 1)
          /\ At(w, i + 1) = IF i + 1 < p THEN At(s, i + 1) ELSE At(s, i + 2)
          /\ At(w, i - 1) = IF i - 1 < p THEN At(s, i - 1) ELSE At(s, i)
      <4>1. i \in 0 .. Len(s) /\ i + 1 \in 0 .. Len(s) /\ i - 1 \in 0 .. Len(s)
            /\ (i + 1) + 1 = i + 2 /\ (i - 1) + 1 = i
        BY <1>5, <1>9
      <4> QED BY <1>5, <4>1 DEF At
    <3>1. PICK j \in 1 .. Len(s) : j = (IF i < p THEN i ELSE i + 1) /\ j # p
      BY <1>9, <2>0, <3>0
    <3>2. w[i] = s[j] /\ s[j] \in Node BY <3>0, <3>1 DEF At
    <3>3. /\ next[s[j]] = At(s, j + 1) /\ pre[s[j]] = At(s, j - 1)
          /\ s[j] # n
          /\ s[j] = a <=> j = p - 1
          /\ s[j] = b <=> j = p + 1
      <4>1. \A x, y \in 1 .. Len(s) : s[x] = s[y] => x = y BY <1>d
      <4>2. next[s[j]] = At(s, j + 1) /\ pre[s[j]] = At(s, j - 1) BY <1>2 DEF Chain
      <4>3. s[j] # n BY <1>2, <1>3, <3>1, <4>1
      <4>4. s[j] = a <=> j = p - 1
        <5>1. CASE p > 1
          <6>1. p - 1 \in 1 .. Len(s) /\ a = s[p - 1] BY <1>9, <2>0, <5>1
          <6> QED BY <4>1, <6>1
        <5>2. CASE ~ (p > 1) BY <1>9, <2>0, <3>2, <5>2
        <5> QED BY <5>1, <5>2
      <4>5. s[j] = b <=> j = p + 1
        <5>1. CASE p < Len(s)
          <6>1. p + 1 \in 1 .. Len(s) /\ b = s[p + 1] BY <1>9, <2>0, <5>1
          <6> QED BY <4>1, <6>1
        <5>2. CASE ~ (p < Len(s)) BY <1>9, <2>0, <3>2, <5>2
        <5> QED BY <5>1, <5>2
      <4> QED BY <4>2, <4>3, <4>4, <4>5
    <3>4. next'[w[i]] = IF j = p - 1 THEN At(s, p + 1) ELSE At(s, j + 1)
      BY <1>6, <1>10, <3>2, <3>3
    <3>5. pre'[w[i]] = IF j = p + 1 THEN At(s, p - 1) ELSE At(s, j - 1)
      BY <1>6, <1>10, <3>2, <3>3
    <3>6. next'[w[i]] = At(w, i + 1)
      <4>1. CASE i + 1 < p BY <2>0, <3>0, <3>1, <3>4, <4>1
      <4>2. CASE i + 1 = p
        <5>1. j = p - 1 /\ p + 1 = i + 2 BY <2>0, <3>0, <3>1, <4>2
        <5> QED BY <2>0, <3>0, <3>4, <4>2, <5>1
      <4>3. CASE i >= p
        <5>1. j + 1 = i + 2 /\ j # p - 1 BY <2>0, <3>0, <3>1, <4>3
        <5> QED BY <2>0, <3>0, <3>4, <4>3, <5>1
      <4> QED BY <2>0, <3>0, <4>1, <4>2, <4>3
    <3>7. pre'[w[i]] = At(w, i - 1)
      <4>1. CASE i < p
        <5>1. j = i /\ j # p + 1 BY <2>0, <3>0, <3>1, <4>1
        <5> QED BY <2>0, <3>0, <3>5, <4>1, <5>1
      <4>2. CASE i = p
        <5>1. j = p + 1 /\ p - 1 = i - 1 BY <2>0, <3>0, <3>1, <4>2
        <5> QED BY <2>0, <3>0, <3>5, <4>2, <5>1
      <4>3. CASE i > p
        <5>1. j - 1 = i /\ j # p + 1 BY <2>0, <3>0, <3>1, <4>3
        <5> QED BY <2>0, <3>0, <3>5, <4>3, <5>1
      <4> QED BY <2>0, <3>0, <4>1, <4>2, <4>3
    <3> QED BY <3>6, <3>7
  <2> QED BY <1>5, <1>9, <1>11, <2>1, <2>2, <2>3 DEF Chain
<1>13. \A k \in List : k # l =>
         first'[k] = first[k] /\ last'[k] = last[k] /\ count'[k] = count[k]
  BY <1>7 DEF Shape, Fields
<1>14. \A x \in Node : x \notin Members(L[l]) \cup Members(w) =>
         pre'[x] = pre[x] /\ next'[x] = next[x]
  BY <1>1, <1>3, <1>5, <1>9, <1>10 DEF Pointer
<1>15. \A x \in Members(w) \ Members(L[l]) : \A k \in List : x \notin Members(L[k])
  BY <1>1, <1>5
<1>16. \A x \in Members(L[l]) \ Members(w) : pre'[x] = Null /\ next'[x] = Null
  BY <1>1, <1>5, <1>11
<1>17. Shape([L EXCEPT ![l] = w])'
  BY <1>8, <1>12, <1>13, <1>14, <1>15, <1>16, ShapeAfter
<1> QED BY <1>1, <1>4, <1>17

-----------------------------------------------------------------------------
(* Every operation is the one of ListSpec. *)
Seqs == [l \in List |-> Forward(l)]

SeqsOfShapes == \A L : Shape(L) => Seqs = L

LEMMA ShapeIsSeqs == SeqsOfShapes
<1> SUFFICES ASSUME NEW L, Shape(L) PROVE [l \in List |-> Forward(l)] = L
  BY DEF SeqsOfShapes, Seqs
<1>1. \A l \in List : Forward(l) = L[l]
  BY ForwardIsChain DEF Shape
<1>2. L \in [List -> Seq(Node)] BY DEF Shape
<1>3. L = [l \in List |-> L[l]] BY <1>2
<1> QED BY <1>1, <1>3, Zenon

LEMMA ShapeIsInvariant == ASSUME NEW L, Shape(L), UNCHANGED vars PROVE Shape(L)'
BY DEF Shape, Fields, Chain, vars

LEMMA FirstIsRemoved ==
  ASSUME NEW L, Shape(L), NEW l \in List, ListRemoveFirstNode(l)
  PROVE  /\ L[l] # <<>>
         /\ Shape([L EXCEPT ![l] = ListRemoveFirst(L[l])])'
<1>1. PICK s \in Seq(Node) : s = L[l] BY DEF Shape
<1>2. Chain(l, s) BY <1>1 DEF Shape
<1>3. first[l] # Null BY EmptyHasNoFirst DEF ListRemoveFirstNode
<1>4. Len(s) \in Nat \ {0} /\ 1 \in 1 .. Len(s) /\ first[l] = s[1] BY <1>2, <1>3 DEF Chain, At
<1>5. PICK n \in Node : n = s[1] /\ n = first[l] BY <1>1, <1>4
<1>6. PICK b \in Pointer : b = next[n] /\ b = At(s, 2) BY <1>2, <1>4, <1>5 DEF Chain, Shape, Fields
<1>7. pre[n] = Null
  <2>1. pre[s[1]] = At(s, 1 - 1) BY <1>2, <1>4 DEF Chain
  <2> QED BY <1>4, <1>5, <2>1 DEF At
<1>8. b = Null <=> n = last[l]
  <2>1. last[l] = s[Len(s)] BY <1>2, <1>4 DEF Chain, At
  <2>2. s[1] = s[Len(s)] => Len(s) = 1
    <3>1. Len(s) \in 1 .. Len(s) /\ 1 \in 1 .. Len(s) BY <1>4
    <3>2. \A i, j \in 1 .. Len(s) : s[i] = s[j] => i = j
      <4>1. Distinct(s) /\ DOMAIN s = 1 .. Len(s) BY <1>2 DEF Chain
      <4> QED BY <4>1 DEF Distinct
    <3> QED BY <3>1, <3>2
  <2>3. b = Null <=> Len(s) = 1
    <3>1. 2 \in 1 .. Len(s) <=> Len(s) # 1
      <4>1. PICK c \in Nat \ {0} : c = Len(s) BY <1>4
      <4>2. 2 \in 1 .. c <=> c # 1 BY <4>1
      <4> QED BY <4>1, <4>2
    <3>2. 2 \in 1 .. Len(s) => s[2] \in Node OBVIOUS
    <3> QED BY <1>6, <3>1, <3>2 DEF At
  <2> QED BY <1>5, <2>1, <2>2, <2>3
<1>9. n \in Members(Forward(l)) BY <1>2, <1>4, <1>5, ForwardIsChain DEF Members
<1>10. ListRemoveNode(l, n)
  <2>1. first' = IF n = first[l] THEN [first EXCEPT ![l] = next[n]] ELSE first
    BY <1>5, <1>6 DEF ListRemoveFirstNode
  <2>2. last' = IF n = last[l] THEN [last EXCEPT ![l] = pre[n]] ELSE last
    BY <1>5, <1>6, <1>7, <1>8 DEF ListRemoveFirstNode
  <2>3. next' = [Store(next, pre[n], next[n]) EXCEPT ![n] = Null]
    BY <1>5, <1>7 DEF ListRemoveFirstNode, Store
  <2>4. pre' = [Store(pre, next[n], pre[n]) EXCEPT ![n] = Null]
    BY <1>5, <1>7 DEF ListRemoveFirstNode
  <2>5. count' = [count EXCEPT ![l] = @ - 1] BY DEF ListRemoveFirstNode
  <2> QED BY <1>9, <2>1, <2>2, <2>3, <2>4, <2>5 DEF ListRemoveNode
<1>11. PICK p : p = 1 OBVIOUS
<1>12. p \in 1 .. Len(L[l]) /\ ListRemoveNode(l, L[l][p])
  BY <1>1, <1>4, <1>5, <1>10, <1>11
<1>13. Shape([L EXCEPT ![l] = Without(L[l], p)])' BY <1>12, RemoveShapes
<1>14. ListRemoveFirst(s) = Without(s, 1) BY <1>4, TailIsWithout
<1> QED BY <1>1, <1>4, <1>11, <1>13, <1>14

LEMMA NodeIsRemoved ==
  ASSUME NEW L, Shape(L), NEW l \in List, NEW n \in Node, ListRemoveNode(l, n)
  PROVE  /\ n \in Members(L[l])
         /\ Shape([L EXCEPT ![l] = ListRemove(L[l], n)])'
<1>1. PICK s \in Seq(Node) : s = L[l] BY DEF Shape
<1>2. Chain(l, s) BY <1>1 DEF Shape
<1>3. n \in Members(s) BY <1>2, ForwardIsChain DEF ListRemoveNode
<1>4. PICK p \in 1 .. Len(s) : s[p] = n BY <1>3 DEF Members
<1>5. p \in 1 .. Len(L[l]) /\ ListRemoveNode(l, L[l][p]) BY <1>1, <1>4
<1>6. Shape([L EXCEPT ![l] = Without(L[l], p)])' BY <1>5, RemoveShapes
<1>7. ListRemove(s, s[p]) = Without(s, p) BY <1>2, RemoveIsWithout DEF Chain
<1> QED BY <1>1, <1>3, <1>4, <1>6, <1>7

SomeShape == \E L \in [List -> Seq(Node)] : Shape(L)

LEMMA InitShape == ASSUME Init PROVE Shape([l \in List |-> <<>>])
<1> DEFINE L == [l \in List |-> <<>>]
<1>1. L \in [List -> Seq(Node)] /\ \A l \in List : L[l] = <<>> OBVIOUS
<1>2. Members(<<>>) = {} /\ Distinct(<<>>) BY DEF Members, Distinct
<1>3. Fields BY DEF Init, Fields, Pointer
<1>4. ASSUME NEW l \in List PROVE Chain(l, <<>>)
  BY <1>2 DEF Chain, Init, At
<1> HIDE DEF L
<1>5. Shape(L) BY <1>1, <1>2, <1>3, <1>4 DEF Shape, Init
<1> QED BY <1>5 DEF L

LEMMA NextShape ==
  ASSUME SomeShape, [Next]_vars
  PROVE  SomeShape'
<1>1. PICK L \in [List -> Seq(Node)] : Shape(L) BY DEF SomeShape
<1>2. SUFFICES \E M \in [List -> Seq(Node)] : Shape(M)' BY DEF SomeShape
<1>3. \A M : Shape(M)' => M \in [List -> Seq(Node)] BY DEF Shape
<1>4. ASSUME NEW l \in List, ListRemoveFirstNode(l) PROVE \E M : Shape(M)'
  BY <1>1, <1>4, FirstIsRemoved
<1>5. ASSUME NEW l \in List, NEW n \in Node, ListInsertFirstNode(l, n) PROVE \E M : Shape(M)'
  BY <1>1, <1>5, InsertFirstShapes
<1>6. ASSUME NEW l \in List, NEW n \in Node, ListInsertLastNode(l, n) PROVE \E M : Shape(M)'
  BY <1>1, <1>6, InsertLastShapes
<1>7. ASSUME NEW l \in List, NEW n \in Node, ListRemoveNode(l, n) PROVE \E M : Shape(M)'
  BY <1>1, <1>7, NodeIsRemoved
<1>8. CASE UNCHANGED vars BY <1>1, <1>8, ShapeIsInvariant
<1> QED BY <1>3, <1>4, <1>5, <1>6, <1>7, <1>8 DEF Next

LEMMA SomeShapeHolds == Spec => []SomeShape
<1>1. Init => SomeShape
  <2>1. [l \in List |-> <<>>] \in [List -> Seq(Node)] OBVIOUS
  <2> QED BY <2>1, InitShape DEF SomeShape
<1>2. SomeShape /\ [Next]_vars => SomeShape' BY NextShape
<1> QED BY <1>1, <1>2, PTL DEF Spec

-----------------------------------------------------------------------------
LEMMA DistinctFits ==
  ASSUME NEW s \in Seq(Node), Distinct(s)
  PROVE  Len(s) <= Cardinality(Node)
<1>1. PICK c \in Nat : c = Len(s) OBVIOUS
<1>2. IsFiniteSet(1 .. c) /\ Cardinality(1 .. c) = c
  <2> HIDE <1>1
  <2> QED BY FS_Interval
<1>3. s \in [1 .. c -> Node] /\ \A i, j \in 1 .. c : s[i] = s[j] => i = j
  BY <1>1 DEF Distinct
<1>4. s \in Injection(1 .. c, Node) BY <1>3 DEF Injection, IsInjective
<1>5. Cardinality(1 .. c) <= Cardinality(Node) BY <1>4, FS_Injection
<1> QED BY <1>1, <1>2, <1>5

(* Both directions of every list agree, its ends are marked by null        *)
(* pointers, and an unlinked node points nowhere, after any sequence of    *)
(* the calls of tools/list.c that keeps a node in at most one list.        *)
THEOREM ListsAreWellLinked == Spec => []WellLinked
<1>1. SomeShape => WellLinked
  <2> SUFFICES ASSUME NEW L, Shape(L) PROVE WellLinked BY DEF SomeShape
  <2>1. ASSUME NEW l \in List
        PROVE  /\ count[l] \in 0 .. Cardinality(Node)
               /\ IF count[l] = 0 THEN first[l] = Null /\ last[l] = Null
                  ELSE /\ \A i \in 1 .. count[l] :
                            Forward(l)[i] = Backward(l)[count[l] + 1 - i]
                       /\ pre[first[l]] = Null /\ next[last[l]] = Null
    <3>1. PICK s \in Seq(Node) : s = L[l] BY DEF Shape
    <3>2. Chain(l, s) BY <3>1 DEF Shape
    <3>3. PICK c \in Nat : c = Len(s) /\ c = count[l] BY <3>2 DEF Chain
    <3>4. c <= Cardinality(Node) BY <3>2, <3>3, DistinctFits DEF Chain
    <3>5. Cardinality(Node) \in Nat BY FS_CardinalityType
    <3>6. CASE c = 0 BY <3>2, <3>3, <3>4, <3>5, <3>6 DEF Chain, At
    <3>7. CASE c # 0
      <4>0. Backward(l) = [i \in 1 .. Len(s) |-> s[Len(s) + 1 - i]] BY <3>2, BackwardIsChain
      <4>1. Forward(l) = s /\ Backward(l) = [i \in 1 .. c |-> s[c + 1 - i]]
        BY <3>2, <3>3, <4>0, ForwardIsChain, Zenon
      <4>2. ASSUME NEW i \in 1 .. c PROVE Forward(l)[i] = Backward(l)[c + 1 - i]
        <5>1. c + 1 - i \in 1 .. c /\ c + 1 - (c + 1 - i) = i BY <3>3
        <5> QED BY <4>1, <5>1
      <4>3. first[l] = s[1] /\ last[l] = s[c] /\ 1 \in 1 .. c /\ c \in 1 .. c
        BY <3>2, <3>3, <3>7 DEF Chain, At
      <4>4. pre[s[1]] = At(s, 1 - 1) /\ next[s[c]] = At(s, c + 1)
        BY <3>2, <3>3, <4>3 DEF Chain
      <4>5. At(s, 1 - 1) = Null /\ At(s, c + 1) = Null BY <3>3 DEF At
      <4> QED BY <3>3, <3>4, <3>5, <3>7, <4>2, <4>3, <4>4, <4>5
    <3> QED BY <3>6, <3>7
  <2>2. TypeOK
    <3>1. \A l \in List : count[l] \in 0 .. Cardinality(Node) BY <2>1
    <3> QED BY <3>1 DEF TypeOK, Shape, Fields
  <2>3. ASSUME NEW n \in Node PROVE IsLinked(n) \/ (pre[n] = Null /\ next[n] = Null)
    BY LinkedInShape DEF Shape
  <2> QED BY <2>1, <2>2, <2>3 DEF WellLinked
<1> QED BY <1>1, SomeShapeHolds, PTL

-----------------------------------------------------------------------------
LEMMA SameLists ==
  /\ \A s : Abstract!Members(s) = Members(s)
  /\ \A s, n : /\ Abstract!ListInsertFirst(s, n) = ListInsertFirst(s, n)
               /\ Abstract!ListInsertLast(s, n) = ListInsertLast(s, n)
               /\ Abstract!ListRemove(s, n) = ListRemove(s, n)
  /\ \A s : Abstract!ListRemoveFirst(s) = ListRemoveFirst(s)
<1>2. \A s : Abstract!Members(s) = Members(s) BY DEF Abstract!Members, Members
<1>3. \A s, K : Abstract!ListKeep(s, K) = ListKeep(s, K)
  BY Zenon DEF Abstract!ListKeep, ListKeep, Abstract!Cardinality, Cardinality
<1> QED BY <1>2, <1>3
        DEF Abstract!ListInsertFirst, ListInsertFirst, Abstract!ListInsertLast, ListInsertLast,
            Abstract!ListRemove, ListRemove, Abstract!ListRemoveFirst, ListRemoveFirst

LEMMA NextIsAbstract ==
  ASSUME SomeShape, [Next]_vars
  PROVE  [Abstract!Next]_Seqs
<1>1. PICK L \in [List -> Seq(Node)] : Shape(L) BY DEF SomeShape
<1>2. Seqs = L BY <1>1, ShapeIsSeqs DEF SeqsOfShapes
<1>3. SeqsOfShapes' BY ShapeIsSeqs, PTL
<1>4. \A M : Shape(M)' => Seqs' = M BY <1>3 DEF SeqsOfShapes
<1>5. Abstract!Linked = UNION {Members(L[l]) : l \in List}
  BY <1>2, SameLists DEF Abstract!Linked, Seqs
<1>6. ASSUME NEW l \in List, ListRemoveFirstNode(l) PROVE Abstract!RemoveFirst(l)
  <2>1. L[l] # <<>> /\ Seqs' = [L EXCEPT ![l] = ListRemoveFirst(L[l])]
    BY <1>1, <1>4, <1>6, FirstIsRemoved
  <2> QED BY <1>2, <2>1, SameLists DEF Abstract!RemoveFirst, Seqs
<1>7. ASSUME NEW l \in List, NEW n \in Node, ListInsertFirstNode(l, n)
      PROVE  Abstract!InsertFirst(l, n)
  <2>1. /\ \A k \in List : n \notin Members(L[k])
        /\ Seqs' = [L EXCEPT ![l] = ListInsertFirst(L[l], n)]
    BY <1>1, <1>4, <1>7, InsertFirstShapes
  <2> QED BY <1>2, <1>5, <2>1, SameLists DEF Abstract!InsertFirst, Seqs
<1>8. ASSUME NEW l \in List, NEW n \in Node, ListInsertLastNode(l, n)
      PROVE  Abstract!InsertLast(l, n)
  <2>1. /\ \A k \in List : n \notin Members(L[k])
        /\ Seqs' = [L EXCEPT ![l] = ListInsertLast(L[l], n)]
    BY <1>1, <1>4, <1>8, InsertLastShapes
  <2> QED BY <1>2, <1>5, <2>1, SameLists DEF Abstract!InsertLast, Seqs
<1>9. ASSUME NEW l \in List, NEW n \in Node, ListRemoveNode(l, n) PROVE Abstract!Remove(l, n)
  <2>1. n \in Members(L[l]) /\ Seqs' = [L EXCEPT ![l] = ListRemove(L[l], n)]
    BY <1>1, <1>4, <1>9, NodeIsRemoved
  <2> QED BY <1>2, <2>1, SameLists DEF Abstract!Remove, Seqs
<1>10. CASE UNCHANGED vars
  <2>1. Seqs' = L BY <1>1, <1>4, <1>10, ShapeIsInvariant
  <2> QED BY <1>2, <2>1
<1> QED BY <1>6, <1>7, <1>8, <1>9, <1>10 DEF Next, Abstract!Next

(* The pointer operations of tools/list.c are the operations on sequences  *)
(* that the rest of the kernel is modelled with.                           *)
THEOREM PointersImplementSequences == Spec => ImplementsSequences
<1>1. Init => Abstract!Init
  <2> SUFFICES ASSUME Init PROVE Abstract!Init OBVIOUS
  <2>1. Seqs = [l \in List |-> <<>>] BY InitShape, ShapeIsSeqs DEF SeqsOfShapes
  <2> QED BY <2>1 DEF Abstract!Init, Seqs
<1>2. SomeShape /\ [Next]_vars => [Abstract!Next]_Seqs BY NextIsAbstract
<1> QED BY <1>1, <1>2, SomeShapeHolds, PTL DEF Spec, ImplementsSequences, Abstract!Spec, Seqs

-----------------------------------------------------------------------------
(* The names of tasks (Klib). *)
LEMMA MinIsLeast ==
  ASSUME NEW I, I \subseteq Nat, I # {}
  PROVE  Min(I) \in I /\ \A k \in I : Min(I) <= k
<1>1. PICK m \in I : \A k \in I : ~ (k < m) BY LeastNumber
<1>2. \A k \in I : m <= k BY <1>1
<1> QED BY <1>1, <1>2 DEF Min

LEMMA MaxIsGreatest ==
  ASSUME NEW n \in Nat, NEW I, I \subseteq 0 .. n, I # {}
  PROVE  Max(I) \in I /\ \A k \in I : k <= Max(I)
<1> DEFINE J == {n - k : k \in I}
<1>1. J \subseteq Nat /\ J # {}
  <2>1. PICK k \in I : TRUE OBVIOUS
  <2>2. n - k \in J OBVIOUS
  <2> QED BY <2>2
<1>2. PICK j \in J : \A k \in J : ~ (k < j)
  <2> HIDE DEF J
  <2> QED BY <1>1, LeastNumber
<1>3. PICK m \in I : j = n - m OBVIOUS
<1>4. ASSUME NEW k \in I PROVE k <= m
  <2>1. ~ (n - k < n - m) BY <1>2, <1>3
  <2> QED BY <2>1
<1> QED BY <1>4 DEF Max

(* What stands behind the last separator. *)
LEMMA FileNameProperties ==
  ASSUME NEW C, NEW s \in Seq(C)
  PROVE  \E p \in 0 .. Len(s) :
           /\ GetFileName(s) = SubSeq(s, p + 1, Len(s))
           /\ p = 0 \/ s[p] \in Separators
           /\ \A i \in 1 .. Len(s) : s[i] \in Separators => i <= p
<1> DEFINE B == {0} \cup {i \in DOMAIN s : s[i] \in Separators}
<1>1. B \subseteq 0 .. Len(s) /\ B # {} /\ Len(s) \in Nat OBVIOUS
<1>2. PICK p \in B : p = Max(B) /\ \A k \in B : k <= p
  <2> HIDE DEF B
  <2> QED BY <1>1, MaxIsGreatest
<1>3. GetFileName(s) = SubSeq(s, p + 1, Len(s)) BY <1>2 DEF GetFileName
<1>4. \A i \in 1 .. Len(s) : s[i] \in Separators => i <= p BY <1>2
<1> QED BY <1>1, <1>3, <1>4

(* The length of a name. *)
EndOf(nm) == Min({i \in DOMAIN nm : nm[i] = NUL})

(* The field d of size n has the first characters of src, up to end. *)
Copied(d, src, n, end) ==
  /\ DOMAIN d = 0 .. n
  /\ end = EndOf(d)
  /\ end <= Len(src)
  /\ \A i \in 1 .. end : d[i - 1] = src[i]
  /\ Len(src) < n - 1 => end = Len(src)
  /\ end >= n - 2 \/ end = Len(src)

(* What kernel_strncpy leaves, for a string without a zero byte: its first *)
(* characters and the end behind them.                                     *)
LEMMA StrncpyProperties ==
  ASSUME NEW n \in Nat \ {0, 1}, NEW dest, DOMAIN dest = 0 .. n,
         NEW C, NEW src \in Seq(C), NUL \notin C
  PROVE  \E end \in 0 .. n : Copied(KernelStrncpy(dest, src, n), src, n, end)
<1> DEFINE k == IF Len(src) <= n THEN Len(src) ELSE n
           end == IF Len(src) = n - 1 THEN k - 1 ELSE k
           d == KernelStrncpy(dest, src, n)
<1>1. Min({Len(src), n}) = k
  <2>1. {Len(src), n} \subseteq Nat OBVIOUS
  <2>2. /\ Min({Len(src), n}) \in {Len(src), n}
        /\ \A j \in {Len(src), n} : Min({Len(src), n}) <= j
    BY <2>1, MinIsLeast
  <2> QED BY <2>1, <2>2
<1>2. k \in Nat /\ k <= n /\ k <= Len(src) /\ end \in 0 .. n /\ end <= k OBVIOUS
<1>3. /\ DOMAIN d = 0 .. n
      /\ \A i \in 0 .. n : d[i] = IF i = end THEN NUL ELSE IF i < k THEN src[i + 1] ELSE dest[i]
  BY <1>1 DEF KernelStrncpy
<1> HIDE DEF d
<1>4. d[end] = NUL BY <1>2, <1>3
<1>5. ASSUME NEW i \in 1 .. end PROVE d[i - 1] = src[i] /\ d[i - 1] # NUL
  <2>1. i - 1 \in 0 .. n /\ i - 1 # end /\ i - 1 < k /\ i - 1 + 1 = i /\ i \in 1 .. Len(src)
    BY <1>2
  <2>2. d[i - 1] = src[i] BY <1>3, <2>1
  <2>3. src[i] \in C BY <2>1
  <2> QED BY <2>2, <2>3
<1>6. end = EndOf(d)
  <2> DEFINE Ends == {i \in DOMAIN d : d[i] = NUL}
  <2>1. Ends \subseteq Nat /\ end \in Ends BY <1>2, <1>3, <1>4
  <2>2. PICK e : e = Min(Ends) OBVIOUS
  <2>3. e \in Ends /\ e <= end
    <3> HIDE DEF Ends, end
    <3> QED BY <2>1, <2>2, MinIsLeast
  <2>4. ~ (e < end)
    <3> SUFFICES ASSUME e < end PROVE FALSE OBVIOUS
    <3>1. e \in 0 .. n /\ d[e] = NUL BY <1>3, <2>3
    <3>2. e + 1 \in 1 .. end /\ e + 1 - 1 = e BY <1>2, <3>1
    <3> QED BY <1>5, <3>1, <3>2
  <2>5. e = end BY <1>2, <2>1, <2>3, <2>4
  <2> QED BY <2>2, <2>5 DEF EndOf
<1>7. Len(src) < n - 1 => end = Len(src) OBVIOUS
<1>8. end >= n - 2 \/ end = Len(src) OBVIOUS
<1>9. \A i \in 1 .. end : d[i - 1] = src[i] BY <1>5
<1>10. Copied(d, src, n, end)
  <2>1. end <= Len(src) BY <1>2
  <2> HIDE DEF end, k
  <2> QED BY <1>2, <1>3, <1>6, <1>7, <1>8, <1>9, <2>1 DEF Copied
<1> HIDE DEF end
<1> QED BY <1>2, <1>10 DEF d

(* What NamedAfterProgram says of a name and a path. *)
NameOf(nm, s) ==
  LET end == EndOf(nm)
      called == [i \in 1 .. end |-> nm[i - 1]]
  IN  \E p \in 0 .. Len(s) :
        LET file == SubSeq(s, p + 1, Len(s))
        IN  /\ p = 0 \/ s[p] \in Separators
            /\ ToSet(file) \cap Separators = {}
            /\ IsPrefix(called, file)
            /\ Len(file) < NameSize - 1 => called = file
            /\ Len(called) >= NameSize - 2 \/ called = file

LEMMA CopiedName ==
  ASSUME NEW nm, DOMAIN nm = 0 .. NameSize, NEW s \in Path, KlibAssumption
  PROVE  LET d == KernelStrncpy(nm, GetFileName(s), NameSize)
         IN  DOMAIN d = 0 .. NameSize /\ NameOf(d, s)
<1> DEFINE C == ToSet(s)
<1>1. s \in Seq(C) /\ NUL \notin C /\ NameSize \in Nat \ {0, 1} BY DEF KlibAssumption
<1>2. PICK p \in 0 .. Len(s) :
        /\ GetFileName(s) = SubSeq(s, p + 1, Len(s))
        /\ p = 0 \/ s[p] \in Separators
        /\ \A i \in 1 .. Len(s) : s[i] \in Separators => i <= p
  <2> HIDE DEF C
  <2> QED BY <1>1, FileNameProperties
<1>3. PICK file : file = SubSeq(s, p + 1, Len(s)) OBVIOUS
<1> DEFINE d == KernelStrncpy(nm, file, NameSize)
<1>4. /\ file \in Seq(C) /\ Len(file) \in Nat
      /\ \A i \in 1 .. Len(file) : p + i \in 1 .. Len(s) /\ file[i] = s[p + i]
  <2> HIDE DEF C
  <2> QED BY <1>1, <1>2, <1>3
<1>5. ToSet(file) \cap Separators = {}
  <2>1. ASSUME NEW i \in 1 .. Len(file), file[i] \in Separators PROVE FALSE
    <3>1. s[p + i] \in Separators /\ p + i \in 1 .. Len(s) BY <1>4, <2>1
    <3>2. p + i <= p BY <1>2, <3>1
    <3> QED BY <1>2, <3>2
  <2>2. DOMAIN file = 1 .. Len(file) BY <1>4
  <2> QED BY <2>1, <2>2 DEF ToSet
<1>6. PICK end \in 0 .. NameSize : Copied(d, file, NameSize, end)
  <2> HIDE DEF C
  <2> QED BY <1>1, <1>4, StrncpyProperties
<1> USE DEF Copied
<1> HIDE DEF d, C
<1> DEFINE called == [i \in 1 .. end |-> d[i - 1]]
<1>7. called = [i \in 1 .. end |-> file[i]] BY <1>6
<1>8. called \in Seq(C) /\ Len(called) = end
  <2>1. \A i \in 1 .. end : file[i] \in C BY <1>4, <1>6
  <2>2. [i \in 1 .. end |-> file[i]] \in Seq(C) /\ Len([i \in 1 .. end |-> file[i]]) = end
    BY <2>1
  <2> QED BY <1>7, <2>2
<1>9. IsPrefix(called, file)
  <2>1. SubSeq(called, 1, end) = called BY <1>7, <1>8
  <2>2. SubSeq(file, 1, end) = called BY <1>4, <1>6, <1>7
  <2> HIDE DEF called
  <2> QED BY <1>6, <1>8, <2>1, <2>2 DEF IsPrefix
<1>10. end = Len(file) => called = file
  <2> SUFFICES ASSUME end = Len(file) PROVE called = file OBVIOUS
  <2>1. file = [i \in 1 .. Len(file) |-> file[i]] BY <1>4
  <2> QED BY <1>7, <2>1
<1>11. NameOf(d, s)
  <2> HIDE DEF called
  <2>1. /\ p = 0 \/ s[p] \in Separators
        /\ ToSet(file) \cap Separators = {}
        /\ IsPrefix(called, file)
        /\ Len(file) < NameSize - 1 => called = file
        /\ Len(called) >= NameSize - 2 \/ called = file
    BY <1>2, <1>5, <1>6, <1>8, <1>9, <1>10
  <2> QED BY <1>2, <1>3, <1>6, <2>1 DEF NameOf, called
<1>12. GetFileName(s) = file BY <1>2, <1>3
<1> QED BY <1>6, <1>11, <1>12 DEF d

(* A task is called after its program (NamedAfterProgram): sys_execve's    *)
(* get_file_name and kernel_strncpy give it what stands behind the last    *)
(* separator, cut to the field, whatever name it had, for any paths and    *)
(* any size of the field.                                                  *)
THEOREM TasksAreNamedAfterPrograms == ToolsSpec => []NamedAfterProgram
<1> DEFINE Named == DOMAIN name = 0 .. NameSize /\ (path # <<>> => NameOf(name, path))
<1>1. ToolsInit => Named BY DEF ToolsInit, KlibInit
<1>2. Named /\ [ToolsNext]_toolVars => Named'
  <2> SUFFICES ASSUME Named, [ToolsNext]_toolVars PROVE Named' OBVIOUS
  <2>1. CASE UNCHANGED nameVars BY <2>1 DEF nameVars
  <2>2. ASSUME NEW s \in Path, path' = s, name' = KernelStrncpy(name, GetFileName(s), NameSize)
        PROVE  Named'
    <3>1. PICK d : d = KernelStrncpy(name, GetFileName(s), NameSize) OBVIOUS
    <3>2. DOMAIN d = 0 .. NameSize /\ NameOf(d, s)
      BY <3>1, KlibAssumption, CopiedName
    <3> QED BY <2>2, <3>1, <3>2
  <2>3. UNCHANGED nameVars \/ NameTask
    BY DEF ToolsNext, KernelVsprintf, toolVars
  <2> QED BY <2>1, <2>2, <2>3 DEF NameTask
<1>3. Named => NamedAfterProgram BY DEF NamedAfterProgram, NameOf, EndOf
<1> QED BY <1>1, <1>2, <1>3, PTL DEF ToolsSpec

-----------------------------------------------------------------------------
(* The digits of numbers (Klib).  What is to be shown of a recursive       *)
(* definition is shown for the least number for which it could fail.       *)
DigitChars == ToSet(Digits)

(* f gives the values of the first digits, up to n of them. *)
Values(f, digits, base, n) ==
  f = [i \in 0 .. n |-> IF i = 0 THEN 0 ELSE f[i - 1] * base + DigitOf(digits[i])]

LEMMA DigitsOfNumbers ==
  /\ Digits \in Seq(DigitChars) /\ Len(Digits) = 16
  /\ \A k \in 0 .. 15 : Digits[k + 1] \in DigitChars /\ DigitOf(Digits[k + 1]) = k
  /\ "-" \notin DigitChars
<1>1. Len(Digits) = 16 /\ DOMAIN Digits = 1 .. 16
  BY DEF Digits
<1>2. \A i \in 1 .. 16 : Digits[i] \in DigitChars BY <1>1 DEF DigitChars, ToSet
<1>3. Digits \in Seq(DigitChars)
  <2>1. Digits = [i \in 1 .. 16 |-> Digits[i]] BY DEF Digits
  <2> QED BY <1>2, <2>1
<1>4. \A i, j \in 1 .. 16 : Digits[i] = Digits[j] => i = j
  BY DEF Digits
<1>5. ASSUME NEW k \in 0 .. 15 PROVE DigitOf(Digits[k + 1]) = k
  <2> DEFINE K == {0} \cup {j \in DOMAIN Digits : Digits[j] = Digits[k + 1]}
  <2>1. K = {0, k + 1}
    <3>1. k + 1 \in 1 .. 16 OBVIOUS
    <3> QED BY <1>1, <1>4, <3>1
  <2>2. K \subseteq 0 .. 16 /\ K # {} BY <2>1
  <2>3. Max(K) \in K /\ \A j \in K : j <= Max(K)
    <3> HIDE DEF K
    <3> QED BY <2>2, MaxIsGreatest
  <2>4. Max(K) = k + 1
    <3> HIDE DEF K
    <3> QED BY <2>1, <2>3
  <2> QED BY <2>4 DEF DigitOf
<1>6. "-" \notin DigitChars
  <2>1. \A i \in 1 .. 16 : Digits[i] # "-" BY DEF Digits
  <2> QED BY <1>1, <2>1 DEF DigitChars, ToSet
<1> QED BY <1>1, <1>2, <1>3, <1>5, <1>6

LEMMA DigitOfType ==
  ASSUME NEW c
  PROVE  DigitOf(c) \in Int
<1> DEFINE K == {0} \cup {k \in DOMAIN Digits : Digits[k] = c}
<1>1. DOMAIN Digits = 1 .. 16 BY DEF Digits
<1>2. K \subseteq 0 .. 16 /\ K # {} BY <1>1
<1>3. Max(K) \in 0 .. 16
  <2> HIDE DEF K
  <2> QED BY <1>2, MaxIsGreatest
<1> QED BY <1>3 DEF DigitOf

SameUpTo(d, e, n) == \A i \in 1 .. n : d[i] = e[i]

LEMMA ValuesExist ==
  ASSUME NEW S, NEW digits \in Seq(S), NEW base \in Nat, NEW n \in Nat
  PROVE  \E f : Values(f, digits, base, n)
<1> DEFINE Bad == {m \in Nat : ~ \E f : Values(f, digits, base, m)}
<1> SUFFICES ASSUME Bad # {} PROVE FALSE OBVIOUS
<1>1. PICK m \in Bad : \A k \in Bad : ~ (k < m)
  <2> HIDE DEF Bad
  <2> QED BY LeastNumber DEF Bad
<1>2. m \in Nat /\ ~ \E f : Values(f, digits, base, m) OBVIOUS
<1>3. CASE m = 0
  <2> DEFINE f == [i \in 0 .. 0 |-> 0]
  <2>1. Values(f, digits, base, 0) BY DEF Values
  <2> QED BY <1>2, <1>3, <2>1
<1>4. CASE m # 0
  <2>1. m - 1 \in Nat /\ m - 1 < m BY <1>2, <1>4
  <2>2. m - 1 \notin Bad BY <1>1, <2>1
  <2>3. PICK g : Values(g, digits, base, m - 1) BY <2>1, <2>2
  <2> DEFINE f == [i \in 0 .. m |-> IF i = m THEN g[m - 1] * base + DigitOf(digits[m]) ELSE g[i]]
  <2>4. Values(f, digits, base, m)
    <3>1. ASSUME NEW i \in 0 .. m
          PROVE  f[i] = IF i = 0 THEN 0 ELSE f[i - 1] * base + DigitOf(digits[i])
      <4>1. CASE i = m BY <1>2, <1>4, <4>1
      <4>2. CASE i # m
        <5>1. i \in 0 .. m - 1 BY <1>2, <4>2
        <5>2. g[i] = IF i = 0 THEN 0 ELSE g[i - 1] * base + DigitOf(digits[i])
          <6> HIDE DEF f
          <6> QED BY <2>3, <5>1 DEF Values
        <5>3. f[i] = g[i] BY <4>2
        <5>4. i # 0 => f[i - 1] = g[i - 1] BY <1>2, <5>1
        <5> QED BY <5>2, <5>3, <5>4
      <4> QED BY <4>1, <4>2
    <3>2. f = [i \in 0 .. m |-> f[i]] OBVIOUS
    <3> HIDE DEF f
    <3> QED BY <3>1, <3>2 DEF Values
  <2> QED BY <1>2, <2>4
<1> QED BY <1>3, <1>4

LEMMA ValuesAgree ==
  ASSUME NEW d, NEW e, NEW base \in Nat, NEW n \in Nat, NEW m \in Nat, n <= m,
         SameUpTo(d, e, n), NEW f, Values(f, d, base, n), NEW g, Values(g, e, base, m)
  PROVE  f[n] \in Int /\ f[n] = g[n]
<1> DEFINE Bad == {i \in 0 .. n : ~ (f[i] \in Int /\ f[i] = g[i])}
<1> SUFFICES ASSUME Bad # {} PROVE FALSE OBVIOUS
<1>1. PICK k \in Bad : \A i \in Bad : ~ (i < k)
  <2>1. Bad \subseteq Nat OBVIOUS
  <2> HIDE DEF Bad
  <2> QED BY <2>1, LeastNumber
<1>2. k \in 0 .. n /\ ~ (f[k] \in Int /\ f[k] = g[k]) OBVIOUS
<1>3. f[k] = IF k = 0 THEN 0 ELSE f[k - 1] * base + DigitOf(d[k])
  <2> HIDE DEF Bad
  <2> QED BY <1>2 DEF Values
<1>4. g[k] = IF k = 0 THEN 0 ELSE g[k - 1] * base + DigitOf(e[k])
  <2>1. k \in 0 .. m BY <1>2
  <2> HIDE DEF Bad
  <2> QED BY <2>1 DEF Values
<1>5. k # 0 BY <1>2, <1>3, <1>4
<1>6. f[k - 1] \in Int /\ f[k - 1] = g[k - 1]
  <2>1. k - 1 \in 0 .. n /\ k - 1 < k BY <1>2, <1>5
  <2>2. k - 1 \notin Bad BY <1>1, <2>1
  <2> QED BY <2>1, <2>2
<1>7. d[k] = e[k] BY <1>2, <1>5 DEF SameUpTo
<1>8. f[k] \in Int
  <2> HIDE DEF Bad
  <2> QED BY <1>3, <1>5, <1>6, DigitOfType
<1>9. f[k] = g[k]
  <2> HIDE DEF Bad
  <2> QED BY <1>3, <1>4, <1>5, <1>6, <1>7
<1> QED BY <1>2, <1>8, <1>9

LEMMA ValueIsLast ==
  ASSUME NEW S, NEW digits \in Seq(S), NEW base \in Nat
  PROVE  \E f : Values(f, digits, base, Len(digits)) /\ Value(digits, base) = f[Len(digits)]
<1> DEFINE v == CHOOSE f : f = [i \in 0 .. Len(digits) |->
                   IF i = 0 THEN 0 ELSE f[i - 1] * base + DigitOf(digits[i])]
<1>1. Len(digits) \in Nat OBVIOUS
<1>2. \E f : Values(f, digits, base, Len(digits)) BY <1>1, ValuesExist
<1>3. v = [i \in 0 .. Len(digits) |->
             IF i = 0 THEN 0 ELSE v[i - 1] * base + DigitOf(digits[i])]
  BY <1>2, Zenon DEF Values
<1>4. Value(digits, base) = v[Len(digits)] BY Zenon DEF Value
<1>5. Values(v, digits, base, Len(digits))
  <2> HIDE DEF v
  <2> QED BY <1>3 DEF Values
<1> HIDE DEF v
<1> QED BY <1>4, <1>5

LEMMA ValueType ==
  ASSUME NEW S, NEW digits \in Seq(S), NEW base \in Nat
  PROVE  Value(digits, base) \in Int
<1>1. PICK f : Values(f, digits, base, Len(digits)) /\ Value(digits, base) = f[Len(digits)]
  BY ValueIsLast
<1>2. Len(digits) \in Nat OBVIOUS
<1>3. SameUpTo(digits, digits, Len(digits)) BY DEF SameUpTo
<1> QED BY <1>1, <1>2, <1>3, ValuesAgree

LEMMA ValueOfNothing ==
  ASSUME NEW base \in Nat
  PROVE  Value(<<>>, base) = 0
<1>1. <<>> \in Seq({}) /\ Len(<<>>) = 0 OBVIOUS
<1>2. PICK f : Values(f, <<>>, base, 0) /\ Value(<<>>, base) = f[0]
  <2> DEFINE e == <<>>
  <2>1. PICK f : Values(f, e, base, Len(e)) /\ Value(e, base) = f[Len(e)]
    <3> HIDE DEF e
    <3> QED BY <1>1, ValueIsLast DEF e
  <2> QED BY <1>1, <2>1
<1>3. f[0] = 0 BY <1>2 DEF Values
<1> QED BY <1>2, <1>3

LEMMA ValueOfMore ==
  ASSUME NEW S, NEW r \in Seq(S), NEW c \in S, NEW base \in Nat
  PROVE  Value(Append(r, c), base) = Value(r, base) * base + DigitOf(c)
<1> DEFINE s == Append(r, c)
<1>1. s \in Seq(S) /\ Len(s) = Len(r) + 1 /\ Len(r) \in Nat /\ s[Len(s)] = c
      /\ \A i \in 1 .. Len(r) : r[i] = s[i]
  OBVIOUS
<1> HIDE DEF s
<1>2. PICK f : Values(f, r, base, Len(r)) /\ Value(r, base) = f[Len(r)] BY ValueIsLast
<1>3. PICK g : Values(g, s, base, Len(s)) /\ Value(s, base) = g[Len(s)] BY <1>1, ValueIsLast
<1>4. f[Len(r)] = g[Len(r)]
  <2> DEFINE n == Len(r)
             m == Len(s)
  <2>1. n \in Nat /\ m \in Nat /\ n <= m /\ SameUpTo(r, s, n) BY <1>1 DEF SameUpTo
  <2>2. Values(f, r, base, n) /\ Values(g, s, base, m) BY <1>2, <1>3
  <2>3. f[n] = g[n]
    <3> HIDE DEF n, m
    <3> QED BY <2>1, <2>2, ValuesAgree
  <2> QED BY <2>3
<1>5. g[Len(s)] = g[Len(s) - 1] * base + DigitOf(s[Len(s)])
  <2>1. Len(s) \in 0 .. Len(s) /\ Len(s) # 0 BY <1>1
  <2> QED BY <1>3, <2>1 DEF Values
<1>6. Len(s) - 1 = Len(r) BY <1>1
<1> QED BY <1>1, <1>2, <1>3, <1>4, <1>5, <1>6 DEF s

(* f gives the digits of the numbers up to n, the last digit first. *)
Remainders(f, n, base) ==
  f = [k \in 0 .. n |->
         <<Digits[(k % base) + 1]>> \o (IF k < base THEN <<>> ELSE f[k \div base])]

(* A text of digits that are those of k when they are turned around. *)
DigitsOf(s, k, base) ==
  s \in Seq(DigitChars) /\ Len(s) > 0 /\ Value(Reverse(s), base) = k

LEMMA BaseArithmetic ==
  ASSUME NEW base \in {10, 16}, NEW k \in Nat
  PROVE  /\ k % base \in 0 .. 15 /\ k \div base \in Nat
         /\ k = (k \div base) * base + (k % base)
         /\ k < base => k % base = k
         /\ k >= base => k \div base < k
<1>1. CASE base = 10 BY <1>1
<1>2. CASE base = 16 BY <1>2
<1> QED BY <1>1, <1>2

LEMMA RemaindersExist ==
  ASSUME NEW base \in {10, 16}, NEW n \in Nat
  PROVE  \E f : Remainders(f, n, base)
<1> DEFINE Bad == {m \in Nat : ~ \E f : Remainders(f, m, base)}
<1> SUFFICES ASSUME Bad # {} PROVE FALSE OBVIOUS
<1>1. PICK m \in Bad : \A k \in Bad : ~ (k < m)
  <2> HIDE DEF Bad
  <2> QED BY LeastNumber DEF Bad
<1>2. m \in Nat /\ ~ \E f : Remainders(f, m, base) OBVIOUS
<1>3. CASE m = 0
  <2> DEFINE f == [k \in 0 .. 0 |-> <<Digits[(k % base) + 1]>> \o <<>>]
  <2>1. \A k \in 0 .. 0 : k < base OBVIOUS
  <2>2. Remainders(f, 0, base) BY <2>1 DEF Remainders
  <2> QED BY <1>2, <1>3, <2>2
<1>4. CASE m # 0
  <2>1. m - 1 \in Nat /\ m - 1 < m BY <1>2, <1>4
  <2>2. m - 1 \notin Bad BY <1>1, <2>1
  <2>3. PICK g : Remainders(g, m - 1, base) BY <2>1, <2>2
  <2> DEFINE Step(h, k) == <<Digits[(k % base) + 1]>> \o (IF k < base THEN <<>> ELSE h[k \div base])
             f == [k \in 0 .. m |-> IF k = m THEN Step(g, m) ELSE g[k]]
  <2>4. \A k \in 0 .. m - 1 : g[k] = Step(g, k) BY <2>3 DEF Remainders
  <2>5. ASSUME NEW k \in 0 .. m PROVE f[k] = Step(f, k)
    <3>1. k >= base => k \div base \in 0 .. m - 1 BY <1>2, BaseArithmetic
    <3>2. f[k] = IF k = m THEN Step(g, m) ELSE g[k] OBVIOUS
    <3>3. f[k] = Step(g, k)
      <4>1. k # m => k \in 0 .. m - 1 BY <1>2
      <4> HIDE DEF f, Step
      <4> QED BY <2>4, <3>2, <4>1
    <3>4. \A j \in 0 .. m - 1 : f[j] = g[j] BY <1>2
    <3>5. k >= base => f[k \div base] = g[k \div base]
      <4> HIDE DEF f
      <4> QED BY <3>1, <3>4
    <3>6. Step(f, k) = Step(g, k)
      <4>1. k < base \/ k >= base OBVIOUS
      <4> HIDE DEF f
      <4> QED BY <3>5, <4>1
    <3> QED BY <3>3, <3>6
  <2>6. f = [k \in 0 .. m |-> f[k]] OBVIOUS
  <2>7. f = [k \in 0 .. m |-> Step(f, k)]
    <3> HIDE DEF f, Step
    <3> QED BY <2>5, <2>6
  <2>8. Remainders(f, m, base)
    <3> HIDE DEF f
    <3> QED BY <2>7 DEF Remainders
  <2> QED BY <1>2, <2>8
<1> QED BY <1>3, <1>4

LEMMA DigitFirst ==
  ASSUME NEW S, NEW c \in S, NEW s \in Seq(S)
  PROVE  /\ <<c>> \o s \in Seq(S) /\ Reverse(<<c>> \o s) = Append(Reverse(s), c)
         /\ Reverse(s) \in Seq(S) /\ Len(Reverse(s)) = Len(s)
<1> DEFINE t == <<c>> \o s
<1>1. t \in Seq(S) /\ Len(t) = Len(s) + 1 /\ Len(s) \in Nat /\ t[1] = c
      /\ \A i \in 1 .. Len(s) : t[i + 1] = s[i]
  OBVIOUS
<1>2. Reverse(s) \in Seq(S) /\ Len(Reverse(s)) = Len(s)
      /\ \A i \in 1 .. Len(s) : Reverse(s)[i] = s[Len(s) - i + 1]
  BY DEF Reverse
<1>3. Reverse(t) \in Seq(S) /\ Len(Reverse(t)) = Len(t)
      /\ \A i \in 1 .. Len(t) : Reverse(t)[i] = t[Len(t) - i + 1]
  <2> HIDE DEF t
  <2> QED BY <1>1 DEF Reverse
<1>4. Reverse(t) = Append(Reverse(s), c)
  <2> DEFINE a == Append(Reverse(s), c)
             b == Reverse(t)
  <2>1. a \in Seq(S) /\ Len(a) = Len(s) + 1 /\ a[Len(s) + 1] = c
        /\ \A i \in 1 .. Len(s) : a[i] = s[Len(s) - i + 1]
    BY <1>2
  <2>2. ASSUME NEW i \in 1 .. Len(s) + 1 PROVE a[i] = b[i]
    <3>1. b[i] = t[Len(s) + 1 - i + 1]
      <4> HIDE DEF t
      <4> QED BY <1>1, <1>3
    <3>2. CASE i = Len(s) + 1
      <4>1. Len(s) + 1 - i + 1 = 1 BY <1>1, <3>2
      <4> HIDE DEF t, a, b
      <4> QED BY <1>1, <2>1, <3>1, <3>2, <4>1
    <3>3. CASE i # Len(s) + 1
      <4>1. i \in 1 .. Len(s) /\ Len(s) - i + 1 \in 1 .. Len(s)
            /\ Len(s) + 1 - i + 1 = (Len(s) - i + 1) + 1
        BY <1>1, <3>3
      <4> HIDE DEF t, a, b
      <4> QED BY <1>1, <2>1, <3>1, <4>1
    <3> QED BY <3>2, <3>3
  <2>3. b \in Seq(S) /\ Len(b) = Len(s) + 1
    <3> HIDE DEF t
    <3> QED BY <1>1, <1>3
  <2>4. a = b
    <3> HIDE DEF a, b, t
    <3> QED BY <2>1, <2>2, <2>3
  <2> QED BY <2>4
<1> QED BY <1>1, <1>2, <1>4

LEMMA RemaindersAreDigits ==
  ASSUME NEW base \in {10, 16}, NEW n \in Nat, NEW f, Remainders(f, n, base)
  PROVE  DigitsOf(f[n], n, base)
<1> DEFINE Bad == {k \in 0 .. n : ~ DigitsOf(f[k], k, base)}
<1> SUFFICES ASSUME Bad # {} PROVE FALSE OBVIOUS
<1>1. PICK k \in Bad : \A i \in Bad : ~ (i < k)
  <2>1. Bad \subseteq Nat OBVIOUS
  <2> HIDE DEF Bad
  <2> QED BY <2>1, LeastNumber
<1>2. k \in 0 .. n /\ ~ DigitsOf(f[k], k, base) OBVIOUS
<1> DEFINE c == Digits[(k % base) + 1]
           q == k \div base
           s == IF k < base THEN <<>> ELSE f[q]
<1>3. f[k] = <<c>> \o s
  <2> HIDE DEF Bad
  <2> QED BY <1>2 DEF Remainders
<1>4. k % base \in 0 .. 15 /\ q \in Nat /\ k = q * base + (k % base)
      /\ (k < base => k % base = k) /\ (k >= base => q < k)
  BY <1>2, BaseArithmetic
<1>5. c \in DigitChars /\ DigitOf(c) = k % base BY <1>4, DigitsOfNumbers
<1>6. s \in Seq(DigitChars) /\ Reverse(s) \in Seq(DigitChars)
      /\ Value(Reverse(s), base) * base + (k % base) = k
  <2>1. CASE k < base
    <3>1. s = <<>> BY <2>1
    <3>2. Reverse(<<>>) = <<>> BY DEF Reverse
    <3>3. Value(<<>>, base) = 0 BY ValueOfNothing
    <3>4. 0 * base + (k % base) = k BY <1>2, <1>4, <2>1
    <3>5. Value(Reverse(s), base) = 0
      <4> HIDE DEF s
      <4> QED BY <3>1, <3>2, <3>3
    <3>6. s \in Seq(DigitChars) /\ Reverse(s) \in Seq(DigitChars)
      <4>1. <<>> \in Seq(DigitChars) OBVIOUS
      <4> HIDE DEF s
      <4> QED BY <3>1, <3>2, <4>1
    <3> HIDE DEF s, Bad
    <3> QED BY <3>4, <3>5, <3>6
  <2>2. CASE ~ (k < base)
    <3>1. q \in 0 .. n /\ q < k BY <1>2, <1>4, <2>2
    <3>2. q \notin Bad BY <1>1, <3>1
    <3>3. DigitsOf(f[q], q, base) BY <3>1, <3>2
    <3>4. s = f[q] BY <2>2
    <3> HIDE DEF s, q, Bad
    <3> QED BY <1>4, <1>5, <3>3, <3>4, DigitFirst DEF DigitsOf
  <2> QED BY <2>1, <2>2
<1>7. DigitsOf(f[k], k, base)
  <2> HIDE DEF s, c, q, Bad
  <2>1. f[k] \in Seq(DigitChars) /\ Reverse(f[k]) = Append(Reverse(s), c)
    BY <1>3, <1>5, <1>6, DigitFirst
  <2>2. Len(f[k]) > 0 BY <1>3, <1>5, <1>6
  <2>3. Value(Append(Reverse(s), c), base) = Value(Reverse(s), base) * base + DigitOf(c)
    BY <1>5, <1>6, ValueOfMore
  <2> QED BY <1>5, <1>6, <2>1, <2>2, <2>3 DEF DigitsOf
<1> QED BY <1>2, <1>7

LEMMA LastFirstIsDigits ==
  ASSUME NEW base \in {10, 16}, NEW n \in Nat
  PROVE  /\ DigitsOf(LastFirst(n, base), n, base)
         /\ n < base => Len(LastFirst(n, base)) = 1
<1> DEFINE d == CHOOSE f : f = [k \in 0 .. n |->
                   <<Digits[(k % base) + 1]>> \o (IF k < base THEN <<>> ELSE f[k \div base])]
<1>1. \E f : Remainders(f, n, base) BY RemaindersExist
<1>2. d = [k \in 0 .. n |->
             <<Digits[(k % base) + 1]>> \o (IF k < base THEN <<>> ELSE d[k \div base])]
  BY <1>1, Zenon DEF Remainders
<1>3. LastFirst(n, base) = d[n] BY Zenon DEF LastFirst
<1>4. Remainders(d, n, base)
  <2> HIDE DEF d
  <2> QED BY <1>2 DEF Remainders
<1>5. n < base => Len(d[n]) = 1
  <2>1. n < base => d[n] = <<Digits[(n % base) + 1]>> \o <<>>
    <3> HIDE DEF d
    <3> QED BY <1>4 DEF Remainders
  <2>2. ASSUME NEW x PROVE Len(<<x>> \o <<>>) = 1
    <3>1. <<x>> \in Seq({x}) /\ <<>> \in Seq({x}) OBVIOUS
    <3> QED BY <3>1
  <2> HIDE DEF d
  <2> QED BY <2>1, <2>2
<1> HIDE DEF d
<1> QED BY <1>3, <1>4, <1>5, RemaindersAreDigits

NumberChars == DigitChars \cup {"-"}

LEMMA HeadBefore ==
  ASSUME NEW S, NEW c \in S, NEW s \in Seq(S)
  PROVE  /\ <<c>> \o s \in Seq(S) /\ Len(<<c>> \o s) = Len(s) + 1
         /\ Head(<<c>> \o s) = c /\ Tail(<<c>> \o s) = s
<1> DEFINE t == <<c>> \o s
<1>1. t \in Seq(S) /\ Len(t) = Len(s) + 1 /\ Len(s) \in Nat /\ t[1] = c
      /\ \A i \in 1 .. Len(s) : t[i + 1] = s[i]
  OBVIOUS
<1>2. Tail(t) \in Seq(S) /\ Len(Tail(t)) = Len(s) /\ \A i \in 1 .. Len(s) : Tail(t)[i] = t[i + 1]
  <2> HIDE DEF t
  <2> QED BY <1>1
<1>3. Tail(t) = s
  <2> DEFINE u == Tail(t)
  <2>1. u \in Seq(S) /\ Len(u) = Len(s) /\ \A i \in 1 .. Len(s) : u[i] = s[i]
    <3> HIDE DEF t
    <3> QED BY <1>1, <1>2
  <2> HIDE DEF u, t
  <2>2. u = s BY <2>1
  <2> QED BY <2>2 DEF u
<1> QED BY <1>1, <1>3

LEMMA OneTurned ==
  ASSUME NEW S, NEW s \in Seq(S), Len(s) = 1
  PROVE  <<Head(s)>> \o Reverse(Tail(s)) = Reverse(s)
<1>1. Tail(s) = <<>> OBVIOUS
<1>2. Reverse(<<>>) = <<>> BY DEF Reverse
<1>3. Reverse(s) \in Seq(S) /\ Len(Reverse(s)) = 1 /\ Reverse(s)[1] = s[1] BY DEF Reverse
<1>4. <<s[1]>> = Reverse(s) BY <1>3
<1>5. <<Head(s)>> \o <<>> = <<s[1]>> OBVIOUS
<1> QED BY <1>1, <1>2, <1>4, <1>5

(* What kernel_itoa makes of a number. *)
TellsNumber(text, num, base) ==
  /\ text \in Seq(NumberChars)
  /\ num >= 0 => Value(text, base) = num /\ Head(text) # "-"
  /\ num < 0 /\ base = 10 => -Value(Tail(text), base) = num /\ Head(text) = "-"

LEMMA ItoaTellsNumber ==
  ASSUME NEW num \in Int, NEW base \in {10, 16}
  PROVE  TellsNumber(KernelItoa(num, base), num, base)
<1> DEFINE n == IF num < 0 THEN -num ELSE num
           L == LastFirst(n, base)
           p == (IF num < 0 /\ base = 10 THEN <<"-">> ELSE <<>>) \o L
           text == KernelItoa(num, base)
<1>1. n \in Nat OBVIOUS
<1>2. L \in Seq(DigitChars) /\ Len(L) > 0 /\ Value(Reverse(L), base) = n
      /\ (n < base => Len(L) = 1)
  <2> HIDE DEF n
  <2> QED BY <1>1, LastFirstIsDigits DEF DigitsOf
<1>3. text = IF num > 0 THEN Reverse(p) ELSE <<Head(p)>> \o Reverse(Tail(p))
  BY DEF KernelItoa
<1>4. Reverse(L) \in Seq(DigitChars) /\ Len(Reverse(L)) = Len(L)
  <2> HIDE DEF L
  <2> QED BY <1>2 DEF Reverse
<1>5. Reverse(L) \in Seq(NumberChars) /\ Head(Reverse(L)) # "-"
  <2>1. Reverse(L)[1] \in DigitChars
    <3> HIDE DEF L
    <3> QED BY <1>2, <1>4
  <2>2. Head(Reverse(L)) = Reverse(L)[1]
    <3> HIDE DEF L
    <3> QED BY <1>4
  <2> HIDE DEF L
  <2> QED BY <1>4, <2>1, <2>2, DigitsOfNumbers DEF NumberChars
<1>6. ~ (num < 0 /\ base = 10) => p = L
  <2> HIDE DEF L
  <2> QED BY <1>2
<1>7. CASE num > 0
  <2>1. n = num BY <1>7
  <2>2. p = L /\ text = Reverse(p)
    <3> HIDE DEF p, L, text
    <3> QED BY <1>3, <1>6, <1>7
  <2> HIDE DEF L, n, p, text
  <2> QED BY <1>2, <1>5, <1>7, <2>1, <2>2 DEF TellsNumber, text
<1>8. CASE num = 0
  <2>1. n = 0 /\ n < base BY <1>8
  <2>2. Len(L) = 1 BY <1>2, <2>1
  <2>3. text = <<Head(L)>> \o Reverse(Tail(L)) BY <1>3, <1>6, <1>8
  <2>4. text = Reverse(L)
    <3> HIDE DEF L, text
    <3> QED BY <1>2, <2>2, <2>3, OneTurned
  <2> HIDE DEF L, n, text
  <2> QED BY <1>2, <1>5, <1>8, <2>1, <2>4 DEF TellsNumber, text
<1>9. CASE num < 0 /\ base = 10
  <2>1. p = <<"-">> \o L /\ n = -num BY <1>9
  <2>2. "-" \in NumberChars /\ L \in Seq(NumberChars)
    <3> HIDE DEF L
    <3> QED BY <1>2 DEF NumberChars
  <2>3. Head(p) = "-" /\ Tail(p) = L
    <3> HIDE DEF L, p
    <3> QED BY <2>1, <2>2, HeadBefore
  <2>4. text = <<"-">> \o Reverse(L)
    <3>1. ~ (num > 0) BY <1>9
    <3>2. text = <<Head(p)>> \o Reverse(Tail(p))
      <4> HIDE DEF p, L, text
      <4> QED BY <1>3, <3>1
    <3> HIDE DEF p, L, text
    <3> QED BY <2>3, <3>2
  <2>5. text \in Seq(NumberChars) /\ Head(text) = "-" /\ Tail(text) = Reverse(L)
    <3> HIDE DEF L, text
    <3> QED BY <1>5, <2>2, <2>4, HeadBefore
  <2>6. -Value(Reverse(L), base) = num
    <3> HIDE DEF L, n
    <3> QED BY <1>2, <1>9, <2>1
  <2>7. -Value(Tail(text), base) = num BY <2>5, <2>6
  <2> HIDE DEF text
  <2> QED BY <1>9, <2>5, <2>7 DEF TellsNumber, text
<1>10. CASE num < 0 /\ base # 10
  <2>1. text = <<Head(L)>> \o Reverse(Tail(L)) BY <1>3, <1>6, <1>10
  <2>2. Head(L) \in NumberChars /\ Tail(L) \in Seq(NumberChars)
    <3> HIDE DEF L
    <3> QED BY <1>2 DEF NumberChars
  <2>3. Reverse(Tail(L)) \in Seq(NumberChars)
    <3> HIDE DEF L
    <3> QED BY <2>2, DigitFirst DEF Reverse
  <2>4. text \in Seq(NumberChars)
    <3> HIDE DEF L, text
    <3> QED BY <2>1, <2>2, <2>3, HeadBefore
  <2> HIDE DEF text
  <2> QED BY <1>10, <2>4 DEF TellsNumber, text
<1> QED BY <1>7, <1>8, <1>9, <1>10

-----------------------------------------------------------------------------
(* The texts of a line of the log (Klib). *)
TextChars == Letter \cup {"%", "d", "x", "c", "s"} \cup NumberChars

Text(a) == SubSeq(buf, a.from, a.to)

Tells(a, text) ==
  /\ a.conv = "s" => text = a.arg
  /\ a.conv = "c" => text = <<a.arg>>
  /\ a.conv = "x" /\ a.arg >= 0 => Value(text, 16) = a.arg
  /\ a.conv = "d" => a.arg = IF Head(text) = "-" THEN -Value(Tail(text), 10)
                             ELSE Value(text, 10)

Argument == Number \cup Letter \cup Seq(Letter)

Shown == [conv : {"d", "x", "c", "s"}, arg : Argument, from : Nat \ {0}, to : Nat]

TextsInv ==
  /\ buf \in Seq(TextChars) /\ shown \in Seq(Shown)
  /\ \A i \in DOMAIN shown : shown[i].to <= Len(buf) /\ Tells(shown[i], Text(shown[i]))

SamePart(b, t, f, u) == SubSeq(b \o t, f, u) = SubSeq(b, f, u)

LEMMA PartOfLonger ==
  ASSUME NEW S, NEW b \in Seq(S), NEW t \in Seq(S), NEW f \in Nat \ {0}, NEW u \in Nat, u <= Len(b)
  PROVE  SamePart(b, t, f, u)
<1>1. Len(b) \in Nat /\ \A i \in 1 .. Len(b) : (b \o t)[i] = b[i] OBVIOUS
<1>2. \A i \in 1 .. (u - f + 1) : i + f - 1 \in 1 .. Len(b) BY <1>1
<1>3. SubSeq(b \o t, f, u) = [i \in 1 .. (u - f + 1) |-> (b \o t)[i + f - 1]] OBVIOUS
<1>4. SubSeq(b, f, u) = [i \in 1 .. (u - f + 1) |-> b[i + f - 1]] OBVIOUS
<1> QED BY <1>1, <1>2, <1>3, <1>4 DEF SamePart

LEMMA PartBehind ==
  ASSUME NEW S, NEW b \in Seq(S), NEW t \in Seq(S)
  PROVE  SubSeq(b \o t, Len(b) + 1, Len(b \o t)) = t
<1> DEFINE u == SubSeq(b \o t, Len(b) + 1, Len(b \o t))
<1>1. Len(b) \in Nat /\ Len(t) \in Nat /\ Len(b \o t) = Len(b) + Len(t)
      /\ \A i \in 1 .. Len(t) : (b \o t)[Len(b) + i] = t[i]
  OBVIOUS
<1>2. u \in Seq(S) /\ Len(u) = Len(t) /\ \A i \in 1 .. Len(t) : u[i] = (b \o t)[Len(b) + i]
  BY <1>1
<1> HIDE DEF u
<1>3. u = t BY <1>1, <1>2
<1> QED BY <1>3 DEF u

LEMMA PutKeepsTexts ==
  ASSUME TextsInv, NEW c \in {"d", "x", "c", "s"}, NEW arg \in Argument, NEW text \in Seq(TextChars),
         Put(c, arg, text),
         Tells([conv |-> c, arg |-> arg, from |-> Len(buf) + 1, to |-> Len(buf')], text)
  PROVE  TextsInv'
<1> DEFINE a == [conv |-> c, arg |-> arg, from |-> Len(buf) + 1, to |-> Len(buf')]
<1>1. buf \in Seq(TextChars) /\ shown \in Seq(Shown) /\ Len(buf) \in Nat BY DEF TextsInv
<1>2. buf' = buf \o text /\ shown' = Append(shown, a) BY DEF Put
<1>3. buf' \in Seq(TextChars) /\ Len(buf') \in Nat /\ Len(buf) <= Len(buf')
  BY <1>1, <1>2
<1>4. a \in Shown BY <1>1, <1>3 DEF Shown
<1>5. shown' \in Seq(Shown) /\ Len(shown') = Len(shown) + 1 /\ shown'[Len(shown) + 1] = a
      /\ DOMAIN shown' = 1 .. Len(shown) + 1 /\ DOMAIN shown = 1 .. Len(shown) /\ Len(shown) \in Nat
      /\ \A i \in 1 .. Len(shown) : shown'[i] = shown[i]
  <2> HIDE DEF a
  <2> QED BY <1>1, <1>2, <1>4
<1>6. SubSeq(buf', a.from, a.to) = text BY <1>1, <1>2, PartBehind
<1>7. ASSUME NEW i \in DOMAIN shown'
      PROVE  shown'[i].to <= Len(buf') /\ Tells(shown'[i], SubSeq(buf', shown'[i].from, shown'[i].to))
  <2>1. CASE i = Len(shown) + 1
    <3>1. shown'[i] = a BY <1>5, <2>1
    <3>2. a.to <= Len(buf') BY <1>3
    <3>3. Tells(a, text) OBVIOUS
    <3> HIDE DEF a
    <3> QED BY <1>6, <3>1, <3>2, <3>3
  <2>2. CASE i # Len(shown) + 1
    <3>1. i \in DOMAIN shown /\ shown'[i] = shown[i] /\ shown[i] \in Shown
      <4>1. i \in 1 .. Len(shown) BY <1>5, <2>2
      <4> QED BY <1>1, <1>5, <4>1
    <3> PICK b \in Shown : b = shown[i] BY <3>1
    <3>2. b.to <= Len(buf) /\ Tells(b, SubSeq(buf, b.from, b.to)) BY <3>1 DEF TextsInv, Text
    <3>3. b.from \in Nat \ {0} /\ b.to \in Nat BY DEF Shown
    <3>4. SubSeq(buf', b.from, b.to) = SubSeq(buf, b.from, b.to)
      <4> PICK f \in Nat \ {0} : f = b.from BY <3>3
      <4> PICK u \in Nat : u = b.to BY <3>3
      <4>0. u <= Len(buf) BY <3>2
      <4>1. SamePart(buf, text, f, u) BY <1>1, <4>0, PartOfLonger
      <4> QED BY <1>2, <4>1 DEF SamePart
    <3>5. b.to <= Len(buf') BY <1>1, <1>3, <3>2, <3>3
    <3> QED BY <3>1, <3>2, <3>4, <3>5
  <2> QED BY <2>1, <2>2
<1> QED BY <1>3, <1>5, <1>7 DEF TextsInv, Text

LEMMA NumberIsTold ==
  ASSUME TextsInv, NEW c \in {"d", "x"}, NEW n \in Number, NEW base, base = IF c = "d" THEN 10 ELSE 16,
         Put(c, n, KernelItoa(n, base))
  PROVE  TextsInv'
<1> DEFINE text == KernelItoa(n, base)
           a == [conv |-> c, arg |-> n, from |-> Len(buf) + 1, to |-> Len(buf')]
<1>1. n \in Int /\ base \in {10, 16} BY KlibAssumption
<1>2. TellsNumber(text, n, base) BY <1>1, ItoaTellsNumber
<1>3. text \in Seq(TextChars)
  <2>1. NumberChars \subseteq TextChars BY DEF TextChars
  <2> HIDE DEF text
  <2> QED BY <1>2, <2>1 DEF TellsNumber
<1>4. a.conv = c /\ a.arg = n OBVIOUS
<1>5. c = "x" /\ n >= 0 => Value(text, 16) = n
  <2> HIDE DEF text
  <2> QED BY <1>2 DEF TellsNumber
<1>6. c = "d" => n = IF Head(text) = "-" THEN -Value(Tail(text), 10) ELSE Value(text, 10)
  <2> HIDE DEF text
  <2>1. SUFFICES ASSUME c = "d"
                 PROVE  n = IF Head(text) = "-" THEN -Value(Tail(text), 10) ELSE Value(text, 10)
    OBVIOUS
  <2>2. base = 10 BY <2>1
  <2> QED BY <1>1, <1>2, <2>2 DEF TellsNumber
<1>7. Tells(a, text)
  <2>1. c # "s" /\ c # "c" OBVIOUS
  <2> HIDE DEF text, a
  <2> QED BY <1>4, <1>5, <1>6, <2>1 DEF Tells
<1>8. c \in {"d", "x", "c", "s"} /\ n \in Argument BY DEF Argument
<1> QED BY <1>3, <1>7, <1>8, PutKeepsTexts

LEMMA CharactersAreTold ==
  ASSUME TextsInv, NEW c \in {"c", "s"}, NEW arg, NEW text \in Seq(Letter), Put(c, arg, text),
         \/ c = "c" /\ arg \in Letter /\ text = <<arg>>
         \/ c = "s" /\ arg = text
  PROVE  TextsInv'
<1> DEFINE a == [conv |-> c, arg |-> arg, from |-> Len(buf) + 1, to |-> Len(buf')]
<1>1. a.conv = c /\ a.arg = arg OBVIOUS
<1>2. Tells(a, text)
  <2> HIDE DEF a
  <2> QED BY <1>1 DEF Tells
<1>3. text \in Seq(TextChars) BY DEF TextChars
<1>4. c \in {"d", "x", "c", "s"} /\ arg \in Argument BY DEF Argument
<1> QED BY <1>2, <1>3, <1>4, PutKeepsTexts

LEMMA VsprintfKeepsTexts ==
  ASSUME TextsInv, KernelVsprintf
  PROVE  TextsInv'
<1>1. PICK c \in Letter \cup {"%", "d", "x", "c", "s"} : Plain(c) \/ Convert(c)
  BY DEF KernelVsprintf
<1>2. CASE Plain(c)
  <2>1. shown' = shown /\ (buf' = buf \/ buf' = Append(buf, c)) BY <1>2 DEF Plain
  <2>2. buf \in Seq(TextChars) /\ c \in TextChars BY DEF TextsInv, TextChars
  <2>3. buf' = buf \/ buf' = buf \o <<c>> BY <2>1, <2>2
  <2>4. CASE buf' = buf BY <2>1, <2>4 DEF TextsInv, Text
  <2>5. CASE buf' = buf \o <<c>>
    <3>1. buf' \in Seq(TextChars) /\ Len(buf) \in Nat /\ Len(buf') = Len(buf) + 1 /\ <<c>> \in Seq(TextChars)
      BY <2>2, <2>5
    <3>2. ASSUME NEW i \in DOMAIN shown
          PROVE  shown[i].to <= Len(buf') /\ Tells(shown[i], SubSeq(buf', shown[i].from, shown[i].to))
      <4> PICK b \in Shown : b = shown[i] BY DEF TextsInv
      <4>1. b.to <= Len(buf) /\ Tells(b, SubSeq(buf, b.from, b.to)) BY DEF TextsInv, Text
      <4>2. b.from \in Nat \ {0} /\ b.to \in Nat BY DEF Shown
      <4>3. SubSeq(buf', b.from, b.to) = SubSeq(buf, b.from, b.to)
        <5> PICK f \in Nat \ {0} : f = b.from BY <4>2
        <5> PICK u \in Nat : u = b.to BY <4>2
        <5>0. u <= Len(buf) BY <4>1
        <5>1. SamePart(buf, <<c>>, f, u) BY <2>2, <3>1, <5>0, PartOfLonger
        <5> QED BY <2>5, <5>1 DEF SamePart
      <4>4. b.to <= Len(buf') BY <3>1, <4>1, <4>2
      <4> QED BY <4>1, <4>3, <4>4
    <3>3. shown' \in Seq(Shown) BY <2>1 DEF TextsInv
    <3>4. \A i \in DOMAIN shown' : shown'[i].to <= Len(buf') /\ Tells(shown'[i], SubSeq(buf', shown'[i].from, shown'[i].to))
      BY <2>1, <3>2
    <3> QED BY <3>1, <3>3, <3>4 DEF TextsInv, Text
  <2> QED BY <2>3, <2>4, <2>5
<1>3. CASE Convert(c)
  <2>1. CASE c = "d"
    <3>1. PICK n \in Number : Put("d", n, KernelItoa(n, 10)) BY <1>3, <2>1 DEF Convert
    <3> DEFINE base == 10
    <3>2. base = IF "d" = "d" THEN 10 ELSE 16 OBVIOUS
    <3>3. "d" \in {"d", "x"} OBVIOUS
    <3>4. Put("d", n, KernelItoa(n, base)) BY <3>1
    <3> HIDE DEF base
    <3> QED BY <3>2, <3>3, <3>4, NumberIsTold
  <2>2. CASE c = "x"
    <3>1. PICK n \in Number : Put("x", n, KernelItoa(n, 16)) BY <1>3, <2>2 DEF Convert
    <3> DEFINE base == 16
    <3>2. base = IF "x" = "d" THEN 10 ELSE 16 OBVIOUS
    <3>3. "x" \in {"d", "x"} OBVIOUS
    <3>4. Put("x", n, KernelItoa(n, base)) BY <3>1
    <3> HIDE DEF base
    <3> QED BY <3>2, <3>3, <3>4, NumberIsTold
  <2>3. CASE c = "c"
    <3>1. PICK l \in Letter : Put("c", l, <<l>>) BY <1>3, <2>3 DEF Convert
    <3>2. <<l>> \in Seq(Letter) /\ "c" \in {"c", "s"} OBVIOUS
    <3> QED BY <3>1, <3>2, CharactersAreTold
  <2>4. CASE c = "s"
    <3>1. PICK s \in SeqOf(Letter, 2) : Put("s", s, s) BY <1>3, <2>4 DEF Convert
    <3>2. s \in Seq(Letter)
      <4>1. PICK m \in 0 .. 2 : s \in [1 .. m -> Letter] BY DEF SeqOf
      <4> QED BY <4>1
    <3>3. "s" \in {"c", "s"} OBVIOUS
    <3> QED BY <3>1, <3>2, <3>3, CharactersAreTold
  <2>5. CASE c \notin {"d", "x", "c", "s"}
    <3>1. UNCHANGED <<buf, shown>> BY <1>3, <2>5 DEF Convert
    <3> QED BY <3>1 DEF TextsInv, Text
  <2> QED BY <2>1, <2>2, <2>3, <2>4, <2>5
<1> QED BY <1>1, <1>2, <1>3

(* Every argument of a line of the log can be read from its text, however  *)
(* many the format asks for and whatever numbers they are: %d of any sign, *)
(* %x of those that are not negative (kernel_vsprintf, kernel_itoa).       *)
THEOREM TextsAreTold == ToolsSpec => []TextsTellArguments
<1>1. ToolsInit => TextsInv
  <2> SUFFICES ASSUME ToolsInit PROVE TextsInv OBVIOUS
  <2>1. buf = <<>> /\ shown = <<>> BY DEF ToolsInit, KlibInit
  <2>2. buf \in Seq(TextChars) /\ shown \in Seq(Shown) /\ DOMAIN shown = {} BY <2>1
  <2> QED BY <2>2 DEF TextsInv
<1>2. TextsInv /\ [ToolsNext]_toolVars => TextsInv'
  <2> SUFFICES ASSUME TextsInv, [ToolsNext]_toolVars PROVE TextsInv' OBVIOUS
  <2>1. KernelVsprintf \/ UNCHANGED <<buf, shown>>
    BY DEF ToolsNext, toolVars, NameTask, formatVars
  <2>2. CASE UNCHANGED <<buf, shown>> BY <2>2 DEF TextsInv, Text
  <2> QED BY <2>1, <2>2, VsprintfKeepsTexts
<1>3. TextsInv => TextsTellArguments BY DEF TextsInv, Text, Tells, TextsTellArguments
<1> QED BY <1>1, <1>2, <1>3, PTL DEF ToolsSpec

=============================================================================
