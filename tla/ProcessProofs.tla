--------------------------- MODULE ProcessProofs ---------------------------
(***************************************************************************)
(* Who owns which frame and which descriptor, for any number of tasks,     *)
(* frames and pages.                                                       *)
(*                                                                         *)
(* A call's local variables own what they name: the page not yet mapped,   *)
(* and the address space that is built or destroyed.  So the proof goes    *)
(* over the places of the model, <<task, <<kind, position>>>>, and what    *)
(* each of them holds; every action puts a free frame into an empty place, *)
(* takes one away, or moves frames between places.  Constant-level lemmas  *)
(* say what that does to ownership, and what a change of an entry of one   *)
(* frame does to an address space as memory_destroy_uvm walks it.          *)
(*                                                                         *)
(* The second part is about what address spaces hold.  It says in which    *)
(* frames a step can write entries: no other task's address space is in    *)
(* them.  So pages of programs stay where they are, and what fork copies,  *)
(* execve loads and sbrk adds is there when the call is done.              *)
(***************************************************************************)
EXTENDS Process, TLAPS, FiniteSetTheorems, WellFoundedInduction

-----------------------------------------------------------------------------
(* Positions in an address space: entry j of table i, the table itself     *)
(* behind its entries (j = EntryCnt), and the directory at the end.        *)
Pos(i, j) == i * (EntryCnt + 1) + j

LEMMA DivMod ==
  ASSUME NEW p \in Nat, NEW b \in Nat \ {0}
  PROVE  p \div b \in Nat /\ p % b \in 0 .. b - 1 /\ p = b * (p \div b) + (p % b)
OBVIOUS

LEMMA TimesGrows ==
  ASSUME NEW a \in Nat, NEW b \in Nat, NEW c \in Nat, a <= b
  PROVE  c * a <= c * b /\ c * a \in Nat /\ c * b \in Nat
OBVIOUS

LEMMA PosIsPlace ==
  ASSUME NEW i \in Index, NEW j \in 0 .. EntryCnt
  PROVE  /\ Pos(i, j) \in 0 .. LastPosition /\ Pos(i, j) < LastPosition
         /\ Pos(i, j) \div (EntryCnt + 1) = i
         /\ Pos(i, j) % (EntryCnt + 1) = j
         /\ Pos(i, j) <= Pos(i, EntryCnt)
<1>1. PICK e \in Nat \ {0} : e = EntryCnt BY MemoryAssumption
<1>2. PICK k \in Nat, m \in Nat : k = i /\ m = j /\ k < e /\ m <= e BY <1>1 DEF Index
<1>3. (k * (e + 1) + m) \div (e + 1) = k /\ (k * (e + 1) + m) % (e + 1) = m BY <1>2
<1>4. k * (e + 1) + (e + 1) <= e * (e + 1)
  <2>1. k + 1 <= e BY <1>2
  <2> QED BY <1>2, <2>1
<1>5. k * (e + 1) \in Nat /\ e * (e + 1) \in Nat BY <1>2
<1>6. k * (e + 1) + m < e * (e + 1) BY <1>2, <1>4, <1>5
<1> QED BY <1>1, <1>2, <1>3, <1>4, <1>5, <1>6 DEF Pos, LastPosition

LEMMA PlaceIsPos ==
  ASSUME NEW p \in 0 .. LastPosition, p # LastPosition
  PROVE  \E i \in Index, j \in 0 .. EntryCnt : p = Pos(i, j)
<1>1. PICK e \in Nat \ {0} : e = EntryCnt BY MemoryAssumption
<1>2. e * (e + 1) \in Nat BY <1>1
<1>3. p \in Nat /\ p < e * (e + 1) BY <1>1, <1>2 DEF LastPosition
<1>4. PICK b \in Nat \ {0} : b = e + 1 BY <1>1
<1>5. p \div b \in Nat /\ p % b \in 0 .. b - 1 /\ p = b * (p \div b) + (p % b)
  BY <1>3, <1>4, DivMod
<1>6. PICK i \in Nat, j \in Nat : i = p \div b /\ j = p % b /\ j < b /\ p = b * i + j
  BY <1>5
<1>7. i < e
  <2>1. SUFFICES ASSUME i >= e PROVE FALSE BY <1>1, <1>6
  <2>2. b * e <= b * i /\ b * i \in Nat BY <2>1, <1>1, <1>4, <1>6, TimesGrows
  <2>3. b * e = e * (e + 1) BY <1>1, <1>4
  <2> QED BY <2>2, <2>3, <1>2, <1>3, <1>6
<1>8. p = i * (e + 1) + j BY <1>4, <1>6, <1>1
<1>9. i \in Index /\ j \in 0 .. EntryCnt BY <1>1, <1>4, <1>6, <1>7 DEF Index
<1> QED BY <1>1, <1>8, <1>9 DEF Pos

LEMMA LastIsPlace == LastPosition \in 0 .. LastPosition /\ LastPosition \in Nat
<1>1. PICK e \in Nat \ {0} : e = EntryCnt BY MemoryAssumption
<1>2. e * (e + 1) \in Nat BY <1>1
<1> QED BY <1>1, <1>2 DEF LastPosition

(* The position of a page of programs. *)
PagePos(v) == Pos(PdeIndex(v), PteIndex(v))

LEMMA PageIsPos ==
  ASSUME NEW v \in UserPage
  PROVE  /\ PdeIndex(v) \in Index /\ PteIndex(v) \in Index
         /\ v = Base + EntryCnt * PdeIndex(v) + PteIndex(v)
<1>1. PICK e \in Nat \ {0} : e = EntryCnt BY MemoryAssumption
<1>2. PICK b \in Nat : b = Base BY MemoryAssumption
<1>3. e * e \in Nat BY <1>1
<1>4. PICK p \in Nat : p = v - b /\ p < e * e BY <1>1, <1>2, <1>3 DEF UserPage
<1>5. p \div e \in Nat /\ p % e \in 0 .. e - 1 /\ p = e * (p \div e) + (p % e)
  BY <1>1
<1>6. PICK i \in Nat, j \in Nat : i = p \div e /\ j = p % e /\ j < e /\ p = e * i + j
  BY <1>5
<1>7. i < e
  <2>1. SUFFICES ASSUME i >= e PROVE FALSE BY <1>1, <1>6
  <2>2. e * e <= e * i BY <2>1, <1>1, <1>6, TimesGrows
  <2>3. e * i \in Nat BY <1>1, <1>6
  <2> QED BY <2>2, <2>3, <1>3, <1>4, <1>6
<1>8. v = b + p BY <1>2, <1>4 DEF UserPage
<1>9. e * i \in Nat BY <1>1, <1>6
<1>10. v = b + e * i + j BY <1>6, <1>8, <1>9
<1>11. PdeIndex(v) = i /\ PteIndex(v) = j BY <1>1, <1>2, <1>4, <1>6 DEF PdeIndex, PteIndex
<1>12. i \in Index /\ j \in Index BY <1>1, <1>6, <1>7 DEF Index
<1> QED BY <1>1, <1>2, <1>10, <1>11, <1>12

LEMMA PagePosIsPlace ==
  ASSUME NEW v \in UserPage
  PROVE  PagePos(v) \in 0 .. LastPosition /\ PagePos(v) < LastPosition
<1>1. PteIndex(v) \in 0 .. EntryCnt BY PageIsPos, MemoryAssumption DEF Index
<1> QED BY <1>1, PageIsPos, PosIsPlace DEF PagePos

LEMMA PosIsOne ==
  ASSUME NEW i \in Index, NEW j \in 0 .. EntryCnt,
         NEW k \in Index, NEW m \in 0 .. EntryCnt, Pos(i, j) = Pos(k, m)
  PROVE  i = k /\ j = m
BY PosIsPlace

LEMMA PageOfPos ==
  ASSUME NEW v \in UserPage, NEW w \in UserPage, PagePos(v) = PagePos(w)
  PROVE  v = w
<1>1. PteIndex(v) \in 0 .. EntryCnt /\ PteIndex(w) \in 0 .. EntryCnt
  BY PageIsPos, MemoryAssumption DEF Index
<1>2. PdeIndex(v) = PdeIndex(w) /\ PteIndex(v) = PteIndex(w)
  BY <1>1, PageIsPos, PosIsOne DEF PagePos
<1> QED BY <1>2, PageIsPos

(* Every entry of a table is a page of programs. *)
LEMMA PosIsPage ==
  ASSUME NEW i \in Index, NEW j \in Index
  PROVE  \E v \in UserPage : PagePos(v) = Pos(i, j)
<1>1. PICK e \in Nat \ {0} : e = EntryCnt BY MemoryAssumption
<1>2. PICK b \in Nat : b = Base BY MemoryAssumption
<1>3. PICK k \in Nat, m \in Nat : k = i /\ m = j /\ k < e /\ m < e BY <1>1 DEF Index
<1>4. e * k \in Nat /\ e * e \in Nat BY <1>1, <1>3
<1>5. PICK v \in Nat : v = b + e * k + m BY <1>2, <1>3, <1>4
<1>6. e * k + e <= e * e
  <2>1. k + 1 <= e BY <1>3
  <2> QED BY <2>1, <1>3
<1>7. v \in UserPage BY <1>1, <1>2, <1>3, <1>4, <1>5, <1>6 DEF UserPage
<1>8. v - b = e * k + m BY <1>2, <1>3, <1>4, <1>5
<1>9. (e * k + m) \div e = k /\ (e * k + m) % e = m BY <1>3
<1>10. PdeIndex(v) = i /\ PteIndex(v) = j
  BY <1>1, <1>2, <1>3, <1>8, <1>9 DEF PdeIndex, PteIndex
<1> QED BY <1>7, <1>10 DEF PagePos

-----------------------------------------------------------------------------
(* An address space with directory d, of which memory_destroy_uvm has      *)
(* still to free the positions from `from' on, when entries are e.         *)
Entries == [Frame -> [Index -> Frame \cup {NoFrame}]]

Freed(e, d, p) ==
  LET i == p \div (EntryCnt + 1)
      j == p % (EntryCnt + 1)
  IN  IF p = LastPosition THEN d
      ELSE IF e[d][i] = NoFrame THEN NoFrame
      ELSE IF j < EntryCnt THEN e[e[d][i]][j] ELSE e[d][i]

Tree(e, d, from, p) == IF d = NoFrame \/ p < from THEN NoFrame ELSE Freed(e, d, p)

(* The frame at position (i, j) of that order.                             *)
Walk(e, d, i, j) == IF e[d][i] = NoFrame THEN NoFrame
                    ELSE IF j < EntryCnt THEN e[e[d][i]][j] ELSE e[d][i]

LEMMA TreeWalks ==
  ASSUME NEW e, NEW d \in Frame, NEW i \in Index, NEW j \in 0 .. EntryCnt
  PROVE  Freed(e, d, Pos(i, j)) = Walk(e, d, i, j)
<1>1. PICK p : p = Pos(i, j) OBVIOUS
<1>2. p # LastPosition BY <1>1, PosIsPlace, LastIsPlace
<1>3. p \div (EntryCnt + 1) = i /\ p % (EntryCnt + 1) = j BY <1>1, PosIsPlace
<1>4. Freed(e, d, p) = Walk(e, d, i, j) BY <1>2, <1>3, Zenon DEF Freed, Walk
<1> QED BY <1>1, <1>4

LEMMA TreeAtPos ==
  ASSUME NEW e, NEW d \in Frame, NEW i \in Index, NEW j \in 0 .. EntryCnt
  PROVE  Freed(e, d, Pos(i, j)) = IF e[d][i] = NoFrame THEN NoFrame
                                 ELSE IF j < EntryCnt THEN e[e[d][i]][j] ELSE e[d][i]
BY TreeWalks DEF Walk

LEMMA TreeVia ==
  ASSUME NEW e, NEW d \in Frame, NEW i \in Index, NEW j \in 0 .. EntryCnt,
         NEW y, y = e[d][i], NEW p, p = Pos(i, j)
  PROVE  Freed(e, d, p) = IF y = NoFrame THEN NoFrame
                          ELSE IF j < EntryCnt THEN e[y][j] ELSE y
BY TreeAtPos

LEMMA TreeType ==
  ASSUME NEW e \in Entries, NEW d \in Frame \cup {NoFrame}, NEW n \in Nat,
         NEW p \in 0 .. LastPosition
  PROVE  Tree(e, d, n, p) \in Frame \cup {NoFrame}
<1>1. CASE d = NoFrame \/ p < n BY <1>1 DEF Tree
<1>2. CASE d # NoFrame /\ ~ (p < n)
  <2>1. Tree(e, d, n, p) = Freed(e, d, p) BY <1>2 DEF Tree
  <2>2. CASE p = LastPosition BY <1>2, <2>1, <2>2 DEF Freed
  <2>3. CASE p # LastPosition
    <3>1. PICK i \in Index, j \in 0 .. EntryCnt : p = Pos(i, j) BY <2>3, PlaceIsPos
    <3>2. PICK x \in Frame \cup {NoFrame} : x = e[d][i] BY <1>2 DEF Entries
    <3>3. Freed(e, d, p) = IF x = NoFrame THEN NoFrame
                           ELSE IF j < EntryCnt THEN e[x][j] ELSE x
      BY <1>2, <3>1, <3>2, TreeAtPos
    <3>4. j < EntryCnt => j \in Index BY MemoryAssumption DEF Index
    <3>5. x # NoFrame /\ j < EntryCnt => e[x][j] \in Frame \cup {NoFrame}
      BY <3>2, <3>4 DEF Entries
    <3> QED BY <2>1, <3>2, <3>3, <3>5
  <2> QED BY <2>2, <2>3
<1> QED BY <1>1, <1>2

(* Nothing changes in the part that is left, from n on, when no frame of   *)
(* that part changes.                                                      *)
Untouched(e, g, d, m, n) ==
  \A q \in 0 .. LastPosition :
    q >= n /\ Tree(e, d, m, q) # NoFrame => g[Tree(e, d, m, q)] = e[Tree(e, d, m, q)]

LEMMA TreeStays ==
  ASSUME NEW e \in Entries, NEW g, NEW d \in Frame \cup {NoFrame},
         NEW m \in Nat, NEW n \in Nat, m <= n, Untouched(e, g, d, m, n),
         NEW p \in 0 .. LastPosition
  PROVE  Tree(g, d, n, p) = IF p < n THEN NoFrame ELSE Tree(e, d, m, p)
<1> PICK last \in Nat : last = LastPosition BY LastIsPlace
<1>1. CASE d = NoFrame \/ p < n BY <1>1 DEF Tree
<1>2. CASE d # NoFrame /\ ~ (p < n)
  <2>1. Tree(g, d, n, p) = Freed(g, d, p) BY <1>2 DEF Tree
  <2>2. \A q \in 0 .. LastPosition : q >= n => Tree(e, d, m, q) = Freed(e, d, q)
    BY <1>2 DEF Tree
  <2>3. Freed(e, d, LastPosition) = d /\ Freed(g, d, LastPosition) = d BY DEF Freed
  <2>4. p >= n /\ p <= last /\ LastPosition >= n BY <1>2
  <2>5. g[d] = e[d] BY <1>2, <2>2, <2>3, <2>4, LastIsPlace DEF Untouched
  <2>6. CASE p = LastPosition BY <1>2, <2>1, <2>2, <2>3, <2>4, <2>6
  <2>7. CASE p # LastPosition
    <3>1. PICK i \in Index, j \in 0 .. EntryCnt : p = Pos(i, j) BY <2>7, PlaceIsPos
    <3>2. PICK x \in Frame \cup {NoFrame} : x = e[d][i] BY <1>2 DEF Entries
    <3>3. Freed(e, d, p) = IF x = NoFrame THEN NoFrame
                           ELSE IF j < EntryCnt THEN e[x][j] ELSE x
      BY <1>2, <3>1, <3>2, TreeAtPos
    <3>4. Freed(g, d, p) = IF x = NoFrame THEN NoFrame
                           ELSE IF j < EntryCnt THEN g[x][j] ELSE x
      BY <1>2, <2>5, <3>1, <3>2, TreeAtPos
    <3>5. CASE x = NoFrame BY <1>2, <2>1, <2>2, <2>4, <3>3, <3>4, <3>5
    <3>6. CASE x # NoFrame
      <4>1. EntryCnt \in 0 .. EntryCnt BY MemoryAssumption
      <4>2. PICK r \in 0 .. LastPosition : r = Pos(i, EntryCnt) BY <4>1, PosIsPlace
      <4>3. r >= n BY <2>4, <3>1, <4>2, PosIsPlace
      <4>4. Freed(e, d, r) = x
        BY <1>2, <3>2, <3>6, <4>1, <4>2, TreeAtPos, MemoryAssumption
      <4>5. g[x] = e[x] BY <2>2, <3>6, <4>2, <4>3, <4>4 DEF Untouched
      <4> QED BY <1>2, <2>1, <2>2, <2>4, <3>3, <3>4, <4>5
    <3> QED BY <3>5, <3>6
  <2> QED BY <2>6, <2>7
<1> QED BY <1>1, <1>2

(* A directory without entries. *)
LEMMA TreeOfNew ==
  ASSUME NEW e, NEW d \in Frame, e[d] = Zeroed, NEW p \in 0 .. LastPosition
  PROVE  Tree(e, d, 0, p) = IF p = LastPosition THEN d ELSE NoFrame
<1>0. 0 \notin Frame /\ ~ (p < 0) BY MemoryAssumption
<1>1. Tree(e, d, 0, p) = Freed(e, d, p) BY <1>0 DEF Tree, NoFrame
<1>2. CASE p = LastPosition BY <1>1, <1>2 DEF Freed
<1>3. CASE p # LastPosition
  <2>1. PICK i \in Index, j \in 0 .. EntryCnt : p = Pos(i, j) BY <1>3, PlaceIsPos
  <2>2. e[d][i] = NoFrame BY DEF Zeroed
  <2> QED BY <1>1, <1>3, <2>1, <2>2, TreeAtPos
<1> QED BY <1>2, <1>3

(* What memory_create_map writes when there is a table x, and when frame x *)
(* becomes table i of d: entry j of it gets page f.                        *)
PageEntered(e, g, x, j, f) == g = [e EXCEPT ![x][j] = f]
TableEntered(e, g, d, i, x, j, f) ==
  g = [e EXCEPT ![x] = [Zeroed EXCEPT ![j] = f], ![d][i] = x]

LEMMA TreeGetsPage ==
  ASSUME NEW e \in Entries, NEW g, NEW d \in Frame, NEW i \in Index, NEW j \in Index,
         NEW f \in Frame, NEW x \in Frame, x = e[d][i],
         \A p, q \in 0 .. LastPosition :
           Tree(e, d, 0, p) = Tree(e, d, 0, q) /\ Tree(e, d, 0, p) # NoFrame => p = q,
         PageEntered(e, g, x, j, f),
         NEW p \in 0 .. LastPosition
  PROVE  Tree(g, d, 0, p) = IF p = Pos(i, j) THEN f ELSE Tree(e, d, 0, p)
<1>0. 0 \notin Frame /\ \A q \in 0 .. LastPosition : ~ (q < 0) BY MemoryAssumption
<1>1. \A q \in 0 .. LastPosition : /\ Tree(e, d, 0, q) = Freed(e, d, q)
                                   /\ Tree(g, d, 0, q) = Freed(g, d, q)
  BY <1>0 DEF Tree, NoFrame
<1>2. EntryCnt \in 0 .. EntryCnt /\ j \in 0 .. EntryCnt /\ j < EntryCnt
  BY MemoryAssumption DEF Index
<1>3. \A k \in Index : Pos(k, EntryCnt) \in 0 .. LastPosition
                       /\ Pos(k, EntryCnt) < LastPosition
  BY <1>2, PosIsPlace
<1>4. \A k \in Index : e[d][k] \in Frame => Freed(e, d, Pos(k, EntryCnt)) = e[d][k]
  BY <1>0, <1>2, TreeAtPos, MemoryAssumption DEF NoFrame
<1>5. d # x
  <2>1. Freed(e, d, Pos(i, EntryCnt)) = x BY <1>4
  <2>2. Freed(e, d, LastPosition) = d BY DEF Freed
  <2> QED BY <1>0, <1>1, <1>3, <2>1, <2>2, LastIsPlace DEF NoFrame
<1>6. \A k \in Index : e[d][k] = x => k = i
  <2>1. SUFFICES ASSUME NEW k \in Index, e[d][k] = x PROVE k = i OBVIOUS
  <2>2. Freed(e, d, Pos(k, EntryCnt)) = x /\ Freed(e, d, Pos(i, EntryCnt)) = x
    BY <1>4, <2>1
  <2>3. Pos(k, EntryCnt) = Pos(i, EntryCnt) BY <1>0, <1>1, <1>3, <2>2 DEF NoFrame
  <2> QED BY <1>2, <2>3, PosIsOne
<1>7. /\ g[d] = e[d]
      /\ \A y \in Frame : y # x => g[y] = e[y]
      /\ \A k \in Index : g[x][k] = IF k = j THEN f ELSE e[x][k]
  BY <1>5 DEF Entries, PageEntered
<1>8. CASE p = LastPosition
  <2>1. p # Pos(i, j)
    <3>1. Pos(i, j) < LastPosition BY <1>2, PosIsPlace
    <3> QED BY <1>8, <3>1, LastIsPlace
  <2> QED BY <1>1, <1>8, <2>1 DEF Freed
<1>9. CASE p # LastPosition
  <2>1. PICK k \in Index, m \in 0 .. EntryCnt : p = Pos(k, m) BY <1>9, PlaceIsPos
  <2>2. PICK y \in Frame \cup {NoFrame} : y = e[d][k] BY DEF Entries
  <2>3. Freed(e, d, p) = IF y = NoFrame THEN NoFrame
                         ELSE IF m < EntryCnt THEN e[y][m] ELSE y
    BY <2>1, <2>2, TreeAtPos
  <2>4. Freed(g, d, p) = IF y = NoFrame THEN NoFrame
                         ELSE IF m < EntryCnt THEN g[y][m] ELSE y
    <3>1. y = g[d][k] BY <1>7, <2>2, Zenon
    <3> QED BY <2>1, <3>1, TreeVia
  <2>5. m < EntryCnt => m \in Index BY MemoryAssumption DEF Index
  <2>6. CASE y # x
    <3>1. p # Pos(i, j) BY <1>2, <2>1, <2>2, <2>6, PosIsOne
    <3> QED BY <1>1, <1>7, <2>2, <2>3, <2>4, <2>6, <3>1
  <2>7. CASE y = x /\ m = j
    <3>1. k = i BY <1>6, <2>2, <2>7
    <3> QED BY <1>0, <1>1, <1>2, <1>7, <2>1, <2>4, <2>7, <3>1 DEF NoFrame
  <2>8. CASE y = x /\ m # j
    <3>1. p # Pos(i, j) BY <1>2, <2>1, <2>8, PosIsOne
    <3> QED BY <1>1, <1>7, <2>3, <2>4, <2>5, <2>8, <3>1
  <2> QED BY <2>6, <2>7, <2>8
<1> QED BY <1>8, <1>9

LEMMA TreeGetsTable ==
  ASSUME NEW e \in Entries, NEW g, NEW d \in Frame, NEW i \in Index, NEW j \in Index,
         NEW f \in Frame, NEW x \in Frame, e[d][i] = NoFrame,
         \A p, q \in 0 .. LastPosition :
           Tree(e, d, 0, p) = Tree(e, d, 0, q) /\ Tree(e, d, 0, p) # NoFrame => p = q,
         \A p \in 0 .. LastPosition : Tree(e, d, 0, p) # x,
         TableEntered(e, g, d, i, x, j, f),
         NEW p \in 0 .. LastPosition
  PROVE  Tree(g, d, 0, p) = IF p = Pos(i, j) THEN f
                            ELSE IF p = Pos(i, EntryCnt) THEN x ELSE Tree(e, d, 0, p)
<1>0. 0 \notin Frame /\ \A q \in 0 .. LastPosition : ~ (q < 0) BY MemoryAssumption
<1>1. \A q \in 0 .. LastPosition : /\ Tree(e, d, 0, q) = Freed(e, d, q)
                                   /\ Tree(g, d, 0, q) = Freed(g, d, q)
  BY <1>0 DEF Tree, NoFrame
<1>2. EntryCnt \in 0 .. EntryCnt /\ j \in 0 .. EntryCnt /\ j < EntryCnt
  BY MemoryAssumption DEF Index
<1>3. \A k \in Index : Pos(k, EntryCnt) \in 0 .. LastPosition
                       /\ Pos(k, EntryCnt) < LastPosition
  BY <1>2, PosIsPlace
<1>4. \A k \in Index : e[d][k] \in Frame => Freed(e, d, Pos(k, EntryCnt)) = e[d][k]
  BY <1>0, <1>2, TreeAtPos, MemoryAssumption DEF NoFrame
<1>5. Freed(e, d, LastPosition) = d BY DEF Freed
<1>6. d # x BY <1>1, <1>5, LastIsPlace
<1>7. \A k \in Index : e[d][k] \in Frame => e[d][k] # d /\ e[d][k] # x
  <2>1. SUFFICES ASSUME NEW k \in Index, e[d][k] \in Frame
                 PROVE  e[d][k] # d /\ e[d][k] # x
    OBVIOUS
  <2>2. Freed(e, d, Pos(k, EntryCnt)) = e[d][k] BY <1>4, <2>1
  <2>3. e[d][k] # x BY <1>1, <1>3, <2>2
  <2>4. Pos(k, EntryCnt) # LastPosition BY <1>3, LastIsPlace
  <2>5. e[d][k] # d BY <1>0, <1>1, <1>3, <1>5, <2>2, <2>4, LastIsPlace DEF NoFrame
  <2> QED BY <2>3, <2>5
<1>8. /\ \A y \in Frame : y # x /\ y # d => g[y] = e[y]
      /\ \A k \in Index : g[d][k] = IF k = i THEN x ELSE e[d][k]
      /\ \A k \in Index : g[x][k] = IF k = j THEN f ELSE NoFrame
  BY <1>6 DEF Entries, Zeroed, TableEntered
<1>9. CASE p = LastPosition
  <2>1. p # Pos(i, j) /\ p # Pos(i, EntryCnt)
    <3>1. Pos(i, j) < LastPosition /\ Pos(i, EntryCnt) < LastPosition BY <1>2, PosIsPlace
    <3> QED BY <1>9, <3>1, LastIsPlace
  <2> QED BY <1>1, <1>9, <2>1 DEF Freed
<1>10. CASE p # LastPosition
  <2>1. PICK k \in Index, m \in 0 .. EntryCnt : p = Pos(k, m) BY <1>10, PlaceIsPos
  <2>2. PICK y \in Frame \cup {NoFrame} : y = e[d][k] BY DEF Entries
  <2>3. Freed(e, d, p) = IF y = NoFrame THEN NoFrame
                         ELSE IF m < EntryCnt THEN e[y][m] ELSE y
    BY <2>1, <2>2, TreeAtPos
  <2>4. PICK z : z = g[d][k] OBVIOUS
  <2>5. Freed(g, d, p) = IF z = NoFrame THEN NoFrame
                         ELSE IF m < EntryCnt THEN g[z][m] ELSE z
    BY <2>1, <2>4, TreeVia
  <2>6. m < EntryCnt \/ m = EntryCnt BY MemoryAssumption
  <2>7. CASE k # i
    <3>1. z = y BY <1>8, <2>2, <2>4, <2>7
    <3>2. y # NoFrame => g[y] = e[y] BY <1>7, <1>8, <2>2
    <3>3. p # Pos(i, j) /\ p # Pos(i, EntryCnt) BY <1>2, <2>1, <2>7, PosIsOne
    <3> QED BY <1>1, <2>3, <2>5, <3>1, <3>2, <3>3
  <2>8. CASE k = i
    <3>1. z = x /\ y = NoFrame /\ x # NoFrame BY <1>0, <1>8, <2>2, <2>4, <2>8 DEF NoFrame
    <3>2. CASE m = EntryCnt
      <4>1. p = Pos(i, EntryCnt) BY <2>1, <2>8, <3>2
      <4>3. p # Pos(i, j)
        <5>1. ASSUME Pos(i, EntryCnt) = Pos(i, j) PROVE j = EntryCnt BY <1>2, <5>1, PosIsOne
        <5>2. j # EntryCnt BY <1>2, MemoryAssumption
        <5> QED BY <4>1, <5>1, <5>2
      <4>2. ~ (m < EntryCnt) BY <3>2, MemoryAssumption
      <4> QED BY <1>1, <2>5, <3>1, <4>1, <4>2, <4>3
    <3>3. CASE m # EntryCnt
      <4>1. m \in Index /\ m < EntryCnt BY <2>6, <3>3, MemoryAssumption DEF Index
      <4>2. p # Pos(i, EntryCnt) BY <1>2, <2>1, <3>3, PosIsOne
      <4>3. p = Pos(i, j) <=> m = j BY <1>2, <2>1, <2>8, PosIsOne
      <4>4. Freed(g, d, p) = IF m = j THEN f ELSE NoFrame BY <1>8, <2>5, <3>1, <4>1
      <4> QED BY <1>1, <2>3, <3>1, <4>2, <4>3, <4>4
    <3> QED BY <3>2, <3>3
  <2> QED BY <2>7, <2>8
<1> QED BY <1>9, <1>10

-----------------------------------------------------------------------------
(* What places P hold, F, when the frames in use are U: each frame of U in *)
(* one place, and nothing else.                                            *)
Owns(F, P, U) ==
  /\ NoFrame \notin U
  /\ \A x \in P : F[x] \in U \cup {NoFrame}
  /\ \A x, y \in P : F[x] = F[y] /\ F[x] # NoFrame => x = y
  /\ \A u \in U : \E x \in P : F[x] = u

LEMMA OwnsSame ==
  ASSUME NEW P, NEW U, NEW F, NEW G, Owns(F, P, U), \A x \in P : G[x] = F[x]
  PROVE  Owns(G, P, U)
BY DEF Owns

(* A free frame is taken to an empty place. *)
LEMMA OwnsTake ==
  ASSUME NEW P, NEW U, NEW F, NEW G, Owns(F, P, U), NEW p \in P, NEW f,
         F[p] = NoFrame, f \notin U, f # NoFrame,
         \A x \in P : G[x] = IF x = p THEN f ELSE F[x]
  PROVE  Owns(G, P, U \cup {f})
<1>1. \A x \in P : G[x] \in (U \cup {f}) \cup {NoFrame} BY DEF Owns
<1>2. \A x, y \in P : G[x] = G[y] /\ G[x] # NoFrame => x = y BY DEF Owns
<1>3. \A u \in U \cup {f} : \E x \in P : G[x] = u
  <2>1. ASSUME NEW u \in U PROVE \E x \in P : G[x] = u
    <3>1. PICK x \in P : F[x] = u BY DEF Owns
    <3>2. x # p BY <2>1, <3>1 DEF Owns
    <3> QED BY <3>1, <3>2
  <2> QED BY <2>1
<1> QED BY <1>1, <1>2, <1>3 DEF Owns

(* A place is emptied, and its frame, if any, is no longer in use. *)
LEMMA OwnsDrop ==
  ASSUME NEW P, NEW U, NEW F, NEW G, Owns(F, P, U), NEW p \in P,
         \A x \in P : G[x] = IF x = p THEN NoFrame ELSE F[x]
  PROVE  Owns(G, P, U \ {F[p]})
<1>1. \A x \in P : G[x] \in (U \ {F[p]}) \cup {NoFrame} BY DEF Owns
<1>2. \A x, y \in P : G[x] = G[y] /\ G[x] # NoFrame => x = y BY DEF Owns
<1>3. \A u \in U \ {F[p]} : \E x \in P : G[x] = u
  <2>1. ASSUME NEW u \in U, u # F[p] PROVE \E x \in P : G[x] = u
    <3>1. PICK x \in P : F[x] = u BY DEF Owns
    <3> QED BY <2>1, <3>1
  <2> QED BY <2>1
<1> QED BY <1>1, <1>2, <1>3 DEF Owns

(* Frames move between places. *)
LEMMA OwnsMove ==
  ASSUME NEW P, NEW U, NEW F, NEW G, Owns(F, P, U), NEW m \in [P -> P],
         \A x \in P : m[m[x]] = x,
         \A x \in P : G[x] = F[m[x]]
  PROVE  Owns(G, P, U)
<1>1. \A x \in P : G[x] \in U \cup {NoFrame} BY DEF Owns
<1>2. \A x, y \in P : G[x] = G[y] /\ G[x] # NoFrame => x = y
  <2> SUFFICES ASSUME NEW x \in P, NEW y \in P, G[x] = G[y], G[x] # NoFrame PROVE x = y
    OBVIOUS
  <2>1. m[x] = m[y] BY DEF Owns
  <2> QED BY <2>1
<1>3. \A u \in U : \E x \in P : G[x] = u
  <2>1. ASSUME NEW u \in U PROVE \E x \in P : G[x] = u
    <3>1. PICK x \in P : F[x] = u BY DEF Owns
    <3>2. m[x] \in P /\ G[m[x]] = u BY <3>1
    <3> QED BY <3>2
  <2> QED BY <2>1
<1> QED BY <1>1, <1>2, <1>3 DEF Owns

(* As many frames as places that hold one. *)
LEMMA OwnsCounts ==
  ASSUME NEW P, IsFiniteSet(P), NEW U, NEW F, Owns(F, P, U)
  PROVE  LET held == {x \in P : F[x] # NoFrame}
         IN  Cardinality({F[x] : x \in held}) = Cardinality(held)
<1> DEFINE held == {x \in P : F[x] # NoFrame}
           frames == {F[x] : x \in held}
           h == [x \in held |-> F[x]]
<1>1. IsFiniteSet(held) BY FS_Subset
<1>2. h \in [held -> frames] /\ \A x, y \in held : h[x] = h[y] => x = y BY DEF Owns
<1>3. \A u \in frames : \E x \in held : h[x] = u OBVIOUS
<1>4. h \in Bijection(held, frames)
  BY <1>2, <1>3 DEF Bijection, Injection, Surjection, IsInjective
<1>5. ExistsBijection(held, frames) BY <1>4, Zenon DEF ExistsBijection
<1> QED BY <1>1, <1>5, FS_Bijection

LEMMA LeastNumber ==
  ASSUME NEW T, T \subseteq Nat, T # {}
  PROVE  \E m \in T : \A k \in T : ~ (k < m)
<1>1. PICK m \in T : \A k \in T : ~ (<<k, m>> \in OpToRel(<, Nat))
  <2>1. IsWellFoundedOn(OpToRel(<, Nat), Nat) BY NatLessThanWellFounded
  <2> QED BY <2>1, WFMin, Zenon
<1>2. \A k \in T : k < m => <<k, m>> \in OpToRel(<, Nat)
  BY DEF OpToRel
<1> QED BY <1>1, <1>2

-----------------------------------------------------------------------------
(* The places of a task. *)
StackOf(t) == <<t, <<"stack", 0>>>>
PageOf(t) == <<t, <<"page", 0>>>>
SpaceAt(t, p) == <<t, <<"space", p>>>>
CallAt(t, p) == <<t, <<"call", p>>>>

(* The address space that a call builds or destroys, and what is left.     *)
CallDir(t) == IF loc[t].dir \in {NoFrame, task[t].cr3} THEN NoFrame ELSE loc[t].dir
CallFrom(t) == IF loc[t].pc = "destroy" THEN loc[t].at ELSE 0

AtPlaces ==
  \A t \in AllTasks :
    /\ FrameAt(StackOf(t)) = IF HasStack(t) THEN task[t].stack ELSE NoFrame
    /\ FrameAt(PageOf(t)) = loc[t].page
    /\ \A p \in 0 .. LastPosition :
         /\ FrameAt(SpaceAt(t, p)) = Tree(entry, task[t].cr3, 0, p)
         /\ FrameAt(CallAt(t, p)) = Tree(entry, CallDir(t), CallFrom(t), p)

LEMMA AtPlacesHold == AtPlaces
<1> SUFFICES ASSUME NEW t \in AllTasks
             PROVE  /\ FrameAt(StackOf(t)) = IF HasStack(t) THEN task[t].stack ELSE NoFrame
                    /\ FrameAt(PageOf(t)) = loc[t].page
                    /\ \A p \in 0 .. LastPosition :
                         /\ FrameAt(SpaceAt(t, p)) = Tree(entry, task[t].cr3, 0, p)
                         /\ FrameAt(CallAt(t, p)) = Tree(entry, CallDir(t), CallFrom(t), p)
  BY DEF AtPlaces
<1>1. FrameAt(StackOf(t)) = IF HasStack(t) THEN task[t].stack ELSE NoFrame
  BY DEF FrameAt, StackOf
<1>2. FrameAt(PageOf(t)) = loc[t].page BY DEF FrameAt, PageOf
<1>3. ASSUME NEW p \in 0 .. LastPosition
      PROVE  FrameAt(SpaceAt(t, p)) = Tree(entry, task[t].cr3, 0, p)
  <2>1. ~ (p < 0) BY LastIsPlace
  <2>2. FrameAt(SpaceAt(t, p)) = IF task[t].cr3 = NoFrame THEN NoFrame
                                 ELSE FreedAt(task[t].cr3, p)
    BY DEF FrameAt, SpaceAt
  <2>3. FreedAt(task[t].cr3, p) = Freed(entry, task[t].cr3, p) BY DEF FreedAt, Freed
  <2> QED BY <2>1, <2>2, <2>3 DEF Tree
<1>4. ASSUME NEW p \in 0 .. LastPosition
      PROVE  FrameAt(CallAt(t, p)) = Tree(entry, CallDir(t), CallFrom(t), p)
  <2>1. ~ (p < 0) BY LastIsPlace
  <2>2. FrameAt(CallAt(t, p)) =
          IF loc[t].dir \in {NoFrame, task[t].cr3} \/ InOldSpace(t, p) THEN NoFrame
          ELSE FreedAt(loc[t].dir, p)
    BY DEF FrameAt, CallAt
  <2>3. FreedAt(loc[t].dir, p) = Freed(entry, loc[t].dir, p) BY DEF FreedAt, Freed
  <2>4. CASE loc[t].dir \in {NoFrame, task[t].cr3} BY <2>2, <2>4 DEF Tree, CallDir
  <2>5. CASE loc[t].dir \notin {NoFrame, task[t].cr3}
    <3>1. CallDir(t) = loc[t].dir /\ CallDir(t) # NoFrame BY <2>5 DEF CallDir
    <3>2. p < CallFrom(t) <=> InOldSpace(t, p) BY <2>1 DEF CallFrom, InOldSpace
    <3> QED BY <2>2, <2>3, <2>5, <3>1, <3>2 DEF Tree
  <2> QED BY <2>4, <2>5
<1> QED BY <1>1, <1>2, <1>3, <1>4

LEMMA PlacesAre ==
  /\ \A t \in AllTasks : StackOf(t) \in Place /\ PageOf(t) \in Place
  /\ \A t \in AllTasks : \A p \in 0 .. LastPosition :
       SpaceAt(t, p) \in Place /\ CallAt(t, p) \in Place
  /\ \A x \in Place : \E t \in AllTasks :
       \/ x = StackOf(t) \/ x = PageOf(t)
       \/ \E p \in 0 .. LastPosition : x = SpaceAt(t, p) \/ x = CallAt(t, p)
<1>1. \A t \in AllTasks : StackOf(t) \in Place /\ PageOf(t) \in Place
  BY DEF Place, StackOf, PageOf
<1>2. \A t \in AllTasks : \A p \in 0 .. LastPosition :
        SpaceAt(t, p) \in Place /\ CallAt(t, p) \in Place
  BY DEF Place, SpaceAt, CallAt
<1>3. ASSUME NEW x \in Place
      PROVE  \E t \in AllTasks :
               \/ x = StackOf(t) \/ x = PageOf(t)
               \/ \E p \in 0 .. LastPosition : x = SpaceAt(t, p) \/ x = CallAt(t, p)
  <2>1. PICK t \in AllTasks, k \in {<<"stack", 0>>, <<"page", 0>>}
                                     \cup {"space", "call"} \X (0 .. LastPosition) :
          x = <<t, k>>
    BY DEF Place
  <2>2. CASE k \in {<<"stack", 0>>, <<"page", 0>>} BY <2>1, <2>2 DEF StackOf, PageOf
  <2>3. CASE k \in {"space", "call"} \X (0 .. LastPosition)
    <3>1. PICK a \in {"space", "call"}, p \in 0 .. LastPosition : k = <<a, p>> BY <2>3
    <3> QED BY <2>1, <3>1 DEF SpaceAt, CallAt
  <2> QED BY <2>1, <2>2, <2>3
<1> QED BY <1>1, <1>2, <1>3

LEMMA PlacesDiffer ==
  ASSUME NEW t, NEW u, NEW p, NEW q
  PROVE  /\ StackOf(t) = StackOf(u) => t = u
         /\ PageOf(t) = PageOf(u) => t = u
         /\ SpaceAt(t, p) = SpaceAt(u, q) => t = u /\ p = q
         /\ CallAt(t, p) = CallAt(u, q) => t = u /\ p = q
         /\ StackOf(t) # PageOf(u) /\ StackOf(t) # SpaceAt(u, q) /\ StackOf(t) # CallAt(u, q)
         /\ PageOf(t) # SpaceAt(u, q) /\ PageOf(t) # CallAt(u, q)
         /\ SpaceAt(t, p) # CallAt(u, q)
BY DEF StackOf, PageOf, SpaceAt, CallAt

-----------------------------------------------------------------------------
(* The inductive invariant.  Types first.                                  *)
TaskRec == [named : BOOLEAN, sel : Sel \cup {NoSel}, stack : Frame \cup {NoFrame},
            cr3 : Frame \cup {NoFrame}, heapEnd : Nat]

LocRec == [pc : {"run", "desc", "stack", "uvm", "name", "copyUvm", "copyPage", "copyMap",
                 "copyFailed", "start", "destroy", "alloc", "map", "pannic", "exec",
                 "loaded", "args", "grown"},
           child : AllTasks, sel : Sel \cup {NoSel}, dir : Frame \cup {NoFrame},
           page : Frame \cup {NoFrame}, at : Nat, end : Nat,
           then : {"run", "copyFailed", "loaded", "args", "grown"},
           missing : BOOLEAN, newEnd : Nat]

TypeOK ==
  /\ used \subseteq Frame /\ dropped \subseteq used
  /\ entry \in Entries
  /\ gdt \subseteq Sel
  /\ task \in [AllTasks -> TaskRec]
  /\ loc \in [AllTasks -> LocRec]
  /\ started \subseteq AllTasks

(* Where a call is, and what its local variables are for there.            *)
InFork(l) ==
  \/ l.pc \in {"desc", "stack", "uvm", "name", "copyUvm", "copyPage", "copyMap",
               "copyFailed", "start"}
  \/ l.pc = "destroy" /\ l.then = "copyFailed"

NoDirYet(l) ==
  l.pc \in {"run", "desc", "stack", "uvm", "name", "copyUvm", "copyFailed", "start", "exec"}

OwnDir(l) ==
  \/ l.pc \in {"copyPage", "copyMap", "loaded", "args", "destroy"}
  \/ l.pc \in {"alloc", "map"} /\ l.then \in {"loaded", "args"}

HeapDir(l) ==
  \/ l.pc = "grown"
  \/ l.pc \in {"alloc", "map"} /\ l.then = "grown"

LocFits(l, t) ==
  /\ t \notin started \/ l.pc = "run" => l = IdleLoc
  /\ l.pc # "run" => task[t].sel # NoSel /\ task[t].cr3 # NoFrame
  /\ l.child # First <=> InFork(l)
  /\ InFork(l) => /\ t \in Forker /\ l.child \in Slot \ started
                  /\ task[l.child].named <=> l.pc \notin {"desc", "stack", "uvm", "name"}
  /\ l.page # NoFrame => l.pc \in {"copyMap", "map", "pannic"}
  /\ l.pc \in {"copyMap", "map"} => l.page # NoFrame
  /\ NoDirYet(l) => l.dir = NoFrame
  /\ OwnDir(l) => l.dir # NoFrame /\ l.dir # task[t].cr3
  /\ l.pc \in {"alloc", "map"} =>
       l.then \in {"loaded", "args", "grown"} /\ l.end <= LastPage + 1
  /\ HeapDir(l) => l.dir = task[t].cr3
  /\ l.pc = "destroy" => l.then \in {"run", "copyFailed"} /\ l.at \in 0 .. LastPosition
  /\ l.pc = "map" => l.at < l.end
  /\ l.pc = "copyMap" => l.at \in UserPage

(* A slot is without a name as long as nobody but a fork has touched it,   *)
(* and a task that can run has one.                                        *)
SlotsOK ==
  /\ First \in started
  /\ \A t \in started : task[t].named
  /\ \A c \in Slot : ~ task[c].named =>
       \/ task[c].sel = NoSel /\ task[c].cr3 = NoFrame
       \/ \E f \in Forker : loc[f].pc = "name" /\ loc[f].child = c

Control == TypeOK /\ SlotsOK /\ \A t \in AllTasks : LocFits(loc[t], t)

(* The descriptor that a fork has found is free until it takes it, and     *)
(* then belongs to no task until tss_init is done.                         *)
DescriptorFound ==
  \A t \in AllTasks :
    /\ loc[t].pc = "stack" => loc[t].sel \in Sel \ gdt
    /\ loc[t].pc = "uvm" => /\ loc[t].sel \in gdt
                            /\ \A u \in AllTasks : task[u].sel # loc[t].sel

(* Every frame in use is in one place.                                     *)
Holds == [x \in Place |-> FrameAt(x)]
Owned == Owns(Holds, Place, used \ dropped)

(* What a fork has still to copy is not there, and the directory that      *)
(* tss_init has made for the child has no entries.                         *)
CopyIsAhead ==
  \A t \in AllTasks : loc[t].pc \in {"copyPage", "copyMap"} =>
    \A v \in UserPage : v >= loc[t].at => FrameAt(CallAt(t, PagePos(v))) = NoFrame

ChildIsEmpty ==
  \A t \in AllTasks : InFork(loc[t]) /\ loc[t].pc # "start" =>
    \A p \in 0 .. LastPosition :
      p # LastPosition => FrameAt(SpaceAt(loc[t].child, p)) = NoFrame

PInv == Control /\ DescriptorsOwned /\ DescriptorFound /\ Owned /\ CopyIsAhead /\ ChildIsEmpty

(* Two tasks that fork at the same time can get one slot (the run          *)
(* fork_race), and a path without a file name empties the task's name, so  *)
(* that its slot looks free (core/task.c:560).  These theorems are about   *)
(* systems in which one task forks and programs have names.                *)
Ordered == (\A f, g \in Forker : f = g) /\ ProgramNamed \subseteq {TRUE}

-----------------------------------------------------------------------------
(* The frames and the descriptor that the first task starts with.         *)
StartsAs(s, d, tb, p, sel) ==
  /\ frameCnt \in FrameCounts
  /\ s < d /\ d < tb /\ tb < p /\ \A f \in Frame : f < p => f \in {s, d, tb}
  /\ used = {s, d, tb, p}
  /\ entry = [f \in Frame |-> IF f = d THEN [Zeroed EXCEPT ![0] = tb]
                              ELSE IF f = tb THEN [Zeroed EXCEPT ![0] = p]
                              ELSE Zeroed]
  /\ gdt = {sel}
  /\ task = [t \in AllTasks |->
       IF t = First
       THEN [named |-> TRUE, sel |-> sel, stack |-> s, cr3 |-> d, heapEnd |-> 1]
       ELSE [named |-> FALSE, sel |-> NoSel, stack |-> NoFrame,
             cr3 |-> NoFrame, heapEnd |-> 0]]

LEMMA InitStarts ==
  ASSUME Init
  PROVE  \E s \in Frame, d \in Frame, tb \in Frame, p \in Frame, sel \in Sel :
           StartsAs(s, d, tb, p, sel)
<1>1. PICK s, d, tb, p \in Frame :
        /\ frameCnt \in FrameCounts
        /\ s < d /\ d < tb /\ tb < p /\ \A f \in Frame : f < p => f \in {s, d, tb}
        /\ used = {s, d, tb, p}
        /\ entry = [f \in Frame |-> IF f = d THEN [Zeroed EXCEPT ![0] = tb]
                                    ELSE IF f = tb THEN [Zeroed EXCEPT ![0] = p]
                                    ELSE Zeroed]
        /\ \E sel \in Sel :
             /\ \A other \in Sel : sel <= other
             /\ gdt = {sel}
             /\ task = [t \in AllTasks |->
                  IF t = First
                  THEN [named |-> TRUE, sel |-> sel, stack |-> s, cr3 |-> d, heapEnd |-> 1]
                  ELSE [named |-> FALSE, sel |-> NoSel, stack |-> NoFrame,
                        cr3 |-> NoFrame, heapEnd |-> 0]]
        /\ loc = [t \in AllTasks |-> IdleLoc]
        /\ started = {First}
        /\ stopped = FALSE
        /\ short = {} /\ dropped = {}
        /\ calls = 0
  BY Zenon DEF Init
<1>2. PICK sel \in Sel :
        /\ gdt = {sel}
        /\ task = [t \in AllTasks |->
              IF t = First
              THEN [named |-> TRUE, sel |-> sel, stack |-> s, cr3 |-> d, heapEnd |-> 1]
              ELSE [named |-> FALSE, sel |-> NoSel, stack |-> NoFrame,
                    cr3 |-> NoFrame, heapEnd |-> 0]]
  BY <1>1, Zenon
<1>3. StartsAs(s, d, tb, p, sel) BY <1>1, <1>2, Zenon DEF StartsAs
<1> QED BY <1>3

(* Where the tasks are.                                                    *)
LEMMA ControlStarts == Init => Control
<1> SUFFICES ASSUME Init PROVE Control OBVIOUS
<1> USE MemoryAssumption, ProcessAssumption
<1>s. PICK s \in Frame, d \in Frame, tb \in Frame, p \in Frame, sel \in Sel :
        StartsAs(s, d, tb, p, sel)
  BY InitStarts
<1>a. /\ frameCnt \in FrameCounts
      /\ s < d /\ d < tb /\ tb < p /\ \A f \in Frame : f < p => f \in {s, d, tb}
      /\ used = {s, d, tb, p}
      /\ entry = [f \in Frame |-> IF f = d THEN [Zeroed EXCEPT ![0] = tb]
                                  ELSE IF f = tb THEN [Zeroed EXCEPT ![0] = p]
                                  ELSE Zeroed]
  BY <1>s DEF StartsAs
<1>b. /\ gdt = {sel}
      /\ task = [t \in AllTasks |->
            IF t = First
            THEN [named |-> TRUE, sel |-> sel, stack |-> s, cr3 |-> d, heapEnd |-> 1]
            ELSE [named |-> FALSE, sel |-> NoSel, stack |-> NoFrame,
                  cr3 |-> NoFrame, heapEnd |-> 0]]
  BY <1>s DEF StartsAs
<1>1. TypeOK
  <2>1. IdleLoc \in LocRec BY DEF IdleLoc, LocRec, AllTasks
  <2>2. used \subseteq Frame /\ dropped = {} /\ started = {First} /\ gdt \subseteq Sel
        /\ loc = [t \in AllTasks |-> IdleLoc]
    BY <1>a, <1>b DEF Init
  <2>3. entry \in Entries
    <3>2. \A x \in Frame : [Zeroed EXCEPT ![0] = x] \in [Index -> Frame \cup {NoFrame}]
      BY DEF Zeroed
    <3>3. Zeroed \in [Index -> Frame \cup {NoFrame}] BY DEF Zeroed
    <3>4. \A f \in Frame : entry[f] \in [Index -> Frame \cup {NoFrame}]
      BY <1>a, <3>2, <3>3, Zenon
    <3>5. entry = [f \in Frame |-> entry[f]] BY <1>a, Zenon
    <3> QED BY <3>4, <3>5 DEF Entries
  <2>4. task \in [AllTasks -> TaskRec]
    <3>2. [named |-> TRUE, sel |-> sel, stack |-> s, cr3 |-> d, heapEnd |-> 1] \in TaskRec
      BY DEF TaskRec
    <3>3. [named |-> FALSE, sel |-> NoSel, stack |-> NoFrame, cr3 |-> NoFrame, heapEnd |-> 0]
            \in TaskRec
      BY DEF TaskRec
    <3> QED BY <1>b, <3>2, <3>3
  <2> QED BY <2>1, <2>2, <2>3, <2>4 DEF TypeOK, AllTasks
<1>2. SlotsOK
  <2>1. started = {First} /\ task[First].named BY DEF Init, AllTasks
  <2>2. \A c \in Slot : task[c].sel = NoSel /\ task[c].cr3 = NoFrame BY DEF Init, AllTasks
  <2> QED BY <2>1, <2>2 DEF SlotsOK
<1>3. ASSUME NEW t \in AllTasks PROVE LocFits(loc[t], t)
  <2>1. loc[t] = IdleLoc BY DEF Init
  <2> QED BY <2>1 DEF LocFits, IdleLoc, InFork, NoDirYet, OwnDir, HeapDir
<1> QED BY <1>1, <1>2, <1>3 DEF Control

(* A step of t that changes no task. *)
LEMMA CallStep ==
  ASSUME Control, NEW t \in AllTasks, NEW l \in LocRec, loc' = [loc EXCEPT ![t] = l],
         LocFits(l, t), UNCHANGED <<task, started>>, loc[t].pc # "name",
         used' \subseteq Frame, dropped' \subseteq used', entry' \in Entries, gdt' \subseteq Sel
  PROVE  Control'
<1>1. TypeOK' BY DEF Control, TypeOK
<1>2. \A u \in AllTasks : u # t => loc'[u] = loc[u] BY DEF Control, TypeOK
<1>3. loc'[t] = l BY DEF Control, TypeOK
<1>4. SlotsOK'
  <2>1. ASSUME NEW c \in Slot, ~ task[c].named,
               NEW f \in Forker, loc[f].pc = "name", loc[f].child = c
        PROVE  \E g \in Forker : loc'[g].pc = "name" /\ loc'[g].child = c
    <3>1. f \in AllTasks BY ProcessAssumption DEF AllTasks
    <3>2. loc'[f] = loc[f] BY <1>2, <2>1, <3>1
    <3> QED BY <2>1, <3>2
  <2> QED BY <2>1 DEF Control, SlotsOK
<1>5. ASSUME NEW u \in AllTasks PROVE LocFits(loc[u], u)'
  <2>1. LocFits(loc'[u], u) BY <1>2, <1>3 DEF Control
  <2>2. PICK k : k = loc'[u] OBVIOUS
  <2>3. LocFits(k, u)' BY <2>1, <2>2 DEF LocFits
  <2> QED BY <2>2, <2>3
<1> QED BY <1>1, <1>4, <1>5 DEF Control

(* A step of t that changes a task: itself, or the child that it makes.    *)
LEMMA TaskStep ==
  ASSUME Control, Ordered, NEW t \in AllTasks, NEW l \in LocRec, loc' = [loc EXCEPT ![t] = l],
         NEW c \in AllTasks, NEW k \in TaskRec, task' = [task EXCEPT ![c] = k],
         UNCHANGED started,
         \/ c = t /\ t \in started /\ loc[t].pc # "name"
         \/ c = loc[t].child /\ InFork(loc[t]),
         LocFits(l, t)', c \in started => k.named,
         ~ k.named => \/ k.sel = NoSel /\ k.cr3 = NoFrame
                      \/ l.pc = "name" /\ l.child = c /\ t \in Forker,
         used' \subseteq Frame, dropped' \subseteq used', entry' \in Entries, gdt' \subseteq Sel
  PROVE  Control'
<1>0. LocFits(loc[t], t) BY DEF Control
<1>1. TypeOK' BY DEF Control, TypeOK
<1>2. \A u \in AllTasks : u # t => loc'[u] = loc[u] BY DEF Control, TypeOK
<1>3. loc'[t] = l BY DEF Control, TypeOK
<1>4. \A u \in AllTasks : u # c => task'[u] = task[u] BY DEF Control, TypeOK
<1>5. task'[c] = k BY DEF Control, TypeOK
<1>6. SlotsOK'
  <2>1. \A u \in started : task'[u].named
    BY <1>4, <1>5 DEF Control, SlotsOK, TypeOK
  <2>2. ASSUME NEW s \in Slot, s # c, ~ task'[s].named
        PROVE  \/ task'[s].sel = NoSel /\ task'[s].cr3 = NoFrame
               \/ \E g \in Forker : loc'[g].pc = "name" /\ loc'[g].child = s
    <3>1. s \in AllTasks BY DEF AllTasks
    <3>2. task'[s] = task[s] BY <1>4, <2>2, <3>1
    <3>3. ASSUME NEW f \in Forker, loc[f].pc = "name", loc[f].child = s
          PROVE  \E g \in Forker : loc'[g].pc = "name" /\ loc'[g].child = s
      <4>1. f \in AllTasks BY ProcessAssumption DEF AllTasks
      <4>2. f # t BY <1>0, <2>2, <3>3 DEF LocFits, InFork, Ordered
      <4> QED BY <1>2, <3>3, <4>1, <4>2
    <3> QED BY <2>2, <3>2, <3>3 DEF Control, SlotsOK
  <2>3. ASSUME c \in Slot, ~ task'[c].named
        PROVE  \/ task'[c].sel = NoSel /\ task'[c].cr3 = NoFrame
               \/ \E g \in Forker : loc'[g].pc = "name" /\ loc'[g].child = c
    BY <1>3, <1>5, <2>3
  <2> QED BY <2>1, <2>2, <2>3 DEF Control, SlotsOK
<1>7. ASSUME NEW u \in AllTasks, u # t PROVE LocFits(loc[u], u)'
  <2>1. PICK m : m = loc[u] OBVIOUS
  <2>2. LocFits(m, u) BY <2>1 DEF Control
  <2>3. m.pc # "run" => task'[u] = task[u]
    <3>1. CASE u # c BY <1>4, <3>1
    <3>2. CASE u = c
      <4>1. u \notin started BY <1>0, <1>7, <3>2 DEF LocFits
      <4> QED BY <2>2, <4>1 DEF LocFits, IdleLoc
    <3> QED BY <3>1, <3>2
  <2>4. InFork(m) => task'[m.child] = task[m.child]
    <3> SUFFICES ASSUME InFork(m) PROVE task'[m.child] = task[m.child] OBVIOUS
    <3>1. u \in Forker /\ m.child \in Slot \ started BY <2>2 DEF LocFits
    <3>2. CASE c = t /\ t \in started BY <1>4, <3>1, <3>2 DEF AllTasks
    <3>3. CASE InFork(loc[t])
      <4>1. t \in Forker BY <1>0, <3>3 DEF LocFits
      <4> QED BY <1>7, <3>1, <4>1 DEF Ordered
    <3> QED BY <3>2, <3>3
  <2>5. LocFits(m, u)' BY <2>2, <2>3, <2>4 DEF LocFits, HeapDir, OwnDir
  <2> QED BY <1>2, <1>7, <2>1, <2>5
<1>8. ASSUME NEW u \in AllTasks PROVE LocFits(loc[u], u)'
  <2>1. CASE u = t BY <1>3, <2>1
  <2>2. CASE u # t BY <1>7, <2>2
  <2> QED BY <2>1, <2>2
<1> QED BY <1>1, <1>6, <1>8 DEF Control

-----------------------------------------------------------------------------
(* What a step needs to know of the state before it.                       *)
LEMMA FreshFrame ==
  ASSUME NEW f, AllocPage(f)
  PROVE  f \in Frame /\ f \notin used /\ f # NoFrame /\ used' = used \cup {f}
BY MemoryAssumption DEF AllocPage, Free, NoFrame

LEMMA HeldIsUsed ==
  ASSUME TypeOK, Owned, NEW x \in Place, FrameAt(x) # NoFrame
  PROVE  FrameAt(x) \in used /\ FrameAt(x) \notin dropped /\ FrameAt(x) \in Frame
BY DEF Owned, Owns, Holds, TypeOK

LEMMA HeldOnce ==
  ASSUME Owned, NEW x \in Place, NEW y \in Place, FrameAt(x) # NoFrame,
         FrameAt(x) = FrameAt(y)
  PROVE  x = y
BY DEF Owned, Owns, Holds

(* The directory of a task, the one that its call has for itself, and the  *)
(* page that it has yet to map, are in use.                                *)
LEMMA OwnFrames ==
  ASSUME Control, Owned, NEW t \in AllTasks
  PROVE  /\ task[t].cr3 # NoFrame => task[t].cr3 \in used \ dropped
         /\ loc[t].page # NoFrame => loc[t].page \in used \ dropped
         /\ OwnDir(loc[t]) => loc[t].dir \in used \ dropped
         /\ HasStack(t) /\ task[t].stack # NoFrame => task[t].stack \in used \ dropped
<1>0. TypeOK /\ LocFits(loc[t], t) BY DEF Control
<1>1. /\ LastPosition \in 0 .. LastPosition /\ SpaceAt(t, LastPosition) \in Place
      /\ CallAt(t, LastPosition) \in Place /\ StackOf(t) \in Place /\ PageOf(t) \in Place
  BY PlacesAre, LastIsPlace
<1>2. ASSUME task[t].cr3 # NoFrame PROVE task[t].cr3 \in used \ dropped
  <2>1. FrameAt(SpaceAt(t, LastPosition)) = task[t].cr3
    <3>1. ~ (LastPosition < 0) BY LastIsPlace
    <3>2. FrameAt(SpaceAt(t, LastPosition)) = Tree(entry, task[t].cr3, 0, LastPosition)
      BY <1>1, AtPlacesHold DEF AtPlaces
    <3> QED BY <1>2, <3>1, <3>2 DEF Tree, Freed
  <2> QED BY <1>0, <1>1, <1>2, <2>1, HeldIsUsed
<1>3. ASSUME loc[t].page # NoFrame PROVE loc[t].page \in used \ dropped
  <2>1. FrameAt(PageOf(t)) = loc[t].page BY AtPlacesHold DEF AtPlaces
  <2> QED BY <1>0, <1>1, <1>3, <2>1, HeldIsUsed
<1>4. ASSUME OwnDir(loc[t]) PROVE loc[t].dir \in used \ dropped
  <2>1. loc[t].dir # NoFrame /\ loc[t].dir # task[t].cr3 BY <1>0, <1>4 DEF LocFits
  <2>2. CallDir(t) = loc[t].dir BY <2>1 DEF CallDir
  <2>3. ~ (LastPosition < CallFrom(t))
    BY <1>0, LastIsPlace DEF CallFrom, LocFits
  <2>4. FrameAt(CallAt(t, LastPosition)) = Tree(entry, CallDir(t), CallFrom(t), LastPosition)
    BY <1>1, AtPlacesHold DEF AtPlaces
  <2>5. FrameAt(CallAt(t, LastPosition)) = loc[t].dir
    BY <2>1, <2>2, <2>3, <2>4 DEF Tree, Freed
  <2> QED BY <1>0, <1>1, <2>1, <2>5, HeldIsUsed
<1>5. ASSUME HasStack(t), task[t].stack # NoFrame PROVE task[t].stack \in used \ dropped
  <2>1. FrameAt(StackOf(t)) = task[t].stack BY <1>5, AtPlacesHold DEF AtPlaces
  <2> QED BY <1>0, <1>1, <1>5, <2>1, HeldIsUsed
<1> QED BY <1>2, <1>3, <1>4, <1>5

(* A fork has its slot for itself.                                         *)
LEMMA ChildOf ==
  ASSUME Control, Ordered, NEW t \in AllTasks, InFork(loc[t])
  PROVE  LET c == loc[t].child
         IN  /\ c \in Slot /\ c \in AllTasks /\ c \notin started /\ c # First /\ c # t
             /\ t \in started /\ t \in Forker
             /\ loc[c] = IdleLoc
             /\ \A u \in AllTasks : u # t => ~ InFork(loc[u])
             /\ \A f \in Forker : f = t
             /\ loc[t].pc \in {"desc", "stack", "uvm"} =>
                  ~ task[c].named /\ task[c].sel = NoSel /\ task[c].cr3 = NoFrame
<1> DEFINE c == loc[t].child
<1>0. LocFits(loc[t], t) /\ TypeOK /\ SlotsOK BY DEF Control
<1>1. t \in Forker /\ c \in Slot \ started BY <1>0 DEF LocFits
<1>2. t \in started BY <1>0 DEF LocFits, IdleLoc, InFork
<1>3. c \in AllTasks /\ c # First BY <1>1, ProcessAssumption DEF AllTasks
<1>4. loc[c] = IdleLoc
  <2>1. LocFits(loc[c], c) BY <1>3 DEF Control
  <2> QED BY <1>1, <2>1 DEF LocFits
<1>5. ASSUME NEW u \in AllTasks, u # t PROVE ~ InFork(loc[u])
  <2>1. LocFits(loc[u], u) BY DEF Control
  <2> QED BY <1>1, <1>5, <2>1 DEF LocFits, Ordered
<1>6. \A f \in Forker : f = t BY <1>1 DEF Ordered
<1>7. ASSUME loc[t].pc \in {"desc", "stack", "uvm"}
      PROVE  ~ task[c].named /\ task[c].sel = NoSel /\ task[c].cr3 = NoFrame
  <2>1. ~ task[c].named BY <1>0, <1>7 DEF LocFits
  <2>2. ~ \E f \in Forker : loc[f].pc = "name" /\ loc[f].child = c BY <1>6, <1>7
  <2> QED BY <1>0, <1>1, <2>1, <2>2 DEF SlotsOK
<1> QED BY <1>1, <1>2, <1>3, <1>4, <1>5, <1>6, <1>7

(* The next page that a fork copies.                                       *)
LEMMA NextToCopy ==
  ASSUME NEW t, ToCopy(t) # {}
  PROVE  LET v == CHOOSE v \in ToCopy(t) : \A w \in ToCopy(t) : v <= w
         IN  v \in ToCopy(t) /\ \A w \in ToCopy(t) : v <= w
<1>1. ToCopy(t) \subseteq Nat BY MemoryAssumption DEF ToCopy, Mapped, UserPage
<1>2. PICK m \in ToCopy(t) : \A k \in ToCopy(t) : ~ (k < m) BY <1>1, LeastNumber
<1>3. \A k \in ToCopy(t) : m <= k BY <1>1, <1>2
<1> QED BY <1>2, <1>3

(* memory_destroy_uvm frees the frame at the first position that has one.  *)
Destroys(t, p) ==
  /\ p \in 0 .. LastPosition /\ FrameAt(CallAt(t, p)) # NoFrame
  /\ \A q \in 0 .. LastPosition : q < p => FrameAt(CallAt(t, q)) = NoFrame
  /\ loc[t].pc = "destroy" /\ loc[t].at <= p
  /\ FreePage(FrameAt(CallAt(t, p)))
  /\ IF p < LastPosition THEN loc' = [loc EXCEPT ![t].at = p + 1]
     ELSE IF loc[t].then = "run" THEN EndCall(t)
     ELSE loc' = [loc EXCEPT ![t].pc = loc[t].then, ![t].dir = NoFrame]
  /\ UNCHANGED <<frameCnt, gdt, task, started, stopped, short, dropped, calls>>

LEMMA DestroysOne ==
  ASSUME Control, NEW t \in AllTasks, DestroyUvm(t)
  PROVE  \E p \in 0 .. LastPosition : Destroys(t, p)
<1> DEFINE l == loc[t]
           rest == {p \in l.at .. LastPosition : FreedAt(l.dir, p) # NoFrame}
<1>0. l.pc = "destroy" BY DEF DestroyUvm, At
<1>1. LocFits(l, t) BY DEF Control
<1>2. l.dir # NoFrame /\ l.dir # task[t].cr3 BY <1>0, <1>1 DEF LocFits, OwnDir
<1>3. l.at \in 0 .. LastPosition BY <1>0, <1>1 DEF LocFits
<1>4. \A q \in 0 .. LastPosition :
        FrameAt(CallAt(t, q)) = IF q < l.at THEN NoFrame ELSE FreedAt(l.dir, q)
  BY <1>0, <1>2 DEF FrameAt, CallAt, InOldSpace
<1>5. rest \subseteq Nat /\ rest \subseteq 0 .. LastPosition BY <1>3, LastIsPlace
<1>6. LastPosition \in rest BY <1>2, <1>3, LastIsPlace DEF FreedAt
<1>7. PICK m \in rest : \A k \in rest : ~ (k < m) BY <1>5, <1>6, LeastNumber
<1>8. \A k \in rest : m <= k BY <1>5, <1>7
<1>9. PICK p \in rest : /\ p = CHOOSE q \in rest : \A r \in rest : q <= r
                        /\ \A r \in rest : p <= r
  BY <1>7, <1>8
<1>10. p \in 0 .. LastPosition /\ l.at <= p BY <1>3, <1>5, <1>9
<1>11. FrameAt(CallAt(t, p)) = FreedAt(l.dir, p) /\ FreedAt(l.dir, p) # NoFrame
  BY <1>3, <1>4, <1>9, <1>10
<1>12. ASSUME NEW q \in 0 .. LastPosition, q < p PROVE FrameAt(CallAt(t, q)) = NoFrame
  <2>1. q < l.at \/ q \in l.at .. LastPosition BY <1>3, LastIsPlace
  <2>2. q \notin rest BY <1>9, <1>10, <1>12
  <2> QED BY <1>4, <2>1, <2>2
<1>13. /\ FreePage(FreedAt(l.dir, p))
       /\ IF p < LastPosition THEN loc' = [loc EXCEPT ![t].at = p + 1]
          ELSE IF l.then = "run" THEN EndCall(t)
          ELSE loc' = [loc EXCEPT ![t].pc = l.then, ![t].dir = NoFrame]
       /\ UNCHANGED <<frameCnt, gdt, task, started, stopped, short, dropped, calls>>
  BY <1>9, Zenon DEF DestroyUvm
<1> QED BY <1>0, <1>10, <1>11, <1>12, <1>13 DEF Destroys

-----------------------------------------------------------------------------
(* Every action leaves every task at a place where its local variables     *)
(* are what they are for.                                                  *)
LEMMA EntriesKept ==
  ASSUME TypeOK
  PROVE  /\ \A f : FreePage(f) => entry' \in Entries /\ used' = used \ {f}
         /\ \A f : CreateUvm(f) => entry' \in Entries
         /\ \A d \in Frame, v \in UserPage, f \in Frame :
              CreateMap(d, v, f) => entry' \in Entries /\ used \subseteq used' /\ used' \subseteq Frame
<1>1. Zeroed \in [Index -> Frame \cup {NoFrame}] BY DEF Zeroed
<1>2. ASSUME NEW f, FreePage(f) PROVE entry' \in Entries /\ used' = used \ {f}
  BY <1>1, <1>2 DEF FreePage, TypeOK, Entries
<1>3. ASSUME NEW f, CreateUvm(f) PROVE entry' \in Entries
  BY <1>1, <1>3 DEF CreateUvm, TypeOK, Entries
<1>4. ASSUME NEW d \in Frame, NEW v \in UserPage, NEW f \in Frame, CreateMap(d, v, f)
      PROVE  entry' \in Entries /\ used \subseteq used' /\ used' \subseteq Frame
  <2>1. PICK i \in Index, j \in Index : i = PdeIndex(v) /\ j = PteIndex(v) BY PageIsPos
  <2>2. PICK x \in Frame \cup {NoFrame} : x = TableOf(d, v)
    BY <2>1 DEF TableOf, TypeOK, Entries
  <2>3. CASE x # NoFrame
    <3>1. entry' = [entry EXCEPT ![x][j] = f] /\ used' = used
      BY <1>4, <2>1, <2>2, <2>3 DEF CreateMap
    <3> QED BY <2>2, <2>3, <3>1 DEF TypeOK, Entries
  <2>4. CASE x = NoFrame
    <3>1. PICK y : y = FirstFree OBVIOUS
    <3>2. AllocPage(y) /\ entry' = [entry EXCEPT ![y] = [Zeroed EXCEPT ![j] = f], ![d][i] = y]
      BY <1>4, <2>1, <2>2, <2>4, <3>1 DEF CreateMap
    <3>3. y \in Frame /\ used' = used \cup {y} BY <3>2, FreshFrame
    <3>4. [Zeroed EXCEPT ![j] = f] \in [Index -> Frame \cup {NoFrame}] BY <1>1
    <3> QED BY <3>2, <3>3, <3>4 DEF TypeOK, Entries
  <2> QED BY <2>3, <2>4
<1> QED BY <1>2, <1>3, <1>4

LEMMA AllocTaskControl ==
  ASSUME PInv, Ordered, NEW t \in AllTasks, AllocTask(t)
  PROVE  Control'
<1>0. Control /\ TypeOK /\ SlotsOK /\ LocFits(loc[t], t) BY DEF PInv, Control
<1>1. PICK c \in Slot : ~ task[c].named /\ loc' = [loc EXCEPT ![t].pc = "desc", ![t].child = c]
  BY DEF AllocTask
<1>2. /\ t \in Forker /\ t \in started /\ loc[t].pc = "run"
      /\ task[t].sel # NoSel /\ task[t].cr3 # NoFrame
      /\ UNCHANGED <<memVars, gdt, task, started, dropped>>
  BY DEF AllocTask, CanRun, At
<1>3. c \notin started /\ c # First /\ c \in AllTasks
  BY <1>0, <1>1, ProcessAssumption DEF SlotsOK, AllTasks
<1>m. PICK m \in LocRec : m = loc[t] BY <1>0 DEF TypeOK
<1> DEFINE l == [m EXCEPT !.pc = "desc", !.child = c]
<1>4. loc' = [loc EXCEPT ![t] = l] BY <1>0, <1>1, <1>m DEF TypeOK
<1>5. l \in LocRec BY <1>3 DEF LocRec
<1>6. m = IdleLoc BY <1>0, <1>2, <1>m DEF LocFits
<1>7. l.pc = "desc" /\ l.child = c /\ l.dir = NoFrame /\ l.page = NoFrame
  BY <1>6 DEF IdleLoc
<1> HIDE DEF l
<1>8. LocFits(l, t)
  BY <1>1, <1>2, <1>3, <1>7 DEF LocFits, InFork, NoDirYet, OwnDir, HeapDir
<1> QED BY <1>0, <1>2, <1>4, <1>5, <1>8, CallStep DEF TypeOK, memVars

LEMMA GdtAllocDescControl ==
  ASSUME PInv, Ordered, NEW t \in AllTasks, GdtAllocDesc(t)
  PROVE  Control'
<1>0. Control /\ TypeOK /\ LocFits(loc[t], t) BY DEF PInv, Control
<1>m. PICK m \in LocRec : m = loc[t] BY <1>0 DEF TypeOK
<1>1. m.pc = "desc" /\ UNCHANGED <<memVars, gdt, task, started, dropped>>
  BY <1>m DEF GdtAllocDesc, At
<1>2. \E l \in LocRec : /\ loc' = [loc EXCEPT ![t] = l]
                        /\ l.pc \in {"name", "stack"}
                        /\ l.child = m.child /\ l.dir = m.dir /\ l.page = m.page
  <2>1. CASE Sel \subseteq gdt
    <3>1. loc' = [loc EXCEPT ![t].pc = "name"] BY <2>1 DEF GdtAllocDesc, GoTo
    <3> DEFINE l == [m EXCEPT !.pc = "name"]
    <3>2. loc' = [loc EXCEPT ![t] = l] BY <1>0, <1>m, <3>1 DEF TypeOK
    <3>3. l \in LocRec BY DEF LocRec
    <3>4. l.pc = "name" /\ l.child = m.child /\ l.dir = m.dir /\ l.page = m.page
      BY DEF LocRec
    <3> QED BY <3>2, <3>3, <3>4
  <2>2. CASE ~ (Sel \subseteq gdt)
    <3>1. PICK s \in Sel : loc' = [loc EXCEPT ![t].pc = "stack", ![t].sel = s]
      BY <2>2 DEF GdtAllocDesc
    <3> DEFINE l == [m EXCEPT !.pc = "stack", !.sel = s]
    <3>2. loc' = [loc EXCEPT ![t] = l] BY <1>0, <1>m, <3>1 DEF TypeOK
    <3>3. l \in LocRec BY DEF LocRec
    <3>4. l.pc = "stack" /\ l.child = m.child /\ l.dir = m.dir /\ l.page = m.page
      BY DEF LocRec
    <3> QED BY <3>2, <3>3, <3>4
  <2> QED BY <2>1, <2>2
<1>3. PICK l \in LocRec : /\ loc' = [loc EXCEPT ![t] = l]
                          /\ l.pc \in {"name", "stack"}
                          /\ l.child = m.child /\ l.dir = m.dir /\ l.page = m.page
  BY <1>2
<1>4. LocFits(l, t)
  <2>1. LocFits(m, t) BY <1>0, <1>m
  <2> QED BY <1>1, <1>3, <2>1 DEF LocFits, InFork, NoDirYet, OwnDir, HeapDir, IdleLoc
<1> QED BY <1>0, <1>1, <1>3, <1>4, <1>m, CallStep DEF TypeOK, memVars

LEMMA AllocStackControl ==
  ASSUME PInv, Ordered, NEW t \in AllTasks, AllocStack(t)
  PROVE  Control'
<1>0. Control /\ TypeOK /\ LocFits(loc[t], t) BY DEF PInv, Control
<1>m. PICK m \in LocRec, c \in AllTasks : m = loc[t] /\ c = loc[t].child
  BY <1>0 DEF TypeOK, LocRec
<1>1. loc[t].pc = "stack" /\ m.pc = "stack" /\ UNCHANGED <<entry, started, dropped>> 
  BY <1>m DEF AllocStack, At
<1>2. InFork(loc[t]) BY <1>1 DEF InFork
<1>3. /\ c \in AllTasks /\ c \notin started /\ c # t /\ t \in Forker /\ t \in started
      /\ ~ task[c].named /\ task[c].sel = NoSel
  BY <1>0, <1>1, <1>2, <1>m, ChildOf
<1>4. \E x \in Frame \cup {NoFrame}, q \in {"name", "uvm"} :
        /\ task' = [task EXCEPT ![c].stack = x, ![c].cr3 = NoFrame]
        /\ loc' = [loc EXCEPT ![t].pc = q]
        /\ used \subseteq used' /\ used' \subseteq Frame
  <2>1. CASE Free = {}
    BY <1>0, <1>m, <2>1 DEF AllocStack, GoTo, TypeOK
  <2>2. CASE Free # {}
    <3>1. FirstFree \in Frame /\ used' = used \cup {FirstFree}
      BY <2>2, FreshFrame DEF AllocStack
    <3> QED BY <1>0, <1>m, <2>2, <3>1 DEF AllocStack, GoTo, TypeOK
  <2> QED BY <2>1, <2>2
<1>5. PICK x \in Frame \cup {NoFrame}, q \in {"name", "uvm"} :
        /\ task' = [task EXCEPT ![c].stack = x, ![c].cr3 = NoFrame]
        /\ loc' = [loc EXCEPT ![t].pc = q]
        /\ used \subseteq used' /\ used' \subseteq Frame
  BY <1>4
<1>k. PICK n \in TaskRec : n = task[c] BY <1>0 DEF TypeOK
<1> DEFINE k == [n EXCEPT !.stack = x, !.cr3 = NoFrame]
           l == [m EXCEPT !.pc = q]
<1>6. task' = [task EXCEPT ![c] = k] /\ loc' = [loc EXCEPT ![t] = l]
  BY <1>0, <1>3, <1>5, <1>k, <1>m DEF TypeOK
<1>7. k \in TaskRec /\ k.named = n.named /\ k.sel = n.sel /\ k.cr3 = NoFrame
  BY DEF TaskRec
<1>8. l \in LocRec /\ l.pc = q /\ l.child = m.child /\ l.dir = m.dir /\ l.page = m.page
  BY DEF LocRec
<1>9. gdt' \subseteq Sel
  BY <1>0, <1>1, <1>m DEF AllocStack, TypeOK, LocRec, PInv, DescriptorFound
<1> HIDE DEF k, l
<1>10. task'[t] = task[t] /\ task'[c] = k BY <1>0, <1>3, <1>6 DEF TypeOK
<1>11. LocFits(l, t)'
  <2>1. LocFits(m, t) BY <1>0, <1>m
  <2>2. /\ m.dir = NoFrame /\ m.page = NoFrame /\ m.child = c /\ c \in Slot \ started /\ c # First
        /\ task[t].sel # NoSel /\ task[t].cr3 # NoFrame
    BY <1>1, <1>m, <2>1 DEF LocFits, InFork, NoDirYet
  <2> QED BY <1>1, <1>3, <1>7, <1>8, <1>10, <1>k, <2>2
          DEF LocFits, InFork, NoDirYet, OwnDir, HeapDir
<1>12. dropped' \subseteq used' /\ used' \subseteq Frame /\ entry' \in Entries /\ UNCHANGED started
  BY <1>0, <1>1, <1>5 DEF TypeOK
<1>13. ~ k.named /\ k.sel = NoSel /\ k.cr3 = NoFrame BY <1>3, <1>7, <1>k
<1> QED BY <1>0, <1>1, <1>2, <1>3, <1>6, <1>7, <1>8, <1>9, <1>11, <1>12, <1>13, <1>m, TaskStep

LEMMA TssCreateUvmControl ==
  ASSUME PInv, Ordered, NEW t \in AllTasks, TssCreateUvm(t)
  PROVE  Control'
<1>0. Control /\ TypeOK /\ Owned /\ LocFits(loc[t], t) BY DEF PInv, Control
<1>m. PICK m \in LocRec, c \in AllTasks : m = loc[t] /\ c = loc[t].child
  BY <1>0 DEF TypeOK, LocRec
<1>1. loc[t].pc = "uvm" /\ m.pc = "uvm" /\ UNCHANGED <<started, dropped>>
  BY <1>m DEF TssCreateUvm, At
<1>2. InFork(loc[t]) BY <1>1 DEF InFork
<1>3. /\ c \in AllTasks /\ c \notin started /\ c # t /\ t \in Forker /\ t \in started
      /\ ~ task[c].named /\ task[c].sel = NoSel
  BY <1>0, <1>1, <1>2, <1>m, ChildOf
<1> DEFINE l == [m EXCEPT !.pc = "name"]
<1>4. loc' = [loc EXCEPT ![t] = l] BY <1>0, <1>m DEF TypeOK, TssCreateUvm, GoTo
<1>5. l \in LocRec /\ l.pc = "name" /\ l.child = m.child /\ l.dir = m.dir /\ l.page = m.page
  BY DEF LocRec
<1> HIDE DEF l
<1>6. LocFits(m, t) BY <1>0, <1>m
<1>7. /\ m.dir = NoFrame /\ m.page = NoFrame /\ m.child = c /\ c \in Slot \ started /\ c # First
      /\ task[t].sel # NoSel /\ task[t].cr3 # NoFrame
  BY <1>1, <1>6, <1>m DEF LocFits, InFork, NoDirYet
<1>8. CASE Free = {}
  <2>1. FreePage(task[c].stack) /\ gdt' \subseteq gdt /\ task' = task
    BY <1>8, <1>m DEF TssCreateUvm
  <2>2. HasStack(c) BY <1>1, <1>3, <1>m DEF HasStack
  <2>3. task[c].stack # NoFrame => task[c].stack \in used \ dropped
    BY <1>0, <2>2, OwnFrames
  <2>4. used' = used \ {task[c].stack} /\ entry' \in Entries
    BY <1>0, <2>1, EntriesKept
  <2>5. NoFrame \notin used BY <1>0, MemoryAssumption DEF TypeOK, NoFrame
  <2>6. used' \subseteq Frame /\ dropped' \subseteq used' /\ gdt' \subseteq Sel
    BY <1>0, <1>1, <2>1, <2>3, <2>4, <2>5 DEF TypeOK
  <2>7. LocFits(l, t)
    BY <1>3, <1>5, <1>7 DEF LocFits, InFork, NoDirYet, OwnDir, HeapDir
  <2> QED BY <1>0, <1>1, <1>4, <1>5, <1>m, <2>1, <2>4, <2>6, <2>7, CallStep
<1>9. CASE Free # {}
  <2>1. CreateUvm(FirstFree) /\ gdt' = gdt
        /\ task' = [task EXCEPT ![c].cr3 = FirstFree, ![c].sel = loc[t].sel]
    BY <1>9, <1>m DEF TssCreateUvm
  <2>2. FirstFree \in Frame /\ used' = used \cup {FirstFree} /\ entry' \in Entries
    BY <1>0, <2>1, FreshFrame, EntriesKept DEF CreateUvm
  <2>3. PICK n \in TaskRec, s \in Sel \cup {NoSel}, x \in Frame :
          n = task[c] /\ s = m.sel /\ x = FirstFree
    BY <1>0, <2>2 DEF TypeOK, LocRec
  <2> DEFINE k == [n EXCEPT !.cr3 = x, !.sel = s]
  <2>4. task' = [task EXCEPT ![c] = k] BY <1>0, <1>m, <2>1, <2>3 DEF TypeOK
  <2>5. k \in TaskRec /\ k.named = n.named BY DEF TaskRec
  <2> HIDE DEF k
  <2>6. task'[t] = task[t] /\ task'[c] = k BY <1>0, <1>3, <2>4 DEF TypeOK
  <2>7. LocFits(l, t)'
    BY <1>1, <1>3, <1>5, <1>7, <2>3, <2>5, <2>6 DEF LocFits, InFork, NoDirYet, OwnDir, HeapDir
  <2>8. used' \subseteq Frame /\ dropped' \subseteq used' /\ gdt' \subseteq Sel
        /\ UNCHANGED started
    BY <1>0, <1>1, <2>1, <2>2 DEF TypeOK
  <2> QED BY <1>0, <1>2, <1>3, <1>4, <1>5, <1>7, <1>m, <2>2, <2>4, <2>5, <2>7, <2>8, TaskStep
<1> QED BY <1>8, <1>9

LEMMA TaskInitControl ==
  ASSUME PInv, Ordered, NEW t \in AllTasks, TaskInit(t)
  PROVE  Control'
<1>0. Control /\ TypeOK /\ SlotsOK /\ LocFits(loc[t], t) BY DEF PInv, Control
<1>m. PICK m \in LocRec, c \in AllTasks : m = loc[t] /\ c = loc[t].child
  BY <1>0 DEF TypeOK, LocRec
<1>1. loc[t].pc = "name" /\ m.pc = "name" /\ UNCHANGED <<memVars, gdt, started, dropped>>
  BY <1>m DEF TaskInit, At
<1>2. InFork(loc[t]) BY <1>1 DEF InFork
<1>3. c \in AllTasks /\ c \notin started /\ c # t /\ t \in Forker /\ t \in started
  BY <1>0, <1>2, <1>m, ChildOf
<1> DEFINE l == [m EXCEPT !.pc = "copyUvm"]
<1>4. loc' = [loc EXCEPT ![t] = l] BY <1>0, <1>m DEF TypeOK, TaskInit, GoTo
<1>5. l \in LocRec /\ l.pc = "copyUvm" /\ l.child = m.child /\ l.dir = m.dir /\ l.page = m.page
  BY DEF LocRec
<1>6. task[t].named = TRUE BY <1>0, <1>3 DEF SlotsOK, TypeOK, TaskRec
<1>7. PICK n \in TaskRec : n = task[c] BY <1>0 DEF TypeOK
<1> DEFINE k == [n EXCEPT !.named = TRUE, !.heapEnd = 0]
<1>8. task' = [task EXCEPT ![c] = k] BY <1>0, <1>6, <1>7, <1>m DEF TypeOK, TaskInit
<1>9. k \in TaskRec /\ k.named BY DEF TaskRec
<1> HIDE DEF l, k
<1>10. task'[t] = task[t] /\ task'[c] = k BY <1>0, <1>3, <1>8 DEF TypeOK
<1>11. LocFits(l, t)'
  <2>1. LocFits(m, t) BY <1>0, <1>m
  <2>2. /\ m.dir = NoFrame /\ m.page = NoFrame /\ m.child = c /\ c \in Slot \ started /\ c # First
        /\ task[t].sel # NoSel /\ task[t].cr3 # NoFrame
    BY <1>1, <1>m, <2>1 DEF LocFits, InFork, NoDirYet
  <2> QED BY <1>1, <1>3, <1>5, <1>9, <1>10, <2>2 DEF LocFits, InFork, NoDirYet, OwnDir, HeapDir
<1>12. used' \subseteq Frame /\ dropped' \subseteq used' /\ gdt' \subseteq Sel
       /\ entry' \in Entries /\ UNCHANGED started
  BY <1>0, <1>1 DEF TypeOK, memVars
<1> QED BY <1>0, <1>2, <1>4, <1>5, <1>8, <1>9, <1>11, <1>12, <1>m, TaskStep

(* The three ends of memory_copy_uvm, which set the cr3 of the child.      *)
LEMMA SetCr3Control ==
  ASSUME PInv, Ordered, NEW t \in AllTasks, NEW x \in Frame \cup {NoFrame}, SetCr3(t, x),
         InFork(loc[t]), loc[t].pc \in {"copyUvm", "copyPage", "copyFailed"},
         loc' = [loc EXCEPT ![t].pc = "start", ![t].dir = NoFrame],
         UNCHANGED <<memVars, gdt, started>>
  PROVE  Control'
<1>0. Control /\ TypeOK /\ Owned /\ LocFits(loc[t], t) BY DEF PInv, Control
<1>m. PICK m \in LocRec, c \in AllTasks : m = loc[t] /\ c = loc[t].child
  BY <1>0 DEF TypeOK, LocRec
<1>1. c \notin started /\ c # t /\ t \in Forker /\ t \in started
  BY <1>0, <1>m, ChildOf
<1> DEFINE l == [m EXCEPT !.pc = "start", !.dir = NoFrame]
<1>2. loc' = [loc EXCEPT ![t] = l] BY <1>0, <1>m DEF TypeOK
<1>3. l \in LocRec /\ l.pc = "start" /\ l.child = m.child /\ l.dir = NoFrame /\ l.page = m.page
  BY DEF LocRec
<1>4. PICK n \in TaskRec : n = task[c] BY <1>0 DEF TypeOK
<1> DEFINE k == [n EXCEPT !.cr3 = x]
<1>5. task' = [task EXCEPT ![c] = k] BY <1>0, <1>4, <1>m DEF TypeOK, SetCr3
<1>6. k \in TaskRec /\ k.named = n.named BY DEF TaskRec
<1> HIDE DEF l, k
<1>7. task'[t] = task[t] /\ task'[c] = k BY <1>0, <1>1, <1>5 DEF TypeOK
<1>8. LocFits(m, t) BY <1>0, <1>m
<1>9. /\ m.page = NoFrame /\ m.child = c /\ c \in Slot \ started /\ c # First
      /\ task[t].sel # NoSel /\ task[t].cr3 # NoFrame /\ n.named
  BY <1>4, <1>8, <1>m DEF LocFits, InFork
<1>10. LocFits(l, t)'
  BY <1>1, <1>3, <1>6, <1>7, <1>9 DEF LocFits, InFork, NoDirYet, OwnDir, HeapDir
<1>11. dropped' \subseteq used'
  <2>1. task[c].cr3 # NoFrame => task[c].cr3 \in used \ dropped BY <1>0, OwnFrames
  <2> QED BY <1>0, <1>m, <2>1 DEF SetCr3, TypeOK, memVars
<1>12. used' \subseteq Frame /\ gdt' \subseteq Sel /\ entry' \in Entries /\ UNCHANGED started
  BY <1>0 DEF TypeOK, memVars
<1> QED BY <1>0, <1>2, <1>3, <1>5, <1>6, <1>9, <1>10, <1>11, <1>12, <1>m, TaskStep

LEMMA CopyCreateUvmControl ==
  ASSUME PInv, Ordered, NEW t \in AllTasks, CopyCreateUvm(t)
  PROVE  Control'
<1>0. Control /\ TypeOK /\ Owned /\ LocFits(loc[t], t) BY DEF PInv, Control
<1>m. PICK m \in LocRec : m = loc[t] BY <1>0 DEF TypeOK
<1>1. loc[t].pc = "copyUvm" /\ m.pc = "copyUvm" /\ UNCHANGED <<gdt, started>>
  BY <1>m DEF CopyCreateUvm, At
<1>2. LocFits(m, t) BY <1>0, <1>m
<1>3. InFork(m) /\ InFork(loc[t]) /\ NoDirYet(m) BY <1>1 DEF InFork, NoDirYet
<1>4. CASE Free = {}
  <2>1. SetCr3(t, NoFrame) /\ loc' = [loc EXCEPT ![t].pc = "start"] /\ UNCHANGED memVars
    BY <1>4 DEF CopyCreateUvm, GoTo
  <2>2. m.dir = NoFrame BY <1>2, <1>3 DEF LocFits
  <2>3. [m EXCEPT !.pc = "start"] = [m EXCEPT !.pc = "start", !.dir = NoFrame]
    BY <2>2 DEF LocRec
  <2>4. loc' = [loc EXCEPT ![t].pc = "start", ![t].dir = NoFrame]
    BY <1>0, <1>m, <2>1, <2>3 DEF TypeOK
  <2> QED BY <1>1, <1>3, <2>1, <2>4, SetCr3Control
<1>5. CASE Free # {}
  <2>1. CreateUvm(FirstFree) /\ UNCHANGED <<task, dropped>>
        /\ loc' = [loc EXCEPT ![t].pc = "copyPage", ![t].dir = FirstFree, ![t].at = Base]
    BY <1>5 DEF CopyCreateUvm
  <2>2. PICK d : d = FirstFree OBVIOUS
  <2>3. d \in Frame /\ d \notin used /\ d # NoFrame /\ used' = used \cup {d}
        /\ entry' \in Entries
    BY <1>0, <2>1, <2>2, FreshFrame, EntriesKept DEF CreateUvm
  <2>4. d # task[t].cr3
    <3>1. task[t].cr3 # NoFrame => task[t].cr3 \in used BY <1>0, OwnFrames
    <3> QED BY <2>3, <3>1
  <2>5. PICK b \in Nat : b = Base BY MemoryAssumption
  <2> DEFINE l == [m EXCEPT !.pc = "copyPage", !.dir = d, !.at = b]
  <2>6. loc' = [loc EXCEPT ![t] = l] BY <1>0, <1>m, <2>1, <2>2, <2>5 DEF TypeOK
  <2>7. l \in LocRec /\ l.pc = "copyPage" /\ l.child = m.child /\ l.dir = d /\ l.page = m.page
    BY <2>3 DEF LocRec
  <2> HIDE DEF l
  <2>8. LocFits(l, t)
    BY <1>1, <1>2, <1>3, <2>3, <2>4, <2>7 DEF LocFits, InFork, NoDirYet, OwnDir, HeapDir, IdleLoc
  <2> QED BY <1>0, <1>1, <2>1, <2>3, <2>6, <2>7, <2>8, CallStep DEF TypeOK
<1> QED BY <1>4, <1>5

LEMMA CopyPageControl ==
  ASSUME PInv, Ordered, NEW t \in AllTasks, CopyPage(t)
  PROVE  Control'
<1>0. Control /\ TypeOK /\ LocFits(loc[t], t) BY DEF PInv, Control
<1>m. PICK m \in LocRec : m = loc[t] BY <1>0 DEF TypeOK
<1>1. loc[t].pc = "copyPage" /\ m.pc = "copyPage"
      /\ UNCHANGED <<entry, gdt, task, started, dropped>>
  BY <1>m DEF CopyPage, At
<1>2. LocFits(m, t) BY <1>0, <1>m
<1>3. InFork(m) /\ OwnDir(m) BY <1>1 DEF InFork, OwnDir
<1>4. CASE Free = {}
  <2>1. UNCHANGED used
        /\ loc' = [loc EXCEPT ![t].pc = "destroy", ![t].at = 0, ![t].then = "copyFailed"]
    BY <1>4 DEF CopyPage
  <2> DEFINE l == [m EXCEPT !.pc = "destroy", !.at = 0, !.then = "copyFailed"]
  <2>2. loc' = [loc EXCEPT ![t] = l] BY <1>0, <1>m, <2>1 DEF TypeOK
  <2>3. l \in LocRec /\ l.pc = "destroy" /\ l.child = m.child /\ l.dir = m.dir
        /\ l.page = m.page /\ l.at = 0 /\ l.then = "copyFailed"
    BY DEF LocRec
  <2> HIDE DEF l
  <2>4. 0 \in 0 .. LastPosition BY LastIsPlace
  <2>5. LocFits(l, t)
    BY <1>1, <1>2, <1>3, <2>3, <2>4 DEF LocFits, InFork, NoDirYet, OwnDir, HeapDir, IdleLoc
  <2> QED BY <1>0, <1>1, <2>1, <2>2, <2>3, <2>5, CallStep DEF TypeOK
<1>5. CASE Free # {}
  <2>1. PICK v : v = CHOOSE x \in ToCopy(t) : \A w \in ToCopy(t) : x <= w OBVIOUS
  <2>2. AllocPage(FirstFree)
        /\ loc' = [loc EXCEPT ![t].pc = "copyMap", ![t].page = FirstFree, ![t].at = v]
    BY <1>5, <2>1 DEF CopyPage
  <2>3. PICK f : f = FirstFree OBVIOUS
  <2>4. f \in Frame /\ f # NoFrame /\ used' = used \cup {f} BY <2>2, <2>3, FreshFrame
  <2>5. v \in UserPage /\ v \in Nat
    <3>1. v \in ToCopy(t) BY <2>1, NextToCopy DEF CopyPage
    <3> QED BY <3>1, MemoryAssumption DEF ToCopy, Mapped, UserPage
  <2> DEFINE l == [m EXCEPT !.pc = "copyMap", !.page = f, !.at = v]
  <2>6. loc' = [loc EXCEPT ![t] = l] BY <1>0, <1>m, <2>2, <2>3 DEF TypeOK
  <2>7. l \in LocRec /\ l.pc = "copyMap" /\ l.child = m.child /\ l.dir = m.dir
        /\ l.page = f /\ l.at = v
    BY <2>4, <2>5 DEF LocRec
  <2> HIDE DEF l
  <2>8. LocFits(l, t)
    BY <1>1, <1>2, <1>3, <2>4, <2>5, <2>7 DEF LocFits, InFork, NoDirYet, OwnDir, HeapDir, IdleLoc
  <2>9. used' \subseteq Frame /\ dropped' \subseteq used' /\ gdt' \subseteq Sel
        /\ entry' \in Entries
    BY <1>0, <1>1, <2>4 DEF TypeOK
  <2> QED BY <1>0, <1>1, <2>6, <2>7, <2>8, <2>9, CallStep
<1> QED BY <1>4, <1>5

LEMMA CopyMapControl ==
  ASSUME PInv, Ordered, NEW t \in AllTasks, CopyMap(t)
  PROVE  Control'
<1>0. Control /\ TypeOK /\ Owned /\ LocFits(loc[t], t) BY DEF PInv, Control
<1>m. PICK m \in LocRec : m = loc[t] BY <1>0 DEF TypeOK
<1>1. loc[t].pc = "copyMap" /\ m.pc = "copyMap" /\ UNCHANGED <<gdt, task, started>>
  BY <1>m DEF CopyMap, At
<1>2. LocFits(m, t) BY <1>0, <1>m
<1>3. InFork(m) /\ OwnDir(m) BY <1>1 DEF InFork, OwnDir
<1>4. CASE NoTable(m.dir, m.at)
  <2>1. dropped' = dropped \cup {m.page} /\ UNCHANGED memVars
        /\ loc' = [loc EXCEPT ![t].pc = "destroy", ![t].page = NoFrame,
                              ![t].at = 0, ![t].then = "copyFailed"]
    BY <1>4, <1>m DEF CopyMap
  <2> DEFINE l == [m EXCEPT !.pc = "destroy", !.page = NoFrame, !.at = 0, !.then = "copyFailed"]
  <2>2. loc' = [loc EXCEPT ![t] = l] BY <1>0, <1>m, <2>1 DEF TypeOK
  <2>3. l \in LocRec /\ l.pc = "destroy" /\ l.child = m.child /\ l.dir = m.dir
        /\ l.page = NoFrame /\ l.at = 0 /\ l.then = "copyFailed"
    BY DEF LocRec
  <2> HIDE DEF l
  <2>4. 0 \in 0 .. LastPosition BY LastIsPlace
  <2>5. LocFits(l, t)
    BY <1>1, <1>2, <1>3, <2>3, <2>4 DEF LocFits, InFork, NoDirYet, OwnDir, HeapDir, IdleLoc
  <2>6. m.page \in used
    <3>1. m.page # NoFrame BY <1>1, <1>2 DEF LocFits
    <3> QED BY <1>0, <1>m, <3>1, OwnFrames
  <2>7. used' \subseteq Frame /\ dropped' \subseteq used' /\ gdt' \subseteq Sel
        /\ entry' \in Entries
    BY <1>0, <1>1, <2>1, <2>6 DEF TypeOK, memVars
  <2> QED BY <1>0, <1>1, <2>2, <2>3, <2>5, <2>7, CallStep
<1>5. CASE ~ NoTable(m.dir, m.at)
  <2>1. CreateMap(m.dir, m.at, m.page) /\ UNCHANGED dropped
        /\ loc' = [loc EXCEPT ![t].pc = "copyPage", ![t].page = NoFrame, ![t].at = m.at + 1]
    BY <1>5, <1>m DEF CopyMap
  <2>2. m.dir \in Frame /\ m.page \in Frame /\ m.at \in UserPage /\ m.at \in Nat
    BY <1>1, <1>2, <1>3 DEF LocFits, LocRec
  <2>3. entry' \in Entries /\ used \subseteq used' /\ used' \subseteq Frame
    BY <1>0, <2>1, <2>2, EntriesKept
  <2>4. PICK a \in Nat : a = m.at + 1 BY <2>2
  <2> DEFINE l == [m EXCEPT !.pc = "copyPage", !.page = NoFrame, !.at = a]
  <2>5. loc' = [loc EXCEPT ![t] = l] BY <1>0, <1>m, <2>1, <2>4 DEF TypeOK
  <2>6. l \in LocRec /\ l.pc = "copyPage" /\ l.child = m.child /\ l.dir = m.dir
        /\ l.page = NoFrame
    BY DEF LocRec
  <2> HIDE DEF l
  <2>7. LocFits(l, t)
    BY <1>1, <1>2, <1>3, <2>6 DEF LocFits, InFork, NoDirYet, OwnDir, HeapDir, IdleLoc
  <2>8. dropped' \subseteq used' /\ gdt' \subseteq Sel BY <1>0, <1>1, <2>1, <2>3 DEF TypeOK
  <2> QED BY <1>0, <1>1, <2>3, <2>5, <2>6, <2>7, <2>8, CallStep
<1> QED BY <1>4, <1>5

LEMMA CopyEndControl ==
  ASSUME PInv, Ordered, NEW t \in AllTasks, CopyDone(t) \/ CopyFailed(t)
  PROVE  Control'
<1>0. Control /\ TypeOK /\ LocFits(loc[t], t) BY DEF PInv, Control
<1>m. PICK m \in LocRec : m = loc[t] BY <1>0 DEF TypeOK
<1>1. CASE CopyDone(t)
  <2>1. SetCr3(t, m.dir) /\ UNCHANGED <<memVars, gdt, started>> /\ loc[t].pc = "copyPage"
        /\ loc' = [loc EXCEPT ![t].pc = "start", ![t].dir = NoFrame]
    BY <1>1, <1>m DEF CopyDone, At
  <2>2. m.dir \in Frame \cup {NoFrame} BY DEF LocRec
  <2>3. InFork(loc[t]) BY <2>1 DEF InFork
  <2> QED BY <2>1, <2>2, <2>3, SetCr3Control
<1>2. CASE CopyFailed(t)
  <2>1. SetCr3(t, NoFrame) /\ UNCHANGED <<memVars, gdt, started>> /\ loc[t].pc = "copyFailed"
        /\ loc' = [loc EXCEPT ![t].pc = "start"]
    BY <1>2, <1>m DEF CopyFailed, At, GoTo
  <2>2. m.dir = NoFrame BY <1>0, <1>m, <2>1 DEF LocFits, NoDirYet
  <2>3. [m EXCEPT !.pc = "start"] = [m EXCEPT !.pc = "start", !.dir = NoFrame]
    BY <2>2 DEF LocRec
  <2>4. loc' = [loc EXCEPT ![t].pc = "start", ![t].dir = NoFrame]
    BY <1>0, <1>m, <2>1, <2>3 DEF TypeOK
  <2>5. InFork(loc[t]) BY <2>1 DEF InFork
  <2> QED BY <2>1, <2>4, <2>5, SetCr3Control
<1> QED BY <1>1, <1>2

LEMMA StartChildControl ==
  ASSUME PInv, Ordered, NEW t \in AllTasks, StartChild(t)
  PROVE  Control'
<1>0. Control /\ TypeOK /\ SlotsOK /\ LocFits(loc[t], t) BY DEF PInv, Control
<1>m. PICK c \in AllTasks : c = loc[t].child BY <1>0 DEF TypeOK, LocRec
<1>1. loc[t].pc = "start" /\ started' = started \cup {c} /\ loc' = [loc EXCEPT ![t] = IdleLoc]
      /\ UNCHANGED <<memVars, gdt, task, dropped>>
  BY <1>m DEF StartChild, At, EndCall
<1>2. InFork(loc[t]) BY <1>1 DEF InFork
<1>3. /\ t \in started /\ t \in Forker /\ c \in Slot /\ loc[c] = IdleLoc
      /\ \A u \in AllTasks : u # t => ~ InFork(loc[u])
      /\ \A f \in Forker : f = t
  BY <1>0, <1>2, <1>m, ChildOf
<1>4. task[c].named BY <1>0, <1>1, <1>2, <1>m DEF LocFits
<1>5. IdleLoc \in LocRec BY DEF IdleLoc, LocRec, AllTasks
<1>6. TypeOK' BY <1>0, <1>1, <1>5 DEF TypeOK, memVars
<1>7. SlotsOK'
  <2>1. \A u \in started' : task'[u].named BY <1>0, <1>1, <1>4 DEF SlotsOK
  <2>2. ASSUME NEW s \in Slot, ~ task'[s].named
        PROVE  task'[s].sel = NoSel /\ task'[s].cr3 = NoFrame
    BY <1>0, <1>1, <1>3, <2>2 DEF SlotsOK
  <2> QED BY <1>0, <1>1, <2>1, <2>2 DEF SlotsOK
<1>8. ASSUME NEW u \in AllTasks PROVE LocFits(loc[u], u)'
  <2>1. CASE u = t
    <3>1. loc'[u] = IdleLoc BY <1>0, <1>1, <2>1 DEF TypeOK
    <3> QED BY <3>1 DEF LocFits, IdleLoc, InFork, NoDirYet, OwnDir, HeapDir
  <2>2. CASE u # t
    <3>1. PICK m : m = loc[u] OBVIOUS
    <3>2. LocFits(m, u) /\ ~ InFork(m) /\ loc'[u] = m
      BY <1>0, <1>1, <1>3, <2>2, <3>1 DEF Control, TypeOK
    <3>3. u = c => m = IdleLoc BY <1>3, <3>1
    <3>4. LocFits(m, u)' BY <1>1, <3>2, <3>3 DEF LocFits
    <3> QED BY <3>2, <3>4
  <2> QED BY <2>1, <2>2
<1> QED BY <1>6, <1>7, <1>8 DEF Control

(* memory_destroy_uvm at a position p where there is a frame to free.      *)
LEMMA DestroyUvmControl ==
  ASSUME PInv, Ordered, NEW t \in AllTasks, DestroyUvm(t)
  PROVE  Control'
<1>0. Control /\ TypeOK /\ Owned /\ LocFits(loc[t], t) BY DEF PInv, Control
<1>m. PICK m \in LocRec : m = loc[t] BY <1>0 DEF TypeOK
<1>1. PICK p \in 0 .. LastPosition : Destroys(t, p) BY <1>0, DestroysOne
<1>2. PICK f : f = FrameAt(CallAt(t, p)) OBVIOUS
<1>3. /\ m.pc = "destroy" /\ loc[t].pc = "destroy" /\ f # NoFrame /\ FreePage(f)
      /\ UNCHANGED <<gdt, task, started, dropped>>
  BY <1>1, <1>2, <1>m DEF Destroys
<1>4. f \in used \ dropped BY <1>0, <1>2, <1>3, PlacesAre, HeldIsUsed
<1>5. used' = used \ {f} /\ entry' \in Entries BY <1>0, <1>3, EntriesKept
<1>6. used' \subseteq Frame /\ dropped' \subseteq used' /\ gdt' \subseteq Sel
  BY <1>0, <1>3, <1>4, <1>5 DEF TypeOK
<1>7. LocFits(m, t) BY <1>0, <1>m
<1>8. \E l \in LocRec : loc' = [loc EXCEPT ![t] = l] /\ LocFits(l, t)
  <2>1. CASE p < LastPosition
    <3>1. PICK q \in 0 .. LastPosition : q = p + 1 BY <2>1, LastIsPlace
    <3> DEFINE l == [m EXCEPT !.at = q]
    <3>2. loc' = [loc EXCEPT ![t] = l] BY <1>0, <1>1, <1>m, <2>1, <3>1 DEF TypeOK, Destroys
    <3>3. l \in LocRec /\ l.pc = "destroy" /\ l.child = m.child /\ l.dir = m.dir
          /\ l.page = m.page /\ l.at = q /\ l.then = m.then
      BY <1>3, LastIsPlace DEF LocRec
    <3> HIDE DEF l
    <3>4. LocFits(l, t)
      BY <1>3, <1>7, <3>1, <3>3 DEF LocFits, InFork, NoDirYet, OwnDir, HeapDir, IdleLoc
    <3> QED BY <3>2, <3>3, <3>4
  <2>2. CASE ~ (p < LastPosition) /\ m.then = "run"
    <3>1. loc' = [loc EXCEPT ![t] = IdleLoc] BY <1>1, <1>m, <2>2 DEF Destroys, EndCall
    <3>2. IdleLoc \in LocRec BY DEF IdleLoc, LocRec, AllTasks
    <3>3. LocFits(IdleLoc, t) BY DEF LocFits, IdleLoc, InFork, NoDirYet, OwnDir, HeapDir
    <3> QED BY <3>1, <3>2, <3>3
  <2>3. CASE ~ (p < LastPosition) /\ m.then # "run"
    <3>1. m.then = "copyFailed" BY <1>3, <1>7, <2>3 DEF LocFits
    <3> DEFINE l == [m EXCEPT !.pc = "copyFailed", !.dir = NoFrame]
    <3>2. loc' = [loc EXCEPT ![t] = l] BY <1>0, <1>1, <1>m, <2>3, <3>1 DEF TypeOK, Destroys
    <3>3. l \in LocRec /\ l.pc = "copyFailed" /\ l.child = m.child /\ l.dir = NoFrame
          /\ l.page = m.page
      BY DEF LocRec
    <3> HIDE DEF l
    <3>4. LocFits(l, t)
      BY <1>3, <1>7, <3>1, <3>3 DEF LocFits, InFork, NoDirYet, OwnDir, HeapDir, IdleLoc
    <3> QED BY <3>2, <3>3, <3>4
  <2> QED BY <2>1, <2>2, <2>3
<1> QED BY <1>0, <1>3, <1>5, <1>6, <1>8, CallStep

LEMMA AllocForControl ==
  ASSUME PInv, Ordered, NEW t \in AllTasks, AllocFor(t)
  PROVE  Control'
<1>0. Control /\ TypeOK /\ LocFits(loc[t], t) BY DEF PInv, Control
<1>m. PICK m \in LocRec : m = loc[t] BY <1>0 DEF TypeOK
<1>1. loc[t].pc = "alloc" /\ m.pc = "alloc" /\ UNCHANGED <<entry, gdt, task, started, dropped>>
  BY <1>m DEF AllocFor, At
<1>2. LocFits(m, t) BY <1>0, <1>m
<1>3. CASE m.at < m.end /\ Free # {}
  <2>1. PICK f : f = FirstFree OBVIOUS
  <2>2. AllocPage(f) /\ loc' = [loc EXCEPT ![t].pc = "map", ![t].page = f]
    BY <1>3, <1>m, <2>1 DEF AllocFor
  <2>3. f \in Frame /\ f # NoFrame /\ used' = used \cup {f} BY <2>2, FreshFrame
  <2> DEFINE l == [m EXCEPT !.pc = "map", !.page = f]
  <2>4. loc' = [loc EXCEPT ![t] = l] BY <1>0, <1>m, <2>2 DEF TypeOK
  <2>5. l \in LocRec /\ l.pc = "map" /\ l.child = m.child /\ l.dir = m.dir
        /\ l.page = f /\ l.at = m.at /\ l.end = m.end /\ l.then = m.then
    BY <2>3 DEF LocRec
  <2> HIDE DEF l
  <2>6. LocFits(l, t)
    BY <1>1, <1>2, <1>3, <2>3, <2>5 DEF LocFits, InFork, NoDirYet, OwnDir, HeapDir, IdleLoc
  <2>7. used' \subseteq Frame /\ dropped' \subseteq used' /\ gdt' \subseteq Sel
        /\ entry' \in Entries
    BY <1>0, <1>1, <2>3 DEF TypeOK
  <2> QED BY <1>0, <1>1, <2>4, <2>5, <2>6, <2>7, CallStep
<1>4. CASE ~ (m.at < m.end /\ Free # {})
  <2>1. PICK b \in BOOLEAN : b = (m.missing \/ m.at < m.end) BY DEF LocRec
  <2>2. loc' = [loc EXCEPT ![t].pc = m.then, ![t].missing = b] /\ UNCHANGED used
    BY <1>4, <1>m, <2>1 DEF AllocFor
  <2>3. m.then \in {"loaded", "args", "grown"} BY <1>1, <1>2 DEF LocFits
  <2> DEFINE l == [m EXCEPT !.pc = m.then, !.missing = b]
  <2>4. loc' = [loc EXCEPT ![t] = l] BY <1>0, <1>m, <2>2 DEF TypeOK
  <2>5. l \in LocRec /\ l.pc = m.then /\ l.child = m.child /\ l.dir = m.dir
        /\ l.page = m.page
    BY <2>3 DEF LocRec
  <2> HIDE DEF l
  <2>6. LocFits(l, t)
    BY <1>1, <1>2, <2>3, <2>5 DEF LocFits, InFork, NoDirYet, OwnDir, HeapDir, IdleLoc
  <2> QED BY <1>0, <1>1, <2>2, <2>4, <2>5, <2>6, CallStep DEF TypeOK
<1> QED BY <1>3, <1>4

(* A page that memory_alloc_for_page_dir maps is one of a program.         *)
LEMMA MapsUserPage ==
  ASSUME NEW a \in Nat, NEW b \in Nat, a < b, b <= LastPage + 1, ~ (a < Base)
  PROVE  a \in UserPage
<1>1. PICK e \in Nat \ {0}, s \in Nat : e = EntryCnt /\ s = Base BY MemoryAssumption
<1>2. PICK q \in Nat : q = e * e BY <1>1
<1>3. LastPage + 1 = s + q BY <1>1, <1>2 DEF LastPage
<1> QED BY <1>1, <1>2, <1>3 DEF UserPage

LEMMA MapForControl ==
  ASSUME PInv, Ordered, NEW t \in AllTasks, MapFor(t)
  PROVE  Control'
<1>0. Control /\ TypeOK /\ Owned /\ LocFits(loc[t], t) BY DEF PInv, Control
<1>m. PICK m \in LocRec : m = loc[t] BY <1>0 DEF TypeOK
<1>1. loc[t].pc = "map" /\ m.pc = "map" /\ UNCHANGED <<gdt, task, started>>
  BY <1>m DEF MapFor, At
<1>2. LocFits(m, t) BY <1>0, <1>m
<1>3. /\ m.page # NoFrame /\ m.at < m.end /\ m.end <= LastPage + 1
      /\ m.then \in {"loaded", "args", "grown"}
  BY <1>1, <1>2 DEF LocFits
<1>4. m.page \in used BY <1>0, <1>3, <1>m, OwnFrames
<1>5. CASE IsPresent(m.dir, m.at)
  <2>1. loc' = [loc EXCEPT ![t].pc = "pannic"] /\ UNCHANGED <<memVars, dropped>>
    BY <1>5, <1>m DEF MapFor, GoTo
  <2> DEFINE l == [m EXCEPT !.pc = "pannic"]
  <2>2. loc' = [loc EXCEPT ![t] = l] BY <1>0, <1>m, <2>1 DEF TypeOK
  <2>3. l \in LocRec /\ l.pc = "pannic" /\ l.child = m.child /\ l.dir = m.dir
        /\ l.page = m.page
    BY DEF LocRec
  <2> HIDE DEF l
  <2>4. LocFits(l, t)
    BY <1>1, <1>2, <2>3 DEF LocFits, InFork, NoDirYet, OwnDir, HeapDir, IdleLoc
  <2> QED BY <1>0, <1>1, <2>1, <2>2, <2>3, <2>4, CallStep DEF TypeOK, memVars
<1>6. CASE ~ IsPresent(m.dir, m.at) /\ NoTable(m.dir, m.at)
  <2>1. /\ dropped' = dropped \cup {m.page} /\ UNCHANGED memVars
        /\ loc' = [loc EXCEPT ![t].pc = m.then, ![t].page = NoFrame, ![t].missing = TRUE]
    BY <1>6, <1>m DEF MapFor
  <2> DEFINE l == [m EXCEPT !.pc = m.then, !.page = NoFrame, !.missing = TRUE]
  <2>2. loc' = [loc EXCEPT ![t] = l] BY <1>0, <1>m, <2>1 DEF TypeOK
  <2>3. l \in LocRec /\ l.pc = m.then /\ l.child = m.child /\ l.dir = m.dir
        /\ l.page = NoFrame
    BY <1>3 DEF LocRec
  <2> HIDE DEF l
  <2>4. LocFits(l, t)
    BY <1>1, <1>2, <1>3, <2>3 DEF LocFits, InFork, NoDirYet, OwnDir, HeapDir, IdleLoc
  <2>5. used' \subseteq Frame /\ dropped' \subseteq used' /\ gdt' \subseteq Sel
        /\ entry' \in Entries
    BY <1>0, <1>1, <1>4, <2>1 DEF TypeOK, memVars
  <2> QED BY <1>0, <1>1, <2>2, <2>3, <2>4, <2>5, CallStep
<1>7. CASE ~ IsPresent(m.dir, m.at) /\ ~ NoTable(m.dir, m.at)
  <2>1. /\ CreateMap(m.dir, m.at, m.page) /\ UNCHANGED dropped
        /\ loc' = [loc EXCEPT ![t].pc = "alloc", ![t].page = NoFrame, ![t].at = m.at + 1]
    BY <1>7, <1>m DEF MapFor
  <2>2. m.at \in Nat /\ m.end \in Nat /\ m.page \in Frame BY <1>3 DEF LocRec
  <2>3. m.at \in UserPage BY <1>3, <1>7, <2>2, MapsUserPage DEF IsPresent
  <2>4. m.dir \in Frame
    <3>1. m.dir # NoFrame
      BY <1>1, <1>2, <1>3 DEF LocFits, OwnDir, HeapDir
    <3> QED BY <3>1 DEF LocRec
  <2>5. entry' \in Entries /\ used \subseteq used' /\ used' \subseteq Frame
    BY <1>0, <2>1, <2>2, <2>3, <2>4, EntriesKept
  <2>6. PICK a \in Nat : a = m.at + 1 BY <2>2
  <2> DEFINE l == [m EXCEPT !.pc = "alloc", !.page = NoFrame, !.at = a]
  <2>7. loc' = [loc EXCEPT ![t] = l] BY <1>0, <1>m, <2>1, <2>6 DEF TypeOK
  <2>8. l \in LocRec /\ l.pc = "alloc" /\ l.child = m.child /\ l.dir = m.dir
        /\ l.page = NoFrame /\ l.then = m.then /\ l.end = m.end
    BY DEF LocRec
  <2> HIDE DEF l
  <2>9. LocFits(l, t)
    BY <1>1, <1>2, <1>3, <2>8 DEF LocFits, InFork, NoDirYet, OwnDir, HeapDir, IdleLoc
  <2>10. dropped' \subseteq used' /\ gdt' \subseteq Sel BY <1>0, <1>1, <2>1, <2>5 DEF TypeOK
  <2> QED BY <1>0, <1>1, <2>5, <2>7, <2>8, <2>9, <2>10, CallStep
<1> QED BY <1>5, <1>6, <1>7

LEMMA SwitchToBrokenControl ==
  ASSUME PInv, Ordered, NEW t \in AllTasks, SwitchToBroken(t)
  PROVE  Control'
<1>0. Control /\ TypeOK /\ LocFits(loc[t], t) BY DEF PInv, Control
<1>1. UNCHANGED <<memVars, gdt, task, loc, started, dropped>> /\ loc[t].pc = "run"
  BY DEF SwitchToBroken, At
<1>2. loc' = [loc EXCEPT ![t] = loc[t]] /\ loc[t] \in LocRec BY <1>0, <1>1 DEF TypeOK
<1> QED BY <1>0, <1>1, <1>2, CallStep DEF TypeOK, memVars

LEMMA ExecNameControl ==
  ASSUME PInv, Ordered, NEW t \in AllTasks, ExecName(t)
  PROVE  Control'
<1>0. Control /\ TypeOK /\ LocFits(loc[t], t) BY DEF PInv, Control
<1>m. PICK m \in LocRec, n \in TaskRec : m = loc[t] /\ n = task[t] BY <1>0 DEF TypeOK
<1>1. /\ loc[t].pc = "run" /\ t \in started /\ n.sel # NoSel /\ n.cr3 # NoFrame
      /\ UNCHANGED <<memVars, gdt, started, dropped>>
      /\ task' = [task EXCEPT ![t].named = TRUE] /\ loc' = [loc EXCEPT ![t].pc = "exec"]
  BY <1>m DEF ExecName, CanRun, At, GoTo, Ordered
<1> DEFINE l == [m EXCEPT !.pc = "exec"]
           k == [n EXCEPT !.named = TRUE]
<1>2. loc' = [loc EXCEPT ![t] = l] /\ task' = [task EXCEPT ![t] = k]
  BY <1>0, <1>1, <1>m DEF TypeOK
<1>3. m = IdleLoc BY <1>0, <1>1, <1>m DEF LocFits
<1>4. l \in LocRec /\ l.pc = "exec" /\ l.child = First /\ l.dir = NoFrame /\ l.page = NoFrame
  BY <1>3 DEF LocRec, IdleLoc
<1>5. k \in TaskRec /\ k.named /\ k.sel # NoSel /\ k.cr3 # NoFrame BY <1>1 DEF TaskRec
<1> HIDE DEF l, k
<1>6. task'[t] = k BY <1>0, <1>2 DEF TypeOK
<1>7. LocFits(l, t)'
  BY <1>1, <1>4, <1>5, <1>6 DEF LocFits, InFork, NoDirYet, OwnDir, HeapDir
<1>8. used' \subseteq Frame /\ dropped' \subseteq used' /\ gdt' \subseteq Sel
      /\ entry' \in Entries /\ UNCHANGED started
  BY <1>0, <1>1 DEF TypeOK, memVars
<1> QED BY <1>0, <1>1, <1>2, <1>4, <1>5, <1>7, <1>8, TaskStep

(* The pages of a program, or of a heap, end where user pages end.         *)
LEMMA PagesFit ==
  ASSUME NEW u \in Nat
  PROVE  PagesUpTo(u) \in Nat /\ (u <= UserEnd => PagesUpTo(u) <= LastPage + 1)
<1>1. PICK e \in Nat \ {0}, s \in Nat, w \in Nat \ {0} : e = EntryCnt /\ s = Base /\ w = PageUnits
  BY MemoryAssumption, ProcessAssumption
<1>2. PICK q \in Nat : q = s + e * e BY <1>1
<1>3. LastPage + 1 = q BY <1>1, <1>2 DEF LastPage
<1>4. PICK a \in Nat : a = u + w - 1 BY <1>1
<1>5. a \div w \in Nat /\ a % w \in 0 .. w - 1 /\ a = w * (a \div w) + (a % w)
  BY <1>1, <1>4, DivMod
<1>6. PICK b \in Nat, r \in Nat : b = a \div w /\ a = w * b + r BY <1>5
<1>7. PagesUpTo(u) = b BY <1>1, <1>4, <1>6 DEF PagesUpTo
<1>8. ASSUME u <= UserEnd PROVE b <= q
  <2>1. u <= q * w BY <1>1, <1>2, <1>8 DEF UserEnd
  <2>2. SUFFICES ASSUME q + 1 <= b PROVE FALSE BY <1>2, <1>6
  <2>3. w * (q + 1) <= w * b BY <1>1, <1>2, <1>6, <2>2, TimesGrows
  <2>4. w * (q + 1) = q * w + w BY <1>1, <1>2
  <2>5. q * w \in Nat /\ w * b \in Nat BY <1>1, <1>2, <1>6
  <2> QED BY <1>1, <1>4, <1>6, <2>1, <2>3, <2>4, <2>5
<1> QED BY <1>3, <1>6, <1>7, <1>8

LEMMA HeapBound ==
  ASSUME NEW t, NEW u \in Nat, HeapFits(t, u)
  PROVE  u <= UserEnd
<1>1. PICK e \in Nat \ {0}, s \in Nat, w \in Nat \ {0} : e = EntryCnt /\ s = Base /\ w = PageUnits
  BY MemoryAssumption, ProcessAssumption
<1>2. PICK q \in Nat : q = e * e BY <1>1
<1>3. UserEnd = (s + q) * w /\ UserStart = s * w BY <1>1, <1>2 DEF UserEnd, UserStart
<1>4. (s + q) * w = s * w + q * w /\ q * w \in Nat /\ s * w \in Nat BY <1>1, <1>2
<1>5. UserStart \in Nat /\ UserEnd \in Nat /\ UserStart <= UserEnd BY <1>3, <1>4
<1>6. HeapLimit \in Nat /\ HeapLimit <= UserEnd BY <1>5, ProcessAssumption
<1> QED BY <1>5, <1>6 DEF HeapFits

LEMMA ProgramFits == ProgramEnd \in Nat /\ ProgramEnd <= UserEnd
<1>1. PICK e \in Nat \ {0}, s \in Nat, w \in Nat \ {0} : e = EntryCnt /\ s = Base /\ w = PageUnits
  BY MemoryAssumption, ProcessAssumption
<1>2. s * w \in Nat /\ e * e \in Nat BY <1>1
<1>3. (s + e * e) * w \in Nat BY <1>1, <1>2
<1> QED BY <1>1, <1>2, <1>3, ProcessAssumption DEF UserStart, UserEnd

LEMMA LastPageIs == LastPage \in Nat /\ LastPage + 1 \in Nat /\ LastPage \in UserPage
<1>1. PICK e \in Nat \ {0}, s \in Nat \ {0} : e = EntryCnt /\ s = Base BY MemoryAssumption
<1>2. PICK q \in Nat \ {0} : q = e * e
  <2>1. e * e \in Nat /\ e * e # 0 BY <1>1
  <2> QED BY <2>1
<1> QED BY <1>1, <1>2 DEF LastPage, UserPage

LEMMA ExecCreateUvmControl ==
  ASSUME PInv, Ordered, NEW t \in AllTasks, ExecCreateUvm(t)
  PROVE  Control'
<1>0. Control /\ TypeOK /\ Owned /\ LocFits(loc[t], t) BY DEF PInv, Control
<1>m. PICK m \in LocRec : m = loc[t] BY <1>0 DEF TypeOK
<1>1. loc[t].pc = "exec" /\ m.pc = "exec" /\ UNCHANGED <<gdt, task, started, dropped>>
  BY <1>m DEF ExecCreateUvm, At
<1>2. LocFits(m, t) BY <1>0, <1>m
<1>3. CASE Free = {}
  <2>1. loc' = [loc EXCEPT ![t] = IdleLoc] /\ UNCHANGED memVars
    BY <1>3 DEF ExecCreateUvm, EndCall
  <2>2. IdleLoc \in LocRec BY DEF IdleLoc, LocRec, AllTasks
  <2>3. LocFits(IdleLoc, t) BY DEF LocFits, IdleLoc, InFork, NoDirYet, OwnDir, HeapDir
  <2> QED BY <1>0, <1>1, <2>1, <2>2, <2>3, CallStep DEF TypeOK, memVars
<1>4. CASE Free # {}
  <2>1. PICK d : d = FirstFree OBVIOUS
  <2>2. CreateUvm(d) BY <1>4, <2>1 DEF ExecCreateUvm
  <2>3. d \in Frame /\ d \notin used /\ d # NoFrame /\ used' = used \cup {d}
        /\ entry' \in Entries
    BY <1>0, <2>2, FreshFrame, EntriesKept DEF CreateUvm
  <2>4. d # task[t].cr3
    <3>1. task[t].cr3 # NoFrame => task[t].cr3 \in used BY <1>0, OwnFrames
    <3> QED BY <2>3, <3>1
  <2>5. PICK b \in Nat, e \in Nat : b = Base /\ e = PagesUpTo(ProgramEnd) /\ e <= LastPage + 1
    BY MemoryAssumption, ProgramFits, PagesFit
  <2>6. \E l \in LocRec : loc' = [loc EXCEPT ![t] = l] /\ LocFits(l, t)
    <3>1. CASE loc' = [loc EXCEPT ![t].pc = "alloc", ![t].dir = d, ![t].at = b,
                                  ![t].end = e, ![t].then = "loaded"]
      <4> DEFINE l == [m EXCEPT !.pc = "alloc", !.dir = d, !.at = b, !.end = e, !.then = "loaded"]
      <4>1. loc' = [loc EXCEPT ![t] = l] BY <1>0, <1>m, <3>1 DEF TypeOK
      <4>2. l \in LocRec /\ l.pc = "alloc" /\ l.child = m.child /\ l.dir = d
            /\ l.page = m.page /\ l.end = e /\ l.then = "loaded"
        BY <2>3 DEF LocRec
      <4> HIDE DEF l
      <4>3. LocFits(l, t)
        BY <1>1, <1>2, <2>3, <2>4, <2>5, <4>2
           DEF LocFits, InFork, NoDirYet, OwnDir, HeapDir, IdleLoc
      <4> QED BY <4>1, <4>2, <4>3
    <3>2. CASE loc' = [loc EXCEPT ![t].pc = "destroy", ![t].dir = d, ![t].at = 0,
                                  ![t].then = "run"]
      <4> DEFINE l == [m EXCEPT !.pc = "destroy", !.dir = d, !.at = 0, !.then = "run"]
      <4>1. loc' = [loc EXCEPT ![t] = l] BY <1>0, <1>m, <3>2 DEF TypeOK
      <4>2. l \in LocRec /\ l.pc = "destroy" /\ l.child = m.child /\ l.dir = d
            /\ l.page = m.page /\ l.at = 0 /\ l.then = "run"
        BY <2>3 DEF LocRec
      <4> HIDE DEF l
      <4>3. 0 \in 0 .. LastPosition BY LastIsPlace
      <4>4. LocFits(l, t)
        BY <1>1, <1>2, <2>3, <2>4, <4>2, <4>3
           DEF LocFits, InFork, NoDirYet, OwnDir, HeapDir, IdleLoc
      <4> QED BY <4>1, <4>2, <4>4
    <3> QED BY <1>4, <2>1, <2>5, <3>1, <3>2, Zenon DEF ExecCreateUvm
  <2>7. used' \subseteq Frame /\ dropped' \subseteq used' /\ gdt' \subseteq Sel
    BY <1>0, <1>1, <2>3 DEF TypeOK
  <2> QED BY <1>0, <1>1, <2>3, <2>6, <2>7, CallStep
<1> QED BY <1>3, <1>4

(* The steps of a task on the way to its new program, or back.             *)
LEMMA ExecLoadedControl ==
  ASSUME PInv, Ordered, NEW t \in AllTasks, ExecLoaded(t) \/ ExecLoadFailed(t)
  PROVE  Control'
<1>0. Control /\ TypeOK /\ SlotsOK /\ LocFits(loc[t], t) BY DEF PInv, Control
<1>m. PICK m \in LocRec, n \in TaskRec : m = loc[t] /\ n = task[t] BY <1>0 DEF TypeOK
<1>1. loc[t].pc = "loaded" /\ m.pc = "loaded" /\ UNCHANGED <<memVars, gdt, started, dropped>>
  BY <1>m DEF ExecLoaded, ExecLoadFailed, At
<1>2. LocFits(m, t) BY <1>0, <1>m
<1>3. t \in started /\ n.named BY <1>0, <1>1, <1>m DEF LocFits, SlotsOK, IdleLoc
<1>4. \E k \in TaskRec : /\ task' = [task EXCEPT ![t] = k]
                         /\ k.named = n.named /\ k.sel = n.sel /\ k.cr3 = n.cr3
  <2>1. CASE task' = [task EXCEPT ![t].heapEnd = ProgramEnd]
    <3> DEFINE k == [n EXCEPT !.heapEnd = ProgramEnd]
    <3>1. task' = [task EXCEPT ![t] = k] BY <1>0, <1>m, <2>1 DEF TypeOK
    <3>2. k \in TaskRec /\ k.named = n.named /\ k.sel = n.sel /\ k.cr3 = n.cr3
      BY ProgramFits DEF TaskRec
    <3> QED BY <3>1, <3>2
  <2>2. CASE UNCHANGED task
    <3>1. task' = [task EXCEPT ![t] = n] BY <1>0, <1>m, <2>2 DEF TypeOK
    <3> QED BY <3>1
  <2> QED BY <2>1, <2>2 DEF ExecLoaded, ExecLoadFailed
<1>5. PICK k \in TaskRec : /\ task' = [task EXCEPT ![t] = k]
                           /\ k.named = n.named /\ k.sel = n.sel /\ k.cr3 = n.cr3
  BY <1>4
<1>6. task'[t] = k BY <1>0, <1>5 DEF TypeOK
<1>7. n.sel # NoSel /\ n.cr3 # NoFrame BY <1>1, <1>2, <1>m DEF LocFits
<1>8. \E l \in LocRec : loc' = [loc EXCEPT ![t] = l] /\ LocFits(l, t)'
  <2>1. CASE ExecLoaded(t)
    <3>1. PICK a \in Nat, e \in Nat : a = ArgPage /\ e = LastPage + 1
      BY LastPageIs DEF ArgPage
    <3>2. loc' = [loc EXCEPT ![t].pc = "alloc", ![t].at = a, ![t].end = e, ![t].then = "args"]
      BY <2>1, <3>1 DEF ExecLoaded
    <3> DEFINE l == [m EXCEPT !.pc = "alloc", !.at = a, !.end = e, !.then = "args"]
    <3>3. loc' = [loc EXCEPT ![t] = l] BY <1>0, <1>m, <3>2 DEF TypeOK
    <3>4. l \in LocRec /\ l.pc = "alloc" /\ l.child = m.child /\ l.dir = m.dir
          /\ l.page = m.page /\ l.end = e /\ l.then = "args"
      BY DEF LocRec
    <3> HIDE DEF l
    <3>5. LocFits(l, t)'
      BY <1>1, <1>2, <1>3, <1>5, <1>6, <1>7, <1>m, <3>1, <3>4
         DEF LocFits, InFork, NoDirYet, OwnDir, HeapDir, IdleLoc
    <3> QED BY <3>3, <3>4, <3>5
  <2>2. CASE ExecLoadFailed(t)
    <3>1. loc' = [loc EXCEPT ![t].pc = "destroy", ![t].at = 0, ![t].then = "run",
                             ![t].missing = FALSE]
      BY <2>2 DEF ExecLoadFailed
    <3> DEFINE l == [m EXCEPT !.pc = "destroy", !.at = 0, !.then = "run", !.missing = FALSE]
    <3>2. loc' = [loc EXCEPT ![t] = l] BY <1>0, <1>m, <3>1 DEF TypeOK
    <3>3. l \in LocRec /\ l.pc = "destroy" /\ l.child = m.child /\ l.dir = m.dir
          /\ l.page = m.page /\ l.at = 0 /\ l.then = "run"
      BY DEF LocRec
    <3> HIDE DEF l
    <3>4. 0 \in 0 .. LastPosition BY LastIsPlace
    <3>5. LocFits(l, t)'
      BY <1>1, <1>2, <1>3, <1>5, <1>6, <1>7, <1>m, <3>3, <3>4
         DEF LocFits, InFork, NoDirYet, OwnDir, HeapDir, IdleLoc
    <3> QED BY <3>2, <3>3, <3>5
  <2> QED BY <2>1, <2>2
<1>9. used' \subseteq Frame /\ dropped' \subseteq used' /\ gdt' \subseteq Sel
      /\ entry' \in Entries /\ UNCHANGED started
  BY <1>0, <1>1 DEF TypeOK, memVars
<1> QED BY <1>0, <1>1, <1>3, <1>5, <1>8, <1>9, TaskStep

LEMMA ExecSwapControl ==
  ASSUME PInv, Ordered, NEW t \in AllTasks, ExecSwap(t)
  PROVE  Control'
<1>0. Control /\ TypeOK /\ SlotsOK /\ LocFits(loc[t], t) BY DEF PInv, Control
<1>m. PICK m \in LocRec, n \in TaskRec : m = loc[t] /\ n = task[t] BY <1>0 DEF TypeOK
<1>1. /\ loc[t].pc = "args" /\ m.pc = "args" /\ UNCHANGED <<memVars, gdt, started, dropped>>
      /\ task' = [task EXCEPT ![t].cr3 = m.dir]
      /\ loc' = [loc EXCEPT ![t].pc = "destroy", ![t].dir = n.cr3, ![t].at = 0,
                            ![t].then = "run", ![t].missing = FALSE]
  BY <1>m DEF ExecSwap, At
<1>2. LocFits(m, t) BY <1>0, <1>m
<1>3. t \in started /\ n.named BY <1>0, <1>1, <1>m DEF LocFits, SlotsOK, IdleLoc
<1>4. /\ n.sel # NoSel /\ n.cr3 # NoFrame /\ m.dir # NoFrame /\ m.dir # n.cr3
      /\ n.cr3 \in Frame \cup {NoFrame} /\ m.dir \in Frame \cup {NoFrame}
  BY <1>1, <1>2, <1>m DEF LocFits, OwnDir, LocRec, TaskRec
<1> DEFINE l == [m EXCEPT !.pc = "destroy", !.dir = n.cr3, !.at = 0, !.then = "run",
                          !.missing = FALSE]
           k == [n EXCEPT !.cr3 = m.dir]
<1>5. loc' = [loc EXCEPT ![t] = l] /\ task' = [task EXCEPT ![t] = k]
  BY <1>0, <1>1, <1>m DEF TypeOK
<1>6. l \in LocRec /\ l.pc = "destroy" /\ l.child = m.child /\ l.dir = n.cr3
      /\ l.page = m.page /\ l.at = 0 /\ l.then = "run"
  BY <1>4 DEF LocRec
<1>7. k \in TaskRec /\ k.named = n.named /\ k.sel = n.sel /\ k.cr3 = m.dir
  BY <1>4 DEF TaskRec
<1> HIDE DEF l, k
<1>8. task'[t] = k BY <1>0, <1>5 DEF TypeOK
<1>9. 0 \in 0 .. LastPosition BY LastIsPlace
<1>10. LocFits(l, t)'
  BY <1>1, <1>2, <1>3, <1>4, <1>6, <1>7, <1>8, <1>9
     DEF LocFits, InFork, NoDirYet, OwnDir, HeapDir, IdleLoc
<1>11. used' \subseteq Frame /\ dropped' \subseteq used' /\ gdt' \subseteq Sel
       /\ entry' \in Entries /\ UNCHANGED started
  BY <1>0, <1>1 DEF TypeOK, memVars
<1> QED BY <1>0, <1>1, <1>3, <1>5, <1>6, <1>7, <1>10, <1>11, TaskStep

LEMMA ExecFailedControl ==
  ASSUME PInv, Ordered, NEW t \in AllTasks, ExecFailed(t)
  PROVE  Control'
<1>0. Control /\ TypeOK /\ LocFits(loc[t], t) BY DEF PInv, Control
<1>m. PICK m \in LocRec : m = loc[t] BY <1>0 DEF TypeOK
<1>1. /\ loc[t].pc = "args" /\ m.pc = "args"
      /\ UNCHANGED <<memVars, gdt, task, started, dropped>>
  BY <1>m DEF ExecFailed, At
<1>2. LocFits(m, t) BY <1>0, <1>m
<1>3. \E l \in LocRec : loc' = [loc EXCEPT ![t] = l] /\ LocFits(l, t)
  <2>1. CASE loc' = [loc EXCEPT ![t].pc = "destroy", ![t].at = 0, ![t].then = "run",
                                ![t].missing = FALSE]
    <3> DEFINE l == [m EXCEPT !.pc = "destroy", !.at = 0, !.then = "run", !.missing = FALSE]
    <3>2. loc' = [loc EXCEPT ![t] = l] BY <1>0, <1>m, <2>1 DEF TypeOK
    <3>3. l \in LocRec /\ l.pc = "destroy" /\ l.child = m.child /\ l.dir = m.dir
          /\ l.page = m.page /\ l.at = 0 /\ l.then = "run"
      BY DEF LocRec
    <3> HIDE DEF l
    <3>4. 0 \in 0 .. LastPosition BY LastIsPlace
    <3>5. LocFits(l, t)
      BY <1>1, <1>2, <3>3, <3>4 DEF LocFits, InFork, NoDirYet, OwnDir, HeapDir, IdleLoc
    <3> QED BY <3>2, <3>3, <3>5
  <2>2. CASE loc' = [loc EXCEPT ![t].pc = "pannic"]
    <3> DEFINE l == [m EXCEPT !.pc = "pannic"]
    <3>2. loc' = [loc EXCEPT ![t] = l] BY <1>0, <1>m, <2>2 DEF TypeOK
    <3>3. l \in LocRec /\ l.pc = "pannic" /\ l.child = m.child /\ l.dir = m.dir
          /\ l.page = m.page
      BY DEF LocRec
    <3> HIDE DEF l
    <3>4. LocFits(l, t)
      BY <1>1, <1>2, <3>3 DEF LocFits, InFork, NoDirYet, OwnDir, HeapDir, IdleLoc
    <3> QED BY <3>2, <3>3, <3>4
  <2> QED BY <2>1, <2>2, Zenon DEF ExecFailed, GoTo
<1> QED BY <1>0, <1>1, <1>3, CallStep DEF TypeOK, memVars

LEMMA SbrkControl ==
  ASSUME PInv, Ordered, NEW t \in AllTasks, NEW n \in 1 .. MaxIncr,
         SbrkInPage(t, n) \/ SbrkPages(t, n)
  PROVE  Control'
<1>0. Control /\ TypeOK /\ SlotsOK /\ LocFits(loc[t], t) BY DEF PInv, Control
<1>m. PICK m \in LocRec, r \in TaskRec : m = loc[t] /\ r = task[t] BY <1>0 DEF TypeOK
<1>1. /\ loc[t].pc = "run" /\ t \in started /\ r.sel # NoSel /\ r.cr3 # NoFrame
      /\ UNCHANGED <<memVars, gdt, started, dropped>>
  BY <1>m DEF SbrkInPage, SbrkPages, CanRun, At
<1>2. m = IdleLoc /\ r.named BY <1>0, <1>1, <1>m DEF LocFits, SlotsOK
<1>3. PICK h \in Nat : h = r.heapEnd + n BY ProcessAssumption DEF TaskRec
<1>4. CASE SbrkInPage(t, n)
  <2>1. task' = [task EXCEPT ![t].heapEnd = @ + n] /\ UNCHANGED loc
    BY <1>4 DEF SbrkInPage
  <2> DEFINE k == [r EXCEPT !.heapEnd = h]
  <2>2. task' = [task EXCEPT ![t] = k] BY <1>0, <1>3, <1>m, <2>1 DEF TypeOK
  <2>3. k \in TaskRec /\ k.named = r.named /\ k.sel = r.sel /\ k.cr3 = r.cr3
    BY DEF TaskRec
  <2>4. loc' = [loc EXCEPT ![t] = m] BY <1>0, <1>m, <2>1 DEF TypeOK
  <2> HIDE DEF k
  <2>5. LocFits(m, t)' BY <1>2 DEF LocFits, IdleLoc, InFork, NoDirYet, OwnDir, HeapDir
  <2>6. used' \subseteq Frame /\ dropped' \subseteq used' /\ gdt' \subseteq Sel
        /\ entry' \in Entries /\ UNCHANGED started
    BY <1>0, <1>1 DEF TypeOK, memVars
  <2> QED BY <1>0, <1>1, <1>2, <2>2, <2>3, <2>4, <2>5, <2>6, TaskStep
<1>5. CASE SbrkPages(t, n)
  <2>1. /\ HeapFits(t, h) /\ UNCHANGED task
        /\ loc' = [loc EXCEPT ![t].pc = "alloc", ![t].dir = r.cr3, ![t].newEnd = h,
                              ![t].at = PagesUpTo(r.heapEnd),
                              ![t].end = PagesUpTo(h), ![t].then = "grown"]
    BY <1>3, <1>5, <1>m DEF SbrkPages
  <2>2. PICK a \in Nat, e \in Nat : a = PagesUpTo(r.heapEnd) /\ e = PagesUpTo(h)
                                    /\ e <= LastPage + 1
    BY <2>1, HeapBound, PagesFit DEF TaskRec
  <2> DEFINE l == [m EXCEPT !.pc = "alloc", !.dir = r.cr3, !.newEnd = h,
                            !.at = a, !.end = e, !.then = "grown"]
  <2>3. loc' = [loc EXCEPT ![t] = l] BY <1>0, <1>m, <2>1, <2>2 DEF TypeOK
  <2>4. r.cr3 \in Frame \cup {NoFrame} BY DEF TaskRec
  <2>5. m.child = First /\ m.page = NoFrame BY <1>2 DEF IdleLoc
  <2>6. l \in LocRec /\ l.pc = "alloc" /\ l.child = First /\ l.dir = r.cr3
        /\ l.page = NoFrame /\ l.end = e /\ l.then = "grown"
    BY <2>4, <2>5 DEF LocRec
  <2> HIDE DEF l
  <2>7. LocFits(l, t)
    BY <1>1, <1>m, <2>2, <2>6 DEF LocFits, InFork, NoDirYet, OwnDir, HeapDir, IdleLoc
  <2> QED BY <1>0, <1>1, <2>1, <2>3, <2>6, <2>7, CallStep DEF TypeOK, memVars
<1> QED BY <1>4, <1>5

LEMMA SbrkDoneControl ==
  ASSUME PInv, Ordered, NEW t \in AllTasks, SbrkDone(t)
  PROVE  Control'
<1>0. Control /\ TypeOK /\ SlotsOK /\ LocFits(loc[t], t) BY DEF PInv, Control
<1>m. PICK m \in LocRec, r \in TaskRec : m = loc[t] /\ r = task[t] BY <1>0 DEF TypeOK
<1>1. /\ loc[t].pc = "grown" /\ m.pc = "grown" /\ UNCHANGED <<memVars, gdt, started, dropped>>
      /\ task' = [task EXCEPT ![t].heapEnd = m.newEnd] /\ loc' = [loc EXCEPT ![t] = IdleLoc]
  BY <1>m DEF SbrkDone, At, EndCall
<1>2. t \in started /\ r.named BY <1>0, <1>1, <1>m DEF LocFits, SlotsOK, IdleLoc
<1> DEFINE k == [r EXCEPT !.heapEnd = m.newEnd]
<1>3. task' = [task EXCEPT ![t] = k] BY <1>0, <1>1, <1>m DEF TypeOK
<1>4. k \in TaskRec /\ k.named = r.named BY DEF TaskRec, LocRec
<1> HIDE DEF k
<1>5. IdleLoc \in LocRec BY DEF IdleLoc, LocRec, AllTasks
<1>6. LocFits(IdleLoc, t)' BY DEF LocFits, IdleLoc, InFork, NoDirYet, OwnDir, HeapDir
<1>7. used' \subseteq Frame /\ dropped' \subseteq used' /\ gdt' \subseteq Sel
      /\ entry' \in Entries /\ UNCHANGED started
  BY <1>0, <1>1 DEF TypeOK, memVars
<1> QED BY <1>0, <1>1, <1>2, <1>3, <1>4, <1>5, <1>6, <1>7, TaskStep

(* The step that t takes, by name.                                         *)
Step(t) ==
  Fork(t) \/ Exec(t) \/ Sbrk(t) \/ DestroyUvm(t) \/ AllocFor(t) \/ MapFor(t)

LEMMA ControlStays ==
  ASSUME PInv, Ordered, NEW t \in AllTasks, Step(t)
  PROVE  Control'
<1>1. CASE Fork(t)
  BY <1>1, AllocTaskControl, GdtAllocDescControl, AllocStackControl, TssCreateUvmControl,
     TaskInitControl, CopyCreateUvmControl, CopyPageControl, CopyMapControl,
     CopyEndControl, StartChildControl, SwitchToBrokenControl DEF Fork
<1>2. CASE Exec(t)
  BY <1>2, ExecNameControl, ExecCreateUvmControl, ExecLoadedControl, ExecSwapControl,
     ExecFailedControl DEF Exec
<1>3. CASE Sbrk(t) BY <1>3, SbrkControl, SbrkDoneControl DEF Sbrk
<1> QED BY <1>1, <1>2, <1>3, DestroyUvmControl, AllocForControl, MapForControl DEF Step

-----------------------------------------------------------------------------
(* What is at the places after a step.                                     *)
StackFrame(t) == IF HasStack(t) THEN task[t].stack ELSE NoFrame

(* Frame f comes to place p, or goes away (NoFrame), and that is all.      *)
Puts(p, f) == \A x \in Place : FrameAt(x)' = IF x = p THEN f ELSE FrameAt(x)

(* Only frames of X have other entries than before.                        *)
Alters(X) == entry' \in Entries /\ \A f \in Frame : f \notin X => entry'[f] = entry[f]

LEMMA SpaceKept ==
  ASSUME TypeOK, NEW u \in AllTasks, NEW X, Alters(X), task'[u].cr3 = task[u].cr3,
         \A p \in 0 .. LastPosition : FrameAt(SpaceAt(u, p)) \notin X,
         NEW p \in 0 .. LastPosition
  PROVE  Tree(entry', task'[u].cr3, 0, p) = FrameAt(SpaceAt(u, p))
<1>1. PICK e, g, d : e = entry /\ g = entry' /\ d = task[u].cr3 OBVIOUS
<1>2. e \in Entries /\ d \in Frame \cup {NoFrame} BY <1>1 DEF TypeOK, TaskRec
<1>3. \A q \in 0 .. LastPosition : FrameAt(SpaceAt(u, q)) = Tree(e, d, 0, q)
  BY <1>1, AtPlacesHold DEF AtPlaces
<1>4. Untouched(e, g, d, 0, 0)
  <2>1. SUFFICES ASSUME NEW q \in 0 .. LastPosition, Tree(e, d, 0, q) # NoFrame
                 PROVE  g[Tree(e, d, 0, q)] = e[Tree(e, d, 0, q)]
    BY DEF Untouched
  <2>2. Tree(e, d, 0, q) \in Frame \cup {NoFrame} BY <1>2, TreeType
  <2> QED BY <1>1, <1>3, <2>1, <2>2 DEF Alters
<1>5. Tree(g, d, 0, p) = IF p < 0 THEN NoFrame ELSE Tree(e, d, 0, p)
  BY <1>2, <1>4, TreeStays
<1>6. ~ (p < 0) BY LastIsPlace
<1> QED BY <1>1, <1>3, <1>5, <1>6

LEMMA CallKept ==
  ASSUME TypeOK, NEW u \in AllTasks, NEW X, Alters(X), NEW n \in Nat, NEW g, g = CallDir(u),
         CallFrom(u) \in Nat, CallFrom(u) <= n,
         \A p \in 0 .. LastPosition : p >= n => FrameAt(CallAt(u, p)) \notin X,
         NEW p \in 0 .. LastPosition
  PROVE  Tree(entry', g, n, p) = IF p < n THEN NoFrame ELSE FrameAt(CallAt(u, p))
<1>1. PICK e, h, m : e = entry /\ h = entry' /\ m = CallFrom(u) OBVIOUS
<1>2. e \in Entries /\ g \in Frame \cup {NoFrame} /\ m \in Nat /\ m <= n
  BY <1>1 DEF TypeOK, LocRec, CallDir
<1>3. \A q \in 0 .. LastPosition : FrameAt(CallAt(u, q)) = Tree(e, g, m, q)
  BY <1>1, AtPlacesHold DEF AtPlaces
<1>4. Untouched(e, h, g, m, n)
  <2>1. SUFFICES ASSUME NEW q \in 0 .. LastPosition, q >= n, Tree(e, g, m, q) # NoFrame
                 PROVE  h[Tree(e, g, m, q)] = e[Tree(e, g, m, q)]
    BY DEF Untouched
  <2>2. Tree(e, g, m, q) \in Frame \cup {NoFrame} BY <1>2, TreeType
  <2> QED BY <1>1, <1>3, <2>1, <2>2 DEF Alters
<1>5. Tree(h, g, n, p) = IF p < n THEN NoFrame ELSE Tree(e, g, m, p)
  BY <1>2, <1>4, TreeStays
<1> QED BY <1>1, <1>3, <1>5

(* A task keeps its stack unless tss_init is about it.                     *)
LEMMA StackKept ==
  ASSUME NEW t \in AllTasks, \A u \in AllTasks : u # t => loc'[u] = loc[u],
         loc[t].pc # "uvm", loc'[t].pc # "uvm", NEW u \in AllTasks,
         task'[u].sel = task[u].sel, task'[u].stack = task[u].stack
  PROVE  StackFrame(u)' = StackFrame(u)
<1>1. \A f \in Forker : f \in AllTasks BY ProcessAssumption DEF AllTasks
<1>2. ASSUME NEW f \in Forker
      PROVE  (loc'[f].pc = "uvm" /\ loc'[f].child = u) <=> (loc[f].pc = "uvm" /\ loc[f].child = u)
  BY <1>1
<1>3. HasStack(u)' <=> HasStack(u) BY <1>2 DEF HasStack
<1> QED BY <1>3 DEF StackFrame

LEMMA PlacesPut ==
  ASSUME NEW p \in Place, NEW f,
         \A u \in AllTasks : /\ StackFrame(u)' = IF StackOf(u) = p THEN f ELSE StackFrame(u)
                             /\ loc'[u].page = IF PageOf(u) = p THEN f ELSE loc[u].page,
         \A u \in AllTasks : \A q \in 0 .. LastPosition :
           /\ Tree(entry', task'[u].cr3, 0, q)
                = IF SpaceAt(u, q) = p THEN f ELSE FrameAt(SpaceAt(u, q))
           /\ Tree(entry', CallDir(u)', CallFrom(u)', q)
                = IF CallAt(u, q) = p THEN f ELSE FrameAt(CallAt(u, q))
  PROVE  Puts(p, f)
<1>1. AtPlaces /\ AtPlaces' BY AtPlacesHold, PTL
<1>2. ASSUME NEW u \in AllTasks
      PROVE  /\ FrameAt(StackOf(u))' = IF StackOf(u) = p THEN f ELSE FrameAt(StackOf(u))
             /\ FrameAt(PageOf(u))' = IF PageOf(u) = p THEN f ELSE FrameAt(PageOf(u))
  BY <1>1 DEF AtPlaces, StackFrame
<1>3. ASSUME NEW u \in AllTasks, NEW q \in 0 .. LastPosition
      PROVE  /\ FrameAt(SpaceAt(u, q))' = IF SpaceAt(u, q) = p THEN f ELSE FrameAt(SpaceAt(u, q))
             /\ FrameAt(CallAt(u, q))' = IF CallAt(u, q) = p THEN f ELSE FrameAt(CallAt(u, q))
  BY <1>1 DEF AtPlaces
<1>4. ASSUME NEW x \in Place
      PROVE  FrameAt(x)' = IF x = p THEN f ELSE FrameAt(x)
  <2>1. PICK u \in AllTasks :
          \/ x = StackOf(u) \/ x = PageOf(u)
          \/ \E q \in 0 .. LastPosition : x = SpaceAt(u, q) \/ x = CallAt(u, q)
    BY PlacesAre
  <2>2. CASE x = StackOf(u) BY <1>2, <2>2
  <2>3. CASE x = PageOf(u) BY <1>2, <2>3
  <2>4. CASE \E q \in 0 .. LastPosition : x = SpaceAt(u, q) \/ x = CallAt(u, q)
    <3>1. PICK q \in 0 .. LastPosition : x = SpaceAt(u, q) \/ x = CallAt(u, q) BY <2>4
    <3> QED BY <1>3, <3>1
  <2> QED BY <2>1, <2>2, <2>3, <2>4
<1> QED BY <1>4 DEF Puts

(* The frames in use when one is taken, goes away, or stays.               *)
LEMMA OwnedTake ==
  ASSUME TypeOK, Owned, NEW p \in Place, NEW f, Puts(p, f), FrameAt(p) = NoFrame,
         AllocPage(f), UNCHANGED dropped
  PROVE  Owned'
<1>1. f \notin used /\ f # NoFrame /\ used' = used \cup {f} BY FreshFrame
<1>2. used' \ dropped' = (used \ dropped) \cup {f} BY <1>1 DEF TypeOK
<1>3. \A x \in Place : Holds'[x] = IF x = p THEN f ELSE Holds[x] BY DEF Holds, Puts
<1>4. Holds[p] = NoFrame BY DEF Holds
<1>5. Owns(Holds', Place, (used \ dropped) \cup {f})
  BY <1>1, <1>3, <1>4, OwnsTake DEF Owned
<1> QED BY <1>2, <1>5 DEF Owned, Owns

LEMMA OwnedDrop ==
  ASSUME TypeOK, Owned, NEW p \in Place, Puts(p, NoFrame),
         used' \ dropped' = (used \ dropped) \ {FrameAt(p)}
  PROVE  Owned'
<1>1. \A x \in Place : Holds'[x] = IF x = p THEN NoFrame ELSE Holds[x] BY DEF Holds, Puts
<1>2. Holds[p] = FrameAt(p) BY DEF Holds
<1>3. Owns(Holds', Place, (used \ dropped) \ {FrameAt(p)}) BY <1>1, <1>2, OwnsDrop DEF Owned
<1> QED BY <1>3 DEF Owned, Owns

LEMMA OwnedSame ==
  ASSUME Owned, NEW p \in Place, Puts(p, FrameAt(p)), used' \ dropped' = used \ dropped
  PROVE  Owned'
<1>1. \A x \in Place : Holds'[x] = Holds[x] BY DEF Holds, Puts
<1>2. Owns(Holds', Place, used \ dropped) BY <1>1, OwnsSame DEF Owned
<1> QED BY <1>2 DEF Owned, Owns

(* Frames come and go without disturbing what a fork builds on, unless     *)
(* they come to the pages of an address space.                             *)
LEMMA ForkUndisturbed ==
  ASSUME PInv, Ordered, Control', NEW t \in AllTasks,
         \A u \in AllTasks : u # t => loc'[u] = loc[u],
         NEW p \in Place, NEW f, Puts(p, f),
         \/ f = NoFrame \/ f = FrameAt(p)
         \/ \A u \in AllTasks : \A q \in 0 .. LastPosition :
              q # LastPosition => p # SpaceAt(u, q) /\ p # CallAt(u, q),
         loc'[t].pc \in {"copyPage", "copyMap"} =>
           \/ loc[t].pc \in {"copyPage", "copyMap"} /\ loc[t].at <= loc'[t].at
           \/ \A q \in 0 .. LastPosition : FrameAt(CallAt(t, q)) = NoFrame,
         InFork(loc'[t]) /\ loc'[t].pc # "start" =>
           \/ InFork(loc[t]) /\ loc[t].pc # "start" /\ loc'[t].child = loc[t].child
           \/ \A q \in 0 .. LastPosition : FrameAt(SpaceAt(loc'[t].child, q)) = NoFrame
  PROVE  CopyIsAhead' /\ ChildIsEmpty'
<1>1. ASSUME NEW x \in Place, FrameAt(x) = NoFrame,
             \E u \in AllTasks, q \in 0 .. LastPosition :
               q # LastPosition /\ (x = SpaceAt(u, q) \/ x = CallAt(u, q))
      PROVE  FrameAt(x)' = NoFrame
  BY <1>1 DEF Puts
<1>2. CopyIsAhead'
  <2>1. SUFFICES ASSUME NEW u \in AllTasks, loc'[u].pc \in {"copyPage", "copyMap"},
                        NEW v \in UserPage, v >= loc'[u].at
                 PROVE  FrameAt(CallAt(u, PagePos(v)))' = NoFrame
    BY DEF CopyIsAhead
  <2>2. PICK q \in 0 .. LastPosition : q = PagePos(v) /\ q # LastPosition
    BY PagePosIsPlace, LastIsPlace
  <2>3. CallAt(u, q) \in Place BY PlacesAre
  <2>4. FrameAt(CallAt(u, q)) = NoFrame
    <3>1. CASE u # t BY <2>1, <2>2, <3>1 DEF PInv, CopyIsAhead
    <3>2. CASE u = t /\ loc[t].pc \in {"copyPage", "copyMap"} /\ loc[t].at <= loc'[t].at
      <4>1. v \in Nat /\ loc[t].at \in Nat /\ loc'[t].at \in Nat
        BY MemoryAssumption DEF UserPage, PInv, Control, TypeOK, LocRec
      <4>2. v >= loc[t].at BY <2>1, <3>2, <4>1
      <4> QED BY <2>2, <3>2, <4>2 DEF PInv, CopyIsAhead
    <3> QED BY <2>1, <3>1, <3>2
  <2>5. FrameAt(CallAt(u, q))' = NoFrame BY <1>1, <2>2, <2>3, <2>4
  <2> QED BY <2>2, <2>5
<1>3. ChildIsEmpty'
  <2>1. SUFFICES ASSUME NEW u \in AllTasks, InFork(loc[u])', loc'[u].pc # "start",
                        NEW q \in 0 .. LastPosition, q # LastPosition
                 PROVE  FrameAt(SpaceAt(loc[u].child, q))'  = NoFrame
    BY DEF ChildIsEmpty
  <2>2. PICK c \in AllTasks : c = loc'[u].child BY DEF Control, TypeOK, LocRec
  <2>3. SpaceAt(c, q) \in Place BY PlacesAre
  <2>4. FrameAt(SpaceAt(c, q)) = NoFrame
    <3>1. CASE u # t BY <2>1, <2>2, <3>1 DEF PInv, ChildIsEmpty
    <3>2. CASE u = t BY <2>1, <2>2, <3>2 DEF PInv, ChildIsEmpty
    <3> QED BY <3>1, <3>2
  <2>5. FrameAt(SpaceAt(c, q))' = NoFrame BY <1>1, <2>1, <2>3, <2>4
  <2> QED BY <2>2, <2>5
<1> QED BY <1>2, <1>3

-----------------------------------------------------------------------------
(* The steps that move no frame.                                           *)
Quiet(t) ==
  /\ \A u \in AllTasks : u # t => loc'[u] = loc[u]
  /\ \A u \in AllTasks : /\ task'[u].sel = task[u].sel /\ task'[u].stack = task[u].stack
                         /\ task'[u].cr3 = task[u].cr3
  /\ entry' = entry /\ used' = used /\ dropped' = dropped
  /\ loc[t].pc # "uvm" /\ loc'[t].pc # "uvm" /\ loc'[t].page = loc[t].page

(* The address space of the call of t is the one it was, if any.           *)
SameCall(t) == CallDir(t)' = CallDir(t) /\ CallFrom(t)' = CallFrom(t)

(* A fork goes on with what it has built.                                  *)
SameFork(t) ==
  /\ loc'[t].pc \in {"copyPage", "copyMap"} =>
       loc[t].pc \in {"copyPage", "copyMap"} /\ loc[t].at <= loc'[t].at
  /\ InFork(loc'[t]) /\ loc'[t].pc # "start" =>
       InFork(loc[t]) /\ loc[t].pc # "start" /\ loc'[t].child = loc[t].child

LEMMA QuietPlaces ==
  ASSUME NEW t \in AllTasks, Quiet(t), SameCall(t)
  PROVE  Puts(StackOf(t), FrameAt(StackOf(t)))
<1>1. AtPlaces BY AtPlacesHold
<1>2. ASSUME NEW u \in AllTasks
      PROVE  StackFrame(u)' = StackFrame(u) /\ loc'[u].page = loc[u].page
             /\ CallDir(u)' = CallDir(u) /\ CallFrom(u)' = CallFrom(u)
  <2>1. StackFrame(u)' = StackFrame(u) BY StackKept DEF Quiet
  <2>2. loc'[u].page = loc[u].page BY DEF Quiet
  <2>3. CallDir(u)' = CallDir(u) /\ CallFrom(u)' = CallFrom(u)
    BY DEF Quiet, SameCall, CallDir, CallFrom
  <2> QED BY <2>1, <2>2, <2>3
<1>3. PICK p \in Place : p = StackOf(t) BY PlacesAre
<1>4. FrameAt(p) = StackFrame(t) BY <1>1, <1>3 DEF AtPlaces, StackFrame
<1>5. \A u \in AllTasks : /\ StackFrame(u)' = IF StackOf(u) = p THEN FrameAt(p) ELSE StackFrame(u)
                          /\ loc'[u].page = IF PageOf(u) = p THEN FrameAt(p) ELSE loc[u].page
  BY <1>2, <1>3, <1>4, PlacesDiffer
<1>6. ASSUME NEW u \in AllTasks, NEW q \in 0 .. LastPosition
      PROVE  /\ Tree(entry', task'[u].cr3, 0, q)
                  = IF SpaceAt(u, q) = p THEN FrameAt(p) ELSE FrameAt(SpaceAt(u, q))
             /\ Tree(entry', CallDir(u)', CallFrom(u)', q)
                  = IF CallAt(u, q) = p THEN FrameAt(p) ELSE FrameAt(CallAt(u, q))
  <2>1. SpaceAt(u, q) # p /\ CallAt(u, q) # p BY <1>3, PlacesDiffer
  <2>2. FrameAt(SpaceAt(u, q)) = Tree(entry, task[u].cr3, 0, q)
        /\ FrameAt(CallAt(u, q)) = Tree(entry, CallDir(u), CallFrom(u), q)
    BY <1>1 DEF AtPlaces
  <2>3. task'[u].cr3 = task[u].cr3 /\ entry' = entry BY DEF Quiet
  <2> QED BY <1>2, <2>1, <2>2, <2>3
<1> QED BY <1>3, <1>5, <1>6, PlacesPut

LEMMA QuietOwned ==
  ASSUME PInv, Ordered, Control', NEW t \in AllTasks, Quiet(t), SameCall(t), SameFork(t)
  PROVE  Owned' /\ CopyIsAhead' /\ ChildIsEmpty'
<1>1. PICK p \in Place : p = StackOf(t) BY PlacesAre
<1>2. Puts(p, FrameAt(p)) BY <1>1, QuietPlaces
<1>3. Owned' BY <1>2, OwnedSame DEF PInv, Quiet
<1>4. CopyIsAhead' /\ ChildIsEmpty' BY <1>2, ForkUndisturbed DEF Quiet, SameFork
<1> QED BY <1>3, <1>4

(* A page directory is of the call alone, or the call has none.            *)
CallDirs ==
  \A t \in AllTasks :
    /\ NoDirYet(loc[t]) \/ HeapDir(loc[t]) => CallDir(t) = NoFrame
    /\ OwnDir(loc[t]) => CallDir(t) = loc[t].dir /\ loc[t].dir # NoFrame
                         /\ loc[t].dir # task[t].cr3

LEMMA CallDirsAre == Control => CallDirs
BY DEF Control, LocFits, CallDir, CallDirs

LEMMA NoCallDir ==
  ASSUME Control, Control', NEW t \in AllTasks,
         NoDirYet(loc[t]) \/ HeapDir(loc[t]), NoDirYet(loc[t])' \/ HeapDir(loc[t])',
         loc[t].pc # "destroy", loc'[t].pc # "destroy"
  PROVE  SameCall(t)
<1>1. CallDirs /\ CallDirs' BY CallDirsAre, PTL
<1>2. CallFrom(t) = 0 /\ CallFrom(t)' = 0 BY DEF CallFrom
<1> QED BY <1>1, <1>2 DEF CallDirs, SameCall

LEMMA SameCallDir ==
  ASSUME NEW t \in AllTasks, loc'[t].dir = loc[t].dir, task'[t].cr3 = task[t].cr3,
         loc[t].pc # "destroy", loc'[t].pc # "destroy" \/ loc'[t].at = 0
  PROVE  SameCall(t)
BY DEF SameCall, CallDir, CallFrom

(* What the steps of fork that move no frame do to the call.               *)
LEMMA QuietFork ==
  ASSUME PInv, Ordered, Control', NEW t \in AllTasks,
         \/ GdtAllocDesc(t) \/ TaskInit(t) \/ StartChild(t) \/ SwitchToBroken(t)
         \/ CopyPage(t) /\ Free = {}
  PROVE  Quiet(t) /\ SameCall(t) /\ SameFork(t)
<1>0. Control /\ TypeOK /\ LocFits(loc[t], t) BY DEF PInv, Control
<1>1. CASE GdtAllocDesc(t)
  <2>1. /\ loc[t].pc = "desc" /\ loc'[t].pc \in {"name", "stack"}
        /\ \A u \in AllTasks : u # t => loc'[u] = loc[u]
        /\ loc'[t].page = loc[t].page /\ loc'[t].child = loc[t].child
    BY <1>0, <1>1 DEF GdtAllocDesc, GoTo, At, TypeOK, LocRec
  <2>2. Quiet(t) BY <1>1, <2>1 DEF Quiet, GdtAllocDesc, memVars
  <2>3. NoDirYet(loc[t]) /\ NoDirYet(loc[t])' BY <2>1 DEF NoDirYet
  <2>4. SameFork(t) BY <2>1 DEF SameFork, InFork
  <2> QED BY <1>0, <2>1, <2>2, <2>3, <2>4, NoCallDir
<1>2. CASE TaskInit(t)
  <2>1. /\ loc[t].pc = "name" /\ loc'[t].pc = "copyUvm"
        /\ \A u \in AllTasks : u # t => loc'[u] = loc[u]
        /\ loc'[t].page = loc[t].page /\ loc'[t].child = loc[t].child
    BY <1>0, <1>2 DEF TaskInit, GoTo, At, TypeOK, LocRec
  <2>2. \A u \in AllTasks : /\ task'[u].sel = task[u].sel /\ task'[u].stack = task[u].stack
                            /\ task'[u].cr3 = task[u].cr3
    BY <1>0, <1>2 DEF TaskInit, TypeOK, TaskRec
  <2>3. Quiet(t) BY <1>2, <2>1, <2>2 DEF Quiet, TaskInit, memVars
  <2>4. NoDirYet(loc[t]) /\ NoDirYet(loc[t])' BY <2>1 DEF NoDirYet
  <2>5. SameFork(t) BY <2>1 DEF SameFork, InFork
  <2> QED BY <1>0, <2>1, <2>3, <2>4, <2>5, NoCallDir
<1>3. CASE StartChild(t)
  <2>1. /\ loc[t].pc = "start" /\ loc'[t] = IdleLoc
        /\ \A u \in AllTasks : u # t => loc'[u] = loc[u]
    BY <1>0, <1>3 DEF StartChild, EndCall, At, TypeOK
  <2>2. loc'[t].pc = "run" /\ loc'[t].page = NoFrame BY <2>1 DEF IdleLoc
  <2>3. loc[t].page = NoFrame BY <1>0, <2>1 DEF LocFits
  <2>4. Quiet(t) BY <1>3, <2>1, <2>2, <2>3 DEF Quiet, StartChild, memVars
  <2>5. NoDirYet(loc[t]) /\ NoDirYet(loc[t])' BY <2>1, <2>2 DEF NoDirYet
  <2>6. SameFork(t) BY <2>2 DEF SameFork, InFork
  <2> QED BY <1>0, <2>1, <2>2, <2>4, <2>5, <2>6, NoCallDir
<1>4. CASE SwitchToBroken(t)
  <2>1. loc[t].pc = "run" /\ UNCHANGED <<loc, task, memVars, dropped>>
    BY <1>4 DEF SwitchToBroken, At
  <2>2. Quiet(t) BY <2>1 DEF Quiet, memVars
  <2>3. SameCall(t) BY <2>1 DEF SameCall, CallDir, CallFrom
  <2>4. SameFork(t) BY <2>1 DEF SameFork, InFork
  <2> QED BY <2>2, <2>3, <2>4
<1>5. CASE CopyPage(t) /\ Free = {}
  <2>1. /\ loc[t].pc = "copyPage" /\ loc'[t].pc = "destroy" /\ loc'[t].at = 0
        /\ \A u \in AllTasks : u # t => loc'[u] = loc[u]
        /\ loc'[t].page = loc[t].page /\ loc'[t].child = loc[t].child
        /\ loc'[t].dir = loc[t].dir
    BY <1>0, <1>5 DEF CopyPage, At, TypeOK, LocRec
  <2>2. Quiet(t) BY <1>5, <2>1 DEF Quiet, CopyPage, memVars
  <2>3. SameFork(t) BY <2>1 DEF SameFork, InFork
  <2> QED BY <2>1, <2>2, <2>3, SameCallDir DEF Quiet
<1> QED BY <1>1, <1>2, <1>3, <1>4, <1>5

LEMMA QuietExec ==
  ASSUME PInv, Ordered, Control', NEW t \in AllTasks,
         ExecName(t) \/ (ExecCreateUvm(t) /\ Free = {}) \/ ExecLoaded(t) \/ ExecLoadFailed(t)
  PROVE  Quiet(t) /\ SameCall(t) /\ SameFork(t)
<1>0. Control /\ TypeOK /\ LocFits(loc[t], t) BY DEF PInv, Control
<1>1. CASE ExecName(t)
  <2>1. /\ loc[t].pc = "run" /\ loc'[t].pc = "exec"
        /\ \A u \in AllTasks : u # t => loc'[u] = loc[u]
        /\ loc'[t].page = loc[t].page
    BY <1>0, <1>1 DEF ExecName, GoTo, CanRun, At, TypeOK, LocRec
  <2>2. \A u \in AllTasks : /\ task'[u].sel = task[u].sel /\ task'[u].stack = task[u].stack
                            /\ task'[u].cr3 = task[u].cr3
    <3>1. PICK b : task' = [task EXCEPT ![t].named = b] BY <1>1 DEF ExecName
    <3> QED BY <1>0, <3>1 DEF TypeOK, TaskRec
  <2>3. Quiet(t) BY <1>1, <2>1, <2>2 DEF Quiet, ExecName, memVars
  <2>4. NoDirYet(loc[t]) /\ NoDirYet(loc[t])' BY <2>1 DEF NoDirYet
  <2>5. SameFork(t) BY <2>1 DEF SameFork, InFork
  <2> QED BY <1>0, <2>1, <2>3, <2>4, <2>5, NoCallDir
<1>2. CASE ExecCreateUvm(t) /\ Free = {}
  <2>1. /\ loc[t].pc = "exec" /\ loc'[t] = IdleLoc
        /\ \A u \in AllTasks : u # t => loc'[u] = loc[u]
    BY <1>0, <1>2 DEF ExecCreateUvm, EndCall, At, TypeOK
  <2>2. loc'[t].pc = "run" /\ loc'[t].page = NoFrame BY <2>1 DEF IdleLoc
  <2>3. loc[t].page = NoFrame BY <1>0, <2>1 DEF LocFits
  <2>4. Quiet(t) BY <1>2, <2>1, <2>2, <2>3 DEF Quiet, ExecCreateUvm, memVars
  <2>5. NoDirYet(loc[t]) /\ NoDirYet(loc[t])' BY <2>1, <2>2 DEF NoDirYet
  <2>6. SameFork(t) BY <2>2 DEF SameFork, InFork
  <2> QED BY <1>0, <2>1, <2>2, <2>4, <2>5, <2>6, NoCallDir
<1>3. CASE ExecLoaded(t)
  <2>1. /\ loc[t].pc = "loaded" /\ loc'[t].pc = "alloc" /\ loc'[t].then = "args"
        /\ \A u \in AllTasks : u # t => loc'[u] = loc[u]
        /\ loc'[t].page = loc[t].page /\ loc'[t].dir = loc[t].dir
    BY <1>0, <1>3 DEF ExecLoaded, At, TypeOK, LocRec
  <2>2. \A u \in AllTasks : /\ task'[u].sel = task[u].sel /\ task'[u].stack = task[u].stack
                            /\ task'[u].cr3 = task[u].cr3
    BY <1>0, <1>3 DEF ExecLoaded, TypeOK, TaskRec
  <2>3. Quiet(t) BY <1>3, <2>1, <2>2 DEF Quiet, ExecLoaded, memVars
  <2>4. SameFork(t) BY <2>1 DEF SameFork, InFork
  <2> QED BY <2>1, <2>2, <2>3, <2>4, SameCallDir
<1>4. CASE ExecLoadFailed(t)
  <2>1. /\ loc[t].pc = "loaded" /\ loc'[t].pc = "destroy" /\ loc'[t].at = 0
        /\ loc'[t].then = "run"
        /\ \A u \in AllTasks : u # t => loc'[u] = loc[u]
        /\ loc'[t].page = loc[t].page /\ loc'[t].dir = loc[t].dir
    BY <1>0, <1>4 DEF ExecLoadFailed, At, TypeOK, LocRec
  <2>2. \A u \in AllTasks : /\ task'[u].sel = task[u].sel /\ task'[u].stack = task[u].stack
                            /\ task'[u].cr3 = task[u].cr3
    BY <1>0, <1>4 DEF ExecLoadFailed, TypeOK, TaskRec
  <2>3. Quiet(t) BY <1>4, <2>1, <2>2 DEF Quiet, ExecLoadFailed, memVars
  <2>4. SameFork(t) BY <2>1 DEF SameFork, InFork
  <2> QED BY <2>1, <2>2, <2>3, <2>4, SameCallDir
<1> QED BY <1>1, <1>2, <1>3, <1>4

LEMMA QuietFailed ==
  ASSUME PInv, Ordered, Control', NEW t \in AllTasks, ExecFailed(t)
  PROVE  Quiet(t) /\ SameCall(t) /\ SameFork(t)
<1>0. Control /\ TypeOK BY DEF PInv, Control
<1>1. /\ loc[t].pc = "args"
      /\ (loc'[t].pc = "destroy" /\ loc'[t].at = 0) \/ loc'[t].pc = "pannic"
      /\ \A u \in AllTasks : u # t => loc'[u] = loc[u]
      /\ loc'[t].page = loc[t].page /\ loc'[t].dir = loc[t].dir
      /\ loc'[t].child = loc[t].child /\ (loc'[t].pc = "destroy" => loc'[t].then = "run")
  <2>1. CASE loc' = [loc EXCEPT ![t].pc = "destroy", ![t].at = 0, ![t].then = "run",
                                ![t].missing = FALSE]
    BY <1>0, <2>1 DEF ExecFailed, At, TypeOK, LocRec
  <2>2. CASE loc' = [loc EXCEPT ![t].pc = "pannic"]
    BY <1>0, <2>2 DEF ExecFailed, At, TypeOK, LocRec
  <2> QED BY <2>1, <2>2, Zenon DEF ExecFailed, GoTo
<1>2. Quiet(t) BY <1>1 DEF Quiet, ExecFailed, memVars
<1>3. SameFork(t) BY <1>1 DEF SameFork, InFork
<1> QED BY <1>1, <1>2, <1>3, SameCallDir DEF Quiet

LEMMA QuietPages ==
  ASSUME PInv, Ordered, Control', NEW t \in AllTasks,
         \/ AllocFor(t) /\ ~ (loc[t].at < loc[t].end /\ Free # {})
         \/ MapFor(t) /\ IsPresent(loc[t].dir, loc[t].at)
  PROVE  Quiet(t) /\ SameCall(t) /\ SameFork(t)
<1>0. Control /\ TypeOK /\ LocFits(loc[t], t) BY DEF PInv, Control
<1>1. CASE AllocFor(t) /\ ~ (loc[t].at < loc[t].end /\ Free # {})
  <2>1. /\ loc[t].pc = "alloc" /\ loc'[t].pc = loc[t].then
        /\ \A u \in AllTasks : u # t => loc'[u] = loc[u]
        /\ loc'[t].page = loc[t].page /\ loc'[t].dir = loc[t].dir
    BY <1>0, <1>1 DEF AllocFor, At, TypeOK, LocRec
  <2>2. loc[t].then \in {"loaded", "args", "grown"} BY <1>0, <2>1 DEF LocFits
  <2>3. Quiet(t) BY <1>1, <2>1, <2>2 DEF Quiet, AllocFor, memVars
  <2>4. SameFork(t) BY <2>1, <2>2 DEF SameFork, InFork
  <2> QED BY <2>1, <2>2, <2>3, <2>4, SameCallDir DEF Quiet
<1>2. CASE MapFor(t) /\ IsPresent(loc[t].dir, loc[t].at)
  <2>1. /\ loc[t].pc = "map" /\ loc'[t].pc = "pannic"
        /\ \A u \in AllTasks : u # t => loc'[u] = loc[u]
        /\ loc'[t].page = loc[t].page /\ loc'[t].dir = loc[t].dir
    BY <1>0, <1>2 DEF MapFor, GoTo, At, TypeOK, LocRec
  <2>2. Quiet(t) BY <1>2, <2>1 DEF Quiet, MapFor, memVars
  <2>3. SameFork(t) BY <2>1 DEF SameFork, InFork
  <2> QED BY <2>1, <2>2, <2>3, SameCallDir DEF Quiet
<1> QED BY <1>1, <1>2

LEMMA QuietSbrk ==
  ASSUME PInv, Ordered, Control', NEW t \in AllTasks, NEW n \in 1 .. MaxIncr,
         SbrkInPage(t, n) \/ SbrkPages(t, n) \/ SbrkDone(t)
  PROVE  Quiet(t) /\ SameCall(t) /\ SameFork(t)
<1>0. Control /\ TypeOK /\ LocFits(loc[t], t) BY DEF PInv, Control
<1>1. CASE SbrkInPage(t, n)
  <2>1. UNCHANGED <<loc, memVars, dropped>> /\ loc[t].pc = "run"
    BY <1>1 DEF SbrkInPage, CanRun, At
  <2>2. \A u \in AllTasks : /\ task'[u].sel = task[u].sel /\ task'[u].stack = task[u].stack
                            /\ task'[u].cr3 = task[u].cr3
    BY <1>0, <1>1 DEF SbrkInPage, TypeOK, TaskRec
  <2>3. Quiet(t) BY <2>1, <2>2 DEF Quiet, memVars
  <2>4. SameFork(t) BY <2>1 DEF SameFork, InFork
  <2> QED BY <2>1, <2>2, <2>3, <2>4, SameCallDir
<1>2. CASE SbrkPages(t, n)
  <2>1. /\ loc[t].pc = "run" /\ loc'[t].pc = "alloc" /\ loc'[t].then = "grown"
        /\ \A u \in AllTasks : u # t => loc'[u] = loc[u]
        /\ loc'[t].page = loc[t].page
    BY <1>0, <1>2 DEF SbrkPages, CanRun, At, TypeOK, LocRec
  <2>2. Quiet(t) BY <1>2, <2>1 DEF Quiet, SbrkPages, memVars
  <2>3. NoDirYet(loc[t]) /\ HeapDir(loc[t])' BY <2>1 DEF NoDirYet, HeapDir
  <2>4. SameFork(t) BY <2>1 DEF SameFork, InFork
  <2> QED BY <1>0, <2>1, <2>2, <2>3, <2>4, NoCallDir
<1>3. CASE SbrkDone(t)
  <2>1. /\ loc[t].pc = "grown" /\ loc'[t] = IdleLoc
        /\ \A u \in AllTasks : u # t => loc'[u] = loc[u]
    BY <1>0, <1>3 DEF SbrkDone, EndCall, At, TypeOK
  <2>2. loc'[t].pc = "run" /\ loc'[t].page = NoFrame BY <2>1 DEF IdleLoc
  <2>3. loc[t].page = NoFrame BY <1>0, <2>1 DEF LocFits
  <2>4. \A u \in AllTasks : /\ task'[u].sel = task[u].sel /\ task'[u].stack = task[u].stack
                            /\ task'[u].cr3 = task[u].cr3
    BY <1>0, <1>3 DEF SbrkDone, TypeOK, TaskRec
  <2>5. Quiet(t) BY <1>3, <2>1, <2>2, <2>3, <2>4 DEF Quiet, SbrkDone, memVars
  <2>6. HeapDir(loc[t]) /\ NoDirYet(loc[t])' BY <2>1, <2>2 DEF NoDirYet, HeapDir
  <2>7. SameFork(t) BY <2>2 DEF SameFork, InFork
  <2> QED BY <1>0, <2>1, <2>2, <2>5, <2>6, <2>7, NoCallDir
<1> QED BY <1>1, <1>2, <1>3

LEMMA AllocTaskOwned ==
  ASSUME PInv, Ordered, Control', NEW t \in AllTasks, AllocTask(t)
  PROVE  Owned' /\ CopyIsAhead' /\ ChildIsEmpty'
<1>0. Control /\ TypeOK /\ SlotsOK /\ LocFits(loc[t], t) BY DEF PInv, Control
<1>1. PICK c \in Slot : ~ task[c].named /\ loc' = [loc EXCEPT ![t].pc = "desc", ![t].child = c]
  BY DEF AllocTask
<1>m. PICK m \in LocRec : m = loc[t] BY <1>0 DEF TypeOK
<1> DEFINE l == [m EXCEPT !.pc = "desc", !.child = c]
<1>2. loc' = [loc EXCEPT ![t] = l] BY <1>0, <1>1, <1>m DEF TypeOK
<1>3. l.pc = "desc" /\ l.child = c /\ l.page = m.page BY DEF LocRec
<1> HIDE DEF l
<1>4. loc'[t] = l /\ \A u \in AllTasks : u # t => loc'[u] = loc[u] BY <1>0, <1>2 DEF TypeOK
<1>5. loc[t].pc = "run" /\ t \in Forker BY DEF AllocTask, CanRun, At
<1>6. Quiet(t) BY <1>3, <1>4, <1>5, <1>m DEF Quiet, AllocTask, memVars
<1>7. NoDirYet(loc[t]) /\ NoDirYet(loc[t])' BY <1>3, <1>4, <1>5 DEF NoDirYet
<1>8. SameCall(t) BY <1>0, <1>3, <1>4, <1>5, <1>7, NoCallDir
<1>9. c \in AllTasks /\ task[c].cr3 = NoFrame
  <2>1. ~ \E f \in Forker : loc[f].pc = "name" /\ loc[f].child = c BY <1>5 DEF Ordered
  <2> QED BY <1>0, <1>1, <2>1 DEF SlotsOK, AllTasks
<1>10. \A q \in 0 .. LastPosition : FrameAt(SpaceAt(c, q)) = NoFrame
  BY <1>9, AtPlacesHold DEF AtPlaces, Tree
<1>11. PICK p \in Place : p = StackOf(t) BY PlacesAre
<1>12. Puts(p, FrameAt(p)) BY <1>6, <1>8, <1>11, QuietPlaces
<1>13. Owned' BY <1>6, <1>12, OwnedSame DEF PInv, Quiet
<1>14. CopyIsAhead' /\ ChildIsEmpty' BY <1>3, <1>4, <1>10, <1>12, ForkUndisturbed
<1> QED BY <1>13, <1>14

-----------------------------------------------------------------------------
(* The steps that take a frame.                                            *)
Apart(u, X) ==
  \A p \in 0 .. LastPosition : FrameAt(SpaceAt(u, p)) \notin X /\ FrameAt(CallAt(u, p)) \notin X

LEMMA FreshApart ==
  ASSUME TypeOK, Owned, NEW f, AllocPage(f), NEW u \in AllTasks
  PROVE  Apart(u, {f})
<1>1. f \notin used /\ f # NoFrame BY FreshFrame
<1>2. \A x \in Place : FrameAt(x) # f BY <1>1, HeldIsUsed
<1> QED BY <1>2, PlacesAre DEF Apart

(* The address spaces of a task that the step is not about.                *)
LEMMA OtherTrees ==
  ASSUME TypeOK, NEW X, Alters(X), NEW u \in AllTasks, Apart(u, X),
         NEW q \in 0 .. LastPosition
  PROVE  /\ task'[u].cr3 = task[u].cr3 =>
              Tree(entry', task'[u].cr3, 0, q) = FrameAt(SpaceAt(u, q))
         /\ SameCall(u) => Tree(entry', CallDir(u)', CallFrom(u)', q) = FrameAt(CallAt(u, q))
<1>1. ASSUME task'[u].cr3 = task[u].cr3
      PROVE  Tree(entry', task'[u].cr3, 0, q) = FrameAt(SpaceAt(u, q))
  BY <1>1, SpaceKept DEF Apart
<1>2. ASSUME SameCall(u)
      PROVE  Tree(entry', CallDir(u)', CallFrom(u)', q) = FrameAt(CallAt(u, q))
  <2>1. PICK g, n : g = CallDir(u) /\ n = CallFrom(u) OBVIOUS
  <2>2. n \in Nat BY <2>1 DEF CallFrom, TypeOK, LocRec
  <2>3. Tree(entry', g, n, q) = IF q < n THEN NoFrame ELSE FrameAt(CallAt(u, q))
    BY <2>1, <2>2, CallKept DEF Apart
  <2>4. q < n => FrameAt(CallAt(u, q)) = NoFrame
    BY <2>1, AtPlacesHold DEF AtPlaces, Tree
  <2>5. CallDir(u)' = g /\ CallFrom(u)' = n BY <1>2, <2>1 DEF SameCall
  <2> QED BY <2>3, <2>4, <2>5
<1> QED BY <1>1, <1>2

LEMMA StillCall ==
  ASSUME NEW u, loc'[u] = loc[u], task'[u].cr3 = task[u].cr3
  PROVE  SameCall(u)
BY DEF SameCall, CallDir, CallFrom

LEMMA SameEntries ==
  ASSUME TypeOK, UNCHANGED entry
  PROVE  Alters({})
BY DEF TypeOK, Alters

(* addr_alloc_page for a page that is to be mapped.                        *)
LEMMA TakesPage ==
  ASSUME PInv, Ordered, Control', NEW t \in AllTasks,
         \A u \in AllTasks : u # t => loc'[u] = loc[u],
         UNCHANGED <<entry, task, dropped>>, NEW f, AllocPage(f),
         loc[t].page = NoFrame, loc'[t].page = f, loc[t].pc # "uvm", loc'[t].pc # "uvm",
         SameCall(t), SameFork(t)
  PROVE  Owned' /\ CopyIsAhead' /\ ChildIsEmpty'
<1>0. Control /\ TypeOK /\ Owned BY DEF PInv, Control
<1>1. PICK p \in Place : p = PageOf(t) BY PlacesAre
<1>2. Alters({}) BY <1>0, SameEntries
<1>3. \A u \in AllTasks : Apart(u, {}) BY DEF Apart
<1>4. ASSUME NEW u \in AllTasks
      PROVE  /\ StackFrame(u)' = IF StackOf(u) = p THEN f ELSE StackFrame(u)
             /\ loc'[u].page = IF PageOf(u) = p THEN f ELSE loc[u].page
  <2>1. StackFrame(u)' = StackFrame(u) BY StackKept
  <2>2. StackOf(u) # p /\ (PageOf(u) = p <=> u = t) BY <1>1, PlacesDiffer
  <2> QED BY <2>1, <2>2
<1>5. ASSUME NEW u \in AllTasks, NEW q \in 0 .. LastPosition
      PROVE  /\ Tree(entry', task'[u].cr3, 0, q)
                  = IF SpaceAt(u, q) = p THEN f ELSE FrameAt(SpaceAt(u, q))
             /\ Tree(entry', CallDir(u)', CallFrom(u)', q)
                  = IF CallAt(u, q) = p THEN f ELSE FrameAt(CallAt(u, q))
  <2>1. SpaceAt(u, q) # p /\ CallAt(u, q) # p BY <1>1, PlacesDiffer
  <2>2. SameCall(u)
    <3>1. task'[u].cr3 = task[u].cr3 OBVIOUS
    <3> QED BY <3>1, StillCall
  <2> QED BY <1>0, <1>2, <1>3, <2>1, <2>2, OtherTrees
<1>6. Puts(p, f) BY <1>4, <1>5, PlacesPut
<1>7. FrameAt(p) = NoFrame BY <1>1, AtPlacesHold DEF AtPlaces
<1>8. Owned' BY <1>0, <1>6, <1>7, OwnedTake
<1>9. \A u \in AllTasks : \A q \in 0 .. LastPosition : p # SpaceAt(u, q) /\ p # CallAt(u, q)
  BY <1>1, PlacesDiffer
<1>10. CopyIsAhead' /\ ChildIsEmpty' BY <1>6, <1>9, ForkUndisturbed DEF SameFork
<1> QED BY <1>8, <1>10

(* memory_create_uvm for the address space that a call builds.             *)
LEMMA TakesDir ==
  ASSUME PInv, Ordered, Control', NEW t \in AllTasks,
         \A u \in AllTasks : u # t => loc'[u] = loc[u],
         UNCHANGED <<task, dropped>>, NEW f, CreateUvm(f),
         loc'[t].page = loc[t].page, loc[t].pc # "uvm", loc'[t].pc # "uvm",
         NoDirYet(loc[t]), OwnDir(loc[t])', loc'[t].dir = f,
         loc'[t].pc = "destroy" => loc'[t].at = 0,
         InFork(loc'[t]) =>
           InFork(loc[t]) /\ loc[t].pc # "start" /\ loc'[t].child = loc[t].child
  PROVE  Owned' /\ CopyIsAhead' /\ ChildIsEmpty'
<1>0. Control /\ TypeOK /\ Owned BY DEF PInv, Control
<1>1. PICK p \in Place : p = CallAt(t, LastPosition) BY PlacesAre, LastIsPlace
<1>2. AllocPage(f) /\ f \in Frame BY FreshFrame DEF CreateUvm
<1>3. Alters({f}) /\ entry'[f] = Zeroed
  <2>1. entry' \in Entries BY <1>0, EntriesKept
  <2>2. entry' = [entry EXCEPT ![f] = Zeroed] BY DEF CreateUvm
  <2> QED BY <1>0, <1>2, <2>1, <2>2 DEF Alters, TypeOK, Entries
<1>4. \A u \in AllTasks : Apart(u, {f}) BY <1>0, <1>2, FreshApart
<1>5. CallDir(t) = NoFrame /\ CallDir(t)' = f /\ CallFrom(t)' = 0
  <2>1. CallDirs /\ CallDirs' BY <1>0, CallDirsAre, PTL
  <2> QED BY <2>1 DEF CallDirs, CallFrom
<1>6. ASSUME NEW u \in AllTasks
      PROVE  /\ StackFrame(u)' = IF StackOf(u) = p THEN f ELSE StackFrame(u)
             /\ loc'[u].page = IF PageOf(u) = p THEN f ELSE loc[u].page
  <2>1. StackFrame(u)' = StackFrame(u) BY StackKept
  <2>2. StackOf(u) # p /\ PageOf(u) # p BY <1>1, PlacesDiffer
  <2> QED BY <2>1, <2>2
<1>7. \A q \in 0 .. LastPosition : FrameAt(CallAt(t, q)) = NoFrame
  BY <1>5, AtPlacesHold DEF AtPlaces, Tree
<1>8. ASSUME NEW u \in AllTasks, NEW q \in 0 .. LastPosition
      PROVE  /\ Tree(entry', task'[u].cr3, 0, q)
                  = IF SpaceAt(u, q) = p THEN f ELSE FrameAt(SpaceAt(u, q))
             /\ Tree(entry', CallDir(u)', CallFrom(u)', q)
                  = IF CallAt(u, q) = p THEN f ELSE FrameAt(CallAt(u, q))
  <2>1. SpaceAt(u, q) # p /\ (CallAt(u, q) = p <=> u = t /\ q = LastPosition)
    BY <1>1, PlacesDiffer
  <2>2. task'[u].cr3 = task[u].cr3 OBVIOUS
  <2>3. Tree(entry', task'[u].cr3, 0, q) = FrameAt(SpaceAt(u, q))
    BY <1>0, <1>3, <1>4, <2>2, OtherTrees
  <2>4. Tree(entry', CallDir(u)', CallFrom(u)', q)
          = IF CallAt(u, q) = p THEN f ELSE FrameAt(CallAt(u, q))
    <3>1. CASE u = t
      <4>1. PICK g : g = entry' OBVIOUS
      <4>2. Tree(g, f, 0, q) = IF q = LastPosition THEN f ELSE NoFrame
        BY <1>2, <1>3, <4>1, TreeOfNew
      <4> QED BY <1>5, <1>7, <2>1, <3>1, <4>1, <4>2
    <3>2. CASE u # t
      <4>1. SameCall(u) BY <2>2, <3>2, StillCall
      <4> QED BY <1>0, <1>3, <1>4, <2>1, <3>2, <4>1, OtherTrees
    <3> QED BY <3>1, <3>2
  <2> QED BY <2>1, <2>3, <2>4
<1>9. Puts(p, f) BY <1>6, <1>8, PlacesPut
<1>10. FrameAt(p) = NoFrame BY <1>1, <1>7, LastIsPlace
<1>11. Owned' BY <1>0, <1>2, <1>9, <1>10, OwnedTake
<1>12. \A u \in AllTasks : \A q \in 0 .. LastPosition :
         q # LastPosition => p # SpaceAt(u, q) /\ p # CallAt(u, q)
  BY <1>1, PlacesDiffer
<1>13. CopyIsAhead' /\ ChildIsEmpty' BY <1>7, <1>9, <1>12, ForkUndisturbed
<1> QED BY <1>11, <1>13

LEMMA DirTaken ==
  ASSUME PInv, Ordered, Control', NEW t \in AllTasks, Free # {},
         CopyCreateUvm(t) \/ ExecCreateUvm(t)
  PROVE  Owned' /\ CopyIsAhead' /\ ChildIsEmpty'
<1>0. Control /\ TypeOK /\ LocFits(loc[t], t) BY DEF PInv, Control
<1>1. PICK f : f = FirstFree OBVIOUS
<1>2. CreateUvm(f) /\ UNCHANGED <<task, dropped>>
  BY <1>1 DEF CopyCreateUvm, ExecCreateUvm
<1>3. PICK b \in Nat, e \in Nat : b = Base /\ e = PagesUpTo(ProgramEnd)
  BY MemoryAssumption, ProgramFits, PagesFit
<1>4. CASE CopyCreateUvm(t)
  <2>1. loc[t].pc = "copyUvm"
        /\ loc' = [loc EXCEPT ![t].pc = "copyPage", ![t].dir = f, ![t].at = b]
    BY <1>1, <1>3, <1>4 DEF CopyCreateUvm, At
  <2>2. /\ loc'[t].pc = "copyPage" /\ loc'[t].dir = f
        /\ \A u \in AllTasks : u # t => loc'[u] = loc[u]
        /\ loc'[t].page = loc[t].page /\ loc'[t].child = loc[t].child
    BY <1>0, <2>1 DEF TypeOK, LocRec
  <2>3. NoDirYet(loc[t]) /\ OwnDir(loc[t])' /\ InFork(loc[t])
    BY <2>1, <2>2 DEF NoDirYet, OwnDir, InFork
  <2> QED BY <1>2, <2>1, <2>2, <2>3, TakesDir
<1>5. CASE ExecCreateUvm(t)
  <2>1. loc[t].pc = "exec" BY <1>5 DEF ExecCreateUvm, At
  <2>2. /\ loc'[t].dir = f
        /\ \A u \in AllTasks : u # t => loc'[u] = loc[u]
        /\ loc'[t].page = loc[t].page
        /\ \/ loc'[t].pc = "alloc" /\ loc'[t].then = "loaded"
           \/ loc'[t].pc = "destroy" /\ loc'[t].at = 0 /\ loc'[t].then = "run"
    <3>1. CASE loc' = [loc EXCEPT ![t].pc = "alloc", ![t].dir = f, ![t].at = b,
                                  ![t].end = e, ![t].then = "loaded"]
      BY <1>0, <3>1 DEF TypeOK, LocRec
    <3>2. CASE loc' = [loc EXCEPT ![t].pc = "destroy", ![t].dir = f, ![t].at = 0,
                                  ![t].then = "run"]
      BY <1>0, <3>2 DEF TypeOK, LocRec
    <3> QED BY <1>1, <1>3, <1>5, <3>1, <3>2, Zenon DEF ExecCreateUvm
  <2>3. NoDirYet(loc[t]) /\ OwnDir(loc[t])' BY <2>1, <2>2 DEF NoDirYet, OwnDir
  <2>4. ~ InFork(loc[t])' BY <2>2 DEF InFork
  <2>5. loc[t].pc # "uvm" /\ loc'[t].pc # "uvm" /\ (loc'[t].pc = "destroy" => loc'[t].at = 0)
    BY <2>1, <2>2
  <2> QED BY <1>2, <2>2, <2>3, <2>4, <2>5, TakesDir
<1> QED BY <1>4, <1>5

LEMMA PageTaken ==
  ASSUME PInv, Ordered, Control', NEW t \in AllTasks, Free # {},
         CopyPage(t) \/ (AllocFor(t) /\ loc[t].at < loc[t].end)
  PROVE  Owned' /\ CopyIsAhead' /\ ChildIsEmpty'
<1>0. Control /\ TypeOK /\ LocFits(loc[t], t) BY DEF PInv, Control
<1>1. PICK f : f = FirstFree OBVIOUS
<1>2. AllocPage(f) /\ UNCHANGED <<entry, task, dropped>>
  BY <1>1 DEF CopyPage, AllocFor
<1>3. CASE CopyPage(t)
  <2>1. PICK v : v = CHOOSE x \in ToCopy(t) : \A w \in ToCopy(t) : x <= w OBVIOUS
  <2>2. loc[t].pc = "copyPage"
        /\ loc' = [loc EXCEPT ![t].pc = "copyMap", ![t].page = f, ![t].at = v]
    BY <1>1, <1>3, <2>1 DEF CopyPage, At
  <2>3. loc[t].at <= v
    <3>1. v \in ToCopy(t) BY <1>3, <2>1, NextToCopy DEF CopyPage
    <3>2. v >= loc[t].at /\ v \in Nat /\ loc[t].at \in Nat
      BY <1>0, <3>1, MemoryAssumption DEF ToCopy, Mapped, UserPage, TypeOK, LocRec
    <3> QED BY <3>2
  <2>4. /\ loc'[t].pc = "copyMap" /\ loc'[t].page = f /\ loc'[t].at = v
        /\ \A u \in AllTasks : u # t => loc'[u] = loc[u]
        /\ loc'[t].dir = loc[t].dir /\ loc'[t].child = loc[t].child
    BY <1>0, <2>2 DEF TypeOK, LocRec
  <2>5. loc[t].page = NoFrame BY <1>0, <2>2 DEF LocFits
  <2>6. SameCall(t) BY <1>2, <2>2, <2>4, SameCallDir
  <2>7. SameFork(t) BY <2>2, <2>3, <2>4 DEF SameFork, InFork
  <2> QED BY <1>2, <2>2, <2>4, <2>5, <2>6, <2>7, TakesPage
<1>4. CASE AllocFor(t) /\ loc[t].at < loc[t].end
  <2>1. loc[t].pc = "alloc" /\ loc' = [loc EXCEPT ![t].pc = "map", ![t].page = f]
    BY <1>1, <1>4 DEF AllocFor, At
  <2>2. /\ loc'[t].pc = "map" /\ loc'[t].page = f
        /\ \A u \in AllTasks : u # t => loc'[u] = loc[u]
        /\ loc'[t].dir = loc[t].dir
    BY <1>0, <2>1 DEF TypeOK, LocRec
  <2>3. loc[t].page = NoFrame BY <1>0, <2>1 DEF LocFits
  <2>4. SameCall(t) BY <1>2, <2>1, <2>2, SameCallDir
  <2>5. SameFork(t) BY <2>2 DEF SameFork, InFork
  <2> QED BY <1>2, <2>1, <2>2, <2>3, <2>4, <2>5, TakesPage
<1> QED BY <1>3, <1>4

(* memory_alloc_page in tss_init.                                          *)
LEMMA StackTaken ==
  ASSUME PInv, Ordered, Control', NEW t \in AllTasks, AllocStack(t)
  PROVE  Owned' /\ CopyIsAhead' /\ ChildIsEmpty'
<1>0. Control /\ TypeOK /\ Owned /\ LocFits(loc[t], t) BY DEF PInv, Control
<1>m. PICK c \in AllTasks : c = loc[t].child BY <1>0 DEF TypeOK, LocRec
<1>1. PICK p \in Place : p = StackOf(c) BY PlacesAre
<1>2. loc[t].pc = "stack" /\ UNCHANGED <<entry, dropped>> BY DEF AllocStack, At
<1>3. InFork(loc[t]) BY <1>2 DEF InFork
<1>4. /\ c # t /\ t \in Forker /\ (\A f \in Forker : f = t)
      /\ task[c].sel = NoSel /\ task[c].cr3 = NoFrame
  BY <1>0, <1>2, <1>3, <1>m, ChildOf
<1>5. PICK f, q : /\ f = IF Free = {} THEN NoFrame ELSE FirstFree
                  /\ q = IF Free = {} THEN "name" ELSE "uvm"
  OBVIOUS
<1>6. /\ task' = [task EXCEPT ![c].stack = f, ![c].cr3 = NoFrame]
      /\ loc' = [loc EXCEPT ![t].pc = q]
  BY <1>5, <1>m DEF AllocStack, GoTo
<1>7. /\ loc'[t].pc = q /\ \A u \in AllTasks : u # t => loc'[u] = loc[u]
      /\ loc'[t].page = loc[t].page /\ loc'[t].dir = loc[t].dir /\ loc'[t].child = c
  BY <1>0, <1>6, <1>m DEF TypeOK, LocRec
<1>8. /\ \A u \in AllTasks : task'[u].cr3 = task[u].cr3 /\ task'[u].sel = task[u].sel
      /\ \A u \in AllTasks : task'[u].stack = IF u = c THEN f ELSE task[u].stack
  BY <1>0, <1>4, <1>6 DEF TypeOK, TaskRec
<1>9. q \in {"name", "uvm"} /\ (q = "name" => f = NoFrame) BY <1>5
<1>10. ~ HasStack(c) BY <1>2, <1>4 DEF HasStack
<1>11. ASSUME NEW u \in AllTasks
       PROVE  /\ StackFrame(u)' = IF StackOf(u) = p THEN f ELSE StackFrame(u)
              /\ loc'[u].page = IF PageOf(u) = p THEN f ELSE loc[u].page
  <2>1. PageOf(u) # p /\ (StackOf(u) = p <=> u = c) BY <1>1, PlacesDiffer
  <2>2. loc'[u].page = loc[u].page BY <1>7
  <2>3. StackFrame(u)' = IF u = c THEN f ELSE StackFrame(u)
    <3>1. CASE u # c
      <4>1. HasStack(u)' <=> HasStack(u) BY <1>2, <1>4, <1>7, <1>8, <3>1, <1>m DEF HasStack
      <4> QED BY <1>8, <3>1, <4>1 DEF StackFrame
    <3>2. CASE u = c
      <4>1. HasStack(u)' <=> q = "uvm" BY <1>4, <1>7, <1>8, <3>2 DEF HasStack
      <4> QED BY <1>8, <1>9, <3>2, <4>1 DEF StackFrame
    <3> QED BY <3>1, <3>2
  <2> QED BY <2>1, <2>2, <2>3
<1>12. Alters({}) BY <1>0, <1>2, SameEntries
<1>13. \A u \in AllTasks : Apart(u, {}) BY DEF Apart
<1>14. ASSUME NEW u \in AllTasks, NEW r \in 0 .. LastPosition
       PROVE  /\ Tree(entry', task'[u].cr3, 0, r)
                   = IF SpaceAt(u, r) = p THEN f ELSE FrameAt(SpaceAt(u, r))
              /\ Tree(entry', CallDir(u)', CallFrom(u)', r)
                   = IF CallAt(u, r) = p THEN f ELSE FrameAt(CallAt(u, r))
  <2>1. SpaceAt(u, r) # p /\ CallAt(u, r) # p BY <1>1, PlacesDiffer
  <2>2. SameCall(u)
    <3>1. CASE u = t
      <4>1. loc'[t].pc # "destroy" BY <1>7, <1>9
      <4> QED BY <1>2, <1>7, <1>8, <3>1, <4>1, SameCallDir
    <3>2. CASE u # t BY <1>7, <1>8, <3>2, StillCall
    <3> QED BY <3>1, <3>2
  <2> QED BY <1>0, <1>8, <1>12, <1>13, <2>1, <2>2, OtherTrees
<1>15. Puts(p, f) BY <1>11, <1>14, PlacesPut
<1>16. FrameAt(p) = NoFrame BY <1>1, <1>10, AtPlacesHold DEF AtPlaces
<1>17. Owned'
  <2>1. CASE Free = {}
    <3>1. UNCHANGED used BY <2>1 DEF AllocStack
    <3>2. f = FrameAt(p) BY <1>5, <1>16, <2>1
    <3> QED BY <1>0, <1>2, <1>15, <3>1, <3>2, OwnedSame
  <2>2. CASE Free # {}
    <3>1. AllocPage(f) BY <1>5, <2>2 DEF AllocStack
    <3> QED BY <1>0, <1>2, <1>15, <1>16, <3>1, OwnedTake
  <2> QED BY <2>1, <2>2
<1>18. \A u \in AllTasks : \A r \in 0 .. LastPosition : p # SpaceAt(u, r) /\ p # CallAt(u, r)
  BY <1>1, PlacesDiffer
<1>19. loc'[t].pc \notin {"copyPage", "copyMap"} /\ loc[t].pc # "start"
       /\ loc'[t].child = loc[t].child
  BY <1>2, <1>7, <1>9, <1>m
<1>20. CopyIsAhead' /\ ChildIsEmpty' BY <1>3, <1>7, <1>15, <1>18, <1>19, ForkUndisturbed
<1> QED BY <1>17, <1>20

(* memory_create_uvm in tss_init, with its failure path.                   *)
LEMMA TssOwned ==
  ASSUME PInv, Ordered, Control', NEW t \in AllTasks, TssCreateUvm(t)
  PROVE  Owned' /\ CopyIsAhead' /\ ChildIsEmpty'
<1>0. Control /\ TypeOK /\ Owned /\ LocFits(loc[t], t) BY DEF PInv, Control
<1>m. PICK c \in AllTasks : c = loc[t].child BY <1>0 DEF TypeOK, LocRec
<1>n. PICK s : s = loc[t].sel OBVIOUS
<1>1. loc[t].pc = "uvm" /\ UNCHANGED dropped BY DEF TssCreateUvm, At
<1>2. InFork(loc[t]) BY <1>1 DEF InFork
<1>3. /\ c # t /\ t \in Forker /\ (\A f \in Forker : f = t)
      /\ task[c].sel = NoSel /\ task[c].cr3 = NoFrame /\ loc[c] = IdleLoc
  BY <1>0, <1>1, <1>2, <1>m, ChildOf
<1>4. loc' = [loc EXCEPT ![t].pc = "name"] BY DEF TssCreateUvm, GoTo
<1>5. /\ loc'[t].pc = "name" /\ \A u \in AllTasks : u # t => loc'[u] = loc[u]
      /\ loc'[t].page = loc[t].page /\ loc'[t].dir = loc[t].dir /\ loc'[t].child = c
  BY <1>0, <1>4, <1>m DEF TypeOK, LocRec
<1>6. s \in Sel /\ s # NoSel
  BY <1>0, <1>1, <1>n, ProcessAssumption DEF PInv, DescriptorFound, TypeOK, NoSel
<1>7. HasStack(c) BY <1>1, <1>3, <1>m DEF HasStack
<1>8. \A u \in AllTasks : u # c => (HasStack(u)' <=> task'[u].sel # NoSel)
                                  /\ (HasStack(u) <=> task[u].sel # NoSel)
  BY <1>1, <1>3, <1>5, <1>m DEF HasStack
<1>9. HasStack(c)' <=> task'[c].sel # NoSel BY <1>3, <1>5 DEF HasStack
<1>10. \A u \in AllTasks : loc'[u].page = loc[u].page BY <1>5
<1>11. CallDir(c) = NoFrame /\ CallDir(c)' = NoFrame
  BY <1>3, <1>5 DEF CallDir, IdleLoc
<1>12. \A u \in AllTasks : CallFrom(u)' = CallFrom(u) BY <1>1, <1>5 DEF CallFrom
<1>13. ASSUME Free = {} PROVE Owned' /\ CopyIsAhead' /\ ChildIsEmpty'
  <2>1. PICK f : f = task[c].stack OBVIOUS
  <2>2. FreePage(f) /\ UNCHANGED task BY <1>13, <1>m, <2>1 DEF TssCreateUvm
  <2>3. PICK p \in Place : p = StackOf(c) BY PlacesAre
  <2>4. FrameAt(p) = f BY <1>7, <2>1, <2>3, AtPlacesHold DEF AtPlaces
  <2>5. ASSUME NEW u \in AllTasks
        PROVE  /\ StackFrame(u)' = IF StackOf(u) = p THEN NoFrame ELSE StackFrame(u)
               /\ loc'[u].page = IF PageOf(u) = p THEN NoFrame ELSE loc[u].page
    <3>1. PageOf(u) # p /\ (StackOf(u) = p <=> u = c) BY <2>3, PlacesDiffer
    <3>2. StackFrame(u)' = IF u = c THEN NoFrame ELSE StackFrame(u)
      BY <1>3, <1>8, <1>9, <2>2 DEF StackFrame
    <3> QED BY <1>10, <3>1, <3>2
  <2>6. Alters({f} \ {NoFrame})
    <3>1. f \in Frame \cup {NoFrame} BY <1>0, <2>1 DEF TypeOK, TaskRec
    <3>2. entry' \in Entries BY <1>0, <2>2, EntriesKept
    <3>3. entry' = [entry EXCEPT ![f] = Zeroed] BY <2>2 DEF FreePage
    <3>4. 0 \notin Frame BY MemoryAssumption
    <3> QED BY <1>0, <3>1, <3>2, <3>3, <3>4 DEF Alters, TypeOK, Entries, NoFrame
  <2>7. ASSUME NEW u \in AllTasks PROVE Apart(u, {f} \ {NoFrame})
    <3>1. \A q \in 0 .. LastPosition : SpaceAt(u, q) \in Place /\ CallAt(u, q) \in Place
                                       /\ SpaceAt(u, q) # p /\ CallAt(u, q) # p
      BY <2>3, PlacesAre, PlacesDiffer
    <3> QED BY <1>0, <2>4, <3>1, HeldOnce DEF Apart
  <2>8. ASSUME NEW u \in AllTasks, NEW r \in 0 .. LastPosition
        PROVE  /\ Tree(entry', task'[u].cr3, 0, r)
                    = IF SpaceAt(u, r) = p THEN NoFrame ELSE FrameAt(SpaceAt(u, r))
               /\ Tree(entry', CallDir(u)', CallFrom(u)', r)
                    = IF CallAt(u, r) = p THEN NoFrame ELSE FrameAt(CallAt(u, r))
    <3>1. SpaceAt(u, r) # p /\ CallAt(u, r) # p BY <2>3, PlacesDiffer
    <3>2. task'[u].cr3 = task[u].cr3 BY <2>2
    <3>3. loc'[u].dir = loc[u].dir BY <1>5
    <3>4. SameCall(u) BY <1>12, <3>2, <3>3 DEF SameCall, CallDir
    <3> QED BY <1>0, <2>6, <2>7, <3>1, <3>2, <3>4, OtherTrees
  <2>9. Puts(p, NoFrame) BY <2>5, <2>8, PlacesPut
  <2>10. used' \ dropped' = (used \ dropped) \ {FrameAt(p)}
    BY <1>1, <2>2, <2>4 DEF FreePage
  <2>11. Owned' BY <1>0, <2>9, <2>10, OwnedDrop
  <2> QED BY <1>1, <1>2, <1>5, <1>m, <2>9, <2>11, ForkUndisturbed
<1>14. ASSUME Free # {} PROVE Owned' /\ CopyIsAhead' /\ ChildIsEmpty'
  <2>1. PICK f : f = FirstFree OBVIOUS
  <2>2. CreateUvm(f) /\ task' = [task EXCEPT ![c].cr3 = f, ![c].sel = s]
    BY <1>14, <1>m, <1>n, <2>1 DEF TssCreateUvm
  <2>3. AllocPage(f) /\ f \in Frame BY <2>2, FreshFrame DEF CreateUvm
  <2>4. Alters({f}) /\ entry'[f] = Zeroed
    <3>1. entry' \in Entries BY <1>0, <2>2, EntriesKept
    <3>2. entry' = [entry EXCEPT ![f] = Zeroed] BY <2>2 DEF CreateUvm
    <3> QED BY <1>0, <2>3, <3>1, <3>2 DEF Alters, TypeOK, Entries
  <2>5. \A u \in AllTasks : Apart(u, {f}) BY <1>0, <2>3, FreshApart
  <2>6. /\ \A u \in AllTasks : task'[u].stack = task[u].stack
        /\ \A u \in AllTasks : u # c => task'[u] = task[u]
        /\ task'[c].sel = s /\ task'[c].cr3 = f
    BY <1>0, <2>2 DEF TypeOK, TaskRec
  <2>7. PICK p \in Place : p = SpaceAt(c, LastPosition) BY PlacesAre, LastIsPlace
  <2>8. \A q \in 0 .. LastPosition : FrameAt(SpaceAt(c, q)) = NoFrame
    BY <1>3, AtPlacesHold DEF AtPlaces, Tree
  <2>9. ASSUME NEW u \in AllTasks
        PROVE  /\ StackFrame(u)' = IF StackOf(u) = p THEN f ELSE StackFrame(u)
               /\ loc'[u].page = IF PageOf(u) = p THEN f ELSE loc[u].page
    <3>1. PageOf(u) # p /\ StackOf(u) # p BY <2>7, PlacesDiffer
    <3>2. StackFrame(u)' = StackFrame(u)
      BY <1>6, <1>7, <1>8, <1>9, <2>6 DEF StackFrame
    <3> QED BY <1>10, <3>1, <3>2
  <2>10. ASSUME NEW u \in AllTasks, NEW r \in 0 .. LastPosition
         PROVE  /\ Tree(entry', task'[u].cr3, 0, r)
                     = IF SpaceAt(u, r) = p THEN f ELSE FrameAt(SpaceAt(u, r))
                /\ Tree(entry', CallDir(u)', CallFrom(u)', r)
                     = IF CallAt(u, r) = p THEN f ELSE FrameAt(CallAt(u, r))
    <3>1. CallAt(u, r) # p /\ (SpaceAt(u, r) = p <=> u = c /\ r = LastPosition)
      BY <2>7, PlacesDiffer
    <3>2. loc'[u].dir = loc[u].dir BY <1>5
    <3>3. SameCall(u)
      <4>1. CASE u = c BY <1>11, <1>12, <4>1 DEF SameCall
      <4>2. CASE u # c BY <1>12, <2>6, <3>2, <4>2 DEF SameCall, CallDir
      <4> QED BY <4>1, <4>2
    <3>4. Tree(entry', CallDir(u)', CallFrom(u)', r)
            = IF CallAt(u, r) = p THEN f ELSE FrameAt(CallAt(u, r))
      BY <1>0, <2>4, <2>5, <3>1, <3>3, OtherTrees
    <3>5. CASE u = c
      <4>1. PICK g : g = entry' OBVIOUS
      <4>2. Tree(g, f, 0, r) = IF r = LastPosition THEN f ELSE NoFrame
        BY <2>3, <2>4, <4>1, TreeOfNew
      <4> QED BY <2>6, <2>8, <3>1, <3>4, <3>5, <4>1, <4>2
    <3>6. CASE u # c
      <4>1. task'[u].cr3 = task[u].cr3 BY <2>6, <3>6
      <4>2. Tree(entry', task'[u].cr3, 0, r) = FrameAt(SpaceAt(u, r))
        BY <1>0, <2>4, <2>5, <4>1, OtherTrees
      <4> QED BY <3>1, <3>4, <3>6, <4>2
    <3> QED BY <3>5, <3>6
  <2>11. Puts(p, f) BY <2>9, <2>10, PlacesPut
  <2>12. FrameAt(p) = NoFrame BY <2>7, <2>8, LastIsPlace
  <2>13. Owned' BY <1>0, <1>1, <2>3, <2>11, <2>12, OwnedTake
  <2>14. \A u \in AllTasks : \A q \in 0 .. LastPosition :
           q # LastPosition => p # SpaceAt(u, q) /\ p # CallAt(u, q)
    BY <2>7, PlacesDiffer
  <2> QED BY <1>1, <1>2, <1>5, <1>m, <2>11, <2>13, <2>14, ForkUndisturbed
<1> QED BY <1>13, <1>14

-----------------------------------------------------------------------------
(* The steps that give a frame back, or forget one.                        *)
LEMMA DestroyOwned ==
  ASSUME PInv, Ordered, Control', NEW t \in AllTasks, DestroyUvm(t)
  PROVE  Owned' /\ CopyIsAhead' /\ ChildIsEmpty'
<1>0. Control /\ TypeOK /\ Owned /\ LocFits(loc[t], t) BY DEF PInv, Control
<1>1. PICK n \in 0 .. LastPosition : Destroys(t, n) BY <1>0, DestroysOne
<1>2. PICK f : f = FrameAt(CallAt(t, n)) OBVIOUS
<1>3. /\ f # NoFrame /\ loc[t].pc = "destroy" /\ loc[t].at <= n /\ FreePage(f)
      /\ UNCHANGED <<task, dropped>>
      /\ \A q \in 0 .. LastPosition : q < n => FrameAt(CallAt(t, q)) = NoFrame
      /\ IF n < LastPosition THEN loc' = [loc EXCEPT ![t].at = n + 1]
         ELSE IF loc[t].then = "run" THEN loc' = [loc EXCEPT ![t] = IdleLoc]
         ELSE loc' = [loc EXCEPT ![t].pc = loc[t].then, ![t].dir = NoFrame]
  BY <1>1, <1>2 DEF Destroys, EndCall
<1>4. PICK p \in Place : p = CallAt(t, n) BY PlacesAre
<1>5. FrameAt(p) = f /\ f \in used \ dropped /\ f \in Frame
  BY <1>0, <1>2, <1>3, <1>4, HeldIsUsed
<1>6. Alters({f}) /\ used' = used \ {f}
  <2>1. entry' \in Entries /\ used' = used \ {f} BY <1>0, <1>3, EntriesKept
  <2>2. entry' = [entry EXCEPT ![f] = Zeroed] BY <1>3 DEF FreePage
  <2> QED BY <1>0, <1>5, <2>1, <2>2 DEF Alters, TypeOK, Entries
<1>7. \A x \in Place : x # p => FrameAt(x) # f BY <1>0, <1>3, <1>5, HeldOnce
<1>8. ASSUME NEW u \in AllTasks, u # t PROVE Apart(u, {f})
  <2>1. \A q \in 0 .. LastPosition : SpaceAt(u, q) \in Place /\ CallAt(u, q) \in Place
                                     /\ SpaceAt(u, q) # p /\ CallAt(u, q) # p
    BY <1>4, <1>8, PlacesAre, PlacesDiffer
  <2> QED BY <1>7, <2>1 DEF Apart
<1>9. loc[t].page = NoFrame /\ loc[t].then \in {"run", "copyFailed"} BY <1>0, <1>3 DEF LocFits
<1>10. /\ \A u \in AllTasks : u # t => loc'[u] = loc[u]
       /\ loc'[t].page = NoFrame /\ loc'[t].pc # "uvm"
  <2>1. CASE n < LastPosition
    <3>1. PICK k \in Nat : k = n + 1 BY LastIsPlace
    <3>2. loc' = [loc EXCEPT ![t].at = k] BY <1>3, <2>1, <3>1
    <3> QED BY <1>0, <1>3, <1>9, <3>2 DEF TypeOK, LocRec
  <2>2. CASE ~ (n < LastPosition) /\ loc[t].then = "run"
    BY <1>0, <1>3, <2>2 DEF TypeOK, IdleLoc
  <2>3. CASE ~ (n < LastPosition) /\ loc[t].then # "run"
    BY <1>0, <1>3, <1>9, <2>3 DEF TypeOK, LocRec
  <2> QED BY <2>1, <2>2, <2>3
<1>11. SameFork(t)
  <2>1. CASE n < LastPosition
    <3>1. PICK k \in Nat : k = n + 1 BY LastIsPlace
    <3>2. loc' = [loc EXCEPT ![t].at = k] BY <1>3, <2>1, <3>1
    <3>3. loc'[t].pc = "destroy" /\ loc'[t].then = loc[t].then /\ loc'[t].child = loc[t].child
      BY <1>0, <1>3, <3>2 DEF TypeOK, LocRec
    <3> QED BY <1>3, <3>3 DEF SameFork, InFork
  <2>2. CASE ~ (n < LastPosition) /\ loc[t].then = "run"
    <3>1. loc'[t].pc = "run" BY <1>0, <1>3, <2>2 DEF TypeOK, IdleLoc
    <3> QED BY <3>1 DEF SameFork, InFork
  <2>3. CASE ~ (n < LastPosition) /\ loc[t].then # "run"
    <3>1. loc'[t].pc = "copyFailed" /\ loc'[t].child = loc[t].child
      BY <1>0, <1>3, <1>9, <2>3 DEF TypeOK, LocRec
    <3> QED BY <1>3, <1>9, <2>3, <3>1 DEF SameFork, InFork
  <2> QED BY <2>1, <2>2, <2>3
<1>12. ASSUME NEW u \in AllTasks
       PROVE  /\ StackFrame(u)' = IF StackOf(u) = p THEN NoFrame ELSE StackFrame(u)
              /\ loc'[u].page = IF PageOf(u) = p THEN NoFrame ELSE loc[u].page
  <2>1. StackFrame(u)' = StackFrame(u) BY <1>3, <1>10, StackKept
  <2>2. StackOf(u) # p /\ PageOf(u) # p BY <1>4, PlacesDiffer
  <2> QED BY <1>9, <1>10, <2>1, <2>2
<1>13. ASSUME NEW r \in 0 .. LastPosition
       PROVE  Tree(entry', CallDir(t)', CallFrom(t)', r)
                = IF r = n THEN NoFrame ELSE FrameAt(CallAt(t, r))
  <2>1. CASE n < LastPosition
    <3>1. PICK k \in Nat : k = n + 1 /\ k >= n BY LastIsPlace
    <3>2. loc' = [loc EXCEPT ![t].at = k] BY <1>3, <2>1, <3>1
    <3>3. loc'[t].pc = "destroy" /\ loc'[t].dir = loc[t].dir /\ loc'[t].at = k
      BY <1>0, <1>3, <3>2 DEF TypeOK, LocRec
    <3>4. PICK g : g = CallDir(t) OBVIOUS
    <3>5. CallDir(t)' = g /\ CallFrom(t)' = k
      BY <1>3, <3>3, <3>4 DEF CallDir, CallFrom
    <3>6. CallFrom(t) = loc[t].at /\ loc[t].at \in Nat
      BY <1>0, <1>3 DEF CallFrom, TypeOK, LocRec
    <3>7. CallFrom(t) \in Nat /\ CallFrom(t) <= k BY <1>3, <3>1, <3>6, LastIsPlace
    <3>8. \A q \in 0 .. LastPosition : q >= k => FrameAt(CallAt(t, q)) \notin {f}
      <4>1. ASSUME NEW q \in 0 .. LastPosition, q >= k PROVE FrameAt(CallAt(t, q)) # f
        <5>1. q # n BY <3>1, <4>1
        <5>2. CallAt(t, q) \in Place /\ CallAt(t, q) # p
          BY <1>4, <5>1, PlacesAre, PlacesDiffer
        <5> QED BY <1>7, <5>2
      <4> QED BY <4>1
    <3>9. Tree(entry', g, k, r) = IF r < k THEN NoFrame ELSE FrameAt(CallAt(t, r))
      BY <1>0, <1>6, <3>4, <3>7, <3>8, CallKept
    <3>10. r < k <=> r < n \/ r = n BY <3>1, LastIsPlace
    <3> QED BY <1>3, <3>5, <3>9, <3>10
  <2>2. CASE ~ (n < LastPosition)
    <3>1. n = LastPosition /\ (r # n => r < n) BY <2>2, LastIsPlace
    <3>2. loc'[t].dir = NoFrame
      <4>1. CASE loc[t].then = "run" BY <1>0, <1>3, <2>2, <4>1 DEF TypeOK, IdleLoc
      <4>2. CASE loc[t].then # "run" BY <1>0, <1>3, <2>2, <4>2 DEF TypeOK, LocRec
      <4> QED BY <4>1, <4>2
    <3>3. CallDir(t)' = NoFrame BY <3>2 DEF CallDir
    <3> QED BY <1>3, <3>1, <3>3 DEF Tree
  <2> QED BY <2>1, <2>2
<1>14. ASSUME NEW u \in AllTasks, NEW r \in 0 .. LastPosition
       PROVE  /\ Tree(entry', task'[u].cr3, 0, r)
                   = IF SpaceAt(u, r) = p THEN NoFrame ELSE FrameAt(SpaceAt(u, r))
              /\ Tree(entry', CallDir(u)', CallFrom(u)', r)
                   = IF CallAt(u, r) = p THEN NoFrame ELSE FrameAt(CallAt(u, r))
  <2>1. SpaceAt(u, r) # p /\ (CallAt(u, r) = p <=> u = t /\ r = n) BY <1>4, PlacesDiffer
  <2>2. task'[u].cr3 = task[u].cr3 BY <1>3
  <2>3. CASE u # t
    <3>1. SameCall(u) BY <1>10, <2>2, <2>3, StillCall
    <3> QED BY <1>0, <1>6, <1>8, <2>1, <2>2, <2>3, <3>1, OtherTrees
  <2>4. CASE u = t
    <3>1. \A q \in 0 .. LastPosition : FrameAt(SpaceAt(t, q)) \notin {f}
      BY <1>4, <1>7, PlacesAre, PlacesDiffer
    <3>2. Tree(entry', task'[u].cr3, 0, r) = FrameAt(SpaceAt(u, r))
      BY <1>0, <1>6, <2>2, <2>4, <3>1, SpaceKept
    <3> QED BY <1>13, <2>1, <2>4, <3>2
  <2> QED BY <2>3, <2>4
<1>15. Puts(p, NoFrame) BY <1>12, <1>14, PlacesPut
<1>16. used' \ dropped' = (used \ dropped) \ {FrameAt(p)} BY <1>3, <1>5, <1>6
<1>17. Owned' BY <1>0, <1>15, <1>16, OwnedDrop
<1>18. CopyIsAhead' /\ ChildIsEmpty' BY <1>10, <1>11, <1>15, ForkUndisturbed DEF SameFork
<1> QED BY <1>17, <1>18

(* A page that cannot be mapped for want of a table is forgotten.          *)
LEMMA DropsPage ==
  ASSUME PInv, Ordered, Control', NEW t \in AllTasks,
         \A u \in AllTasks : u # t => loc'[u] = loc[u],
         UNCHANGED <<memVars, task>>, dropped' = dropped \cup {loc[t].page},
         loc'[t].page = NoFrame, loc[t].pc # "uvm", loc'[t].pc # "uvm",
         SameCall(t), SameFork(t)
  PROVE  Owned' /\ CopyIsAhead' /\ ChildIsEmpty'
<1>0. Control /\ TypeOK /\ Owned BY DEF PInv, Control
<1>1. PICK p \in Place : p = PageOf(t) BY PlacesAre
<1>2. Alters({}) BY <1>0, SameEntries DEF memVars
<1>3. \A u \in AllTasks : Apart(u, {}) BY DEF Apart
<1>4. ASSUME NEW u \in AllTasks
      PROVE  /\ StackFrame(u)' = IF StackOf(u) = p THEN NoFrame ELSE StackFrame(u)
             /\ loc'[u].page = IF PageOf(u) = p THEN NoFrame ELSE loc[u].page
  <2>1. StackFrame(u)' = StackFrame(u) BY StackKept
  <2>2. StackOf(u) # p /\ (PageOf(u) = p <=> u = t) BY <1>1, PlacesDiffer
  <2> QED BY <2>1, <2>2
<1>5. ASSUME NEW u \in AllTasks, NEW q \in 0 .. LastPosition
      PROVE  /\ Tree(entry', task'[u].cr3, 0, q)
                  = IF SpaceAt(u, q) = p THEN NoFrame ELSE FrameAt(SpaceAt(u, q))
             /\ Tree(entry', CallDir(u)', CallFrom(u)', q)
                  = IF CallAt(u, q) = p THEN NoFrame ELSE FrameAt(CallAt(u, q))
  <2>1. SpaceAt(u, q) # p /\ CallAt(u, q) # p BY <1>1, PlacesDiffer
  <2>2. SameCall(u)
    <3>1. task'[u].cr3 = task[u].cr3 OBVIOUS
    <3> QED BY <3>1, StillCall
  <2> QED BY <1>0, <1>2, <1>3, <2>1, <2>2, OtherTrees
<1>6. Puts(p, NoFrame) BY <1>4, <1>5, PlacesPut
<1>7. FrameAt(p) = loc[t].page BY <1>1, AtPlacesHold DEF AtPlaces
<1>8. used' \ dropped' = (used \ dropped) \ {FrameAt(p)} BY <1>7 DEF memVars
<1>9. Owned' BY <1>0, <1>6, <1>8, OwnedDrop
<1>10. CopyIsAhead' /\ ChildIsEmpty' BY <1>6, ForkUndisturbed DEF SameFork
<1> QED BY <1>9, <1>10

LEMMA PageDropped ==
  ASSUME PInv, Ordered, Control', NEW t \in AllTasks, NoTable(loc[t].dir, loc[t].at),
         CopyMap(t) \/ (MapFor(t) /\ ~ IsPresent(loc[t].dir, loc[t].at))
  PROVE  Owned' /\ CopyIsAhead' /\ ChildIsEmpty'
<1>0. Control /\ TypeOK /\ LocFits(loc[t], t) BY DEF PInv, Control
<1>1. UNCHANGED <<memVars, task>> /\ dropped' = dropped \cup {loc[t].page}
  BY DEF CopyMap, MapFor
<1>2. CASE CopyMap(t)
  <2>1. /\ loc[t].pc = "copyMap"
        /\ loc' = [loc EXCEPT ![t].pc = "destroy", ![t].page = NoFrame,
                              ![t].at = 0, ![t].then = "copyFailed"]
    BY <1>2 DEF CopyMap, At
  <2>2. /\ loc'[t].pc = "destroy" /\ loc'[t].page = NoFrame /\ loc'[t].at = 0
        /\ \A u \in AllTasks : u # t => loc'[u] = loc[u]
        /\ loc'[t].dir = loc[t].dir /\ loc'[t].child = loc[t].child
    BY <1>0, <2>1 DEF TypeOK, LocRec
  <2>3. SameCall(t) BY <1>1, <2>1, <2>2, SameCallDir
  <2>4. SameFork(t) BY <2>1, <2>2 DEF SameFork, InFork
  <2> QED BY <1>1, <2>1, <2>2, <2>3, <2>4, DropsPage
<1>3. CASE MapFor(t) /\ ~ IsPresent(loc[t].dir, loc[t].at)
  <2>1. /\ loc[t].pc = "map"
        /\ loc' = [loc EXCEPT ![t].pc = loc[t].then, ![t].page = NoFrame, ![t].missing = TRUE]
    BY <1>3 DEF MapFor, At
  <2>2. loc[t].then \in {"loaded", "args", "grown"} BY <1>0, <2>1 DEF LocFits
  <2>3. /\ loc'[t].pc = loc[t].then /\ loc'[t].page = NoFrame
        /\ \A u \in AllTasks : u # t => loc'[u] = loc[u]
        /\ loc'[t].dir = loc[t].dir
    BY <1>0, <2>1 DEF TypeOK, LocRec
  <2>4. SameCall(t) BY <1>1, <2>1, <2>2, <2>3, SameCallDir
  <2>5. SameFork(t) BY <2>2, <2>3 DEF SameFork, InFork
  <2> QED BY <1>1, <2>1, <2>2, <2>3, <2>4, <2>5, DropsPage
<1> QED BY <1>2, <1>3

-----------------------------------------------------------------------------
(* The steps that move frames from place to place.                         *)
LEMMA OwnsMoveOne ==
  ASSUME NEW P, NEW U, NEW F, NEW G, Owns(F, P, U), NEW a \in P, NEW b \in P, a # b,
         F[b] = NoFrame,
         \A x \in P : G[x] = IF x = a THEN NoFrame ELSE IF x = b THEN F[a] ELSE F[x]
  PROVE  Owns(G, P, U)
<1> DEFINE m == [x \in P |-> IF x = a THEN b ELSE IF x = b THEN a ELSE x]
<1>1. m \in [P -> P] /\ \A x \in P : m[m[x]] = x OBVIOUS
<1>2. \A x \in P : G[x] = F[m[x]] OBVIOUS
<1> HIDE DEF m
<1> QED BY <1>1, <1>2, OwnsMove

(* The address space of a call becomes that of task c.                     *)
LEMMA OwnsMoveSpace ==
  ASSUME NEW U, NEW F, NEW G, Owns(F, Place, U), NEW t \in AllTasks, NEW c \in AllTasks,
         \A q \in 0 .. LastPosition : /\ G[SpaceAt(c, q)] = F[CallAt(t, q)]
                                      /\ G[CallAt(t, q)] = F[SpaceAt(c, q)],
         \A x \in Place :
           (\A q \in 0 .. LastPosition : x # SpaceAt(c, q) /\ x # CallAt(t, q)) => G[x] = F[x]
  PROVE  Owns(G, Place, U)
<1> DEFINE IsCall(x) == \E q \in 0 .. LastPosition : x = CallAt(t, q)
           IsSpace(x) == \E q \in 0 .. LastPosition : x = SpaceAt(c, q)
           m == [x \in Place |-> IF IsCall(x) THEN SpaceAt(c, x[2][2])
                                 ELSE IF IsSpace(x) THEN CallAt(t, x[2][2]) ELSE x]
<1>1. \A q : CallAt(t, q)[2][2] = q /\ SpaceAt(c, q)[2][2] = q BY DEF CallAt, SpaceAt
<1>2. \A q \in 0 .. LastPosition : /\ IsCall(CallAt(t, q)) /\ IsSpace(SpaceAt(c, q))
                                   /\ ~ IsCall(SpaceAt(c, q))
  BY PlacesDiffer
<1>3. ASSUME NEW q \in 0 .. LastPosition
      PROVE  m[CallAt(t, q)] = SpaceAt(c, q) /\ m[SpaceAt(c, q)] = CallAt(t, q)
  <2>1. CallAt(t, q) \in Place /\ SpaceAt(c, q) \in Place BY PlacesAre
  <2>2. m[CallAt(t, q)] = SpaceAt(c, CallAt(t, q)[2][2]) BY <1>2, <2>1
  <2>3. m[SpaceAt(c, q)] = CallAt(t, SpaceAt(c, q)[2][2]) BY <1>2, <2>1
  <2> QED BY <1>1, <2>2, <2>3
<1>4. ASSUME NEW x \in Place
      PROVE  m[x] \in Place /\ m[m[x]] = x /\ G[x] = F[m[x]]
  <2>1. CASE IsCall(x)
    <3>1. PICK q \in 0 .. LastPosition : x = CallAt(t, q) BY <2>1
    <3>2. m[x] = SpaceAt(c, q) /\ m[SpaceAt(c, q)] = x BY <1>3, <3>1
    <3> HIDE DEF m
    <3> QED BY <3>1, <3>2, PlacesAre
  <2>2. CASE ~ IsCall(x) /\ IsSpace(x)
    <3>1. PICK q \in 0 .. LastPosition : x = SpaceAt(c, q) BY <2>2
    <3>2. m[x] = CallAt(t, q) /\ m[CallAt(t, q)] = x BY <1>3, <3>1
    <3> HIDE DEF m
    <3> QED BY <3>1, <3>2, PlacesAre
  <2>3. CASE ~ IsCall(x) /\ ~ IsSpace(x)
    <3>1. m[x] = x BY <2>3
    <3>2. G[x] = F[x] BY <2>3
    <3> HIDE DEF m
    <3> QED BY <3>1, <3>2
  <2> QED BY <2>1, <2>2, <2>3
<1>5. m \in [Place -> Place] BY <1>4
<1> HIDE DEF m
<1> QED BY <1>4, <1>5, OwnsMove

LEMMA StillCallDir ==
  ASSUME NEW u, loc'[u] = loc[u], task'[u].cr3 = task[u].cr3 \/ loc[u].dir = NoFrame
  PROVE  CallDir(u)' = CallDir(u) /\ CallFrom(u)' = CallFrom(u)
BY DEF CallDir, CallFrom

(* The ends of memory_copy_uvm: the directory that tss_init has made is    *)
(* forgotten, and the copy, if there is one, is the child's.               *)
LEMMA SetCr3Owned ==
  ASSUME PInv, Ordered, Control', NEW t \in AllTasks, SetCr3(t, loc[t].dir),
         InFork(loc[t]), loc[t].pc \in {"copyUvm", "copyPage", "copyFailed"},
         loc'[t].pc = "start", loc'[t].dir = NoFrame, loc'[t].page = loc[t].page,
         \A u \in AllTasks : u # t => loc'[u] = loc[u],
         UNCHANGED memVars
  PROVE  Owned' /\ CopyIsAhead' /\ ChildIsEmpty'
<1>0. Control /\ TypeOK /\ Owned /\ LocFits(loc[t], t) BY DEF PInv, Control
<1>m. PICK c \in AllTasks, d \in Frame \cup {NoFrame} : c = loc[t].child /\ d = loc[t].dir
  BY <1>0 DEF TypeOK, LocRec
<1>1. /\ c # t /\ loc[c] = IdleLoc /\ \A u \in AllTasks : u # t => ~ InFork(loc[u])
  BY <1>0, <1>m, ChildOf
<1>2. /\ loc'[t].pc = "start" /\ \A u \in AllTasks : u # t => loc'[u] = loc[u]
      /\ loc'[t].page = loc[t].page /\ loc'[t].dir = NoFrame
  OBVIOUS
<1>3. PICK old \in Frame \cup {NoFrame} : old = task[c].cr3 BY <1>0 DEF TypeOK, TaskRec
<1>4. task' = [task EXCEPT ![c].cr3 = d] /\ dropped' = dropped \cup ({old} \ {NoFrame})
  BY <1>m, <1>3 DEF SetCr3
<1>5. /\ \A u \in AllTasks : task'[u].sel = task[u].sel /\ task'[u].stack = task[u].stack
      /\ \A u \in AllTasks : u # c => task'[u].cr3 = task[u].cr3
      /\ task'[c].cr3 = d
  BY <1>0, <1>4 DEF TypeOK, TaskRec
<1>6. AtPlaces /\ AtPlaces' BY AtPlacesHold, PTL
<1>7. CallDir(t) = d /\ CallFrom(t) = 0 /\ CallDir(t)' = NoFrame
  <2>1. d # NoFrame => d # task[t].cr3
    BY <1>0, <1>m DEF LocFits, OwnDir, NoDirYet
  <2> QED BY <1>2, <1>m, <2>1 DEF CallDir, CallFrom
<1>8. \A u \in AllTasks : u # t => CallDir(u)' = CallDir(u) /\ CallFrom(u)' = CallFrom(u)
  <2>1. loc[c].dir = NoFrame BY <1>1 DEF IdleLoc
  <2> QED BY <1>2, <1>5, <2>1, StillCallDir
<1>9. entry' = entry BY DEF memVars
<1>10. ASSUME NEW q \in 0 .. LastPosition
       PROVE  /\ FrameAt(SpaceAt(c, q))' = FrameAt(CallAt(t, q))
              /\ FrameAt(CallAt(t, q))' = NoFrame
              /\ FrameAt(SpaceAt(c, q)) = IF q = LastPosition THEN old ELSE NoFrame
  <2>1. FrameAt(SpaceAt(c, q))' = Tree(entry, d, 0, q) BY <1>5, <1>6, <1>9 DEF AtPlaces
  <2>2. FrameAt(CallAt(t, q)) = Tree(entry, d, 0, q) BY <1>6, <1>7 DEF AtPlaces
  <2>3. FrameAt(CallAt(t, q))' = NoFrame BY <1>6, <1>7 DEF AtPlaces, Tree
  <2>4. q # LastPosition => FrameAt(SpaceAt(c, q)) = NoFrame
    BY <1>m DEF PInv, ChildIsEmpty
  <2>5. FrameAt(SpaceAt(c, LastPosition)) = old
    <3>1. FrameAt(SpaceAt(c, LastPosition)) = Tree(entry, old, 0, LastPosition)
      BY <1>3, <1>6, LastIsPlace DEF AtPlaces
    <3>2. ~ (LastPosition < 0) BY LastIsPlace
    <3> QED BY <3>1, <3>2 DEF Tree, Freed
  <2> QED BY <2>1, <2>2, <2>3, <2>4, <2>5
<1>11. ASSUME NEW u \in AllTasks
       PROVE  /\ FrameAt(StackOf(u))' = FrameAt(StackOf(u))
              /\ FrameAt(PageOf(u))' = FrameAt(PageOf(u))
  <2>1. StackFrame(u)' = StackFrame(u) BY <1>2, <1>5, StackKept
  <2>2. loc'[u].page = loc[u].page BY <1>2
  <2> QED BY <1>6, <2>1, <2>2 DEF AtPlaces, StackFrame
<1>12. ASSUME NEW u \in AllTasks, NEW q \in 0 .. LastPosition
       PROVE  /\ u # c => FrameAt(SpaceAt(u, q))' = FrameAt(SpaceAt(u, q))
              /\ u # t => FrameAt(CallAt(u, q))' = FrameAt(CallAt(u, q))
  BY <1>5, <1>6, <1>8, <1>9 DEF AtPlaces
<1>13. ASSUME NEW x \in Place,
              \A q \in 0 .. LastPosition : x # SpaceAt(c, q) /\ x # CallAt(t, q)
       PROVE  FrameAt(x)' = FrameAt(x)
  <2>1. PICK u \in AllTasks :
          \/ x = StackOf(u) \/ x = PageOf(u)
          \/ \E q \in 0 .. LastPosition : x = SpaceAt(u, q) \/ x = CallAt(u, q)
    BY PlacesAre
  <2> QED BY <1>11, <1>12, <1>13, <2>1
<1>14. PICK p \in Place : p = SpaceAt(c, LastPosition) BY PlacesAre, LastIsPlace
<1>15. PICK F : F = [x \in Place |-> IF x = p THEN NoFrame ELSE Holds[x]] OBVIOUS
<1>16. Holds[p] = old BY <1>10, <1>14, LastIsPlace DEF Holds
<1>17. Owns(F, Place, (used \ dropped) \ {old})
  BY <1>0, <1>15, <1>16, OwnsDrop DEF Owned
<1>18. ASSUME NEW q \in 0 .. LastPosition
       PROVE  /\ SpaceAt(c, q) \in Place /\ CallAt(t, q) \in Place
              /\ CallAt(t, q) # p /\ (SpaceAt(c, q) = p <=> q = LastPosition)
  <2>1. SpaceAt(c, q) \in Place /\ CallAt(t, q) \in Place BY PlacesAre
  <2>2. CallAt(t, q) # p BY <1>14, PlacesDiffer
  <2>3. SpaceAt(c, q) = p <=> q = LastPosition BY <1>14, PlacesDiffer
  <2> QED BY <2>1, <2>2, <2>3
<1>19. \A q \in 0 .. LastPosition : /\ Holds'[SpaceAt(c, q)] = F[CallAt(t, q)]
                                    /\ Holds'[CallAt(t, q)] = F[SpaceAt(c, q)]
  BY <1>10, <1>15, <1>18 DEF Holds
<1>20. \A x \in Place :
         (\A q \in 0 .. LastPosition : x # SpaceAt(c, q) /\ x # CallAt(t, q))
           => Holds'[x] = F[x]
  BY <1>13, <1>14, <1>15, LastIsPlace DEF Holds
<1>21. Owns(Holds', Place, (used \ dropped) \ {old}) BY <1>17, <1>19, <1>20, OwnsMoveSpace
<1>22. used' \ dropped' = (used \ dropped) \ {old}
  BY <1>0, <1>4, MemoryAssumption DEF memVars, TypeOK, NoFrame
<1>23. Owned' BY <1>21, <1>22 DEF Owned, Owns
<1>24. \A u \in AllTasks : ~ InFork(loc[u])' \/ loc'[u].pc = "start" BY <1>1, <1>2 DEF InFork
<1>25. CopyIsAhead' /\ ChildIsEmpty' BY <1>24 DEF CopyIsAhead, ChildIsEmpty, InFork
<1> QED BY <1>23, <1>25

LEMMA CopyEndOwned ==
  ASSUME PInv, Ordered, Control', NEW t \in AllTasks,
         CopyDone(t) \/ CopyFailed(t) \/ (CopyCreateUvm(t) /\ Free = {})
  PROVE  Owned' /\ CopyIsAhead' /\ ChildIsEmpty'
<1>0. Control /\ TypeOK /\ LocFits(loc[t], t) BY DEF PInv, Control
<1>1. CASE CopyDone(t)
  <2>1. SetCr3(t, loc[t].dir) /\ UNCHANGED memVars /\ loc[t].pc = "copyPage"
        /\ loc' = [loc EXCEPT ![t].pc = "start", ![t].dir = NoFrame]
    BY <1>1 DEF CopyDone, At
  <2>2. InFork(loc[t]) BY <2>1 DEF InFork
  <2>3. /\ loc'[t].pc = "start" /\ loc'[t].dir = NoFrame /\ loc'[t].page = loc[t].page
        /\ \A u \in AllTasks : u # t => loc'[u] = loc[u]
    BY <1>0, <2>1 DEF TypeOK, LocRec
  <2> QED BY <2>1, <2>2, <2>3, SetCr3Owned
<1>2. CASE CopyFailed(t) \/ (CopyCreateUvm(t) /\ Free = {})
  <2>1. SetCr3(t, NoFrame) /\ UNCHANGED memVars /\ loc[t].pc \in {"copyFailed", "copyUvm"}
        /\ loc' = [loc EXCEPT ![t].pc = "start"]
    BY <1>2 DEF CopyFailed, CopyCreateUvm, At, GoTo
  <2>2. loc[t].dir = NoFrame BY <1>0, <2>1 DEF LocFits, NoDirYet
  <2>3. /\ loc'[t].pc = "start" /\ loc'[t].dir = NoFrame /\ loc'[t].page = loc[t].page
        /\ \A u \in AllTasks : u # t => loc'[u] = loc[u]
    BY <1>0, <2>1, <2>2 DEF TypeOK, LocRec
  <2>5. InFork(loc[t]) BY <2>1 DEF InFork
  <2> QED BY <2>1, <2>2, <2>3, <2>5, SetCr3Owned
<1> QED BY <1>1, <1>2

(* Forks are not disturbed by what a task that runs does with its own      *)
(* address spaces.                                                         *)
LEMMA ForkKept ==
  ASSUME PInv, Ordered, Control', NEW t \in started,
         \A u \in AllTasks : u # t => loc'[u] = loc[u],
         \A u \in AllTasks : \A q \in 0 .. LastPosition :
           u # t => /\ FrameAt(SpaceAt(u, q))' = FrameAt(SpaceAt(u, q))
                    /\ FrameAt(CallAt(u, q))' = FrameAt(CallAt(u, q)),
         InFork(loc'[t]) /\ loc'[t].pc # "start" =>
           InFork(loc[t]) /\ loc[t].pc # "start" /\ loc'[t].child = loc[t].child,
         loc'[t].pc \in {"copyPage", "copyMap"} =>
           \A v \in UserPage : v >= loc'[t].at => FrameAt(CallAt(t, PagePos(v)))' = NoFrame
  PROVE  CopyIsAhead' /\ ChildIsEmpty'
<1>0. \A u \in AllTasks : LocFits(loc[u], u) BY DEF PInv, Control
<1>1. CopyIsAhead'
  <2>1. SUFFICES ASSUME NEW u \in AllTasks, loc'[u].pc \in {"copyPage", "copyMap"},
                        NEW v \in UserPage, v >= loc'[u].at
                 PROVE  FrameAt(CallAt(u, PagePos(v)))' = NoFrame
    BY DEF CopyIsAhead
  <2>2. PICK q \in 0 .. LastPosition : q = PagePos(v) BY PagePosIsPlace
  <2>3. CASE u = t BY <2>1, <2>3
  <2>4. CASE u # t
    <3>1. FrameAt(CallAt(u, q)) = NoFrame BY <2>1, <2>2, <2>4 DEF PInv, CopyIsAhead
    <3> QED BY <2>2, <2>4, <3>1
  <2> QED BY <2>3, <2>4
<1>2. ChildIsEmpty'
  <2>1. SUFFICES ASSUME NEW u \in AllTasks, InFork(loc[u])', loc'[u].pc # "start",
                        NEW q \in 0 .. LastPosition, q # LastPosition
                 PROVE  FrameAt(SpaceAt(loc[u].child, q))'  = NoFrame
    BY DEF ChildIsEmpty
  <2>2. PICK c \in AllTasks : c = loc'[u].child BY DEF Control, TypeOK, LocRec
  <2>3. InFork(loc[u]) /\ loc[u].pc # "start" /\ c = loc[u].child BY <2>1, <2>2
  <2>4. c # t BY <1>0, <2>3 DEF LocFits
  <2>5. FrameAt(SpaceAt(c, q)) = NoFrame BY <2>1, <2>3 DEF PInv, ChildIsEmpty
  <2> QED BY <2>2, <2>4, <2>5
<1> QED BY <1>1, <1>2

(* execve: the new address space becomes the task's, and the old one the   *)
(* one that is to be destroyed.                                            *)
LEMMA SwapOwned ==
  ASSUME PInv, Ordered, Control', NEW t \in AllTasks, ExecSwap(t)
  PROVE  Owned' /\ CopyIsAhead' /\ ChildIsEmpty'
<1>0. Control /\ TypeOK /\ Owned /\ LocFits(loc[t], t) BY DEF PInv, Control
<1>1. PICK d \in Frame \cup {NoFrame}, old \in Frame \cup {NoFrame} :
        d = loc[t].dir /\ old = task[t].cr3
  BY <1>0 DEF TypeOK, LocRec, TaskRec
<1>2. /\ loc[t].pc = "args" /\ t \in started /\ UNCHANGED <<memVars, dropped>>
      /\ task' = [task EXCEPT ![t].cr3 = d]
      /\ loc' = [loc EXCEPT ![t].pc = "destroy", ![t].dir = old, ![t].at = 0,
                            ![t].then = "run", ![t].missing = FALSE]
  BY <1>1 DEF ExecSwap, At
<1>3. d # NoFrame /\ old # NoFrame /\ d # old
  BY <1>0, <1>1, <1>2 DEF LocFits, OwnDir
<1>4. /\ loc'[t].pc = "destroy" /\ loc'[t].then = "run" /\ loc'[t].dir = old /\ loc'[t].at = 0
      /\ loc'[t].page = loc[t].page /\ \A u \in AllTasks : u # t => loc'[u] = loc[u]
  BY <1>0, <1>2 DEF TypeOK, LocRec
<1>5. /\ task'[t].cr3 = d /\ \A u \in AllTasks : u # t => task'[u].cr3 = task[u].cr3
      /\ \A u \in AllTasks : task'[u].sel = task[u].sel /\ task'[u].stack = task[u].stack
  BY <1>0, <1>2 DEF TypeOK, TaskRec
<1>6. AtPlaces /\ AtPlaces' BY AtPlacesHold, PTL
<1>7. CallDir(t) = d /\ CallFrom(t) = 0 BY <1>1, <1>2, <1>3 DEF CallDir, CallFrom
<1>8. CallDir(t)' = old /\ CallFrom(t)' = 0 BY <1>3, <1>4, <1>5 DEF CallDir, CallFrom
<1>9. \A u \in AllTasks : u # t => CallDir(u)' = CallDir(u) /\ CallFrom(u)' = CallFrom(u)
  BY <1>4, <1>5, StillCallDir
<1>10. entry' = entry /\ used' = used BY <1>2 DEF memVars
<1>11. ASSUME NEW q \in 0 .. LastPosition
       PROVE  /\ FrameAt(SpaceAt(t, q))' = FrameAt(CallAt(t, q))
              /\ FrameAt(CallAt(t, q))' = FrameAt(SpaceAt(t, q))
  BY <1>1, <1>5, <1>6, <1>7, <1>8, <1>10 DEF AtPlaces
<1>12. ASSUME NEW u \in AllTasks
       PROVE  /\ FrameAt(StackOf(u))' = FrameAt(StackOf(u))
              /\ FrameAt(PageOf(u))' = FrameAt(PageOf(u))
  <2>1. StackFrame(u)' = StackFrame(u) BY <1>2, <1>4, <1>5, StackKept
  <2>2. loc'[u].page = loc[u].page BY <1>4
  <2> QED BY <1>6, <2>1, <2>2 DEF AtPlaces, StackFrame
<1>13. ASSUME NEW u \in AllTasks, NEW q \in 0 .. LastPosition, u # t
       PROVE  /\ FrameAt(SpaceAt(u, q))' = FrameAt(SpaceAt(u, q))
              /\ FrameAt(CallAt(u, q))' = FrameAt(CallAt(u, q))
  BY <1>5, <1>6, <1>9, <1>10, <1>13 DEF AtPlaces
<1>14. ASSUME NEW x \in Place,
              \A q \in 0 .. LastPosition : x # SpaceAt(t, q) /\ x # CallAt(t, q)
       PROVE  FrameAt(x)' = FrameAt(x)
  <2>1. PICK u \in AllTasks :
          \/ x = StackOf(u) \/ x = PageOf(u)
          \/ \E q \in 0 .. LastPosition : x = SpaceAt(u, q) \/ x = CallAt(u, q)
    BY PlacesAre
  <2> QED BY <1>12, <1>13, <1>14, <2>1
<1>15. \A q \in 0 .. LastPosition : /\ Holds'[SpaceAt(t, q)] = Holds[CallAt(t, q)]
                                    /\ Holds'[CallAt(t, q)] = Holds[SpaceAt(t, q)]
  BY <1>11, PlacesAre DEF Holds
<1>16. \A x \in Place :
         (\A q \in 0 .. LastPosition : x # SpaceAt(t, q) /\ x # CallAt(t, q))
           => Holds'[x] = Holds[x]
  BY <1>14 DEF Holds
<1>17. Owns(Holds', Place, used \ dropped) BY <1>0, <1>15, <1>16, OwnsMoveSpace DEF Owned
<1>18. Owned' BY <1>2, <1>10, <1>17 DEF Owned, Owns
<1>19. ~ InFork(loc'[t]) /\ loc'[t].pc \notin {"copyPage", "copyMap"} BY <1>4 DEF InFork
<1>20. CopyIsAhead' /\ ChildIsEmpty' BY <1>2, <1>4, <1>13, <1>19, ForkKept
<1> QED BY <1>18, <1>20

-----------------------------------------------------------------------------
(* memory_create_map in directory d, the task's own or the one that its    *)
(* call builds: W are the places of that address space.                    *)
Walks(t, d, W) ==
  \/ d = task[t].cr3 /\ W = [q \in 0 .. LastPosition |-> SpaceAt(t, q)]
  \/ d # task[t].cr3 /\ W = [q \in 0 .. LastPosition |-> CallAt(t, q)]

(* The step of the call that maps its page.                                *)
MapsOwn(t, d) ==
  /\ d \in Frame /\ loc[t].dir = d /\ loc'[t].dir = d
  /\ \A u \in AllTasks : u # t => loc'[u] = loc[u]
  /\ UNCHANGED <<task, dropped>>
  /\ loc[t].page \in Frame /\ loc'[t].page = NoFrame
  /\ loc[t].pc \notin {"uvm", "destroy"} /\ loc'[t].pc \notin {"uvm", "destroy"}

LEMMA WalksAre ==
  ASSUME NEW t \in AllTasks, NEW d, NEW W, Walks(t, d, W)
  PROVE  /\ \A q \in 0 .. LastPosition : W[q] \in Place /\ W[q] # PageOf(t)
         /\ \A p, q \in 0 .. LastPosition : W[p] = W[q] => p = q
<1>1. CASE W = [q \in 0 .. LastPosition |-> SpaceAt(t, q)]
  <2>1. \A q \in 0 .. LastPosition : W[q] = SpaceAt(t, q) BY <1>1
  <2>2. \A q \in 0 .. LastPosition : SpaceAt(t, q) \in Place BY PlacesAre
  <2>3. \A p, q : SpaceAt(t, q) # PageOf(t) /\ (SpaceAt(t, p) = SpaceAt(t, q) => p = q)
    BY PlacesDiffer
  <2> QED BY <2>1, <2>2, <2>3
<1>2. CASE W = [q \in 0 .. LastPosition |-> CallAt(t, q)]
  <2>1. \A q \in 0 .. LastPosition : W[q] = CallAt(t, q) BY <1>2
  <2>2. \A q \in 0 .. LastPosition : CallAt(t, q) \in Place BY PlacesAre
  <2>3. \A p, q : CallAt(t, q) # PageOf(t) /\ (CallAt(t, p) = CallAt(t, q) => p = q)
    BY PlacesDiffer
  <2> QED BY <2>1, <2>2, <2>3
<1> QED BY <1>1, <1>2 DEF Walks

(* What is at those places is what the entries say, before and after.      *)
LEMMA WalksTree ==
  ASSUME NEW t \in AllTasks, NEW d, MapsOwn(t, d), NEW W, Walks(t, d, W),
         NEW q \in 0 .. LastPosition
  PROVE  /\ FrameAt(W[q]) = Tree(entry, d, 0, q)
         /\ FrameAt(W[q])' = Tree(entry', d, 0, q)
<1>0. d # NoFrame BY MemoryAssumption DEF MapsOwn, NoFrame
<1>1. AtPlaces /\ AtPlaces' BY AtPlacesHold, PTL
<1>2. CASE d = task[t].cr3 /\ W = [p \in 0 .. LastPosition |-> SpaceAt(t, p)]
  <2>1. W[q] = SpaceAt(t, q) BY <1>2
  <2>2. task'[t].cr3 = d BY <1>2 DEF MapsOwn
  <2> QED BY <1>1, <1>2, <2>1, <2>2 DEF AtPlaces
<1>3. CASE d # task[t].cr3 /\ W = [p \in 0 .. LastPosition |-> CallAt(t, p)]
  <2>1. W[q] = CallAt(t, q) BY <1>3
  <2>2. CallDir(t) = d /\ CallFrom(t) = 0 BY <1>0, <1>3 DEF MapsOwn, CallDir, CallFrom
  <2>3. CallDir(t)' = d /\ CallFrom(t)' = 0 BY <1>0, <1>3 DEF MapsOwn, CallDir, CallFrom
  <2> QED BY <1>1, <2>1, <2>2, <2>3 DEF AtPlaces
<1> QED BY <1>2, <1>3 DEF Walks

(* The other places are left alone when the frames that are written are    *)
(* held in that address space only.                                        *)
LEMMA WalksApart ==
  ASSUME TypeOK, NEW t \in AllTasks, NEW d, MapsOwn(t, d), NEW W, Walks(t, d, W),
         NEW X, Alters(X),
         \A x \in Place : FrameAt(x) \in X => \E q \in 0 .. LastPosition : x = W[q],
         NEW x \in Place, x # PageOf(t), \A q \in 0 .. LastPosition : x # W[q]
  PROVE  FrameAt(x)' = FrameAt(x)
<1>1. AtPlaces /\ AtPlaces' BY AtPlacesHold, PTL
<1>2. PICK u \in AllTasks :
        \/ x = StackOf(u) \/ x = PageOf(u)
        \/ \E q \in 0 .. LastPosition : x = SpaceAt(u, q) \/ x = CallAt(u, q)
  BY PlacesAre
<1>3. CASE x = StackOf(u)
  <2>1. StackFrame(u)' = StackFrame(u) BY StackKept DEF MapsOwn
  <2> QED BY <1>1, <1>3, <2>1 DEF AtPlaces, StackFrame
<1>4. CASE x = PageOf(u)
  <2>1. u # t BY <1>4
  <2>2. loc'[u].page = loc[u].page BY <2>1 DEF MapsOwn
  <2> QED BY <1>1, <1>4, <2>2 DEF AtPlaces
<1>5. CASE \E q \in 0 .. LastPosition : x = SpaceAt(u, q) \/ x = CallAt(u, q)
  <2>1. PICK q \in 0 .. LastPosition : x = SpaceAt(u, q) \/ x = CallAt(u, q) BY <1>5
  <2>2. CASE u # t
    <3>1. Apart(u, X)
      <4>1. ASSUME NEW p \in 0 .. LastPosition
            PROVE  FrameAt(SpaceAt(u, p)) \notin X /\ FrameAt(CallAt(u, p)) \notin X
        <5>1. SpaceAt(u, p) \in Place /\ CallAt(u, p) \in Place BY PlacesAre
        <5>2. ASSUME NEW r \in 0 .. LastPosition
              PROVE  SpaceAt(u, p) # W[r] /\ CallAt(u, p) # W[r]
          <6>1. W[r] = SpaceAt(t, r) \/ W[r] = CallAt(t, r) BY DEF Walks
          <6> QED BY <2>2, <6>1, PlacesDiffer
        <5> QED BY <5>1, <5>2
      <4> QED BY <4>1 DEF Apart
    <3>2. task'[u].cr3 = task[u].cr3 /\ loc'[u] = loc[u] BY <2>2 DEF MapsOwn
    <3>3. SameCall(u) BY <3>2, StillCall
    <3>4. /\ Tree(entry', task'[u].cr3, 0, q) = FrameAt(SpaceAt(u, q))
          /\ Tree(entry', CallDir(u)', CallFrom(u)', q) = FrameAt(CallAt(u, q))
      BY <3>1, <3>2, <3>3, OtherTrees
    <3> QED BY <1>1, <2>1, <3>4 DEF AtPlaces
  <2>3. CASE u = t /\ d = task[t].cr3
    <3>1. \A r \in 0 .. LastPosition : W[r] = SpaceAt(t, r) BY <2>3 DEF Walks
    <3>2. x = CallAt(t, q) BY <2>1, <2>3, <3>1
    <3>3. CallDir(t) = NoFrame BY <2>3 DEF MapsOwn, CallDir
    <3>4. CallDir(t)' = NoFrame BY <2>3 DEF MapsOwn, CallDir
    <3> QED BY <1>1, <3>2, <3>3, <3>4 DEF AtPlaces, Tree
  <2>4. CASE u = t /\ d # task[t].cr3
    <3>1. \A r \in 0 .. LastPosition : W[r] = CallAt(t, r) BY <2>4 DEF Walks
    <3>2. x = SpaceAt(t, q) BY <2>1, <2>4, <3>1
    <3>3. ASSUME NEW p \in 0 .. LastPosition PROVE FrameAt(SpaceAt(t, p)) \notin X
      <4>1. SpaceAt(t, p) \in Place BY PlacesAre
      <4>2. \A r \in 0 .. LastPosition : SpaceAt(t, p) # W[r] BY <3>1, PlacesDiffer
      <4> QED BY <4>1, <4>2
    <3>4. task'[t].cr3 = task[t].cr3 BY DEF MapsOwn
    <3>5. Tree(entry', task'[t].cr3, 0, q) = FrameAt(SpaceAt(t, q))
      BY <3>3, <3>4, SpaceKept
    <3> QED BY <1>1, <3>2, <3>5 DEF AtPlaces
  <2> QED BY <2>2, <2>3, <2>4
<1> QED BY <1>2, <1>3, <1>4, <1>5

(* The directory that is walked, and the table, are held there and nowhere *)
(* else; no frame is there twice.                                          *)
LEMMA WalksHeld ==
  ASSUME TypeOK, Owned, NEW t \in AllTasks, NEW d, MapsOwn(t, d), NEW W, Walks(t, d, W)
  PROVE  /\ \A p, q \in 0 .. LastPosition :
              Tree(entry, d, 0, p) = Tree(entry, d, 0, q) /\ Tree(entry, d, 0, p) # NoFrame
                => p = q
         /\ \A x \in Place : \A q \in 0 .. LastPosition :
              FrameAt(x) = Tree(entry, d, 0, q) /\ FrameAt(x) # NoFrame => x = W[q]
         /\ Tree(entry, d, 0, LastPosition) = d
         /\ \A i \in Index : Tree(entry, d, 0, Pos(i, EntryCnt)) = entry[d][i]
<1>0. d \in Frame /\ d # NoFrame BY MemoryAssumption DEF MapsOwn, NoFrame
<1>1. \A q \in 0 .. LastPosition : W[q] \in Place /\ FrameAt(W[q]) = Tree(entry, d, 0, q)
  BY WalksAre, WalksTree
<1>2. \A x, y \in Place : FrameAt(x) = FrameAt(y) /\ FrameAt(x) # NoFrame => x = y
  BY DEF Owned, Owns, Holds
<1>3. \A p, q \in 0 .. LastPosition : W[p] = W[q] => p = q BY WalksAre
<1>4. \A q \in 0 .. LastPosition : Tree(entry, d, 0, q) = Freed(entry, d, q)
  BY <1>0 DEF Tree
<1>5. Tree(entry, d, 0, LastPosition) = d BY <1>4, LastIsPlace DEF Freed
<1>6. ASSUME NEW i \in Index PROVE Tree(entry, d, 0, Pos(i, EntryCnt)) = entry[d][i]
  <2>1. EntryCnt \in 0 .. EntryCnt /\ ~ (EntryCnt < EntryCnt) BY MemoryAssumption
  <2>2. Pos(i, EntryCnt) \in 0 .. LastPosition BY <2>1, PosIsPlace
  <2>3. Freed(entry, d, Pos(i, EntryCnt))
          = IF entry[d][i] = NoFrame THEN NoFrame ELSE entry[d][i]
    BY <1>0, <2>1, TreeAtPos
  <2> QED BY <1>4, <2>2, <2>3
<1> QED BY <1>1, <1>2, <1>3, <1>5, <1>6

(* memory_create_map when the table is there: the page moves to its place. *)
LEMMA MapsInTable ==
  ASSUME TypeOK, Owned, NEW t \in AllTasks, NEW d, MapsOwn(t, d), NEW W, Walks(t, d, W),
         NEW v \in UserPage, CreateMap(d, v, loc[t].page), TableOf(d, v) # NoFrame,
         NEW b \in Place, b = W[PagePos(v)], FrameAt(b) = NoFrame
  PROVE  /\ Owned' /\ FrameAt(b)' = loc[t].page
         /\ \A x \in Place : x # PageOf(t) /\ x # b => FrameAt(x)' = FrameAt(x)
<1>1. PICK i \in Index, j \in Index : i = PdeIndex(v) /\ j = PteIndex(v) BY PageIsPos
<1>2. PICK f \in Frame : f = loc[t].page BY DEF MapsOwn
<1>3. d \in Frame /\ entry \in Entries BY DEF MapsOwn, TypeOK
<1>4. PICK x \in Frame \cup {NoFrame} : x = entry[d][i] BY <1>1, <1>3 DEF Entries
<1>5. x # NoFrame /\ x \in Frame /\ TableOf(d, v) = x BY <1>1, <1>4 DEF TableOf
<1>6. PageEntered(entry, entry', x, j, f) /\ used' = used
  BY <1>1, <1>2, <1>5 DEF CreateMap, PageEntered
<1>7. Alters({x})
  <2>1. entry' \in Entries BY <1>2, <1>3, EntriesKept
  <2> QED BY <1>3, <1>6, <2>1 DEF Alters, PageEntered, Entries
<1>8. PICK p \in 0 .. LastPosition, r \in 0 .. LastPosition :
        p = PagePos(v) /\ p = Pos(i, j) /\ r = Pos(i, EntryCnt)
  <2>1. EntryCnt \in 0 .. EntryCnt BY MemoryAssumption
  <2>2. Pos(i, EntryCnt) \in 0 .. LastPosition BY <2>1, PosIsPlace
  <2> QED BY <1>1, <2>2, PagePosIsPlace DEF PagePos
<1>9. Tree(entry, d, 0, r) = x BY <1>4, <1>8, WalksHeld
<1>10. \A y \in Place : FrameAt(y) \in {x} => \E q \in 0 .. LastPosition : y = W[q]
  BY <1>5, <1>8, <1>9, WalksHeld
<1>11. ASSUME NEW q \in 0 .. LastPosition
       PROVE  FrameAt(W[q])' = IF q = p THEN f ELSE FrameAt(W[q])
  <2>1. PICK e, g : e = entry /\ g = entry' OBVIOUS
  <2>2. \A k, m \in 0 .. LastPosition :
          Tree(e, d, 0, k) = Tree(e, d, 0, m) /\ Tree(e, d, 0, k) # NoFrame => k = m
    BY <2>1, WalksHeld
  <2>3. e \in Entries /\ x = e[d][i] /\ PageEntered(e, g, x, j, f)
    BY <1>3, <1>4, <1>6, <2>1
  <2>4. Tree(g, d, 0, q) = IF q = Pos(i, j) THEN f ELSE Tree(e, d, 0, q)
    BY <1>3, <1>5, <2>2, <2>3, TreeGetsPage
  <2>5. FrameAt(W[q]) = Tree(e, d, 0, q) /\ FrameAt(W[q])' = Tree(g, d, 0, q)
    BY <2>1, WalksTree
  <2> QED BY <1>8, <2>4, <2>5
<1>12. PICK a \in Place : a = PageOf(t) BY PlacesAre
<1>13. FrameAt(a) = f /\ FrameAt(a)' = NoFrame
  <2>1. AtPlaces /\ AtPlaces' BY AtPlacesHold, PTL
  <2> QED BY <1>2, <1>12, <2>1 DEF AtPlaces, MapsOwn
<1>14. /\ a # b /\ b = W[p]
       /\ \A q \in 0 .. LastPosition : W[q] # a /\ (W[q] = b => q = p)
  BY <1>8, <1>12, WalksAre
<1>15. ASSUME NEW y \in Place
       PROVE  FrameAt(y)' = IF y = a THEN NoFrame ELSE IF y = b THEN f ELSE FrameAt(y)
  <2>1. CASE \E q \in 0 .. LastPosition : y = W[q]
    <3>1. PICK q \in 0 .. LastPosition : y = W[q] BY <2>1
    <3>2. y # a /\ (y = b <=> q = p) BY <1>14, <3>1
    <3> QED BY <1>11, <3>1, <3>2
  <2>2. CASE y # a /\ \A q \in 0 .. LastPosition : y # W[q]
    <3>1. FrameAt(y)' = FrameAt(y) BY <1>7, <1>10, <1>12, <2>2, WalksApart
    <3> QED BY <1>14, <2>2, <3>1
  <2>3. CASE y = a BY <1>13, <2>3
  <2> QED BY <2>1, <2>2, <2>3
<1>16. \A y \in Place : Holds'[y] = IF y = a THEN NoFrame ELSE IF y = b THEN Holds[a] ELSE Holds[y]
  BY <1>13, <1>15 DEF Holds
<1>17. Holds[b] = NoFrame BY DEF Holds
<1>18. Owns(Holds', Place, used \ dropped) BY <1>14, <1>16, <1>17, OwnsMoveOne DEF Owned
<1>19. Owned' BY <1>6, <1>18 DEF Owned, Owns, MapsOwn
<1> QED BY <1>2, <1>12, <1>14, <1>15, <1>19

(* When it is not, a free frame becomes the table.                         *)
LEMMA MapsNewTable ==
  ASSUME TypeOK, Owned, NEW t \in AllTasks, NEW d, MapsOwn(t, d), NEW W, Walks(t, d, W),
         NEW v \in UserPage, CreateMap(d, v, loc[t].page), TableOf(d, v) = NoFrame,
         NEW b \in Place, b = W[PagePos(v)], FrameAt(b) = NoFrame,
         NEW z \in Place, z = W[Pos(PdeIndex(v), EntryCnt)]
  PROVE  /\ Owned' /\ FrameAt(b)' = loc[t].page
         /\ \A x \in Place : x # PageOf(t) /\ x # b /\ x # z => FrameAt(x)' = FrameAt(x)
<1>1. PICK i \in Index, j \in Index : i = PdeIndex(v) /\ j = PteIndex(v) BY PageIsPos
<1>2. PICK f \in Frame : f = loc[t].page BY DEF MapsOwn
<1>3. d \in Frame /\ entry \in Entries BY DEF MapsOwn, TypeOK
<1>4. PICK x : x = FirstFree OBVIOUS
<1>5. entry[d][i] = NoFrame /\ AllocPage(x) /\ TableEntered(entry, entry', d, i, x, j, f)
  BY <1>1, <1>2, <1>4 DEF CreateMap, TableOf, TableEntered
<1>6. x \in Frame /\ x \notin used /\ x # NoFrame /\ used' = used \cup {x} BY <1>5, FreshFrame
<1>7. Alters({x, d})
  <2>1. entry' \in Entries BY <1>2, <1>3, EntriesKept
  <2> QED BY <1>3, <1>5, <1>6, <2>1 DEF Alters, TableEntered, Entries
<1>8. PICK p \in 0 .. LastPosition, r \in 0 .. LastPosition :
        p = PagePos(v) /\ p = Pos(i, j) /\ r = Pos(i, EntryCnt) /\ p # r
  <2>1. EntryCnt \in 0 .. EntryCnt /\ j \in 0 .. EntryCnt /\ j # EntryCnt
    BY MemoryAssumption DEF Index
  <2>2. Pos(i, EntryCnt) \in 0 .. LastPosition BY <2>1, PosIsPlace
  <2>3. Pos(i, j) # Pos(i, EntryCnt) BY <2>1, PosIsOne
  <2> QED BY <1>1, <2>2, <2>3, PagePosIsPlace DEF PagePos
<1>9. \A y \in Place : FrameAt(y) # x BY <1>6, HeldIsUsed
<1>10. Tree(entry, d, 0, LastPosition) = d /\ d # NoFrame
  BY <1>3, WalksHeld, MemoryAssumption DEF NoFrame
<1>11. \A y \in Place : FrameAt(y) \in {x, d} => \E q \in 0 .. LastPosition : y = W[q]
  BY <1>9, <1>10, LastIsPlace, WalksHeld
<1>12. ASSUME NEW q \in 0 .. LastPosition
       PROVE  FrameAt(W[q])' = IF q = p THEN f ELSE IF q = r THEN x ELSE FrameAt(W[q])
  <2>1. PICK e, g : e = entry /\ g = entry' OBVIOUS
  <2>2. \A k, m \in 0 .. LastPosition :
          Tree(e, d, 0, k) = Tree(e, d, 0, m) /\ Tree(e, d, 0, k) # NoFrame => k = m
    BY <2>1, WalksHeld
  <2>3. \A k \in 0 .. LastPosition : Tree(e, d, 0, k) # x
    <3>1. \A k \in 0 .. LastPosition : W[k] \in Place BY WalksAre
    <3>2. \A k \in 0 .. LastPosition : FrameAt(W[k]) = Tree(e, d, 0, k) BY <2>1, WalksTree
    <3> QED BY <1>9, <3>1, <3>2
  <2>4. e \in Entries /\ e[d][i] = NoFrame /\ TableEntered(e, g, d, i, x, j, f)
    BY <1>3, <1>5, <2>1
  <2>5. Tree(g, d, 0, q) = IF q = Pos(i, j) THEN f
                           ELSE IF q = Pos(i, EntryCnt) THEN x ELSE Tree(e, d, 0, q)
    BY <1>3, <1>6, <2>2, <2>3, <2>4, TreeGetsTable
  <2>6. FrameAt(W[q]) = Tree(e, d, 0, q) /\ FrameAt(W[q])' = Tree(g, d, 0, q)
    BY <2>1, WalksTree
  <2> QED BY <1>8, <2>5, <2>6
<1>13. PICK a \in Place : a = PageOf(t) BY PlacesAre
<1>14. FrameAt(a) = f /\ FrameAt(a)' = NoFrame
  <2>1. AtPlaces /\ AtPlaces' BY AtPlacesHold, PTL
  <2> QED BY <1>2, <1>13, <2>1 DEF AtPlaces, MapsOwn
<1>15. /\ b = W[p] /\ z = W[r]
       /\ \A q \in 0 .. LastPosition : W[q] # a /\ (W[q] = b <=> q = p) /\ (W[q] = z <=> q = r)
  BY <1>1, <1>8, <1>13, WalksAre
<1>16. a # b /\ a # z /\ b # z BY <1>8, <1>15
<1>17. ASSUME NEW y \in Place
       PROVE  FrameAt(y)' = IF y = a THEN NoFrame ELSE IF y = b THEN f
                            ELSE IF y = z THEN x ELSE FrameAt(y)
  <2>1. CASE \E q \in 0 .. LastPosition : y = W[q]
    <3>1. PICK q \in 0 .. LastPosition : y = W[q] BY <2>1
    <3>2. y # a /\ (y = b <=> q = p) /\ (y = z <=> q = r) BY <1>15, <3>1
    <3> QED BY <1>12, <3>1, <3>2
  <2>2. CASE y # a /\ \A q \in 0 .. LastPosition : y # W[q]
    <3>1. FrameAt(y)' = FrameAt(y) BY <1>7, <1>11, <1>13, <2>2, WalksApart
    <3> QED BY <1>15, <2>2, <3>1
  <2>3. CASE y = a BY <1>14, <2>3
  <2> QED BY <2>1, <2>2, <2>3
<1>18. Tree(entry, d, 0, r) = NoFrame BY <1>5, <1>8, WalksHeld
<1>19. FrameAt(z) = NoFrame BY <1>15, <1>18, WalksTree
<1>20. PICK F : F = [y \in Place |-> IF y = z THEN x ELSE Holds[y]] OBVIOUS
<1>21. Owns(F, Place, (used \ dropped) \cup {x})
  BY <1>6, <1>19, <1>20, OwnsTake DEF Owned, Holds
<1>22. F[a] = f /\ F[b] = NoFrame BY <1>14, <1>16, <1>20 DEF Holds
<1>23. \A y \in Place : Holds'[y] = IF y = a THEN NoFrame ELSE IF y = b THEN F[a] ELSE F[y]
  BY <1>17, <1>20, <1>22 DEF Holds
<1>24. Owns(Holds', Place, (used \ dropped) \cup {x}) BY <1>16, <1>21, <1>22, <1>23, OwnsMoveOne
<1>25. used' \ dropped' = (used \ dropped) \cup {x} BY <1>6 DEF MapsOwn, TypeOK
<1>26. Owned' BY <1>24, <1>25 DEF Owned, Owns
<1> QED BY <1>2, <1>13, <1>16, <1>17, <1>26

(* What a directory says of a page is what is at the page's position.      *)
LEMMA FrameOfPage ==
  ASSUME NEW d \in Frame, NEW v \in UserPage
  PROVE  Tree(entry, d, 0, PagePos(v)) = FrameOf(d, v)
<1>1. PICK i \in Index, j \in Index : i = PdeIndex(v) /\ j = PteIndex(v) BY PageIsPos
<1>2. d # NoFrame /\ j \in 0 .. EntryCnt /\ j < EntryCnt
  BY MemoryAssumption DEF NoFrame, Index
<1>3. PICK p \in 0 .. LastPosition : p = PagePos(v) /\ p = Pos(i, j) /\ ~ (p < 0)
  BY <1>1, PagePosIsPlace, LastIsPlace DEF PagePos
<1>4. Freed(entry, d, Pos(i, j)) = IF entry[d][i] = NoFrame THEN NoFrame
                                   ELSE entry[entry[d][i]][j]
  BY <1>2, TreeAtPos
<1>5. FrameOf(d, v) = IF entry[d][i] = NoFrame THEN NoFrame ELSE entry[entry[d][i]][j]
  BY <1>1 DEF FrameOf, TableOf
<1> QED BY <1>2, <1>3, <1>4, <1>5 DEF Tree

LEMMA MapsPage ==
  ASSUME TypeOK, Owned, NEW t \in AllTasks, NEW d, MapsOwn(t, d), NEW W, Walks(t, d, W),
         NEW v \in UserPage, CreateMap(d, v, loc[t].page),
         NEW b \in Place, b = W[PagePos(v)], FrameAt(b) = NoFrame,
         NEW z \in Place, z = W[Pos(PdeIndex(v), EntryCnt)]
  PROVE  /\ Owned' /\ FrameAt(b)' = loc[t].page
         /\ \A x \in Place : x # PageOf(t) /\ x # b /\ x # z => FrameAt(x)' = FrameAt(x)
<1>1. CASE TableOf(d, v) # NoFrame
  <2>1. /\ Owned' /\ FrameAt(b)' = loc[t].page
        /\ \A x \in Place : x # PageOf(t) /\ x # b => FrameAt(x)' = FrameAt(x)
    BY <1>1, MapsInTable
  <2> QED BY <2>1
<1>2. CASE TableOf(d, v) = NoFrame BY <1>2, MapsNewTable
<1> QED BY <1>1, <1>2

LEMMA TablePos ==
  ASSUME NEW v \in UserPage
  PROVE  /\ Pos(PdeIndex(v), EntryCnt) \in 0 .. LastPosition
         /\ \A w \in UserPage : PagePos(w) # Pos(PdeIndex(v), EntryCnt)
<1>1. EntryCnt \in 0 .. EntryCnt BY MemoryAssumption
<1>2. Pos(PdeIndex(v), EntryCnt) \in 0 .. LastPosition BY <1>1, PageIsPos, PosIsPlace
<1>3. ASSUME NEW w \in UserPage, PagePos(w) = Pos(PdeIndex(v), EntryCnt) PROVE FALSE
  <2>1. PICK i \in Index, k \in Index, j \in Index :
          i = PdeIndex(w) /\ j = PteIndex(w) /\ k = PdeIndex(v)
    BY PageIsPos
  <2>2. j \in 0 .. EntryCnt /\ j # EntryCnt BY MemoryAssumption DEF Index
  <2>3. Pos(i, j) = Pos(k, EntryCnt) BY <1>3, <2>1 DEF PagePos
  <2> QED BY <1>1, <2>2, <2>3, PosIsOne
<1> QED BY <1>2, <1>3

LEMMA CopyMapOwned ==
  ASSUME PInv, Ordered, Control', NEW t \in AllTasks, CopyMap(t),
         ~ NoTable(loc[t].dir, loc[t].at)
  PROVE  Owned' /\ CopyIsAhead' /\ ChildIsEmpty'
<1>0. Control /\ TypeOK /\ Owned /\ LocFits(loc[t], t) BY DEF PInv, Control
<1>1. PICK d, v, k, f : d = loc[t].dir /\ v = loc[t].at /\ k = v + 1 /\ f = loc[t].page
  OBVIOUS
<1>2. /\ loc[t].pc = "copyMap" /\ t \in started /\ CreateMap(d, v, f)
      /\ loc' = [loc EXCEPT ![t].pc = "copyPage", ![t].page = NoFrame, ![t].at = k]
      /\ UNCHANGED <<task, dropped>>
  BY <1>1 DEF CopyMap, At
<1>3. v \in UserPage /\ v \in Nat /\ d # NoFrame /\ d # task[t].cr3 /\ f # NoFrame
  BY <1>0, <1>1, <1>2 DEF LocFits, OwnDir, TypeOK, LocRec
<1>4. d \in Frame /\ f \in Frame /\ k \in Nat
  BY <1>0, <1>1, <1>3 DEF TypeOK, LocRec
<1>5. /\ loc'[t].pc = "copyPage" /\ loc'[t].page = NoFrame /\ loc'[t].at = k
      /\ loc'[t].dir = d /\ loc'[t].child = loc[t].child
      /\ \A u \in AllTasks : u # t => loc'[u] = loc[u]
  BY <1>0, <1>1, <1>2 DEF TypeOK, LocRec
<1>6. MapsOwn(t, d) BY <1>1, <1>2, <1>4, <1>5 DEF MapsOwn
<1>7. PICK W : W = [q \in 0 .. LastPosition |-> CallAt(t, q)] OBVIOUS
<1>8. Walks(t, d, W) BY <1>3, <1>7 DEF Walks
<1>9. PICK p \in 0 .. LastPosition, r \in 0 .. LastPosition :
        p = PagePos(v) /\ r = Pos(PdeIndex(v), EntryCnt)
  BY <1>3, PagePosIsPlace, TablePos
<1>10. PICK b \in Place, z \in Place :
         b = W[PagePos(v)] /\ z = W[Pos(PdeIndex(v), EntryCnt)]
         /\ b = CallAt(t, p) /\ z = CallAt(t, r)
  BY <1>7, <1>9, PlacesAre
<1>11. \A w \in UserPage : w >= v => FrameAt(CallAt(t, PagePos(w))) = NoFrame
  BY <1>1, <1>2 DEF PInv, CopyIsAhead
<1>12. FrameAt(b) = NoFrame BY <1>3, <1>9, <1>10, <1>11
<1>13. /\ Owned'
       /\ \A x \in Place : x # PageOf(t) /\ x # b /\ x # z => FrameAt(x)' = FrameAt(x)
  <2>1. CreateMap(d, v, loc[t].page) BY <1>1, <1>2
  <2>2. b = W[PagePos(v)] /\ z = W[Pos(PdeIndex(v), EntryCnt)] /\ v \in UserPage BY <1>3, <1>10
  <2> QED BY <1>0, <1>6, <1>8, <1>12, <2>1, <2>2, MapsPage
<1>14. ASSUME NEW u \in AllTasks, NEW q \in 0 .. LastPosition, u # t
       PROVE  /\ FrameAt(SpaceAt(u, q))' = FrameAt(SpaceAt(u, q))
              /\ FrameAt(CallAt(u, q))' = FrameAt(CallAt(u, q))
  <2>1. SpaceAt(u, q) \in Place /\ CallAt(u, q) \in Place BY PlacesAre
  <2>2. /\ SpaceAt(u, q) # PageOf(t) /\ CallAt(u, q) # PageOf(t)
        /\ SpaceAt(u, q) # b /\ CallAt(u, q) # b /\ SpaceAt(u, q) # z /\ CallAt(u, q) # z
    BY <1>10, <1>14, PlacesDiffer
  <2> QED BY <1>13, <2>1, <2>2
<1>15. ASSUME NEW w \in UserPage, w >= k PROVE FrameAt(CallAt(t, PagePos(w)))' = NoFrame
  <2>1. w \in Nat BY MemoryAssumption DEF UserPage
  <2>2. w >= v /\ w # v BY <1>1, <1>3, <1>15, <2>1
  <2>3. PICK q \in 0 .. LastPosition : q = PagePos(w) BY PagePosIsPlace
  <2>4. q # p /\ q # r BY <1>3, <1>9, <2>2, <2>3, PageOfPos, TablePos
  <2>5. CallAt(t, q) \in Place /\ CallAt(t, q) # PageOf(t) BY PlacesAre, PlacesDiffer
  <2>6. CallAt(t, q) # b /\ CallAt(t, q) # z BY <1>10, <2>4, PlacesDiffer
  <2>7. FrameAt(CallAt(t, q))' = FrameAt(CallAt(t, q)) BY <1>13, <2>5, <2>6
  <2> QED BY <1>11, <2>2, <2>3, <2>7
<1>16. InFork(loc[t]) /\ loc[t].pc # "start" BY <1>2 DEF InFork
<1>17. CopyIsAhead' /\ ChildIsEmpty' BY <1>2, <1>5, <1>14, <1>15, <1>16, ForkKept
<1> QED BY <1>13, <1>17

LEMMA MapForOwned ==
  ASSUME PInv, Ordered, Control', NEW t \in AllTasks, MapFor(t),
         ~ IsPresent(loc[t].dir, loc[t].at), ~ NoTable(loc[t].dir, loc[t].at)
  PROVE  Owned' /\ CopyIsAhead' /\ ChildIsEmpty'
<1>0. Control /\ TypeOK /\ Owned /\ LocFits(loc[t], t) BY DEF PInv, Control
<1>1. PICK d, v, k, f : d = loc[t].dir /\ v = loc[t].at /\ k = v + 1 /\ f = loc[t].page
  OBVIOUS
<1>2. /\ loc[t].pc = "map" /\ t \in started /\ CreateMap(d, v, f)
      /\ loc' = [loc EXCEPT ![t].pc = "alloc", ![t].page = NoFrame, ![t].at = k]
      /\ UNCHANGED <<task, dropped>>
  BY <1>1 DEF MapFor, At
<1>3. v \in UserPage
  <2>1. v \in Nat /\ loc[t].end \in Nat BY <1>0, <1>1 DEF TypeOK, LocRec
  <2>2. v < loc[t].end /\ loc[t].end <= LastPage + 1 BY <1>0, <1>1, <1>2 DEF LocFits
  <2>3. ~ (v < Base) BY <1>1 DEF IsPresent
  <2> QED BY <2>1, <2>2, <2>3, MapsUserPage
<1>4. d \in Frame /\ f \in Frame
  <2>1. f # NoFrame BY <1>0, <1>1, <1>2 DEF LocFits
  <2>2. d # NoFrame
    <3>1. OwnDir(loc[t]) \/ HeapDir(loc[t]) BY <1>0, <1>2 DEF LocFits, OwnDir, HeapDir
    <3> QED BY <1>0, <1>1, <1>2, <3>1 DEF LocFits
  <2> QED BY <1>0, <1>1, <2>1, <2>2 DEF TypeOK, LocRec
<1>5. /\ loc'[t].pc = "alloc" /\ loc'[t].page = NoFrame /\ loc'[t].dir = d
      /\ \A u \in AllTasks : u # t => loc'[u] = loc[u]
  BY <1>0, <1>1, <1>2 DEF TypeOK, LocRec
<1>6. MapsOwn(t, d) BY <1>1, <1>2, <1>4, <1>5 DEF MapsOwn
<1>7. PICK W : Walks(t, d, W)
  <2>1. CASE d = task[t].cr3 BY <2>1 DEF Walks
  <2>2. CASE d # task[t].cr3 BY <2>2 DEF Walks
  <2> QED BY <2>1, <2>2
<1>8. PICK p \in 0 .. LastPosition, r \in 0 .. LastPosition :
        p = PagePos(v) /\ r = Pos(PdeIndex(v), EntryCnt)
  BY <1>3, PagePosIsPlace, TablePos
<1>9. PICK b \in Place, z \in Place :
        b = W[PagePos(v)] /\ z = W[Pos(PdeIndex(v), EntryCnt)]
  BY <1>7, <1>8, WalksAre
<1>10. FrameAt(b) = NoFrame
  <2>1. v \notin Mapped(d) BY <1>1 DEF IsPresent
  <2>2. FrameOf(d, v) = NoFrame BY <1>3, <2>1 DEF Mapped
  <2>3. Tree(entry, d, 0, p) = NoFrame BY <1>3, <1>4, <1>8, <2>2, FrameOfPage
  <2> QED BY <1>6, <1>7, <1>8, <1>9, <2>3, WalksTree
<1>11. /\ Owned'
       /\ \A x \in Place : x # PageOf(t) /\ x # b /\ x # z => FrameAt(x)' = FrameAt(x)
  BY <1>0, <1>1, <1>2, <1>3, <1>6, <1>7, <1>9, <1>10, MapsPage
<1>12. ASSUME NEW u \in AllTasks, NEW q \in 0 .. LastPosition, u # t
       PROVE  /\ FrameAt(SpaceAt(u, q))' = FrameAt(SpaceAt(u, q))
              /\ FrameAt(CallAt(u, q))' = FrameAt(CallAt(u, q))
  <2>1. SpaceAt(u, q) \in Place /\ CallAt(u, q) \in Place BY PlacesAre
  <2>2. b \in {SpaceAt(t, p), CallAt(t, p)} /\ z \in {SpaceAt(t, r), CallAt(t, r)}
    BY <1>7, <1>8, <1>9 DEF Walks
  <2>3. /\ SpaceAt(u, q) # PageOf(t) /\ CallAt(u, q) # PageOf(t)
        /\ SpaceAt(u, q) # b /\ CallAt(u, q) # b /\ SpaceAt(u, q) # z /\ CallAt(u, q) # z
    BY <1>12, <2>2, PlacesDiffer
  <2> QED BY <1>11, <2>1, <2>3
<1>13. ~ InFork(loc'[t]) /\ loc'[t].pc \notin {"copyPage", "copyMap"} BY <1>5 DEF InFork
<1>14. CopyIsAhead' /\ ChildIsEmpty' BY <1>2, <1>5, <1>12, <1>13, ForkKept
<1> QED BY <1>11, <1>14

-----------------------------------------------------------------------------
(* Every step keeps each frame in use in one place.                        *)
LEMMA ForkOwned ==
  ASSUME PInv, Ordered, Control', NEW t \in AllTasks, Fork(t)
  PROVE  Owned' /\ CopyIsAhead' /\ ChildIsEmpty'
<1>1. CASE GdtAllocDesc(t) \/ TaskInit(t) \/ StartChild(t) \/ SwitchToBroken(t)
           \/ (CopyPage(t) /\ Free = {})
  BY <1>1, QuietFork, QuietOwned
<1>2. CASE CopyPage(t) /\ Free # {} BY <1>2, PageTaken
<1>3. CASE CopyCreateUvm(t) /\ Free # {} BY <1>3, DirTaken
<1>4. CASE CopyDone(t) \/ CopyFailed(t) \/ (CopyCreateUvm(t) /\ Free = {})
  BY <1>4, CopyEndOwned
<1>5. CASE CopyMap(t) BY <1>5, CopyMapOwned, PageDropped
<1> QED BY <1>1, <1>2, <1>3, <1>4, <1>5, AllocTaskOwned, StackTaken, TssOwned DEF Fork

LEMMA ExecOwned ==
  ASSUME PInv, Ordered, Control', NEW t \in AllTasks, Exec(t)
  PROVE  Owned' /\ CopyIsAhead' /\ ChildIsEmpty'
<1>1. CASE ExecName(t) \/ (ExecCreateUvm(t) /\ Free = {}) \/ ExecLoaded(t) \/ ExecLoadFailed(t)
  BY <1>1, QuietExec, QuietOwned
<1>2. CASE ExecCreateUvm(t) /\ Free # {} BY <1>2, DirTaken
<1>3. CASE ExecFailed(t) BY <1>3, QuietFailed, QuietOwned
<1> QED BY <1>1, <1>2, <1>3, SwapOwned DEF Exec

LEMMA SbrkOwned ==
  ASSUME PInv, Ordered, Control', NEW t \in AllTasks, Sbrk(t)
  PROVE  Owned' /\ CopyIsAhead' /\ ChildIsEmpty'
<1>1. 1 \in 1 .. MaxIncr BY ProcessAssumption
<1>2. PICK n \in 1 .. MaxIncr : SbrkInPage(t, n) \/ SbrkPages(t, n) \/ SbrkDone(t)
  BY <1>1 DEF Sbrk
<1> QED BY <1>2, QuietSbrk, QuietOwned

LEMMA OwnedStays ==
  ASSUME PInv, Ordered, NEW t \in AllTasks, Step(t)
  PROVE  Owned' /\ CopyIsAhead' /\ ChildIsEmpty'
<1>0. Control' BY ControlStays
<1>1. CASE AllocFor(t)
  <2>1. CASE loc[t].at < loc[t].end /\ Free # {} BY <1>0, <1>1, <2>1, PageTaken
  <2>2. CASE ~ (loc[t].at < loc[t].end /\ Free # {})
    BY <1>0, <1>1, <2>2, QuietPages, QuietOwned
  <2> QED BY <2>1, <2>2
<1>2. CASE MapFor(t)
  <2>1. CASE IsPresent(loc[t].dir, loc[t].at) BY <1>0, <1>2, <2>1, QuietPages, QuietOwned
  <2>2. CASE ~ IsPresent(loc[t].dir, loc[t].at)
    BY <1>0, <1>2, <2>2, PageDropped, MapForOwned
  <2> QED BY <2>1, <2>2
<1> QED BY <1>0, <1>1, <1>2, ForkOwned, ExecOwned, SbrkOwned, DestroyOwned DEF Step

-----------------------------------------------------------------------------
(* Descriptors.  Three steps touch the GDT or the selector of a task; the  *)
(* others leave both, and no other call is in tss_init.                    *)
Descriptors == DescriptorsOwned /\ DescriptorFound

LEMMA DescriptorsSame ==
  ASSUME Descriptors, NEW t \in AllTasks, \A u \in AllTasks : u # t => loc'[u] = loc[u],
         UNCHANGED gdt, \A u \in AllTasks : task'[u].sel = task[u].sel,
         loc[t].pc # "uvm", loc'[t].pc # "uvm", loc'[t].pc # "stack"
  PROVE  Descriptors'
<1>1. ASSUME NEW u \in AllTasks
      PROVE  /\ loc'[u].pc = "stack" => loc[u].pc = "stack" /\ loc'[u].sel = loc[u].sel
             /\ loc'[u].pc = "uvm" <=> loc[u].pc = "uvm"
             /\ loc[u].pc = "uvm" => loc'[u].sel = loc[u].sel
  OBVIOUS
<1>2. DescriptorFound' BY <1>1 DEF Descriptors, DescriptorFound
<1>3. ASSUME NEW s \in gdt
      PROVE  \E u \in AllTasks : task'[u].sel = s \/ (loc'[u].pc = "uvm" /\ loc'[u].sel = s)
  <2>1. PICK u \in AllTasks : task[u].sel = s \/ (loc[u].pc = "uvm" /\ loc[u].sel = s)
    BY DEF Descriptors, DescriptorsOwned
  <2> QED BY <1>1, <2>1
<1>4. DescriptorsOwned' BY <1>3 DEF Descriptors, DescriptorsOwned
<1> QED BY <1>2, <1>4 DEF Descriptors

(* gdt_alloc_desc finds a descriptor that is free, or none.                *)
LEMMA DescriptorIsFound ==
  ASSUME PInv, Ordered, NEW t \in AllTasks, GdtAllocDesc(t)
  PROVE  Descriptors'
<1>0. TypeOK /\ Descriptors BY DEF PInv, Control, Descriptors
<1>1. loc[t].pc = "desc" /\ UNCHANGED <<gdt, task>> BY DEF GdtAllocDesc, At
<1>2. CASE Sel \subseteq gdt
  <2>1. loc' = [loc EXCEPT ![t].pc = "name"] BY <1>2 DEF GdtAllocDesc, GoTo
  <2>2. loc'[t].pc = "name" /\ \A u \in AllTasks : u # t => loc'[u] = loc[u]
    BY <1>0, <2>1 DEF TypeOK, LocRec
  <2> QED BY <1>0, <1>1, <2>2, DescriptorsSame
<1>3. CASE ~ (Sel \subseteq gdt)
  <2>1. PICK s \in Sel \ gdt : loc' = [loc EXCEPT ![t].pc = "stack", ![t].sel = s]
    BY <1>3 DEF GdtAllocDesc
  <2>2. /\ loc'[t].pc = "stack" /\ loc'[t].sel = s
        /\ \A u \in AllTasks : u # t => loc'[u] = loc[u]
    BY <1>0, <2>1 DEF TypeOK, LocRec
  <2>3. ASSUME NEW u \in AllTasks
        PROVE  loc'[u].pc = "uvm" <=> loc[u].pc = "uvm"
    BY <1>1, <2>2
  <2>4. DescriptorFound'
    <3>1. \A u \in AllTasks : loc'[u].pc = "stack" => loc'[u].sel \in Sel \ gdt
      BY <1>0, <2>2 DEF Descriptors, DescriptorFound
    <3>2. ASSUME NEW u \in AllTasks, loc'[u].pc = "uvm"
          PROVE  loc'[u].sel \in gdt /\ \A w \in AllTasks : task[w].sel # loc'[u].sel
      BY <1>0, <2>2, <3>2 DEF Descriptors, DescriptorFound
    <3> QED BY <1>1, <3>1, <3>2 DEF DescriptorFound
  <2>5. DescriptorsOwned'
    <3>1. ASSUME NEW g \in gdt
          PROVE  \E u \in AllTasks : task[u].sel = g \/ (loc'[u].pc = "uvm" /\ loc'[u].sel = g)
      <4>1. PICK u \in AllTasks : task[u].sel = g \/ (loc[u].pc = "uvm" /\ loc[u].sel = g)
        BY <1>0 DEF Descriptors, DescriptorsOwned
      <4> QED BY <1>1, <2>2, <4>1
    <3> QED BY <1>0, <1>1, <3>1 DEF Descriptors, DescriptorsOwned
  <2> QED BY <2>4, <2>5 DEF Descriptors
<1> QED BY <1>2, <1>3

(* segment_desc_set takes it, unless there is no page for the stack.       *)
LEMMA DescriptorIsTaken ==
  ASSUME PInv, Ordered, NEW t \in AllTasks, AllocStack(t)
  PROVE  Descriptors'
<1>0. Control /\ TypeOK /\ Descriptors /\ LocFits(loc[t], t)
  BY DEF PInv, Control, Descriptors
<1>1. PICK c \in AllTasks, s \in Sel \cup {NoSel} : c = loc[t].child /\ s = loc[t].sel
  BY <1>0 DEF TypeOK, LocRec
<1>2. loc[t].pc = "stack" /\ s \in Sel \ gdt /\ gdt \subseteq Sel
  BY <1>0, <1>1 DEF AllocStack, At, Descriptors, DescriptorFound, TypeOK
<1>3. InFork(loc[t]) BY <1>2 DEF InFork
<1>4. \A u \in AllTasks : u # t => ~ InFork(loc[u]) BY <1>0, <1>3, ChildOf
<1>5. \A u \in AllTasks : u # t => loc[u].pc \notin {"stack", "uvm"} BY <1>4 DEF InFork
<1>6. PICK f, q : /\ task' = [task EXCEPT ![c].stack = f, ![c].cr3 = NoFrame]
                  /\ loc' = [loc EXCEPT ![t].pc = q]
                  /\ \/ q = "name" /\ gdt' = gdt \ {s}
                     \/ q = "uvm" /\ gdt' = gdt \cup {s}
  BY <1>1 DEF AllocStack, GoTo
<1>7. \A u \in AllTasks : task'[u].sel = task[u].sel BY <1>0, <1>6 DEF TypeOK, TaskRec
<1>8. /\ loc'[t].pc = q /\ loc'[t].sel = s /\ \A u \in AllTasks : u # t => loc'[u] = loc[u]
  BY <1>0, <1>1, <1>6 DEF TypeOK, LocRec
<1>9. \A u \in AllTasks : task[u].sel # s
  <2>1. \A u \in AllTasks : task[u].sel \in gdt \cup {NoSel}
    BY <1>0 DEF Descriptors, DescriptorsOwned
  <2>2. s # NoSel BY <1>2, ProcessAssumption DEF NoSel
  <2> QED BY <1>2, <2>1, <2>2
<1>10. CASE q = "name" /\ gdt' = gdt \ {s}
  <2>1. gdt' = gdt BY <1>2, <1>10
  <2>2. \A u \in AllTasks : loc[u].pc # "uvm" BY <1>2, <1>5
  <2>3. \A u \in AllTasks : loc'[u].pc \notin {"uvm", "stack"} BY <1>5, <1>8, <1>10
  <2>4. DescriptorFound' BY <2>3 DEF DescriptorFound
  <2>5. \A g \in gdt : \E u \in AllTasks : task[u].sel = g
    BY <1>0, <2>2 DEF Descriptors, DescriptorsOwned
  <2>6. DescriptorsOwned' BY <1>0, <1>7, <2>1, <2>5 DEF Descriptors, DescriptorsOwned
  <2> QED BY <2>4, <2>6 DEF Descriptors
<1>11. CASE q = "uvm" /\ gdt' = gdt \cup {s}
  <2>1. \A u \in AllTasks : loc[u].pc # "uvm" BY <1>2, <1>5
  <2>2. \A u \in AllTasks : u # t => loc'[u].pc \notin {"uvm", "stack"} BY <1>5, <1>8
  <2>3. DescriptorFound' BY <1>7, <1>8, <1>9, <1>11, <2>2 DEF DescriptorFound
  <2>4. \A g \in gdt : \E u \in AllTasks : task[u].sel = g
    BY <1>0, <2>1 DEF Descriptors, DescriptorsOwned
  <2>5. \A g \in gdt' : \E u \in AllTasks :
          task'[u].sel = g \/ (loc'[u].pc = "uvm" /\ loc'[u].sel = g)
    BY <1>7, <1>8, <1>11, <2>4
  <2>6. DescriptorsOwned' BY <1>0, <1>7, <1>11, <2>5 DEF Descriptors, DescriptorsOwned
  <2> QED BY <2>3, <2>6 DEF Descriptors
<1> QED BY <1>6, <1>10, <1>11

(* The end of tss_init: the child gets the descriptor, or it is free again.*)
LEMMA DescriptorIsGiven ==
  ASSUME PInv, Ordered, NEW t \in AllTasks, TssCreateUvm(t)
  PROVE  Descriptors'
<1>0. Control /\ TypeOK /\ Descriptors /\ LocFits(loc[t], t)
  BY DEF PInv, Control, Descriptors
<1>1. PICK c \in AllTasks, s \in Sel \cup {NoSel} : c = loc[t].child /\ s = loc[t].sel
  BY <1>0 DEF TypeOK, LocRec
<1>2. /\ loc[t].pc = "uvm" /\ s \in gdt /\ gdt \subseteq Sel
      /\ \A u \in AllTasks : task[u].sel # s
  BY <1>0, <1>1 DEF TssCreateUvm, At, Descriptors, DescriptorFound, TypeOK
<1>3. InFork(loc[t]) BY <1>2 DEF InFork
<1>4. (\A u \in AllTasks : u # t => ~ InFork(loc[u])) /\ task[c].sel = NoSel
  BY <1>0, <1>1, <1>2, <1>3, ChildOf
<1>5. \A u \in AllTasks : u # t => loc[u].pc \notin {"stack", "uvm"} BY <1>4 DEF InFork
<1>6. loc' = [loc EXCEPT ![t].pc = "name"] BY DEF TssCreateUvm, GoTo
<1>7. loc'[t].pc = "name" /\ \A u \in AllTasks : u # t => loc'[u] = loc[u]
  BY <1>0, <1>6 DEF TypeOK, LocRec
<1>8. DescriptorFound' BY <1>5, <1>7 DEF DescriptorFound
<1>9. \A g \in gdt : g # s => \E u \in AllTasks : task[u].sel = g
  BY <1>0, <1>1, <1>5 DEF Descriptors, DescriptorsOwned
<1>10. CASE Free = {}
  <2>1. gdt' = gdt \ {s} /\ task' = task BY <1>1, <1>10 DEF TssCreateUvm
  <2>2. \A g \in gdt' : \E u \in AllTasks : task[u].sel = g BY <1>9, <2>1
  <2>3. DescriptorsOwned' BY <1>0, <1>2, <2>1, <2>2 DEF Descriptors, DescriptorsOwned
  <2> QED BY <1>8, <2>3 DEF Descriptors
<1>11. CASE Free # {}
  <2>1. PICK f : task' = [task EXCEPT ![c].cr3 = f, ![c].sel = s] /\ gdt' = gdt
    BY <1>1, <1>11 DEF TssCreateUvm
  <2>2. \A u \in AllTasks : task'[u].sel = IF u = c THEN s ELSE task[u].sel
    BY <1>0, <2>1 DEF TypeOK, TaskRec
  <2>3. \A g \in gdt : \E u \in AllTasks : task'[u].sel = g
    <3>1. s # NoSel BY <1>2, ProcessAssumption DEF NoSel
    <3>2. ASSUME NEW g \in gdt, g # s PROVE \E u \in AllTasks : task'[u].sel = g
      <4>1. PICK u \in AllTasks : task[u].sel = g BY <1>9, <3>2
      <4>2. g # NoSel BY <1>2, <3>2, ProcessAssumption DEF NoSel
      <4> QED BY <1>4, <2>2, <4>1, <4>2
    <3> QED BY <2>2, <3>2
  <2>4. DescriptorsOwned'
    <3>1. /\ \A u \in AllTasks : task[u].sel \in gdt \cup {NoSel}
          /\ \A u, w \in AllTasks : task[u].sel = task[w].sel => u = w \/ task[u].sel = NoSel
      BY <1>0 DEF Descriptors, DescriptorsOwned
    <3>2. \A u \in AllTasks : task'[u].sel \in gdt \cup {NoSel} BY <1>2, <2>2, <3>1
    <3>3. ASSUME NEW u \in AllTasks, NEW w \in AllTasks, task'[u].sel = task'[w].sel
          PROVE  u = w \/ task'[u].sel = NoSel
      BY <1>2, <2>2, <3>1, <3>3
    <3> QED BY <2>1, <2>3, <3>2, <3>3 DEF DescriptorsOwned
  <2> QED BY <1>8, <2>4 DEF Descriptors
<1> QED BY <1>10, <1>11

(* What the other steps have in common.                                    *)
Elsewhere(t) ==
  /\ \A u \in AllTasks : u # t => loc'[u] = loc[u]
  /\ loc[t].pc # "uvm" /\ loc'[t].pc \notin {"uvm", "stack"}

LeavesDescriptors(t) ==
  Elsewhere(t) /\ UNCHANGED gdt /\ \A u \in AllTasks : task'[u].sel = task[u].sel

LEMMA ForkElsewhere ==
  ASSUME TypeOK, NEW t \in AllTasks,
         \/ AllocTask(t) \/ TaskInit(t) \/ CopyCreateUvm(t) \/ CopyPage(t) \/ CopyMap(t)
         \/ CopyDone(t) \/ CopyFailed(t) \/ StartChild(t) \/ SwitchToBroken(t)
  PROVE  LeavesDescriptors(t)
<1>1. CASE AllocTask(t)
  <2>1. PICK c \in Slot : loc' = [loc EXCEPT ![t].pc = "desc", ![t].child = c]
    BY <1>1 DEF AllocTask
  <2>2. Elsewhere(t) BY <1>1, <2>1 DEF AllocTask, CanRun, At, Elsewhere, TypeOK, LocRec
  <2> QED BY <1>1, <2>2 DEF AllocTask, LeavesDescriptors
<1>2. CASE TaskInit(t)
  <2>1. Elsewhere(t) BY <1>2 DEF TaskInit, At, GoTo, Elsewhere, TypeOK, LocRec
  <2>2. PICK c, b : task' = [task EXCEPT ![c].named = b, ![c].heapEnd = 0]
    BY <1>2 DEF TaskInit
  <2>3. \A u \in AllTasks : task'[u].sel = task[u].sel BY <2>2 DEF TypeOK, TaskRec
  <2> QED BY <1>2, <2>1, <2>3 DEF TaskInit, LeavesDescriptors
<1>3. ASSUME NEW d, SetCr3(t, d) PROVE \A u \in AllTasks : task'[u].sel = task[u].sel
  <2>1. PICK c : task' = [task EXCEPT ![c].cr3 = d] BY <1>3 DEF SetCr3
  <2> QED BY <2>1 DEF TypeOK, TaskRec
<1>4. CASE CopyCreateUvm(t)
  <2>1. CASE Free = {}
    <3>1. Elsewhere(t) BY <1>4, <2>1 DEF CopyCreateUvm, At, GoTo, Elsewhere, TypeOK, LocRec
    <3> QED BY <1>3, <1>4, <2>1, <3>1 DEF CopyCreateUvm, LeavesDescriptors
  <2>2. CASE Free # {}
    <3>1. loc[t].pc = "copyUvm" /\ UNCHANGED <<gdt, task>> BY <1>4, <2>2 DEF CopyCreateUvm, At
    <3>2. PICK f, b : loc' = [loc EXCEPT ![t].pc = "copyPage", ![t].dir = f, ![t].at = b]
      BY <1>4, <2>2 DEF CopyCreateUvm
    <3>3. Elsewhere(t) BY <3>1, <3>2 DEF Elsewhere, TypeOK, LocRec
    <3> QED BY <3>1, <3>3 DEF LeavesDescriptors
  <2> QED BY <2>1, <2>2
<1>5. CASE CopyPage(t)
  <2>1. loc[t].pc = "copyPage" /\ UNCHANGED <<gdt, task>> BY <1>5 DEF CopyPage, At
  <2>2. PICK f, b :
          \/ loc' = [loc EXCEPT ![t].pc = "destroy", ![t].at = 0, ![t].then = "copyFailed"]
          \/ loc' = [loc EXCEPT ![t].pc = "copyMap", ![t].page = f, ![t].at = b]
    BY <1>5 DEF CopyPage
  <2>3. Elsewhere(t) BY <2>1, <2>2 DEF Elsewhere, TypeOK, LocRec
  <2> QED BY <2>1, <2>3 DEF LeavesDescriptors
<1>6. CASE CopyMap(t)
  <2>1. loc[t].pc = "copyMap" /\ UNCHANGED <<gdt, task>> BY <1>6 DEF CopyMap, At
  <2>2. PICK b :
          \/ loc' = [loc EXCEPT ![t].pc = "destroy", ![t].page = NoFrame,
                                ![t].at = 0, ![t].then = "copyFailed"]
          \/ loc' = [loc EXCEPT ![t].pc = "copyPage", ![t].page = NoFrame, ![t].at = b]
    BY <1>6 DEF CopyMap
  <2>3. Elsewhere(t) BY <2>1, <2>2 DEF Elsewhere, TypeOK, LocRec
  <2> QED BY <2>1, <2>3 DEF LeavesDescriptors
<1>7. CASE CopyDone(t)
  <2>1. Elsewhere(t) BY <1>7 DEF CopyDone, At, Elsewhere, TypeOK, LocRec
  <2> QED BY <1>3, <1>7, <2>1 DEF CopyDone, LeavesDescriptors
<1>8. CASE CopyFailed(t)
  <2>1. Elsewhere(t) BY <1>8 DEF CopyFailed, At, GoTo, Elsewhere, TypeOK, LocRec
  <2> QED BY <1>3, <1>8, <2>1 DEF CopyFailed, LeavesDescriptors
<1>9. CASE StartChild(t)
  <2>1. Elsewhere(t) BY <1>9 DEF StartChild, At, EndCall, Elsewhere, TypeOK, IdleLoc
  <2> QED BY <1>9, <2>1 DEF StartChild, LeavesDescriptors
<1>10. CASE SwitchToBroken(t)
  BY <1>10 DEF SwitchToBroken, At, Elsewhere, LeavesDescriptors
<1> QED BY <1>1, <1>2, <1>4, <1>5, <1>6, <1>7, <1>8, <1>9, <1>10

LEMMA ExecElsewhere ==
  ASSUME TypeOK, NEW t \in AllTasks, Exec(t)
  PROVE  LeavesDescriptors(t)
<1>1. CASE ExecName(t)
  <2>1. Elsewhere(t) BY <1>1 DEF ExecName, CanRun, At, GoTo, Elsewhere, TypeOK, LocRec
  <2>2. PICK b : task' = [task EXCEPT ![t].named = b] BY <1>1 DEF ExecName
  <2>3. \A u \in AllTasks : task'[u].sel = task[u].sel BY <2>2 DEF TypeOK, TaskRec
  <2> QED BY <1>1, <2>1, <2>3 DEF ExecName, LeavesDescriptors
<1>2. CASE ExecCreateUvm(t)
  <2>1. loc[t].pc = "exec" /\ UNCHANGED <<gdt, task>> BY <1>2 DEF ExecCreateUvm, At
  <2>2. PICK f, b, e :
          \/ loc' = [loc EXCEPT ![t] = IdleLoc]
          \/ loc' = [loc EXCEPT ![t].pc = "alloc", ![t].dir = f, ![t].at = b,
                                ![t].end = e, ![t].then = "loaded"]
          \/ loc' = [loc EXCEPT ![t].pc = "destroy", ![t].dir = f,
                                ![t].at = 0, ![t].then = "run"]
    BY <1>2 DEF ExecCreateUvm, EndCall
  <2>3. Elsewhere(t) BY <2>1, <2>2 DEF Elsewhere, TypeOK, LocRec, IdleLoc
  <2> QED BY <2>1, <2>3 DEF LeavesDescriptors
<1>3. CASE ExecLoaded(t)
  <2>1. PICK a, e, h :
          /\ task' = [task EXCEPT ![t].heapEnd = h]
          /\ loc' = [loc EXCEPT ![t].pc = "alloc", ![t].at = a, ![t].end = e,
                                ![t].then = "args"]
    BY <1>3 DEF ExecLoaded
  <2>2. loc[t].pc = "loaded" /\ UNCHANGED gdt BY <1>3 DEF ExecLoaded, At
  <2>3. Elsewhere(t) BY <2>1, <2>2 DEF Elsewhere, TypeOK, LocRec
  <2>4. \A u \in AllTasks : task'[u].sel = task[u].sel BY <2>1 DEF TypeOK, TaskRec
  <2> QED BY <2>2, <2>3, <2>4 DEF LeavesDescriptors
<1>4. CASE ExecLoadFailed(t)
  <2>1. Elsewhere(t) BY <1>4 DEF ExecLoadFailed, At, Elsewhere, TypeOK, LocRec
  <2>2. PICK h : task' = task \/ task' = [task EXCEPT ![t].heapEnd = h]
    BY <1>4 DEF ExecLoadFailed
  <2>3. \A u \in AllTasks : task'[u].sel = task[u].sel BY <2>2 DEF TypeOK, TaskRec
  <2> QED BY <1>4, <2>1, <2>3 DEF ExecLoadFailed, LeavesDescriptors
<1>5. CASE ExecSwap(t)
  <2>1. PICK a, d : /\ task' = [task EXCEPT ![t].cr3 = a]
                    /\ loc' = [loc EXCEPT ![t].pc = "destroy", ![t].dir = d, ![t].at = 0,
                                          ![t].then = "run", ![t].missing = FALSE]
    BY <1>5 DEF ExecSwap
  <2>2. loc[t].pc = "args" /\ UNCHANGED gdt BY <1>5 DEF ExecSwap, At
  <2>3. Elsewhere(t) BY <2>1, <2>2 DEF Elsewhere, TypeOK, LocRec
  <2>4. \A u \in AllTasks : task'[u].sel = task[u].sel BY <2>1 DEF TypeOK, TaskRec
  <2> QED BY <2>2, <2>3, <2>4 DEF LeavesDescriptors
<1>6. CASE ExecFailed(t)
  <2>1. loc[t].pc = "args" /\ UNCHANGED <<gdt, task>> BY <1>6 DEF ExecFailed, At
  <2>2. \/ loc' = [loc EXCEPT ![t].pc = "destroy", ![t].at = 0, ![t].then = "run",
                              ![t].missing = FALSE]
        \/ loc' = [loc EXCEPT ![t].pc = "pannic"]
    BY <1>6 DEF ExecFailed, GoTo
  <2>3. Elsewhere(t) BY <2>1, <2>2 DEF Elsewhere, TypeOK, LocRec
  <2> QED BY <2>1, <2>3 DEF LeavesDescriptors
<1> QED BY <1>1, <1>2, <1>3, <1>4, <1>5, <1>6 DEF Exec

LEMMA PagesElsewhere ==
  ASSUME TypeOK, NEW t \in AllTasks, LocFits(loc[t], t),
         Sbrk(t) \/ DestroyUvm(t) \/ AllocFor(t) \/ MapFor(t)
  PROVE  LeavesDescriptors(t)
<1>0. loc[t].then \notin {"uvm", "stack"} BY DEF TypeOK, LocRec
<1>1. CASE Sbrk(t)
  <2>1. CASE SbrkDone(t)
    <3>1. PICK h : task' = [task EXCEPT ![t].heapEnd = h] BY <2>1 DEF SbrkDone
    <3>2. \A u \in AllTasks : task'[u].sel = task[u].sel BY <3>1 DEF TypeOK, TaskRec
    <3>3. Elsewhere(t) BY <2>1 DEF SbrkDone, At, EndCall, Elsewhere, TypeOK, IdleLoc
    <3> QED BY <2>1, <3>2, <3>3 DEF SbrkDone, LeavesDescriptors
  <2>2. ASSUME NEW n \in 1 .. MaxIncr, SbrkInPage(t, n) PROVE LeavesDescriptors(t)
    <3>1. PICK h : task' = [task EXCEPT ![t].heapEnd = h] BY <2>2 DEF SbrkInPage
    <3>2. \A u \in AllTasks : task'[u].sel = task[u].sel BY <3>1 DEF TypeOK, TaskRec
    <3>3. Elsewhere(t) BY <2>2 DEF SbrkInPage, CanRun, At, Elsewhere
    <3> QED BY <2>2, <3>2, <3>3 DEF SbrkInPage, LeavesDescriptors
  <2>3. ASSUME NEW n \in 1 .. MaxIncr, SbrkPages(t, n) PROVE LeavesDescriptors(t)
    <3>1. PICK d, h, a, e :
            loc' = [loc EXCEPT ![t].pc = "alloc", ![t].dir = d, ![t].newEnd = h,
                               ![t].at = a, ![t].end = e, ![t].then = "grown"]
      BY <2>3 DEF SbrkPages
    <3>2. loc[t].pc = "run" /\ UNCHANGED <<gdt, task>> BY <2>3 DEF SbrkPages, CanRun, At
    <3>3. Elsewhere(t) BY <3>1, <3>2 DEF Elsewhere, TypeOK, LocRec
    <3> QED BY <3>2, <3>3 DEF LeavesDescriptors
  <2> QED BY <1>1, <2>1, <2>2, <2>3 DEF Sbrk
<1>2. CASE DestroyUvm(t)
  <2>1. loc[t].pc = "destroy" /\ UNCHANGED <<gdt, task>> BY <1>2 DEF DestroyUvm, At
  <2>2. PICK b : \/ loc' = [loc EXCEPT ![t].at = b]
                 \/ loc' = [loc EXCEPT ![t] = IdleLoc]
                 \/ loc' = [loc EXCEPT ![t].pc = loc[t].then, ![t].dir = NoFrame]
    BY <1>2 DEF DestroyUvm, EndCall
  <2>3. Elsewhere(t) BY <1>0, <2>1, <2>2 DEF Elsewhere, TypeOK, LocRec, IdleLoc
  <2> QED BY <2>1, <2>3 DEF LeavesDescriptors
<1>3. CASE AllocFor(t)
  <2>1. loc[t].pc = "alloc" /\ UNCHANGED <<gdt, task>> BY <1>3 DEF AllocFor, At
  <2>2. PICK b : \/ loc' = [loc EXCEPT ![t].pc = "map", ![t].page = b]
                 \/ loc' = [loc EXCEPT ![t].pc = loc[t].then, ![t].missing = b]
    BY <1>3 DEF AllocFor
  <2>3. Elsewhere(t) BY <1>0, <2>1, <2>2 DEF Elsewhere, TypeOK, LocRec
  <2> QED BY <2>1, <2>3 DEF LeavesDescriptors
<1>4. CASE MapFor(t)
  <2>1. loc[t].pc = "map" /\ UNCHANGED <<gdt, task>> BY <1>4 DEF MapFor, At
  <2>2. PICK b : \/ loc' = [loc EXCEPT ![t].pc = "pannic"]
                 \/ loc' = [loc EXCEPT ![t].pc = loc[t].then, ![t].page = NoFrame,
                                       ![t].missing = TRUE]
                 \/ loc' = [loc EXCEPT ![t].pc = "alloc", ![t].page = NoFrame, ![t].at = b]
    BY <1>4 DEF MapFor, GoTo
  <2>3. Elsewhere(t) BY <1>0, <2>1, <2>2 DEF Elsewhere, TypeOK, LocRec
  <2> QED BY <2>1, <2>3 DEF LeavesDescriptors
<1> QED BY <1>1, <1>2, <1>3, <1>4

LEMMA DescriptorsStay ==
  ASSUME PInv, Ordered, NEW t \in AllTasks, Step(t)
  PROVE  Descriptors'
<1>0. Control /\ TypeOK /\ Descriptors /\ LocFits(loc[t], t) BY DEF PInv, Control, Descriptors
<1>1. CASE GdtAllocDesc(t) \/ AllocStack(t) \/ TssCreateUvm(t)
  BY <1>1, DescriptorIsFound, DescriptorIsTaken, DescriptorIsGiven
<1>2. CASE ~ (GdtAllocDesc(t) \/ AllocStack(t) \/ TssCreateUvm(t))
  <2>1. LeavesDescriptors(t)
    BY <1>0, <1>2, ForkElsewhere, ExecElsewhere, PagesElsewhere DEF Step, Fork
  <2> QED BY <1>0, <2>1, DescriptorsSame DEF LeavesDescriptors, Elsewhere
<1> QED BY <1>1, <1>2

-----------------------------------------------------------------------------
(* The first task has one page, in its one table.                          *)
LEMMA OwnedStarts == Init => Owned /\ CopyIsAhead /\ ChildIsEmpty /\ Descriptors
<1> SUFFICES ASSUME Init PROVE Owned /\ CopyIsAhead /\ ChildIsEmpty /\ Descriptors OBVIOUS
<1>s. PICK s \in Frame, d \in Frame, tb \in Frame, p \in Frame, sel \in Sel :
        StartsAs(s, d, tb, p, sel)
  BY InitStarts
<1>a. /\ frameCnt \in FrameCounts
      /\ s < d /\ d < tb /\ tb < p /\ \A f \in Frame : f < p => f \in {s, d, tb}
      /\ used = {s, d, tb, p}
      /\ entry = [f \in Frame |-> IF f = d THEN [Zeroed EXCEPT ![0] = tb]
                                  ELSE IF f = tb THEN [Zeroed EXCEPT ![0] = p]
                                  ELSE Zeroed]
  BY <1>s DEF StartsAs
<1>b. /\ gdt = {sel}
      /\ task = [t \in AllTasks |->
            IF t = First
            THEN [named |-> TRUE, sel |-> sel, stack |-> s, cr3 |-> d, heapEnd |-> 1]
            ELSE [named |-> FALSE, sel |-> NoSel, stack |-> NoFrame,
                  cr3 |-> NoFrame, heapEnd |-> 0]]
  BY <1>s DEF StartsAs
<1>c. loc = [t \in AllTasks |-> IdleLoc] /\ dropped = {} BY DEF Init
<1>1. sel # NoSel /\ First \in AllTasks BY ProcessAssumption DEF NoSel, AllTasks
<1>2. /\ task[First].sel = sel /\ task[First].stack = s /\ task[First].cr3 = d
      /\ \A t \in AllTasks : t # First => task[t].sel = NoSel /\ task[t].cr3 = NoFrame
  BY <1>b, <1>1
<1>3. \A t \in AllTasks : loc[t].pc = "run" /\ loc[t].page = NoFrame /\ loc[t].dir = NoFrame
  BY <1>c DEF IdleLoc
<1>4. CopyIsAhead /\ ChildIsEmpty BY <1>3 DEF CopyIsAhead, ChildIsEmpty, InFork
<1>5. DescriptorFound BY <1>3 DEF DescriptorFound
<1>6. DescriptorsOwned BY <1>b, <1>1, <1>2 DEF DescriptorsOwned
<1>7. s # d /\ s # tb /\ s # p /\ d # tb /\ d # p /\ tb # p
      /\ s # NoFrame /\ d # NoFrame /\ tb # NoFrame /\ p # NoFrame
  BY <1>a, MemoryAssumption DEF NoFrame
<1>8. 0 \in Index /\ 0 \in 0 .. EntryCnt /\ EntryCnt \in 0 .. EntryCnt /\ EntryCnt # 0
  BY MemoryAssumption DEF Index
<1>9. PICK i \in 0 .. LastPosition, j \in 0 .. LastPosition :
        i = Pos(0, 0) /\ j = Pos(0, EntryCnt) /\ i # j /\ i # LastPosition /\ j # LastPosition
  <2>1. \A a \in 0 .. EntryCnt : /\ Pos(0, a) \in 0 .. LastPosition
                                 /\ Pos(0, a) < LastPosition
    BY <1>8, PosIsPlace
  <2>2. Pos(0, 0) # Pos(0, EntryCnt) BY <1>8, PosIsOne
  <2> QED BY <1>8, <2>1, <2>2, LastIsPlace
<1>10. ASSUME NEW q \in 0 .. LastPosition
       PROVE  Tree(entry, d, 0, q) = IF q = i THEN p ELSE IF q = j THEN tb
                                     ELSE IF q = LastPosition THEN d ELSE NoFrame
  <2>1. PICK e, g : e = [f \in Frame |-> Zeroed] /\ g = entry OBVIOUS
  <2>2. Zeroed \in [Index -> Frame \cup {NoFrame}] BY DEF Zeroed
  <2>3. e \in Entries /\ e[d] = Zeroed /\ e[d][0] = NoFrame
    BY <1>8, <2>1, <2>2 DEF Entries, Zeroed
  <2>4. TableEntered(e, g, d, 0, tb, 0, p)
    <3>1. [e EXCEPT ![tb] = [Zeroed EXCEPT ![0] = p]][d] = Zeroed BY <1>7, <2>1
    <3>2. g = [f \in Frame |-> IF f = d THEN [Zeroed EXCEPT ![0] = tb]
                               ELSE IF f = tb THEN [Zeroed EXCEPT ![0] = p] ELSE Zeroed]
      BY <1>a, <2>1
    <3> QED BY <1>7, <2>1, <3>1, <3>2 DEF TableEntered
  <2>5. \A k \in 0 .. LastPosition :
          Tree(e, d, 0, k) = IF k = LastPosition THEN d ELSE NoFrame
    BY <2>3, TreeOfNew
  <2>6. \A k, m \in 0 .. LastPosition :
          Tree(e, d, 0, k) = Tree(e, d, 0, m) /\ Tree(e, d, 0, k) # NoFrame => k = m
    BY <2>5
  <2>7. \A k \in 0 .. LastPosition : Tree(e, d, 0, k) # tb BY <1>7, <2>5
  <2>8. Tree(g, d, 0, q) = IF q = Pos(0, 0) THEN p
                           ELSE IF q = Pos(0, EntryCnt) THEN tb ELSE Tree(e, d, 0, q)
    BY <1>8, <2>3, <2>4, <2>6, <2>7, TreeGetsTable
  <2> QED BY <1>9, <2>1, <2>5, <2>8
<1>11. AtPlaces BY AtPlacesHold
<1>12. ASSUME NEW t \in AllTasks
       PROVE  /\ FrameAt(PageOf(t)) = NoFrame
              /\ FrameAt(StackOf(t)) = IF t = First THEN s ELSE NoFrame
              /\ \A q \in 0 .. LastPosition :
                   /\ FrameAt(CallAt(t, q)) = NoFrame
                   /\ t # First => FrameAt(SpaceAt(t, q)) = NoFrame
  <2>1. HasStack(t) <=> t = First
    <3>1. \A f \in Forker : f \in AllTasks BY ProcessAssumption DEF AllTasks
    <3> QED BY <1>1, <1>2, <1>3, <3>1 DEF HasStack
  <2>2. CallDir(t) = NoFrame BY <1>3 DEF CallDir
  <2> QED BY <1>2, <1>3, <1>11, <2>1, <2>2 DEF AtPlaces, Tree
<1>13. \A q \in 0 .. LastPosition :
         FrameAt(SpaceAt(First, q)) = IF q = i THEN p ELSE IF q = j THEN tb
                                      ELSE IF q = LastPosition THEN d ELSE NoFrame
  BY <1>1, <1>2, <1>10, <1>11 DEF AtPlaces
<1>14. PICK w1 \in Place, w2 \in Place, w3 \in Place, w4 \in Place :
         /\ w1 = StackOf(First) /\ w2 = SpaceAt(First, LastPosition)
         /\ w3 = SpaceAt(First, j) /\ w4 = SpaceAt(First, i)
  BY <1>1, PlacesAre, LastIsPlace
<1>15. FrameAt(w1) = s /\ FrameAt(w2) = d /\ FrameAt(w3) = tb /\ FrameAt(w4) = p
  BY <1>1, <1>9, <1>12, <1>13, <1>14, LastIsPlace
<1>16. ASSUME NEW x \in Place, x \notin {w1, w2, w3, w4} PROVE FrameAt(x) = NoFrame
  <2>1. PICK t \in AllTasks :
          \/ x = StackOf(t) \/ x = PageOf(t)
          \/ \E q \in 0 .. LastPosition : x = SpaceAt(t, q) \/ x = CallAt(t, q)
    BY PlacesAre
  <2>2. CASE x = StackOf(t) \/ x = PageOf(t) BY <1>12, <1>14, <1>16, <2>2
  <2>3. CASE \E q \in 0 .. LastPosition : x = SpaceAt(t, q) \/ x = CallAt(t, q)
    <3>1. PICK q \in 0 .. LastPosition : x = SpaceAt(t, q) \/ x = CallAt(t, q) BY <2>3
    <3>2. CASE x = CallAt(t, q) BY <1>12, <3>2
    <3>3. CASE x = SpaceAt(t, q) /\ t # First BY <1>12, <3>3
    <3>4. CASE x = SpaceAt(t, q) /\ t = First
      <4>1. q # LastPosition /\ q # i /\ q # j BY <1>14, <1>16, <3>4
      <4> QED BY <1>13, <3>4, <4>1
    <3> QED BY <3>1, <3>2, <3>3, <3>4
  <2> QED BY <2>1, <2>2, <2>3
<1>17. Holds = [x \in Place |-> FrameAt(x)] BY DEF Holds
<1>18. PICK U : U = used \ dropped /\ U = {s, d, tb, p} BY <1>a, <1>c
<1>19. Owns(Holds, Place, U)
  <2>1. \A x \in Place : FrameAt(x) = IF x = w1 THEN s ELSE IF x = w2 THEN d ELSE
                                      IF x = w3 THEN tb ELSE IF x = w4 THEN p ELSE NoFrame
    BY <1>15, <1>16
  <2>2. \A x \in Place : Holds[x] = IF x = w1 THEN s ELSE IF x = w2 THEN d ELSE
                                    IF x = w3 THEN tb ELSE IF x = w4 THEN p ELSE NoFrame
    BY <1>17, <2>1
  <2>3. Holds[w1] = s /\ Holds[w2] = d /\ Holds[w3] = tb /\ Holds[w4] = p BY <1>15, <1>17
  <2>4. NoFrame \notin U BY <1>7, <1>18
  <2>5. \A x \in Place : Holds[x] \in U \cup {NoFrame} BY <1>18, <2>2
  <2>6. \A x, y \in Place : Holds[x] = Holds[y] /\ Holds[x] # NoFrame => x = y BY <1>7, <2>2
  <2>7. \A u \in U : \E x \in Place : Holds[x] = u BY <1>18, <2>3
  <2> QED BY <2>4, <2>5, <2>6, <2>7 DEF Owns
<1>20. Owned BY <1>18, <1>19 DEF Owned
<1> QED BY <1>4, <1>5, <1>6, <1>20 DEF Descriptors

(* Nothing happens to the places when no variable changes.                 *)
LEMMA StutterKeeps == ASSUME PInv, UNCHANGED procVars PROVE PInv'
<1>0. UNCHANGED <<used, entry, gdt, task, loc, started, dropped>> BY DEF procVars, memVars
<1>1. ASSUME NEW x PROVE FrameAt(x)' = FrameAt(x)
  BY <1>0 DEF FrameAt, HasStack, InOldSpace, FreedAt
<1>2. Control'
  <2>1. TypeOK' BY <1>0 DEF PInv, Control, TypeOK
  <2>2. SlotsOK' BY <1>0 DEF PInv, Control, SlotsOK
  <2>3. ASSUME NEW t \in AllTasks PROVE LocFits(loc[t], t)'
    <3>1. PICK l : l = loc[t] OBVIOUS
    <3>2. LocFits(l, t) BY <3>1 DEF PInv, Control
    <3>3. LocFits(l, t)' BY <1>0, <3>2 DEF LocFits, HeapDir, OwnDir
    <3> QED BY <1>0, <3>1, <3>3
  <2> QED BY <2>1, <2>2, <2>3 DEF Control
<1>3. DescriptorsOwned' /\ DescriptorFound'
  BY <1>0 DEF PInv, DescriptorsOwned, DescriptorFound
<1>4. Owned'
  <2>1. \A x \in Place : Holds'[x] = Holds[x] BY <1>1 DEF Holds
  <2>2. Owns(Holds', Place, used \ dropped) BY <2>1, OwnsSame DEF PInv, Owned
  <2> QED BY <1>0, <2>2 DEF Owned, Owns
<1>5. CopyIsAhead'
  <2>1. SUFFICES ASSUME NEW t \in AllTasks, loc'[t].pc \in {"copyPage", "copyMap"},
                        NEW v \in UserPage, v >= loc'[t].at
                 PROVE  FrameAt(CallAt(t, PagePos(v)))' = NoFrame
    BY DEF CopyIsAhead
  <2>2. PICK x : x = CallAt(t, PagePos(v)) OBVIOUS
  <2>3. FrameAt(x) = NoFrame BY <1>0, <2>1, <2>2 DEF PInv, CopyIsAhead
  <2> QED BY <1>1, <2>2, <2>3
<1>6. ChildIsEmpty'
  <2>1. SUFFICES ASSUME NEW t \in AllTasks, InFork(loc[t])', loc'[t].pc # "start",
                        NEW q \in 0 .. LastPosition, q # LastPosition
                 PROVE  FrameAt(SpaceAt(loc[t].child, q))' = NoFrame
    BY DEF ChildIsEmpty
  <2>2. PICK c : c = loc[t].child OBVIOUS
  <2>3. FrameAt(SpaceAt(c, q)) = NoFrame BY <1>0, <2>1, <2>2 DEF PInv, ChildIsEmpty
  <2> QED BY <1>0, <1>1, <2>2, <2>3
<1> QED BY <1>2, <1>3, <1>4, <1>5, <1>6 DEF PInv

LEMMA PInvHolds == ASSUME Ordered PROVE Spec => []PInv
<1>1. Init => PInv BY ControlStarts, OwnedStarts DEF PInv, Descriptors
<1>2. PInv /\ [Next]_procVars => PInv'
  <2> SUFFICES ASSUME PInv, [Next]_procVars PROVE PInv' OBVIOUS
  <2>1. ASSUME NEW t \in AllTasks, Step(t) PROVE PInv'
    BY <2>1, ControlStays, OwnedStays, DescriptorsStay DEF PInv, Descriptors
  <2>2. CASE UNCHANGED procVars
    BY <2>2, StutterKeeps
  <2> QED BY <2>1, <2>2 DEF Next, Step
<1> QED BY <1>1, <1>2, PTL DEF Spec

-----------------------------------------------------------------------------
(* The descriptor of a task's TSS is that task's alone and is not free     *)
(* while it has it, and none is taken that nobody has: tss_init gives back *)
(* what it took when it fails (core/task.c:44-95).                         *)
THEOREM DescriptorsAlwaysOwned == ASSUME Ordered PROVE Spec => []DescriptorsOwned
<1>1. PInv => DescriptorsOwned BY DEF PInv
<1> QED BY <1>1, PInvHolds, PTL

LEMMA PlaceIsFinite == IsFiniteSet(Place)
<1>1. IsFiniteSet(AllTasks)
  <2>1. IsFiniteSet({First}) BY FS_Singleton
  <2> QED BY <2>1, FS_Union, ProcessAssumption DEF AllTasks
<1>2. IsFiniteSet(0 .. LastPosition)
  <2>1. LastPosition \in Int BY LastIsPlace
  <2> QED BY <2>1, FS_Interval
<1>3. \A a, b : IsFiniteSet({a, b})
  <2>1. ASSUME NEW a, NEW b PROVE IsFiniteSet({a, b})
    <3>1. IsFiniteSet({a}) BY FS_Singleton
    <3>2. IsFiniteSet({a} \cup {b}) BY <3>1, FS_AddElement
    <3>3. {a, b} = {a} \cup {b} OBVIOUS
    <3> QED BY <3>2, <3>3
  <2> QED BY <2>1
<1>4. IsFiniteSet({"space", "call"} \X (0 .. LastPosition)) BY <1>2, <1>3, FS_Product
<1>5. IsFiniteSet({<<"stack", 0>>, <<"page", 0>>}) BY <1>3
<1>6. IsFiniteSet({<<"stack", 0>>, <<"page", 0>>} \cup {"space", "call"} \X (0 .. LastPosition))
  BY <1>4, <1>5, FS_Union
<1> QED BY <1>1, <1>6, FS_Product DEF Place

(* No frame is used in two places and none that is in use is free, through *)
(* all interleavings of fork, exec and sbrk and on their failure paths:    *)
(* tasks share no memory.                                                  *)
THEOREM FramesHaveOneOwner == ASSUME Ordered PROVE Spec => []OneOwner
<1>1. Owned => OneOwner
  <2> SUFFICES ASSUME Owned PROVE OneOwner OBVIOUS
  <2>1. PICK held : held = {x \in Place : FrameAt(x) # NoFrame} OBVIOUS
  <2>2. PICK frames : frames = {FrameAt(x) : x \in held} OBVIOUS
  <2>3. held = {x \in Place : Holds[x] # NoFrame} BY <2>1 DEF Holds
  <2>4. frames = {Holds[x] : x \in held} BY <2>1, <2>2 DEF Holds
  <2>5. Owns(Holds, Place, used \ dropped) BY DEF Owned
  <2>6. Cardinality({Holds[x] : x \in {y \in Place : Holds[y] # NoFrame}})
          = Cardinality({x \in Place : Holds[x] # NoFrame})
    BY <2>5, PlaceIsFinite, OwnsCounts
  <2>7. Cardinality(frames) = Cardinality(held) BY <2>3, <2>4, <2>6
  <2>8. frames \subseteq used \ dropped BY <2>3, <2>4, <2>5 DEF Owns
  <2> QED BY <2>1, <2>2, <2>7, <2>8 DEF OneOwner
<1>2. PInv => OneOwner BY <1>1 DEF PInv
<1> QED BY <1>2, PInvHolds, PTL

(* Every frame in use can be reached from a task, but for those that the   *)
(* code is known to forget: the directory that sys_fork overwrites         *)
(* (core/task.c:424), and pages that memory_create_map could not map       *)
(* (core/memory.c:208-212, 271-275).                                       *)
THEOREM FramesAreNotLost == ASSUME Ordered PROVE Spec => []NothingElseLost
<1>1. Owned => NothingElseLost
  BY DEF Owned, Owns, Holds, NothingElseLost
<1>2. PInv => NothingElseLost BY <1>1 DEF PInv
<1> QED BY <1>2, PInvHolds, PTL

-----------------------------------------------------------------------------
(* What a step does to the pages of address spaces.                        *)
LEMMA TreeSame ==
  ASSUME TypeOK, NEW X, Alters(X), NEW d \in Frame \cup {NoFrame},
         \A q \in 0 .. LastPosition :
           Tree(entry, d, 0, q) = NoFrame \/ Tree(entry, d, 0, q) \notin X,
         NEW p \in 0 .. LastPosition
  PROVE  Tree(entry', d, 0, p) = Tree(entry, d, 0, p)
<1>1. PICK e, g : e = entry /\ g = entry' OBVIOUS
<1>2. e \in Entries BY <1>1 DEF TypeOK
<1>3. ASSUME NEW q \in 0 .. LastPosition, Tree(e, d, 0, q) # NoFrame
      PROVE  g[Tree(e, d, 0, q)] = e[Tree(e, d, 0, q)]
  <2>1. PICK f : f = Tree(e, d, 0, q) OBVIOUS
  <2>2. f \in Frame BY <1>2, <1>3, <2>1, TreeType
  <2>3. f \notin X BY <1>1, <1>3, <2>1
  <2> QED BY <1>1, <2>1, <2>2, <2>3 DEF Alters
<1>4. Untouched(e, g, d, 0, 0) BY <1>3 DEF Untouched
<1>5. ~ (p < 0) BY LastIsPlace
<1>6. Tree(g, d, 0, p) = IF p < 0 THEN NoFrame ELSE Tree(e, d, 0, p)
  BY <1>2, <1>4, TreeStays
<1> QED BY <1>1, <1>5, <1>6

(* The frames in which a step of t can change entries: free ones, the      *)
(* stack that tss_init gives back, those of the address space that the     *)
(* call maps pages in or destroys.                                         *)
Grows(t) == loc[t].pc = "map" /\ loc[t].then = "grown"

WritesTo(t, f) ==
  \/ f \notin used
  \/ \E u \in AllTasks : f = FrameAt(StackOf(u))
  \/ /\ loc[t].pc \in {"destroy", "copyMap", "map"}
     /\ \E q \in 0 .. LastPosition : f = FrameAt(CallAt(t, q))
  \/ Grows(t) /\ \E q \in 0 .. LastPosition : f = FrameAt(SpaceAt(t, q))

LEMMA SpacesStay ==
  ASSUME TypeOK, Owned, NEW t \in AllTasks, NEW X, Alters(X), \A f \in X : WritesTo(t, f),
         NEW u \in AllTasks, NEW q \in 0 .. LastPosition
  PROVE  /\ u # t \/ ~ Grows(t) =>
              Tree(entry', task[u].cr3, 0, q) = Tree(entry, task[u].cr3, 0, q)
         /\ /\ u # t \/ loc[t].pc \notin {"destroy", "copyMap", "map"}
            /\ loc[u].pc # "destroy"
            => Tree(entry', CallDir(u), 0, q) = Tree(entry, CallDir(u), 0, q)
<1>1. AtPlaces BY AtPlacesHold
<1>2. task[u].cr3 \in Frame \cup {NoFrame} /\ CallDir(u) \in Frame \cup {NoFrame}
  BY DEF TypeOK, TaskRec, LocRec, CallDir
<1>3. \A x, y \in Place : FrameAt(x) = FrameAt(y) /\ FrameAt(x) # NoFrame => x = y
  BY HeldOnce
<1>4. \A x \in Place : FrameAt(x) # NoFrame => FrameAt(x) \in used BY HeldIsUsed
<1>5. ASSUME u # t \/ ~ Grows(t), NEW p \in 0 .. LastPosition,
             FrameAt(SpaceAt(u, p)) # NoFrame, FrameAt(SpaceAt(u, p)) \in X
      PROVE  FALSE
  <2>1. PICK x \in Place : x = SpaceAt(u, p) BY PlacesAre
  <2>2. WritesTo(t, FrameAt(x)) /\ FrameAt(x) \in used BY <1>4, <1>5, <2>1
  <2>3. \A w \in AllTasks : FrameAt(x) # FrameAt(StackOf(w))
    BY <1>3, <1>5, <2>1, PlacesAre, PlacesDiffer
  <2>4. \A r \in 0 .. LastPosition : FrameAt(x) # FrameAt(CallAt(t, r))
    BY <1>3, <1>5, <2>1, PlacesAre, PlacesDiffer
  <2>5. u # t => \A r \in 0 .. LastPosition : FrameAt(x) # FrameAt(SpaceAt(t, r))
    BY <1>3, <1>5, <2>1, PlacesAre, PlacesDiffer
  <2> QED BY <1>5, <2>2, <2>3, <2>4, <2>5 DEF WritesTo
<1>6. ASSUME u # t \/ loc[t].pc \notin {"destroy", "copyMap", "map"},
             NEW p \in 0 .. LastPosition,
             FrameAt(CallAt(u, p)) # NoFrame, FrameAt(CallAt(u, p)) \in X
      PROVE  FALSE
  <2>1. PICK x \in Place : x = CallAt(u, p) BY PlacesAre
  <2>2. WritesTo(t, FrameAt(x)) /\ FrameAt(x) \in used BY <1>4, <1>6, <2>1
  <2>3. \A w \in AllTasks : FrameAt(x) # FrameAt(StackOf(w))
    BY <1>3, <1>6, <2>1, PlacesAre, PlacesDiffer
  <2>4. u # t => \A r \in 0 .. LastPosition : FrameAt(x) # FrameAt(CallAt(t, r))
    BY <1>3, <1>6, <2>1, PlacesAre, PlacesDiffer
  <2>5. \A r \in 0 .. LastPosition : FrameAt(x) # FrameAt(SpaceAt(t, r))
    BY <1>3, <1>6, <2>1, PlacesAre, PlacesDiffer
  <2> QED BY <1>6, <2>2, <2>3, <2>4, <2>5 DEF WritesTo, Grows
<1>7. ASSUME u # t \/ ~ Grows(t)
      PROVE  Tree(entry', task[u].cr3, 0, q) = Tree(entry, task[u].cr3, 0, q)
  <2>1. PICK d \in Frame \cup {NoFrame} : d = task[u].cr3 BY <1>2
  <2>2. \A p \in 0 .. LastPosition :
          Tree(entry, d, 0, p) = NoFrame \/ Tree(entry, d, 0, p) \notin X
    BY <1>1, <1>5, <1>7, <2>1 DEF AtPlaces
  <2> QED BY <2>1, <2>2, TreeSame
<1>8. ASSUME u # t \/ loc[t].pc \notin {"destroy", "copyMap", "map"}, loc[u].pc # "destroy"
      PROVE  Tree(entry', CallDir(u), 0, q) = Tree(entry, CallDir(u), 0, q)
  <2>1. PICK d \in Frame \cup {NoFrame} : d = CallDir(u) BY <1>2
  <2>2. CallFrom(u) = 0 BY <1>8 DEF CallFrom
  <2>3. \A p \in 0 .. LastPosition :
          Tree(entry, d, 0, p) = NoFrame \/ Tree(entry, d, 0, p) \notin X
    BY <1>1, <1>6, <1>8, <2>1, <2>2 DEF AtPlaces
  <2> QED BY <2>1, <2>3, TreeSame
<1> QED BY <1>7, <1>8

LEMMA CreateWrites ==
  ASSUME TypeOK, NEW t \in AllTasks, NEW f, CreateUvm(f)
  PROVE  Alters({f}) /\ \A x \in {f} : WritesTo(t, x)
<1>1. f \notin used BY FreshFrame DEF CreateUvm
<1>2. entry' \in Entries BY EntriesKept
<1> QED BY <1>1, <1>2 DEF Alters, WritesTo, CreateUvm, TypeOK, Entries

LEMMA FreeWrites ==
  ASSUME TypeOK, NEW t \in AllTasks, NEW f, FreePage(f), WritesTo(t, f)
  PROVE  Alters({f}) /\ \A x \in {f} : WritesTo(t, x)
<1>1. entry' \in Entries BY EntriesKept
<1> QED BY <1>1 DEF Alters, FreePage, TypeOK, Entries

(* memory_create_map writes in the directory, in the table, or in the frame *)
(* that becomes the table.                                                 *)
LEMMA MapWrites ==
  ASSUME TypeOK, Owned, NEW t \in AllTasks, loc[t].pc \in {"copyMap", "map"},
         NEW d \in Frame, d = loc[t].dir, d = task[t].cr3 => Grows(t),
         NEW v \in UserPage, NEW f \in Frame, CreateMap(d, v, f)
  PROVE  \E X : Alters(X) /\ \A x \in X : WritesTo(t, x)
<1>1. PICK i \in Index, j \in Index : i = PdeIndex(v) /\ j = PteIndex(v) BY PageIsPos
<1>2. entry' \in Entries /\ entry \in Entries BY EntriesKept DEF TypeOK
<1>3. d # NoFrame /\ EntryCnt \in 0 .. EntryCnt /\ ~ (EntryCnt < EntryCnt)
  BY MemoryAssumption DEF NoFrame
<1>4. ASSUME NEW q \in 0 .. LastPosition PROVE WritesTo(t, Tree(entry, d, 0, q))
  <2>1. AtPlaces BY AtPlacesHold
  <2>2. CASE d = task[t].cr3 BY <2>1, <2>2 DEF AtPlaces, WritesTo
  <2>3. CASE d # task[t].cr3
    <3>1. CallDir(t) = d /\ CallFrom(t) = 0 BY <1>3, <2>3 DEF CallDir, CallFrom
    <3> QED BY <2>1, <3>1 DEF AtPlaces, WritesTo
  <2> QED BY <2>2, <2>3
<1>5. \A q \in 0 .. LastPosition : Tree(entry, d, 0, q) = Freed(entry, d, q)
  BY <1>3, LastIsPlace DEF Tree
<1>6. WritesTo(t, d)
  <2>1. Freed(entry, d, LastPosition) = d BY DEF Freed
  <2> QED BY <1>4, <1>5, <2>1, LastIsPlace
<1>7. CASE TableOf(d, v) # NoFrame
  <2>1. PICK x \in Frame : x = entry[d][i] BY <1>1, <1>2, <1>7 DEF TableOf, Entries
  <2>2. Freed(entry, d, Pos(i, EntryCnt)) = x
    BY <1>1, <1>3, <1>7, <2>1, TreeAtPos DEF TableOf
  <2>3. WritesTo(t, x) BY <1>3, <1>4, <1>5, <2>2, PosIsPlace
  <2>4. entry' = [entry EXCEPT ![x][j] = f] BY <1>1, <1>7, <2>1 DEF CreateMap, TableOf
  <2>5. Alters({x}) BY <1>2, <2>4 DEF Alters, Entries
  <2> QED BY <2>3, <2>5
<1>8. CASE TableOf(d, v) = NoFrame
  <2>1. PICK x : x = FirstFree OBVIOUS
  <2>2. /\ AllocPage(x)
        /\ entry' = [entry EXCEPT ![x] = [Zeroed EXCEPT ![j] = f], ![d][i] = x]
    BY <1>1, <1>8, <2>1 DEF CreateMap
  <2>3. x \notin used BY <2>2, FreshFrame
  <2>4. WritesTo(t, x) BY <2>3 DEF WritesTo
  <2>5. Alters({x, d}) BY <1>2, <2>2 DEF Alters, Entries
  <2> QED BY <1>6, <2>4, <2>5
<1> QED BY <1>7, <1>8

LEMMA StepWrites ==
  ASSUME PInv, Ordered, NEW t \in AllTasks, Step(t)
  PROVE  \E X : Alters(X) /\ \A f \in X : WritesTo(t, f)
<1>0. Control /\ TypeOK /\ Owned /\ LocFits(loc[t], t) BY DEF PInv, Control
<1>1. CASE UNCHANGED entry BY <1>0, <1>1, SameEntries
<1>2. CASE \E f : CreateUvm(f)
  <2>1. PICK f : CreateUvm(f) BY <1>2
  <2>2. Alters({f}) /\ \A x \in {f} : WritesTo(t, x) BY <1>0, <2>1, CreateWrites
  <2> QED BY <2>2
<1>3. CASE TssCreateUvm(t)
  <2>1. CASE Free # {} BY <1>2, <1>3, <2>1 DEF TssCreateUvm
  <2>2. CASE Free = {}
    <3>1. PICK c, f : c = loc[t].child /\ f = task[c].stack OBVIOUS
    <3>2. FreePage(f) /\ loc[t].pc = "uvm" BY <1>3, <2>2, <3>1 DEF TssCreateUvm, At
    <3>3. c \in AllTasks /\ t \in Forker
      BY <1>0, <3>1, <3>2, ChildOf DEF InFork
    <3>4. HasStack(c) BY <3>1, <3>2, <3>3 DEF HasStack
    <3>5. f = FrameAt(StackOf(c)) BY <3>1, <3>3, <3>4, AtPlacesHold DEF AtPlaces
    <3>6. WritesTo(t, f) BY <3>3, <3>5 DEF WritesTo
    <3>7. Alters({f}) /\ \A x \in {f} : WritesTo(t, x) BY <1>0, <3>2, <3>6, FreeWrites
    <3> QED BY <3>7
  <2> QED BY <2>1, <2>2
<1>4. CASE DestroyUvm(t)
  <2>1. PICK p \in 0 .. LastPosition : Destroys(t, p) BY <1>0, <1>4, DestroysOne
  <2>2. PICK f : f = FrameAt(CallAt(t, p)) OBVIOUS
  <2>3. FreePage(f) /\ WritesTo(t, f) BY <2>1, <2>2 DEF Destroys, WritesTo
  <2>4. Alters({f}) /\ \A x \in {f} : WritesTo(t, x) BY <1>0, <2>3, FreeWrites
  <2> QED BY <2>4
<1>5. CASE CopyMap(t) /\ ~ UNCHANGED entry
  <2>1. PICK d, v, f : d = loc[t].dir /\ v = loc[t].at /\ f = loc[t].page OBVIOUS
  <2>2. loc[t].pc = "copyMap" /\ CreateMap(d, v, f)
    BY <1>5, <2>1 DEF CopyMap, At, memVars
  <2>3. v \in UserPage /\ d # NoFrame /\ d # task[t].cr3 /\ f # NoFrame
    BY <1>0, <2>1, <2>2 DEF LocFits, OwnDir
  <2>4. d \in Frame /\ f \in Frame BY <1>0, <2>1, <2>3 DEF TypeOK, LocRec
  <2> QED BY <1>0, <2>1, <2>2, <2>3, <2>4, MapWrites
<1>6. CASE MapFor(t) /\ ~ UNCHANGED entry
  <2>1. PICK d, v, f : d = loc[t].dir /\ v = loc[t].at /\ f = loc[t].page OBVIOUS
  <2>2. loc[t].pc = "map" /\ CreateMap(d, v, f) /\ ~ IsPresent(d, v)
    BY <1>6, <2>1 DEF MapFor, At, memVars
  <2>3. v \in UserPage
    <3>1. v \in Nat /\ loc[t].end \in Nat BY <1>0, <2>1 DEF TypeOK, LocRec
    <3>2. v < loc[t].end /\ loc[t].end <= LastPage + 1 BY <1>0, <2>1, <2>2 DEF LocFits
    <3>3. ~ (v < Base) BY <2>2 DEF IsPresent
    <3> QED BY <3>1, <3>2, <3>3, MapsUserPage
  <2>4. f # NoFrame /\ (OwnDir(loc[t]) \/ Grows(t))
    BY <1>0, <2>1, <2>2 DEF LocFits, OwnDir, Grows
  <2>5. d # NoFrame /\ (d = task[t].cr3 => Grows(t))
    BY <1>0, <2>1, <2>2, <2>4 DEF LocFits, HeapDir, Grows
  <2>6. d \in Frame /\ f \in Frame BY <1>0, <2>1, <2>4, <2>5 DEF TypeOK, LocRec
  <2> QED BY <1>0, <2>1, <2>2, <2>3, <2>5, <2>6, MapWrites
<1>7. CASE CopyCreateUvm(t) \/ ExecCreateUvm(t)
  <2>1. UNCHANGED entry \/ \E f : CreateUvm(f)
    BY <1>7 DEF CopyCreateUvm, ExecCreateUvm, memVars
  <2> QED BY <1>1, <1>2, <2>1
<1>8. CASE \/ AllocTask(t) \/ GdtAllocDesc(t) \/ AllocStack(t) \/ TaskInit(t) \/ CopyPage(t)
           \/ CopyDone(t) \/ CopyFailed(t) \/ StartChild(t) \/ SwitchToBroken(t)
  <2>1. UNCHANGED entry
    BY <1>8 DEF AllocTask, GdtAllocDesc, AllocStack, TaskInit, CopyPage, CopyDone, CopyFailed,
                StartChild, SwitchToBroken, memVars
  <2> QED BY <1>1, <2>1
<1>9. CASE \/ ExecName(t) \/ ExecLoaded(t) \/ ExecLoadFailed(t) \/ ExecSwap(t) \/ ExecFailed(t)
           \/ Sbrk(t) \/ AllocFor(t)
  <2>1. UNCHANGED entry
    BY <1>9 DEF ExecName, ExecLoaded, ExecLoadFailed, ExecSwap, ExecFailed, Sbrk, SbrkInPage,
                SbrkPages, SbrkDone, AllocFor, memVars
  <2> QED BY <1>1, <2>1
<1> QED BY <1>1, <1>3, <1>4, <1>5, <1>6, <1>7, <1>8, <1>9 DEF Step, Fork, Exec

(* The pages of programs that directory d has when entries are e.          *)
PageIn(e, d, v) == Tree(e, d, 0, PagePos(v))
Has(e, d) == {v \in UserPage : PageIn(e, d, v) # NoFrame}

(* All of the pages before page n, and all that have a unit before u.      *)
UpTo(e, d, n) == \A v \in UserPage : v < n => v \in Has(e, d)
Full(e, d, u) == \A v \in UserPage : v * PageUnits < u => v \in Has(e, d)

(* A call that maps pages, for what is behind its loop.                    *)
Maps(l, then) == l.pc \in {"alloc", "map"} /\ l.then = then
InArgs(l) == l.pc = "args" \/ Maps(l, "args")

(* The address space that a fork builds has the pages of the parent up to  *)
(* the place where the copying is; at its end it is the child's.  A child  *)
(* has no heap of its own.                                                 *)
ForkPages(t) ==
  LET l == loc[t]
      own == Has(entry, task[t].cr3)
  IN  /\ l.pc \in {"copyPage", "copyMap"} =>
           Has(entry, l.dir) = {v \in own : v < l.at}
      /\ l.pc = "copyMap" => l.at \in own
      /\ l.pc = "start" => \/ task[l.child].cr3 = NoFrame
                           \/ Has(entry, task[l.child].cr3) = own
      /\ InFork(l) /\ l.pc \notin {"desc", "stack", "uvm", "name"} =>
           task[l.child].heapEnd = 0

(* The address space that an execve builds has the pages of the program up *)
(* to the place where the loading is, and then all of them, unless memory  *)
(* ran out.                                                                *)
ExecPages(t) ==
  LET l == loc[t]
  IN  /\ Maps(l, "loaded") => /\ l.end = PagesUpTo(ProgramEnd)
                              /\ l.missing \/ UpTo(entry, l.dir, l.at)
      /\ l.pc = "loaded" \/ InArgs(l) => l.missing \/ Full(entry, l.dir, ProgramEnd)
      /\ InArgs(l) => task[t].heapEnd = ProgramEnd

(* A task has all pages of its heap, but for a task that execve has given  *)
(* the heap of the new program before its address space.                   *)
HeapPages(t) ==
  LET l == loc[t]
      d == task[t].cr3
  IN  t \in started \ short =>
        /\ ~ InArgs(l) /\ l.pc # "pannic" =>
             d = NoFrame \/ Full(entry, d, task[t].heapEnd)
        /\ Maps(l, "grown") => /\ l.end = PagesUpTo(l.newEnd)
                               /\ l.missing \/ UpTo(entry, d, l.at)
        /\ l.pc = "grown" => l.missing \/ Full(entry, d, l.newEnd)

PagesInv == \A t \in AllTasks : ForkPages(t) /\ ExecPages(t) /\ HeapPages(t)

LEMMA PagesAreHold ==
  \A d \in Frame : /\ Mapped(d) = Has(entry, d)
                   /\ \A v \in UserPage : FrameOf(d, v) = PageIn(entry, d, v)
BY FrameOfPage DEF Mapped, Has, PageIn

(* All pages of directory d are in the frames they were in.                *)
Same(d) == \A v \in UserPage : PageIn(entry', d, v) = PageIn(entry, d, v)

LEMMA SameHas == ASSUME NEW d, Same(d) PROVE Has(entry', d) = Has(entry, d)
BY DEF Same, Has

LEMMA HasNone == ASSUME NEW e PROVE Has(e, NoFrame) = {}
BY DEF Has, PageIn, Tree

(* Address spaces that a step of t leaves alone: those of all tasks, and   *)
(* those that calls build, but for the one in which t maps a page.         *)
LEMMA SpacesLeft ==
  ASSUME PInv, Ordered, NEW t \in AllTasks, Step(t), NEW u \in AllTasks
  PROVE  /\ u # t \/ ~ Grows(t) => Same(task[u].cr3)
         /\ /\ OwnDir(loc[u]) /\ loc[u].pc # "destroy"
            /\ u # t \/ loc[t].pc \notin {"copyMap", "map"}
            => Same(loc[u].dir)
<1>0. Control /\ TypeOK /\ Owned BY DEF PInv, Control
<1>1. PICK X : Alters(X) /\ \A f \in X : WritesTo(t, f) BY StepWrites
<1>2. ASSUME u # t \/ ~ Grows(t) PROVE Same(task[u].cr3)
  <2>1. PICK d : d = task[u].cr3 OBVIOUS
  <2>2. \A q \in 0 .. LastPosition : Tree(entry', d, 0, q) = Tree(entry, d, 0, q)
    BY <1>0, <1>1, <1>2, <2>1, SpacesStay
  <2> QED BY <2>1, <2>2, PagePosIsPlace DEF Same, PageIn
<1>3. ASSUME OwnDir(loc[u]), loc[u].pc # "destroy",
             u # t \/ loc[t].pc \notin {"copyMap", "map"}
      PROVE  Same(loc[u].dir)
  <2>1. CallDir(u) = loc[u].dir BY <1>0, <1>3, CallDirsAre DEF CallDirs
  <2>2. PICK d : d = CallDir(u) OBVIOUS
  <2>3. \A q \in 0 .. LastPosition : Tree(entry', d, 0, q) = Tree(entry, d, 0, q)
    BY <1>0, <1>1, <1>3, <2>2, SpacesStay
  <2> QED BY <2>1, <2>2, <2>3, PagePosIsPlace DEF Same, PageIn
<1> QED BY <1>2, <1>3

(* What a step of t leaves as it is for other tasks.                       *)
LEMMA OthersLeft ==
  ASSUME PInv, Ordered, NEW t \in AllTasks, Step(t)
  PROVE  /\ \A u \in AllTasks : u # t => loc'[u] = loc[u]
         /\ \A u \in AllTasks :
              u # t /\ ~ (InFork(loc[t]) /\ u = loc[t].child) => task'[u] = task[u]
         /\ \/ started' = started
            \/ /\ loc[t].pc = "start" /\ task' = task
               /\ started' = started \cup {loc[t].child}
         /\ \A u \in AllTasks : u # t => (u \in short' <=> u \in short)
<1>0. Control /\ TypeOK /\ LocFits(loc[t], t) BY DEF PInv, Control
<1> DEFINE Left ==
             /\ \A u \in AllTasks :
                  u # t /\ ~ (InFork(loc[t]) /\ u = loc[t].child) => task'[u] = task[u]
             /\ \/ started' = started
                \/ /\ loc[t].pc = "start" /\ task' = task
                   /\ started' = started \cup {loc[t].child}
             /\ \A u \in AllTasks : u # t => (u \in short' <=> u \in short)
<1>1. \A u \in AllTasks : u # t => loc'[u] = loc[u]
  <2>1. CASE GdtAllocDesc(t)
    <3>1. PICK s : \/ loc' = [loc EXCEPT ![t].pc = "name"]
                   \/ loc' = [loc EXCEPT ![t].pc = "stack", ![t].sel = s]
      BY <2>1 DEF GdtAllocDesc, GoTo
    <3> QED BY <1>0, <3>1 DEF TypeOK
  <2>2. CASE AllocStack(t) \/ TssCreateUvm(t)
    BY <1>0, <2>2 DEF AllocStack, TssCreateUvm, GoTo, TypeOK
  <2>3. CASE ~ (GdtAllocDesc(t) \/ AllocStack(t) \/ TssCreateUvm(t))
    <3>1. LeavesDescriptors(t)
      BY <1>0, <2>3, ForkElsewhere, ExecElsewhere, PagesElsewhere DEF Step, Fork
    <3> QED BY <3>1 DEF LeavesDescriptors, Elsewhere
  <2> QED BY <2>1, <2>2, <2>3
<1>2. ASSUME UNCHANGED <<task, started, short>> PROVE Left BY <1>2
<1>3. ASSUME AllocStack(t) \/ TssCreateUvm(t) \/ TaskInit(t) PROVE Left
  <2>1. InFork(loc[t]) /\ UNCHANGED <<started, short>>
    BY <1>3 DEF AllocStack, TssCreateUvm, TaskInit, At, InFork
  <2>2. \A u \in AllTasks : u # loc[t].child => task'[u] = task[u]
    BY <1>0, <1>3 DEF AllocStack, TssCreateUvm, TaskInit, TypeOK
  <2> QED BY <2>1, <2>2
<1>4. ASSUME CopyCreateUvm(t) \/ CopyDone(t) \/ CopyFailed(t) PROVE Left
  <2>1. InFork(loc[t]) /\ UNCHANGED <<started, short>>
    BY <1>4 DEF CopyCreateUvm, CopyDone, CopyFailed, At, InFork
  <2>2. PICK d : UNCHANGED task \/ task' = [task EXCEPT ![loc[t].child].cr3 = d]
    BY <1>4 DEF CopyCreateUvm, CopyDone, CopyFailed, SetCr3
  <2>3. \A u \in AllTasks : u # loc[t].child => task'[u] = task[u]
    BY <1>0, <2>2 DEF TypeOK
  <2> QED BY <2>1, <2>3
<1>5. ASSUME StartChild(t) PROVE Left BY <1>5 DEF StartChild, At
<1>6. ASSUME ExecName(t) PROVE Left
  <2>1. PICK n : task' = [task EXCEPT ![t].named = n] BY <1>6 DEF ExecName
  <2> QED BY <1>0, <1>6, <2>1 DEF ExecName, TypeOK
<1>7. ASSUME ExecLoaded(t) \/ ExecLoadFailed(t) \/ ExecSwap(t) \/ ExecFailed(t) PROVE Left
  BY <1>0, <1>7 DEF ExecLoaded, ExecLoadFailed, ExecSwap, ExecFailed, TypeOK
<1>8. ASSUME Sbrk(t) PROVE Left
  <2>1. PICK h : UNCHANGED task \/ task' = [task EXCEPT ![t].heapEnd = h]
    BY <1>8 DEF Sbrk, SbrkInPage, SbrkPages, SbrkDone
  <2>2. \A u \in AllTasks : u # t => task'[u] = task[u] BY <1>0, <2>1 DEF TypeOK
  <2>3. started' = started /\ \A u : u # t => (u \in short' <=> u \in short)
    BY <1>8 DEF Sbrk, SbrkInPage, SbrkPages, SbrkDone
  <2> QED BY <2>2, <2>3
<1>9. ASSUME \/ AllocTask(t) \/ GdtAllocDesc(t) \/ CopyPage(t) \/ CopyMap(t) \/ SwitchToBroken(t)
             \/ ExecCreateUvm(t) \/ DestroyUvm(t) \/ AllocFor(t) \/ MapFor(t)
      PROVE  Left
  <2>1. UNCHANGED <<task, started, short>>
    BY <1>9 DEF AllocTask, GdtAllocDesc, CopyPage, CopyMap, SwitchToBroken, ExecCreateUvm,
                DestroyUvm, AllocFor, MapFor
  <2> QED BY <1>2, <2>1
<1>10. Left
  BY <1>3, <1>4, <1>5, <1>6, <1>7, <1>8, <1>9 DEF Step, Fork, Exec
<1> QED BY <1>1, <1>10

(* The page that memory_create_map maps is there afterwards, and every     *)
(* other page is where it was.                                             *)
Gains(d, v) ==
  /\ v \in UserPage
  /\ Has(entry', d) = Has(entry, d) \cup {v}
  /\ \A w \in Has(entry, d) : PageIn(entry', d, w) = PageIn(entry, d, w)

LEMMA MapGains ==
  ASSUME TypeOK, Owned, NEW t \in AllTasks, NEW d, MapsOwn(t, d),
         NEW v \in UserPage, CreateMap(d, v, loc[t].page), v \notin Has(entry, d)
  PROVE  Gains(d, v)
<1>1. PICK W : Walks(t, d, W)
  <2>1. CASE d = task[t].cr3 BY <2>1 DEF Walks
  <2>2. CASE d # task[t].cr3 BY <2>2 DEF Walks
  <2> QED BY <2>1, <2>2
<1>2. PICK p \in 0 .. LastPosition, r \in 0 .. LastPosition :
        p = PagePos(v) /\ r = Pos(PdeIndex(v), EntryCnt)
  BY PagePosIsPlace, TablePos
<1>3. PICK b \in Place, z \in Place :
        b = W[PagePos(v)] /\ z = W[Pos(PdeIndex(v), EntryCnt)]
  BY <1>1, <1>2, WalksAre
<1>4. \A q \in 0 .. LastPosition : FrameAt(W[q]) = Tree(entry, d, 0, q)
                                   /\ FrameAt(W[q])' = Tree(entry', d, 0, q)
  BY <1>1, WalksTree
<1>5. FrameAt(b) = NoFrame BY <1>2, <1>3, <1>4 DEF Has, PageIn
<1>6. /\ FrameAt(b)' = loc[t].page
      /\ \A x \in Place : x # PageOf(t) /\ x # b /\ x # z => FrameAt(x)' = FrameAt(x)
  BY <1>1, <1>3, <1>5, MapsPage
<1>7. PageIn(entry', d, v) # NoFrame
  <2>1. loc[t].page # NoFrame BY MemoryAssumption DEF MapsOwn, NoFrame
  <2>2. PageIn(entry', d, v) = FrameAt(b)' BY <1>2, <1>3, <1>4 DEF PageIn
  <2> QED BY <1>6, <2>1, <2>2
<1>8. ASSUME NEW w \in UserPage, w # v PROVE PageIn(entry', d, w) = PageIn(entry, d, w)
  <2>1. PICK q \in 0 .. LastPosition : q = PagePos(w) BY PagePosIsPlace
  <2>2. q # p /\ q # r BY <1>2, <1>8, <2>1, PageOfPos, TablePos
  <2>3. W[q] \in Place /\ W[q] # PageOf(t) /\ W[q] # b /\ W[q] # z
    BY <1>1, <1>2, <1>3, <2>2, WalksAre
  <2>4. FrameAt(W[q])' = FrameAt(W[q]) BY <1>6, <2>3
  <2> QED BY <1>4, <2>1, <2>4 DEF PageIn
<1>9. Has(entry', d) = Has(entry, d) \cup {v} BY <1>7, <1>8 DEF Has
<1>10. \A w \in Has(entry, d) : w \in UserPage /\ w # v BY DEF Has
<1> QED BY <1>8, <1>9, <1>10 DEF Gains

LEMMA CopyGains ==
  ASSUME PInv, Ordered, NEW t \in AllTasks, CopyMap(t), ~ NoTable(loc[t].dir, loc[t].at)
  PROVE  Gains(loc[t].dir, loc[t].at)
<1>0. Control /\ TypeOK /\ Owned /\ LocFits(loc[t], t) BY DEF PInv, Control
<1>1. PICK d, v, k, f : d = loc[t].dir /\ v = loc[t].at /\ k = v + 1 /\ f = loc[t].page
  OBVIOUS
<1>2. /\ loc[t].pc = "copyMap" /\ CreateMap(d, v, f)
      /\ loc' = [loc EXCEPT ![t].pc = "copyPage", ![t].page = NoFrame, ![t].at = k]
      /\ UNCHANGED <<task, dropped>>
  BY <1>1 DEF CopyMap, At
<1>3. v \in UserPage /\ d # NoFrame /\ d # task[t].cr3 /\ f # NoFrame
  BY <1>0, <1>1, <1>2 DEF LocFits, OwnDir
<1>4. d \in Frame /\ f \in Frame BY <1>0, <1>1, <1>3 DEF TypeOK, LocRec
<1>5. /\ loc'[t].pc = "copyPage" /\ loc'[t].page = NoFrame /\ loc'[t].dir = d
      /\ \A u \in AllTasks : u # t => loc'[u] = loc[u]
  BY <1>0, <1>1, <1>2 DEF TypeOK, LocRec
<1>6. MapsOwn(t, d) BY <1>1, <1>2, <1>4, <1>5 DEF MapsOwn
<1>7. v \notin Has(entry, d)
  <2>1. v \in Int BY MemoryAssumption, <1>3 DEF UserPage
  <2>2. FrameAt(CallAt(t, PagePos(v))) = NoFrame
    BY <1>1, <1>2, <1>3, <2>1 DEF PInv, CopyIsAhead
  <2>3. AtPlaces BY AtPlacesHold
  <2>4. CallDir(t) = d /\ CallFrom(t) = 0 BY <1>1, <1>2, <1>3 DEF CallDir, CallFrom
  <2> QED BY <1>3, <2>2, <2>3, <2>4, PagePosIsPlace DEF AtPlaces, Has, PageIn
<1>8. Gains(d, v) BY <1>0, <1>1, <1>2, <1>3, <1>6, <1>7, MapGains
<1> QED BY <1>1, <1>8

LEMMA ForGains ==
  ASSUME PInv, Ordered, NEW t \in AllTasks, MapFor(t),
         ~ IsPresent(loc[t].dir, loc[t].at), ~ NoTable(loc[t].dir, loc[t].at)
  PROVE  Gains(loc[t].dir, loc[t].at)
<1>0. Control /\ TypeOK /\ Owned /\ LocFits(loc[t], t) BY DEF PInv, Control
<1>1. PICK d, v, k, f : d = loc[t].dir /\ v = loc[t].at /\ k = v + 1 /\ f = loc[t].page
  OBVIOUS
<1>2. /\ loc[t].pc = "map" /\ CreateMap(d, v, f)
      /\ loc' = [loc EXCEPT ![t].pc = "alloc", ![t].page = NoFrame, ![t].at = k]
      /\ UNCHANGED <<task, dropped>>
  BY <1>1 DEF MapFor, At
<1>3. v \in UserPage
  <2>1. v \in Nat /\ loc[t].end \in Nat BY <1>0, <1>1 DEF TypeOK, LocRec
  <2>2. v < loc[t].end /\ loc[t].end <= LastPage + 1 BY <1>0, <1>1, <1>2 DEF LocFits
  <2>3. ~ (v < Base) BY <1>1 DEF IsPresent
  <2> QED BY <2>1, <2>2, <2>3, MapsUserPage
<1>4. d \in Frame /\ f \in Frame
  <2>1. f # NoFrame BY <1>0, <1>1, <1>2 DEF LocFits
  <2>2. OwnDir(loc[t]) \/ HeapDir(loc[t]) BY <1>0, <1>2 DEF LocFits, OwnDir, HeapDir
  <2>3. d # NoFrame BY <1>0, <1>1, <1>2, <2>2 DEF LocFits
  <2> QED BY <1>0, <1>1, <2>1, <2>3 DEF TypeOK, LocRec
<1>5. /\ loc'[t].pc = "alloc" /\ loc'[t].page = NoFrame /\ loc'[t].dir = d
      /\ \A u \in AllTasks : u # t => loc'[u] = loc[u]
  BY <1>0, <1>1, <1>2 DEF TypeOK, LocRec
<1>6. MapsOwn(t, d) BY <1>1, <1>2, <1>4, <1>5 DEF MapsOwn
<1>7. v \notin Has(entry, d) BY <1>1, <1>4, PagesAreHold DEF IsPresent
<1>8. Gains(d, v) BY <1>0, <1>1, <1>2, <1>3, <1>6, <1>7, MapGains
<1> QED BY <1>1, <1>8

OwnPages(t) == ForkPages(t) /\ ExecPages(t) /\ HeapPages(t)

-----------------------------------------------------------------------------
(* Units and pages.                                                        *)
LEMMA UnitsPages ==
  ASSUME NEW v \in Nat, NEW u \in Nat
  PROVE  v * PageUnits < u <=> v < PagesUpTo(u)
<1>1. PICK b \in Nat \ {0} : b = PageUnits BY ProcessAssumption
<1>2. PICK p \in Nat : p = u + b - 1 BY <1>1
<1>3. PICK q \in Nat, r \in Nat : q = p \div b /\ r < b /\ p = b * q + r
  BY <1>1, <1>2, DivMod
<1>4. b * q \in Nat /\ b * v \in Nat /\ b * (v + 1) = b * v + b /\ v * b = b * v
  BY <1>1, <1>3
<1>5. ASSUME v < q PROVE v * b < u
  <2>1. b * (v + 1) <= b * q BY <1>1, <1>3, <1>5, TimesGrows
  <2> QED BY <1>1, <1>2, <1>3, <1>4, <2>1
<1>6. ASSUME q <= v PROVE u <= v * b
  <2>1. b * q <= b * v BY <1>1, <1>3, <1>6, TimesGrows
  <2> QED BY <1>1, <1>2, <1>3, <1>4, <2>1
<1>7. PagesUpTo(u) = q BY <1>1, <1>2, <1>3 DEF PagesUpTo
<1>8. v * b \in Nat BY <1>4
<1> QED BY <1>1, <1>3, <1>5, <1>6, <1>7, <1>8

LEMMA UnitsInPage ==
  ASSUME NEW v \in Nat, NEW h \in Nat, NEW n \in Nat,
         h % PageUnits # 0, (h % PageUnits) + n <= PageUnits, v * PageUnits < h + n
  PROVE  v * PageUnits < h
<1>1. PICK b \in Nat \ {0} : b = PageUnits BY ProcessAssumption
<1>2. PICK q \in Nat, r \in Nat : q = h \div b /\ r = h % b /\ r < b /\ h = b * q + r
  BY <1>1, DivMod
<1>3. b * q \in Nat /\ b * v \in Nat /\ b * (q + 1) = b * q + b /\ v * b = b * v
  BY <1>1, <1>2
<1>4. r # 0 /\ r + n <= b /\ v * b < h + n BY <1>1, <1>2
<1>5. v <= q
  <2>1. SUFFICES ASSUME q + 1 <= v PROVE FALSE BY <1>2
  <2>2. b * (q + 1) <= b * v BY <1>1, <1>2, <2>1, TimesGrows
  <2> QED BY <1>1, <1>2, <1>3, <1>4, <2>2
<1>6. b * v <= b * q BY <1>1, <1>2, <1>5, TimesGrows
<1>7. v * b < h BY <1>1, <1>2, <1>3, <1>4, <1>6
<1> QED BY <1>1, <1>7

LEMMA PageIsNat == ASSUME NEW v \in UserPage PROVE v \in Nat /\ Base <= v /\ v * PageUnits \in Nat
BY MemoryAssumption, ProcessAssumption DEF UserPage

LEMMA FullIsUpTo ==
  ASSUME NEW e, NEW d, NEW u \in Nat
  PROVE  Full(e, d, u) <=> UpTo(e, d, PagesUpTo(u))
BY PageIsNat, UnitsPages DEF Full, UpTo

(* Nothing is missing below the pages of programs.                         *)
LEMMA NoneBefore == ASSUME NEW e, NEW d PROVE UpTo(e, d, Base)
<1>1. ASSUME NEW v \in UserPage PROVE ~ (v < Base)
  <2>1. v \in Nat /\ Base <= v BY PageIsNat
  <2> QED BY <2>1, MemoryAssumption
<1> QED BY <1>1 DEF UpTo

LEMMA NoneInKernel ==
  ASSUME NEW e, NEW d, NEW u \in Nat, u <= 1
  PROVE  Full(e, d, u)
<1>1. ASSUME NEW v \in UserPage PROVE ~ (v * PageUnits < u)
  <2>1. PICK b \in Nat \ {0} : b = PageUnits BY ProcessAssumption
  <2>2. PICK c \in Nat \ {0} : c = Base BY MemoryAssumption
  <2>3. v \in Nat /\ c <= v BY <2>2, PageIsNat
  <2>4. b * 1 <= b * v BY <2>1, <2>2, <2>3, TimesGrows
  <2>5. v * b = b * v /\ b * 1 = b /\ b * v \in Nat BY <2>1, <2>3
  <2>6. ~ (v * b < u) BY <2>1, <2>4, <2>5
  <2> QED BY <2>1, <2>6
<1> QED BY <1>1 DEF Full

-----------------------------------------------------------------------------
LEMMA PagesStart == Init => PagesInv
<1> SUFFICES ASSUME Init, NEW t \in AllTasks PROVE OwnPages(t) BY DEF PagesInv, OwnPages
<1>1. loc[t] = IdleLoc /\ started = {First} BY DEF Init
<1>2. task[First].heapEnd = 1
  <2>1. PICK s \in Frame, d \in Frame, tb \in Frame, p \in Frame, sel \in Sel :
          StartsAs(s, d, tb, p, sel)
    BY InitStarts
  <2>2. First \in AllTasks BY DEF AllTasks
  <2> QED BY <2>1, <2>2 DEF StartsAs
<1>3. ForkPages(t) /\ ExecPages(t)
  BY <1>1 DEF ForkPages, ExecPages, InFork, IdleLoc, Maps, InArgs
<1>4. Full(entry, task[First].cr3, 1) BY NoneInKernel
<1>5. HeapPages(t) BY <1>1, <1>2, <1>4 DEF HeapPages, IdleLoc, Maps, InArgs
<1> QED BY <1>3, <1>5 DEF OwnPages

LEMMA StepStarted == ASSUME NEW t \in AllTasks, Step(t) PROVE t \in started
<1>1. CASE Fork(t)
  BY <1>1 DEF Fork, AllocTask, GdtAllocDesc, AllocStack, TssCreateUvm, TaskInit, CopyCreateUvm,
              CopyPage, CopyMap, CopyDone, CopyFailed, StartChild, SwitchToBroken, CanRun, At
<1>2. CASE Exec(t)
  BY <1>2 DEF Exec, ExecName, ExecCreateUvm, ExecLoaded, ExecLoadFailed, ExecSwap, ExecFailed,
              CanRun, At
<1>3. CASE Sbrk(t) BY <1>3 DEF Sbrk, SbrkInPage, SbrkPages, SbrkDone, CanRun, At
<1>4. CASE DestroyUvm(t) \/ AllocFor(t) \/ MapFor(t)
  BY <1>4 DEF DestroyUvm, AllocFor, MapFor, At
<1> QED BY <1>1, <1>2, <1>3, <1>4 DEF Step

(* A step of t leaves what other tasks have, and what their calls build.   *)
LEMMA OtherPages ==
  ASSUME PInv, Ordered, PagesInv, NEW t \in AllTasks, Step(t), NEW u \in AllTasks, u # t
  PROVE  OwnPages(u)'
<1>0. Control /\ LocFits(loc[u], u) BY DEF PInv, Control
<1>1. OwnPages(u) BY DEF PagesInv, OwnPages
<1>2. loc'[u] = loc[u] /\ (u \in short' <=> u \in short) BY OthersLeft
<1>3. CASE InFork(loc[t]) /\ u = loc[t].child
  <2>1. loc[u] = IdleLoc BY <1>0, <1>3, ChildOf
  <2>2. ForkPages(u)' /\ ExecPages(u)'
    BY <1>2, <2>1 DEF ForkPages, ExecPages, InFork, IdleLoc, Maps, InArgs
  <2>3. CASE u \in started'
    <3>1. loc[t].pc = "start" /\ task' = task BY <1>0, <1>3, <2>3, ChildOf, OthersLeft
    <3>2. task[u].heapEnd = 0 BY <1>3, <3>1 DEF PagesInv, ForkPages
    <3>3. Full(entry', task'[u].cr3, task'[u].heapEnd) BY <3>1, <3>2, NoneInKernel
    <3>4. HeapPages(u)' BY <1>2, <2>1, <3>3 DEF HeapPages, IdleLoc, Maps, InArgs
    <3> QED BY <2>2, <3>4 DEF OwnPages
  <2>4. CASE u \notin started' BY <2>2, <2>4 DEF OwnPages, HeapPages
  <2> QED BY <2>3, <2>4
<1>4. CASE ~ (InFork(loc[t]) /\ u = loc[t].child)
  <2>1. task'[u] = task[u] BY <1>4, OthersLeft
  <2>2. u \in started' <=> u \in started
    <3>1. loc[t].pc = "start" => InFork(loc[t]) BY DEF InFork
    <3> QED BY <1>4, <3>1, OthersLeft
  <2>3. Has(entry', task[u].cr3) = Has(entry, task[u].cr3) BY SpacesLeft, SameHas
  <2>4. OwnDir(loc[u]) /\ loc[u].pc # "destroy" =>
          Has(entry', loc[u].dir) = Has(entry, loc[u].dir)
    BY SpacesLeft, SameHas
  <2>5. ForkPages(u)'
    <3>1. CASE ~ InFork(loc[u]) BY <1>2, <3>1 DEF ForkPages, InFork
    <3>2. CASE InFork(loc[u])
      <4>1. PICK c \in AllTasks : c = loc[u].child BY <1>0, <3>2, ChildOf
      <4>2. c # t /\ ~ InFork(loc[t]) BY <1>0, <3>2, <4>1, ChildOf, StepStarted
      <4>3. task'[c] = task[c] BY <4>2, OthersLeft
      <4>4. Has(entry', task[c].cr3) = Has(entry, task[c].cr3) BY <4>2, SpacesLeft, SameHas
      <4>5. loc[u].pc \in {"copyPage", "copyMap"} => OwnDir(loc[u]) BY DEF OwnDir
      <4>6. ForkPages(u) BY <1>1 DEF OwnPages
      <4> QED BY <1>2, <2>1, <2>3, <2>4, <4>1, <4>3, <4>4, <4>5, <4>6 DEF ForkPages, InFork
    <3> QED BY <3>1, <3>2
  <2>6. ExecPages(u)'
    <3>1. Maps(loc[u], "loaded") \/ loc[u].pc = "loaded" \/ InArgs(loc[u]) =>
            OwnDir(loc[u]) /\ loc[u].pc # "destroy"
      BY DEF OwnDir, Maps, InArgs
    <3>2. ExecPages(u) BY <1>1 DEF OwnPages
    <3> QED BY <1>2, <2>1, <2>4, <3>1, <3>2 DEF ExecPages, Full, UpTo, Maps, InArgs
  <2>7. HeapPages(u)'
    BY <1>1, <1>2, <2>1, <2>2, <2>3 DEF OwnPages, HeapPages, Full, UpTo, Maps, InArgs
  <2> QED BY <2>5, <2>6, <2>7 DEF OwnPages
<1> QED BY <1>3, <1>4

-----------------------------------------------------------------------------
(* The steps of fork.                                                      *)
LEMMA HeapStays ==
  ASSUME PInv, Ordered, PagesInv, NEW t \in AllTasks, Step(t),
         ~ Grows(t), ~ InArgs(loc[t]), loc[t].pc # "pannic",
         task'[t].cr3 = task[t].cr3, task'[t].heapEnd = task[t].heapEnd,
         t \in short => t \in short',
         loc'[t].pc # "grown", ~ Maps(loc[t], "grown")'
  PROVE  HeapPages(t)'
<1>1. t \in started BY StepStarted
<1>2. Has(entry', task[t].cr3) = Has(entry, task[t].cr3) BY SpacesLeft, SameHas
<1>3. HeapPages(t) BY DEF PagesInv
<1> QED BY <1>1, <1>2, <1>3 DEF HeapPages, Full

LEMMA IdlePages ==
  ASSUME NEW t,
         loc'[t].pc \in {"run", "desc", "stack", "uvm", "name", "copyUvm", "copyFailed",
                         "destroy", "pannic", "exec"},
         InFork(loc[t])' /\ loc'[t].pc \notin {"desc", "stack", "uvm", "name"} =>
           task'[loc'[t].child].heapEnd = 0
  PROVE  ForkPages(t)' /\ ExecPages(t)'
BY DEF ForkPages, ExecPages, Maps, InArgs

LEMMA ForkHeap ==
  ASSUME PInv, Ordered, PagesInv, NEW t \in AllTasks, Fork(t)
  PROVE  HeapPages(t)'
<1>0. Control /\ TypeOK BY DEF PInv, Control
<1> DEFINE pcs == {"run", "desc", "stack", "uvm", "name", "copyUvm", "copyPage", "copyMap",
                   "copyFailed", "start", "destroy"}
<1>1. loc[t].pc \in pcs \ {"destroy"}
  BY DEF Fork, AllocTask, GdtAllocDesc, AllocStack, TssCreateUvm, TaskInit, CopyCreateUvm,
         CopyPage, CopyMap, CopyDone, CopyFailed, StartChild, SwitchToBroken, CanRun, At
<1>2. loc'[t].pc \in pcs
  <2>1. CASE AllocTask(t) \/ GdtAllocDesc(t)
    <3>1. PICK c : \/ loc' = [loc EXCEPT ![t].pc = "desc", ![t].child = c]
                   \/ loc' = [loc EXCEPT ![t].pc = "name"]
                   \/ loc' = [loc EXCEPT ![t].pc = "stack", ![t].sel = c]
      BY <2>1 DEF AllocTask, GdtAllocDesc, GoTo
    <3> QED BY <1>0, <3>1 DEF TypeOK, LocRec
  <2>2. CASE AllocStack(t) \/ TssCreateUvm(t) \/ TaskInit(t) \/ StartChild(t)
    BY <1>0, <2>2 DEF AllocStack, TssCreateUvm, TaskInit, StartChild, GoTo, EndCall, IdleLoc,
                      TypeOK, LocRec
  <2>3. CASE CopyCreateUvm(t) \/ CopyPage(t) \/ CopyMap(t) \/ CopyDone(t) \/ CopyFailed(t)
    <3>1. PICK l : \/ loc' = [loc EXCEPT ![t].pc = "start"]
                   \/ loc' = [loc EXCEPT ![t].pc = "start", ![t].dir = NoFrame]
                   \/ loc' = [loc EXCEPT ![t].pc = "copyPage", ![t].dir = l, ![t].at = Base]
                   \/ loc' = [loc EXCEPT ![t].pc = "copyPage", ![t].page = NoFrame, ![t].at = l]
                   \/ loc' = [loc EXCEPT ![t].pc = "copyMap", ![t].page = FirstFree, ![t].at = l]
                   \/ loc' = [loc EXCEPT ![t].pc = "destroy", ![t].at = 0,
                                         ![t].then = "copyFailed"]
                   \/ loc' = [loc EXCEPT ![t].pc = "destroy", ![t].page = NoFrame, ![t].at = 0,
                                         ![t].then = "copyFailed"]
      BY <2>3 DEF CopyCreateUvm, CopyPage, CopyMap, CopyDone, CopyFailed, GoTo
    <3> QED BY <1>0, <3>1 DEF TypeOK, LocRec
  <2>4. CASE SwitchToBroken(t) BY <1>1, <2>4 DEF SwitchToBroken
  <2> QED BY <2>1, <2>2, <2>3, <2>4 DEF Fork
<1>3. task'[t] = task[t] /\ UNCHANGED short
  <2>1. CASE UNCHANGED <<task, short>> BY <2>1
  <2>2. CASE AllocStack(t) \/ TssCreateUvm(t) \/ TaskInit(t)
    <3>1. InFork(loc[t]) BY <2>2 DEF AllocStack, TssCreateUvm, TaskInit, At, InFork
    <3>2. loc[t].child # t BY <1>0, <3>1, ChildOf
    <3> QED BY <1>0, <2>2, <3>2 DEF AllocStack, TssCreateUvm, TaskInit, TypeOK
  <2>3. CASE CopyCreateUvm(t) \/ CopyDone(t) \/ CopyFailed(t)
    <3>1. InFork(loc[t]) BY <2>3 DEF CopyCreateUvm, CopyDone, CopyFailed, At, InFork
    <3>2. loc[t].child # t BY <1>0, <3>1, ChildOf
    <3>3. PICK d : UNCHANGED task \/ task' = [task EXCEPT ![loc[t].child].cr3 = d]
      BY <2>3 DEF CopyCreateUvm, CopyDone, CopyFailed, SetCr3
    <3>4. UNCHANGED short BY <2>3 DEF CopyCreateUvm, CopyDone, CopyFailed
    <3> QED BY <1>0, <3>2, <3>3, <3>4 DEF TypeOK
  <2>4. CASE \/ AllocTask(t) \/ GdtAllocDesc(t) \/ CopyPage(t) \/ CopyMap(t) \/ StartChild(t)
             \/ SwitchToBroken(t)
    BY <2>4 DEF AllocTask, GdtAllocDesc, CopyPage, CopyMap, StartChild, SwitchToBroken
  <2> QED BY <2>2, <2>3, <2>4 DEF Fork
<1> QED BY <1>1, <1>2, <1>3, HeapStays DEF Step, Grows, InArgs, Maps

(* The child has no heap, from task_init until it runs.                    *)
LEMMA ChildHeapless ==
  ASSUME PagesInv, NEW t \in AllTasks, InFork(loc[t]),
         loc[t].pc \notin {"desc", "stack", "uvm", "name"}
  PROVE  task[loc[t].child].heapEnd = 0
BY DEF PagesInv, ForkPages

(* The directory of a new address space has no pages.                      *)
LEMMA NewHasNone ==
  ASSUME TypeOK, NEW f, CreateUvm(f)
  PROVE  f \in Frame /\ Has(entry', f) = {}
<1>1. PICK g : g = entry' OBVIOUS
<1>2. f \in Frame /\ f # NoFrame BY FreshFrame DEF CreateUvm
<1>3. g[f] = Zeroed BY <1>1, <1>2 DEF CreateUvm, TypeOK, Entries
<1>4. \A q \in 0 .. LastPosition : Tree(g, f, 0, q) = IF q = LastPosition THEN f ELSE NoFrame
  BY <1>2, <1>3, TreeOfNew
<1>5. ASSUME NEW v \in UserPage PROVE PageIn(g, f, v) = NoFrame
  <2>1. PICK q \in 0 .. LastPosition : q = PagePos(v) /\ q < LastPosition BY PagePosIsPlace
  <2>2. q # LastPosition BY <2>1, LastIsPlace
  <2> QED BY <1>4, <2>1, <2>2 DEF PageIn
<1> QED BY <1>1, <1>2, <1>5 DEF Has

LEMMA CopyStarts ==
  ASSUME PInv, Ordered, PagesInv, NEW t \in AllTasks, CopyCreateUvm(t)
  PROVE  ForkPages(t)' /\ ExecPages(t)'
<1>0. Control /\ TypeOK /\ loc[t].pc = "copyUvm" /\ InFork(loc[t])
  BY DEF PInv, Control, CopyCreateUvm, At, InFork
<1>1. PICK c \in AllTasks : c = loc[t].child /\ c # t BY <1>0, ChildOf
<1>2. task[c].heapEnd = 0 BY <1>0, <1>1, ChildHeapless
<1>3. CASE Free = {}
  <2>1. /\ task' = [task EXCEPT ![c].cr3 = NoFrame]
        /\ loc' = [loc EXCEPT ![t].pc = "start"]
    BY <1>1, <1>3 DEF CopyCreateUvm, SetCr3, GoTo
  <2>2. loc'[t].pc = "start" /\ loc'[t].child = c BY <1>0, <1>1, <2>1 DEF TypeOK, LocRec
  <2>3. task'[c].cr3 = NoFrame /\ task'[c].heapEnd = 0
    BY <1>0, <1>1, <1>2, <2>1 DEF TypeOK, TaskRec
  <2> QED BY <2>2, <2>3 DEF ForkPages, ExecPages, Maps, InArgs
<1>4. CASE Free # {}
  <2>1. PICK f : /\ CreateUvm(f) /\ UNCHANGED task
                 /\ loc' = [loc EXCEPT ![t].pc = "copyPage", ![t].dir = f, ![t].at = Base]
    BY <1>4 DEF CopyCreateUvm
  <2>2. loc'[t].pc = "copyPage" /\ loc'[t].child = c /\ loc'[t].dir = f /\ loc'[t].at = Base
    BY <1>0, <1>1, <2>1 DEF TypeOK, LocRec
  <2>3. Has(entry', f) = {} BY <1>0, <2>1, NewHasNone
  <2>4. ASSUME NEW v \in Has(entry', task'[t].cr3) PROVE ~ (v < Base)
    <3>1. v \in UserPage BY DEF Has
    <3>2. v \in Nat /\ Base <= v BY <3>1, PageIsNat
    <3> QED BY <3>2, MemoryAssumption
  <2> QED BY <1>2, <2>1, <2>2, <2>3, <2>4 DEF ForkPages, ExecPages, Maps, InArgs
<1> QED BY <1>3, <1>4

LEMMA CopyGoesOn ==
  ASSUME PInv, Ordered, PagesInv, NEW t \in AllTasks, CopyPage(t)
  PROVE  ForkPages(t)' /\ ExecPages(t)'
<1>0. Control /\ TypeOK /\ loc[t].pc = "copyPage" /\ InFork(loc[t]) /\ LocFits(loc[t], t)
  BY DEF PInv, Control, CopyPage, At, InFork
<1>1. PICK c \in AllTasks : c = loc[t].child /\ c # t BY <1>0, ChildOf
<1>2. task[c].heapEnd = 0 BY <1>0, <1>1, ChildHeapless
<1>3. UNCHANGED <<task, entry>> BY DEF CopyPage
<1>4. CASE Free = {}
  <2>1. loc' = [loc EXCEPT ![t].pc = "destroy", ![t].at = 0, ![t].then = "copyFailed"]
    BY <1>4 DEF CopyPage
  <2>2. loc'[t].pc = "destroy" /\ loc'[t].child = c BY <1>0, <1>1, <2>1 DEF TypeOK, LocRec
  <2> QED BY <1>2, <1>3, <2>2, IdlePages
<1>5. CASE Free # {}
  <2>1. PICK v : /\ v \in ToCopy(t) /\ \A w \in ToCopy(t) : v <= w
                 /\ loc' = [loc EXCEPT ![t].pc = "copyMap", ![t].page = FirstFree, ![t].at = v]
    BY <1>5, NextToCopy DEF CopyPage
  <2>2. /\ loc'[t].pc = "copyMap" /\ loc'[t].child = c /\ loc'[t].dir = loc[t].dir
        /\ loc'[t].at = v
    BY <1>0, <1>1, <2>1 DEF TypeOK, LocRec
  <2>3. task[t].cr3 \in Frame BY <1>0 DEF LocFits, TypeOK, TaskRec
  <2>4. PICK own : own = Has(entry, task[t].cr3) OBVIOUS
  <2>5. ToCopy(t) = {w \in own : w >= loc[t].at} BY <2>3, <2>4, PagesAreHold DEF ToCopy
  <2>6. \A w \in own : w \in Nat BY <2>4, PageIsNat DEF Has
  <2>7. loc[t].at \in Nat BY <1>0 DEF TypeOK, LocRec
  <2>8. {w \in own : w < loc[t].at} = {w \in own : w < v}
    <3>1. v \in own /\ v >= loc[t].at BY <2>1, <2>5
    <3>2. \A w \in own : w < v => w < loc[t].at BY <2>1, <2>5, <2>6, <2>7, <3>1
    <3>3. \A w \in own : w < loc[t].at => w < v BY <2>6, <2>7, <3>1
    <3> QED BY <3>2, <3>3
  <2>9. Has(entry, loc[t].dir) = {w \in own : w < loc[t].at}
    BY <1>0, <2>4 DEF PagesInv, ForkPages
  <2> QED BY <1>2, <1>3, <2>1, <2>2, <2>4, <2>5, <2>8, <2>9 DEF ForkPages, ExecPages, Maps, InArgs
<1> QED BY <1>4, <1>5

LEMMA CopyAdds ==
  ASSUME PInv, Ordered, PagesInv, NEW t \in AllTasks, CopyMap(t)
  PROVE  ForkPages(t)' /\ ExecPages(t)'
<1>0. Control /\ TypeOK /\ loc[t].pc = "copyMap" /\ InFork(loc[t]) /\ LocFits(loc[t], t)
  BY DEF PInv, Control, CopyMap, At, InFork
<1>1. PICK c \in AllTasks : c = loc[t].child /\ c # t BY <1>0, ChildOf
<1>2. task[c].heapEnd = 0 BY <1>0, <1>1, ChildHeapless
<1>3. UNCHANGED task BY DEF CopyMap
<1>4. CASE NoTable(loc[t].dir, loc[t].at)
  <2>1. loc' = [loc EXCEPT ![t].pc = "destroy", ![t].page = NoFrame, ![t].at = 0,
                           ![t].then = "copyFailed"]
    BY <1>4 DEF CopyMap
  <2>2. loc'[t].pc = "destroy" /\ loc'[t].child = c BY <1>0, <1>1, <2>1 DEF TypeOK, LocRec
  <2> QED BY <1>2, <1>3, <2>2, IdlePages
<1>5. CASE ~ NoTable(loc[t].dir, loc[t].at)
  <2>1. PICK d, v, k : d = loc[t].dir /\ v = loc[t].at /\ k = v + 1 OBVIOUS
  <2>2. loc' = [loc EXCEPT ![t].pc = "copyPage", ![t].page = NoFrame, ![t].at = k]
    BY <1>5, <2>1 DEF CopyMap
  <2>3. loc'[t].pc = "copyPage" /\ loc'[t].child = c /\ loc'[t].dir = d /\ loc'[t].at = k
    BY <1>0, <1>1, <2>1, <2>2 DEF TypeOK, LocRec
  <2>4. Gains(d, v) BY <1>5, <2>1, CopyGains
  <2>5. PICK own : own = Has(entry, task[t].cr3) OBVIOUS
  <2>6. Has(entry', task[t].cr3) = own
    BY <1>0, <2>5, SpacesLeft, SameHas DEF Step, Fork, Grows
  <2>7. Has(entry, d) = {w \in own : w < v} /\ v \in own
    BY <1>0, <2>1, <2>5 DEF PagesInv, ForkPages
  <2>8. \A w \in own : w \in Nat BY <2>5, PageIsNat DEF Has
  <2>9. {w \in own : w < v} \cup {v} = {w \in own : w < k} BY <2>1, <2>7, <2>8
  <2>10. Has(entry', d) = {w \in own : w < k} BY <2>4, <2>7, <2>9 DEF Gains
  <2> QED BY <1>2, <1>3, <2>3, <2>6, <2>10 DEF ForkPages, ExecPages, Maps, InArgs
<1> QED BY <1>4, <1>5

LEMMA CopyEnds ==
  ASSUME PInv, Ordered, PagesInv, NEW t \in AllTasks, CopyDone(t) \/ CopyFailed(t)
  PROVE  ForkPages(t)' /\ ExecPages(t)'
<1>0. /\ Control /\ TypeOK /\ loc[t].pc \in {"copyPage", "copyFailed"} /\ InFork(loc[t])
      /\ LocFits(loc[t], t)
  BY DEF PInv, Control, CopyDone, CopyFailed, At, InFork
<1>1. PICK c \in AllTasks : c = loc[t].child /\ c # t BY <1>0, ChildOf
<1>2. task[c].heapEnd = 0 BY <1>0, <1>1, ChildHeapless
<1>3. PICK d : /\ task' = [task EXCEPT ![c].cr3 = d]
               /\ d = NoFrame \/ (CopyDone(t) /\ d = loc[t].dir)
  BY <1>1 DEF CopyDone, CopyFailed, SetCr3
<1>4. loc'[t].pc = "start" /\ loc'[t].child = c
  BY <1>0, <1>1 DEF CopyDone, CopyFailed, GoTo, TypeOK, LocRec
<1>5. task'[c].cr3 = d /\ task'[c].heapEnd = 0 /\ task'[t] = task[t]
  BY <1>0, <1>1, <1>2, <1>3 DEF TypeOK, TaskRec
<1>6. UNCHANGED entry BY DEF CopyDone, CopyFailed, memVars
<1>7. d = NoFrame \/ Has(entry, d) = Has(entry, task[t].cr3)
  <2>1. SUFFICES ASSUME CopyDone(t), d = loc[t].dir
                 PROVE  Has(entry, d) = Has(entry, task[t].cr3)
    BY <1>3
  <2>2. loc[t].pc = "copyPage" /\ ToCopy(t) = {} BY <2>1 DEF CopyDone, At
  <2>3. task[t].cr3 \in Frame BY <1>0, <2>2 DEF LocFits, TypeOK, TaskRec
  <2>4. PICK own : own = Has(entry, task[t].cr3) OBVIOUS
  <2>5. ToCopy(t) = {w \in own : w >= loc[t].at} BY <2>3, <2>4, PagesAreHold DEF ToCopy
  <2>6. \A w \in own : w \in Nat BY <2>4, PageIsNat DEF Has
  <2>7. loc[t].at \in Nat BY <1>0 DEF TypeOK, LocRec
  <2>8. \A w \in own : w < loc[t].at BY <2>2, <2>5, <2>6, <2>7
  <2>9. Has(entry, d) = {w \in own : w < loc[t].at}
    BY <2>1, <2>2, <2>4 DEF PagesInv, ForkPages
  <2> QED BY <2>4, <2>8, <2>9
<1> QED BY <1>4, <1>5, <1>6, <1>7 DEF ForkPages, ExecPages, Maps, InArgs

LEMMA ForkOwnPages ==
  ASSUME PInv, Ordered, PagesInv, NEW t \in AllTasks, Fork(t)
  PROVE  OwnPages(t)'
<1>0. Control /\ TypeOK BY DEF PInv, Control
<1>1. HeapPages(t)' BY ForkHeap
<1>2. CASE AllocTask(t) \/ GdtAllocDesc(t)
  <2>1. PICK c : \/ loc' = [loc EXCEPT ![t].pc = "desc", ![t].child = c]
                 \/ loc' = [loc EXCEPT ![t].pc = "name"]
                 \/ loc' = [loc EXCEPT ![t].pc = "stack", ![t].sel = c]
    BY <1>2 DEF AllocTask, GdtAllocDesc, GoTo
  <2>2. loc'[t].pc \in {"desc", "name", "stack"} BY <1>0, <2>1 DEF TypeOK, LocRec
  <2> QED BY <1>1, <2>2, IdlePages DEF OwnPages
<1>3. CASE AllocStack(t) \/ TssCreateUvm(t) \/ StartChild(t) \/ SwitchToBroken(t)
  <2>1. loc'[t].pc \in {"name", "uvm", "run"}
    BY <1>0, <1>3 DEF AllocStack, TssCreateUvm, StartChild, SwitchToBroken, At, GoTo, EndCall,
                      IdleLoc, TypeOK, LocRec
  <2> QED BY <1>1, <2>1, IdlePages DEF OwnPages, InFork
<1>4. CASE TaskInit(t)
  <2>1. InFork(loc[t]) BY <1>4 DEF TaskInit, At, InFork
  <2>2. PICK c \in AllTasks : c = loc[t].child BY <1>0, <2>1, ChildOf
  <2>3. loc'[t].pc = "copyUvm" /\ loc'[t].child = c
    BY <1>0, <1>4, <2>2 DEF TaskInit, GoTo, TypeOK, LocRec
  <2>4. task'[c].heapEnd = 0 BY <1>0, <1>4, <2>2 DEF TaskInit, TypeOK, TaskRec
  <2> QED BY <1>1, <2>3, <2>4, IdlePages DEF OwnPages
<1> QED BY <1>1, <1>2, <1>3, <1>4, CopyStarts, CopyGoesOn, CopyAdds, CopyEnds DEF Fork, OwnPages

-----------------------------------------------------------------------------
(* The steps that map pages of programs and heaps.                         *)
LEMMA FullGrows ==
  ASSUME NEW e, NEW g, NEW d, NEW v, Has(g, d) = Has(e, d) \cup {v}
  PROVE  /\ \A u : Full(e, d, u) => Full(g, d, u)
         /\ v \in Nat /\ UpTo(e, d, v) => UpTo(g, d, v + 1)
<1>1. ASSUME v \in Nat, UpTo(e, d, v), NEW w \in UserPage, w < v + 1 PROVE w \in Has(g, d)
  <2>1. w \in Nat BY PageIsNat
  <2>2. w < v \/ w = v BY <1>1, <2>1
  <2> QED BY <1>1, <2>2 DEF UpTo
<1> QED BY <1>1 DEF Full, UpTo

LEMMA AllUpTo ==
  ASSUME NEW e, NEW d, NEW n \in Nat, NEW u \in Nat, UpTo(e, d, n), ~ (n < PagesUpTo(u))
  PROVE  Full(e, d, u)
<1>1. PagesUpTo(u) \in Nat BY PagesFit
<1>2. \A v \in UserPage : v < PagesUpTo(u) => v < n BY <1>1, PageIsNat
<1>3. UpTo(e, d, PagesUpTo(u)) BY <1>2 DEF UpTo
<1> QED BY <1>3, FullIsUpTo

LEMMA AllocOwnPages ==
  ASSUME PInv, Ordered, PagesInv, NEW t \in AllTasks, AllocFor(t)
  PROVE  OwnPages(t)'
<1>0. Control /\ TypeOK /\ LocFits(loc[t], t) /\ Step(t) /\ t \in started
  BY StepStarted DEF PInv, Control, Step
<1>1. PICK l : l = loc[t] /\ l.pc = "alloc" BY DEF AllocFor, At
<1>2. UNCHANGED <<entry, task, started, short>> BY DEF AllocFor
<1>3. l.at \in Nat /\ l.end \in Nat /\ l.newEnd \in Nat /\ l.then \in {"loaded", "args", "grown"}
  BY <1>0, <1>1 DEF LocFits, TypeOK, LocRec
<1>4. ExecPages(t) /\ HeapPages(t) BY DEF PagesInv
<1>5. CASE l.at < l.end /\ Free # {}
  <2>1. loc' = [loc EXCEPT ![t].pc = "map", ![t].page = FirstFree]
    BY <1>1, <1>5 DEF AllocFor
  <2>2. /\ loc'[t].pc = "map" /\ loc'[t].then = l.then /\ loc'[t].dir = l.dir
        /\ loc'[t].at = l.at /\ loc'[t].end = l.end /\ loc'[t].missing = l.missing
        /\ loc'[t].newEnd = l.newEnd
    BY <1>0, <1>1, <2>1 DEF TypeOK, LocRec
  <2>3. ForkPages(t)' BY <2>2 DEF ForkPages, InFork
  <2>4. ExecPages(t)' BY <1>1, <1>2, <1>4, <2>2 DEF ExecPages, Maps, InArgs
  <2>5. HeapPages(t)' BY <1>1, <1>2, <1>4, <2>2 DEF HeapPages, Maps, InArgs
  <2> QED BY <2>3, <2>4, <2>5 DEF OwnPages
<1>6. CASE ~ (l.at < l.end /\ Free # {})
  <2>1. PICK m : m = (l.missing \/ l.at < l.end) OBVIOUS
  <2>2. loc' = [loc EXCEPT ![t].pc = l.then, ![t].missing = m]
    BY <1>1, <1>6, <2>1 DEF AllocFor
  <2>3. /\ loc'[t].pc = l.then /\ loc'[t].then = l.then /\ loc'[t].dir = l.dir
        /\ loc'[t].missing = m /\ loc'[t].newEnd = l.newEnd
    BY <1>0, <1>1, <2>2 DEF TypeOK, LocRec
  <2>4. ForkPages(t)' BY <1>3, <2>3 DEF ForkPages, InFork
  <2>5. ExecPages(t)'
    <3>1. ASSUME l.then = "loaded" PROVE m \/ Full(entry, l.dir, ProgramEnd)
      <4>1. SUFFICES ASSUME ~ l.missing, ~ (l.at < l.end)
                     PROVE  Full(entry, l.dir, ProgramEnd)
        BY <2>1
      <4>2. UpTo(entry, l.dir, l.at) /\ l.end = PagesUpTo(ProgramEnd)
        BY <1>1, <1>4, <3>1, <4>1 DEF ExecPages, Maps
      <4> QED BY <1>3, <4>1, <4>2, AllUpTo, ProgramFits
    <3>2. ASSUME l.then = "args"
          PROVE  (m \/ Full(entry, l.dir, ProgramEnd)) /\ task[t].heapEnd = ProgramEnd
      BY <1>1, <1>4, <2>1, <3>2 DEF ExecPages, Maps, InArgs
    <3> QED BY <1>2, <1>3, <2>3, <3>1, <3>2 DEF ExecPages, Maps, InArgs
  <2>6. HeapPages(t)'
    <3>1. ASSUME l.then = "grown", t \in started \ short
          PROVE  m \/ Full(entry, task[t].cr3, l.newEnd)
      <4>1. SUFFICES ASSUME ~ l.missing, ~ (l.at < l.end)
                     PROVE  Full(entry, task[t].cr3, l.newEnd)
        BY <2>1
      <4>2. UpTo(entry, task[t].cr3, l.at) /\ l.end = PagesUpTo(l.newEnd)
        BY <1>1, <1>4, <3>1, <4>1 DEF HeapPages, Maps
      <4> QED BY <1>3, <4>1, <4>2, AllUpTo
    <3>2. InArgs(l) => l.then = "args" BY <1>1 DEF InArgs, Maps
    <3>3. l.then = "args" => InArgs(loc[t])' BY <2>3 DEF InArgs
    <3> QED BY <1>1, <1>2, <1>3, <1>4, <2>3, <3>1, <3>2, <3>3 DEF HeapPages, Maps
  <2> QED BY <2>4, <2>5, <2>6 DEF OwnPages
<1> QED BY <1>5, <1>6

LEMMA MapOwnPages ==
  ASSUME PInv, Ordered, PagesInv, NEW t \in AllTasks, MapFor(t)
  PROVE  OwnPages(t)'
<1>0. Control /\ TypeOK /\ LocFits(loc[t], t) /\ Step(t) /\ t \in started
  BY StepStarted DEF PInv, Control, Step
<1>1. PICK l : l = loc[t] /\ l.pc = "map" BY DEF MapFor, At
<1>2. UNCHANGED <<task, started, short>> BY DEF MapFor
<1>3. l.at \in Nat /\ l.then \in {"loaded", "args", "grown"}
  BY <1>0, <1>1 DEF LocFits, TypeOK, LocRec
<1>4. ExecPages(t) /\ HeapPages(t) BY DEF PagesInv
<1>5. CASE IsPresent(l.dir, l.at)
  <2>1. loc' = [loc EXCEPT ![t].pc = "pannic"] BY <1>1, <1>5 DEF MapFor, GoTo
  <2>2. loc'[t].pc = "pannic" BY <1>0, <2>1 DEF TypeOK, LocRec
  <2>3. HeapPages(t)' BY <2>2 DEF HeapPages, Maps
  <2> QED BY <2>2, <2>3, IdlePages DEF OwnPages, InFork
<1>6. CASE ~ IsPresent(l.dir, l.at) /\ NoTable(l.dir, l.at)
  <2>1. /\ loc' = [loc EXCEPT ![t].pc = l.then, ![t].page = NoFrame, ![t].missing = TRUE]
        /\ UNCHANGED entry
    BY <1>1, <1>6 DEF MapFor, memVars
  <2>2. loc'[t].pc = l.then /\ loc'[t].then = l.then /\ loc'[t].missing = TRUE
    BY <1>0, <1>1, <2>1 DEF TypeOK, LocRec
  <2>3. ForkPages(t)' BY <1>3, <2>2 DEF ForkPages, InFork
  <2>4. ExecPages(t)' BY <1>1, <1>2, <1>3, <1>4, <2>2 DEF ExecPages, Maps, InArgs
  <2>5. HeapPages(t)' BY <1>1, <1>2, <1>3, <1>4, <2>1, <2>2 DEF HeapPages, Maps, InArgs
  <2> QED BY <2>3, <2>4, <2>5 DEF OwnPages
<1>7. CASE ~ IsPresent(l.dir, l.at) /\ ~ NoTable(l.dir, l.at)
  <2>1. PICK d, v, k : d = l.dir /\ v = l.at /\ k = v + 1 OBVIOUS
  <2>2. loc' = [loc EXCEPT ![t].pc = "alloc", ![t].page = NoFrame, ![t].at = k]
    BY <1>1, <1>7, <2>1 DEF MapFor
  <2>3. /\ loc'[t].pc = "alloc" /\ loc'[t].then = l.then /\ loc'[t].dir = d
        /\ loc'[t].at = k /\ loc'[t].end = l.end /\ loc'[t].missing = l.missing
        /\ loc'[t].newEnd = l.newEnd
    BY <1>0, <1>1, <2>1, <2>2 DEF TypeOK, LocRec
  <2>4. Has(entry', d) = Has(entry, d) \cup {v} BY <1>1, <1>7, <2>1, ForGains DEF Gains
  <2>5. /\ \A u : Full(entry, d, u) => Full(entry', d, u)
        /\ UpTo(entry, d, v) => UpTo(entry', d, k)
    BY <1>3, <2>1, <2>4, FullGrows
  <2>6. ForkPages(t)' BY <2>3 DEF ForkPages, InFork
  <2>7. ExecPages(t)' BY <1>1, <1>2, <1>4, <2>1, <2>3, <2>5 DEF ExecPages, Maps, InArgs
  <2>8. HeapPages(t)'
    <3>1. CASE l.then = "grown"
      <4>1. d = task[t].cr3 BY <1>0, <1>1, <2>1, <3>1 DEF LocFits, HeapDir
      <4> QED BY <1>1, <1>2, <1>4, <2>1, <2>3, <2>5, <3>1, <4>1 DEF HeapPages, Maps, InArgs
    <3>2. CASE l.then = "args" BY <2>3, <3>2 DEF HeapPages, Maps, InArgs
    <3>3. CASE l.then = "loaded"
      <4>1. ~ Grows(t) /\ ~ InArgs(loc[t]) BY <1>1, <3>3 DEF Grows, InArgs, Maps
      <4>2. loc'[t].pc # "grown" /\ ~ Maps(loc[t], "grown")' BY <2>3, <3>3 DEF Maps
      <4> QED BY <1>0, <1>1, <1>2, <4>1, <4>2, HeapStays
    <3> QED BY <1>3, <3>1, <3>2, <3>3
  <2> QED BY <2>6, <2>7, <2>8 DEF OwnPages
<1> QED BY <1>5, <1>6, <1>7

LEMMA DestroyOwnPages ==
  ASSUME PInv, Ordered, PagesInv, NEW t \in AllTasks, DestroyUvm(t)
  PROVE  OwnPages(t)'
<1>0. Control /\ TypeOK /\ LocFits(loc[t], t) /\ Step(t) BY DEF PInv, Control, Step
<1>1. loc[t].pc = "destroy" /\ UNCHANGED <<task, short>> BY DEF DestroyUvm, At
<1>2. loc[t].then \in {"run", "copyFailed"} BY <1>0, <1>1 DEF LocFits
<1>3. PICK b : \/ loc' = [loc EXCEPT ![t].at = b]
               \/ loc' = [loc EXCEPT ![t] = IdleLoc]
               \/ loc[t].then # "run"
                  /\ loc' = [loc EXCEPT ![t].pc = loc[t].then, ![t].dir = NoFrame]
  BY DEF DestroyUvm, EndCall
<1>4. /\ loc'[t].pc \in {"destroy", "run", "copyFailed"}
      /\ InFork(loc[t])' => InFork(loc[t]) /\ loc'[t].child = loc[t].child
  BY <1>0, <1>1, <1>2, <1>3 DEF TypeOK, LocRec, IdleLoc, InFork
<1>5. InFork(loc[t]) => task[loc[t].child].heapEnd = 0 BY <1>1, ChildHeapless
<1>6. ForkPages(t)' /\ ExecPages(t)' BY <1>1, <1>4, <1>5, IdlePages
<1>7. ~ Grows(t) /\ ~ InArgs(loc[t]) BY <1>1 DEF Grows, InArgs, Maps
<1>8. loc'[t].pc # "grown" /\ ~ Maps(loc[t], "grown")' BY <1>4 DEF Maps
<1>9. HeapPages(t)' BY <1>0, <1>1, <1>7, <1>8, HeapStays
<1> QED BY <1>6, <1>9 DEF OwnPages

-----------------------------------------------------------------------------
(* The steps of execve.                                                    *)
LEMMA ExecBegins ==
  ASSUME PInv, Ordered, PagesInv, NEW t \in AllTasks, ExecName(t) \/ ExecCreateUvm(t)
  PROVE  OwnPages(t)'
<1>0. Control /\ TypeOK /\ Step(t) BY DEF PInv, Control, Step, Exec
<1>1. loc[t].pc \in {"run", "exec"} /\ UNCHANGED short
  BY DEF ExecName, ExecCreateUvm, CanRun, At
<1>2. task'[t].cr3 = task[t].cr3 /\ task'[t].heapEnd = task[t].heapEnd
  <2>1. PICK n : UNCHANGED task \/ task' = [task EXCEPT ![t].named = n]
    BY DEF ExecName, ExecCreateUvm
  <2> QED BY <1>0, <2>1 DEF TypeOK, TaskRec
<1>3. PICK f : \/ loc' = [loc EXCEPT ![t].pc = "exec"]
               \/ loc' = [loc EXCEPT ![t] = IdleLoc]
               \/ loc' = [loc EXCEPT ![t].pc = "alloc", ![t].dir = f, ![t].at = Base,
                                     ![t].end = PagesUpTo(ProgramEnd), ![t].then = "loaded"]
               \/ loc' = [loc EXCEPT ![t].pc = "destroy", ![t].dir = f, ![t].at = 0,
                                     ![t].then = "run"]
  BY DEF ExecName, ExecCreateUvm, GoTo, EndCall
<1>4. \/ loc'[t].pc \in {"exec", "run"}
      \/ loc'[t].pc = "destroy" /\ loc'[t].then = "run"
      \/ /\ loc'[t].pc = "alloc" /\ loc'[t].then = "loaded"
         /\ loc'[t].at = Base /\ loc'[t].end = PagesUpTo(ProgramEnd)
  BY <1>0, <1>3 DEF TypeOK, LocRec, IdleLoc
<1>5. ForkPages(t)' /\ ExecPages(t)'
  <2>1. CASE loc'[t].pc # "alloc" BY <1>4, <2>1, IdlePages DEF InFork
  <2>2. CASE loc'[t].pc = "alloc"
    BY <1>4, <2>2, NoneBefore DEF ForkPages, ExecPages, Maps, InArgs, InFork
  <2> QED BY <2>1, <2>2
<1>6. ~ Grows(t) /\ ~ InArgs(loc[t]) /\ loc[t].pc # "pannic" BY <1>1 DEF Grows, InArgs, Maps
<1>7. loc'[t].pc # "grown" /\ ~ Maps(loc[t], "grown")' BY <1>4 DEF Maps
<1>8. HeapPages(t)' BY <1>0, <1>1, <1>2, <1>6, <1>7, HeapStays
<1> QED BY <1>5, <1>8 DEF OwnPages

LEMMA LoadedOwnPages ==
  ASSUME PInv, Ordered, PagesInv, NEW t \in AllTasks, ExecLoaded(t) \/ ExecLoadFailed(t)
  PROVE  OwnPages(t)'
<1>0. Control /\ TypeOK /\ Step(t) /\ loc[t].pc = "loaded"
  BY DEF PInv, Control, Step, Exec, ExecLoaded, ExecLoadFailed, At
<1>1. CASE ExecLoaded(t)
  <2>1. loc' = [loc EXCEPT ![t].pc = "alloc", ![t].at = ArgPage, ![t].end = LastPage + 1,
                           ![t].then = "args"]
    BY <1>1 DEF ExecLoaded
  <2>2. /\ loc'[t].pc = "alloc" /\ loc'[t].then = "args" /\ loc'[t].dir = loc[t].dir
        /\ loc'[t].missing = loc[t].missing
    BY <1>0, <2>1 DEF TypeOK, LocRec
  <2>3. task'[t].heapEnd = ProgramEnd /\ UNCHANGED entry
    BY <1>0, <1>1 DEF ExecLoaded, TypeOK, TaskRec, memVars
  <2>4. loc[t].missing \/ Full(entry, loc[t].dir, ProgramEnd)
    BY <1>0 DEF PagesInv, ExecPages
  <2> QED BY <2>2, <2>3, <2>4
          DEF OwnPages, ForkPages, ExecPages, HeapPages, InFork, Maps, InArgs
<1>2. CASE ExecLoadFailed(t)
  <2>1. loc'[t].pc = "destroy" /\ loc'[t].then = "run"
    BY <1>0, <1>2 DEF ExecLoadFailed, TypeOK, LocRec
  <2>2. ForkPages(t)' /\ ExecPages(t)' BY <2>1, IdlePages DEF InFork
  <2>3. CASE t \in short' BY <2>2, <2>3 DEF OwnPages, HeapPages
  <2>4. CASE t \notin short'
    <3>1. UNCHANGED <<task, short>> BY <1>2, <2>4 DEF ExecLoadFailed
    <3>2. ~ Grows(t) /\ ~ InArgs(loc[t]) BY <1>0 DEF Grows, InArgs, Maps
    <3>3. loc'[t].pc # "grown" /\ ~ Maps(loc[t], "grown")' BY <2>1 DEF Maps
    <3>4. HeapPages(t)' BY <1>0, <3>1, <3>2, <3>3, HeapStays
    <3> QED BY <2>2, <3>4 DEF OwnPages
  <2> QED BY <2>3, <2>4
<1> QED BY <1>1, <1>2

LEMMA SwapOwnPages ==
  ASSUME PInv, Ordered, PagesInv, NEW t \in AllTasks, ExecSwap(t) \/ ExecFailed(t)
  PROVE  OwnPages(t)'
<1>0. Control /\ TypeOK /\ loc[t].pc = "args"
  BY DEF PInv, Control, ExecSwap, ExecFailed, At
<1>1. CASE ExecSwap(t)
  <2>1. loc'[t].pc = "destroy" /\ loc'[t].then = "run"
    BY <1>0, <1>1 DEF ExecSwap, TypeOK, LocRec
  <2>2. ForkPages(t)' /\ ExecPages(t)' BY <2>1, IdlePages DEF InFork
  <2>3. CASE t \in short' BY <2>2, <2>3 DEF OwnPages, HeapPages
  <2>4. CASE t \notin short'
    <3>1. ~ loc[t].missing BY <1>1, <2>4 DEF ExecSwap
    <3>2. Full(entry, loc[t].dir, ProgramEnd) /\ task[t].heapEnd = ProgramEnd
      BY <1>0, <3>1 DEF PagesInv, ExecPages, InArgs
    <3>3. task'[t].cr3 = loc[t].dir /\ task'[t].heapEnd = task[t].heapEnd /\ UNCHANGED entry
      BY <1>0, <1>1 DEF ExecSwap, TypeOK, TaskRec, memVars
    <3>4. HeapPages(t)' BY <2>1, <3>2, <3>3 DEF HeapPages, Maps
    <3> QED BY <2>2, <3>4 DEF OwnPages
  <2> QED BY <2>3, <2>4
<1>2. CASE ExecFailed(t)
  <2>1. \/ loc' = [loc EXCEPT ![t].pc = "destroy", ![t].at = 0, ![t].then = "run",
                              ![t].missing = FALSE]
        \/ loc' = [loc EXCEPT ![t].pc = "pannic"]
    BY <1>2 DEF ExecFailed, GoTo
  <2>2. loc'[t].pc = "pannic" \/ (loc'[t].pc = "destroy" /\ loc'[t].then = "run")
    BY <1>0, <2>1 DEF TypeOK, LocRec
  <2>3. ForkPages(t)' /\ ExecPages(t)' BY <2>2, IdlePages DEF InFork
  <2>4. t \in short' BY <1>2 DEF ExecFailed
  <2> QED BY <2>3, <2>4 DEF OwnPages, HeapPages
<1> QED BY <1>1, <1>2

-----------------------------------------------------------------------------
(* The steps of sbrk.                                                      *)
LEMMA SbrkOwnPages ==
  ASSUME PInv, Ordered, PagesInv, NEW t \in AllTasks, Sbrk(t)
  PROVE  OwnPages(t)'
<1>0. Control /\ TypeOK /\ Step(t) /\ t \in started BY StepStarted DEF PInv, Control, Step
<1>1. HeapPages(t) BY DEF PagesInv
<1>2. PICK h \in Nat : h = task[t].heapEnd BY <1>0 DEF TypeOK, TaskRec
<1>3. ASSUME NEW n \in 1 .. MaxIncr, SbrkInPage(t, n) PROVE OwnPages(t)'
  <2>1. /\ loc[t].pc = "run" /\ UNCHANGED <<loc, entry, short>>
        /\ h % PageUnits # 0 /\ (h % PageUnits) + n <= PageUnits
        /\ task' = [task EXCEPT ![t].heapEnd = h + n]
    BY <1>0, <1>2, <1>3 DEF SbrkInPage, CanRun, At, memVars, TypeOK
  <2>2. task'[t].heapEnd = h + n /\ task'[t].cr3 = task[t].cr3
    BY <1>0, <2>1 DEF TypeOK, TaskRec
  <2>3. n \in Nat BY ProcessAssumption
  <2>4. Full(entry, task[t].cr3, h) => Full(entry, task[t].cr3, h + n)
    BY <1>2, <2>1, <2>3, PageIsNat, UnitsInPage DEF Full
  <2>5. ForkPages(t)' /\ ExecPages(t)' BY <2>1, IdlePages DEF InFork
  <2>6. HeapPages(t)' BY <1>0, <1>1, <1>2, <2>1, <2>2, <2>4 DEF HeapPages, InArgs, Maps
  <2> QED BY <2>5, <2>6 DEF OwnPages
<1>4. ASSUME NEW n \in 1 .. MaxIncr, SbrkPages(t, n) PROVE OwnPages(t)'
  <2>1. PICK e, a, z, d : /\ e = h + n /\ a = PagesUpTo(h) /\ z = PagesUpTo(e)
                          /\ d = task[t].cr3
    OBVIOUS
  <2>2. /\ loc[t].pc = "run" /\ UNCHANGED <<task, entry, short>>
        /\ loc' = [loc EXCEPT ![t].pc = "alloc", ![t].dir = d, ![t].newEnd = e,
                              ![t].at = a, ![t].end = z, ![t].then = "grown"]
    BY <1>2, <1>4, <2>1 DEF SbrkPages, CanRun, At, memVars
  <2>3. /\ loc'[t].pc = "alloc" /\ loc'[t].then = "grown" /\ loc'[t].at = a
        /\ loc'[t].end = PagesUpTo(e) /\ loc'[t].newEnd = e
    <3>1. /\ loc'[t].pc = "alloc" /\ loc'[t].then = "grown" /\ loc'[t].at = a
          /\ loc'[t].end = z /\ loc'[t].newEnd = e
      BY <1>0, <2>2 DEF TypeOK, LocRec
    <3> QED BY <2>1, <3>1
  <2>4. task[t].cr3 # NoFrame BY <1>4 DEF SbrkPages, CanRun
  <2>5. Full(entry, task[t].cr3, h) => UpTo(entry, task[t].cr3, a) BY <1>2, <2>1, FullIsUpTo
  <2>6. ForkPages(t)' /\ ExecPages(t)'
    BY <2>3 DEF ForkPages, ExecPages, InFork, InArgs, Maps
  <2>7. HeapPages(t)'
    BY <1>0, <1>1, <1>2, <2>2, <2>3, <2>4, <2>5 DEF HeapPages, InArgs, Maps
  <2> QED BY <2>6, <2>7 DEF OwnPages
<1>5. ASSUME SbrkDone(t) PROVE OwnPages(t)'
  <2>1. /\ loc[t].pc = "grown" /\ UNCHANGED entry /\ loc' = [loc EXCEPT ![t] = IdleLoc]
        /\ task' = [task EXCEPT ![t].heapEnd = loc[t].newEnd]
        /\ short' = IF loc[t].missing THEN short \cup {t} ELSE short
    BY <1>5 DEF SbrkDone, At, EndCall, memVars
  <2>2. task'[t].heapEnd = loc[t].newEnd /\ task'[t].cr3 = task[t].cr3
    BY <1>0, <2>1 DEF TypeOK, TaskRec
  <2>3. loc'[t].pc = "run" BY <1>0, <2>1 DEF TypeOK, IdleLoc
  <2>4. ForkPages(t)' /\ ExecPages(t)' BY <2>3, IdlePages DEF InFork
  <2>5. t \notin short' => t \in started \ short /\ ~ loc[t].missing BY <1>0, <2>1
  <2>6. HeapPages(t)' BY <1>1, <2>1, <2>2, <2>3, <2>5 DEF HeapPages, InArgs, Maps
  <2> QED BY <2>4, <2>6 DEF OwnPages
<1> QED BY <1>3, <1>4, <1>5 DEF Sbrk

-----------------------------------------------------------------------------
LEMMA PagesStay ==
  ASSUME PInv, Ordered, PagesInv, NEW t \in AllTasks, Step(t)
  PROVE  PagesInv'
<1>1. OwnPages(t)'
  BY ForkOwnPages, ExecBegins, LoadedOwnPages, SwapOwnPages, SbrkOwnPages, DestroyOwnPages,
     AllocOwnPages, MapOwnPages DEF Step, Exec
<1>2. ASSUME NEW u \in AllTasks PROVE OwnPages(u)'
  BY <1>1, OtherPages
<1> QED BY <1>2 DEF PagesInv, OwnPages

LEMMA PagesInvHolds == ASSUME Ordered PROVE Spec => [](PInv /\ PagesInv)
<1>1. PInv /\ PagesInv /\ [Next]_procVars => PagesInv'
  <2> SUFFICES ASSUME PInv, PagesInv, [Next]_procVars PROVE PagesInv' OBVIOUS
  <2>1. ASSUME NEW t \in AllTasks, Step(t) PROVE PagesInv' BY <2>1, PagesStay
  <2>2. CASE UNCHANGED procVars
    BY <2>2 DEF procVars, memVars, PagesInv, ForkPages, ExecPages, HeapPages, InFork, Maps,
                InArgs, Full, UpTo
  <2> QED BY <2>1, <2>2 DEF Next, Step
<1> QED BY <1>1, PagesStart, PInvHolds, PTL DEF Spec

(* Every page below the end of the heap of a task that is not in a call is *)
(* there, whatever other tasks do meanwhile, unless sbrk or execve ran out *)
(* of memory (core/memory.c:197-219, 343-383, core/task.c:557-610).        *)
THEOREM PagesOfHeapsAreThere == ASSUME Ordered PROVE Spec => []HeapMapped
<1>1. PInv /\ PagesInv => HeapMapped
  <2> SUFFICES ASSUME PInv, PagesInv, NEW t \in started \ short, loc[t].pc = "run",
                      task[t].cr3 # NoFrame, NEW v \in UserPage,
                      v * PageUnits < task[t].heapEnd
               PROVE  v \in Mapped(task[t].cr3)
    BY DEF HeapMapped
  <2>1. TypeOK /\ t \in AllTasks BY DEF PInv, Control, TypeOK
  <2>2. task[t].cr3 \in Frame BY <2>1 DEF TypeOK, TaskRec
  <2>3. HeapPages(t) BY <2>1 DEF PagesInv
  <2>4. Full(entry, task[t].cr3, task[t].heapEnd) BY <2>3 DEF HeapPages, InArgs, Maps
  <2> QED BY <2>2, <2>4, PagesAreHold DEF Full
<1> QED BY <1>1, PagesInvHolds, PTL

(* A child that fork starts with an address space has the pages of its     *)
(* parent, no more and no less, although both run with interrupts on and   *)
(* other tasks map and unmap pages meanwhile (core/memory.c:246-286,       *)
(* core/task.c:392-432).                                                   *)
THEOREM ForksCopyAll == ASSUME Ordered PROVE Spec => ForkCopiesAll
<1> DEFINE A == \A c \in started' \ started : \E t \in Forker :
                  /\ loc[t].child = c
                  /\ task[c].cr3 # NoFrame => Mapped(task[c].cr3) = Mapped(task[t].cr3)
<1>1. ASSUME Ordered, PInv, PagesInv, [Next]_procVars PROVE [A]_procVars
  <2>1. ASSUME NEW t \in AllTasks, Step(t) PROVE A
    <3> SUFFICES ASSUME NEW c \in started' \ started
                 PROVE  \E w \in Forker :
                          /\ loc[w].child = c
                          /\ task[c].cr3 # NoFrame =>
                               Mapped(task[c].cr3) = Mapped(task[w].cr3)
      OBVIOUS
    <3>1. loc[t].pc = "start" /\ c = loc[t].child BY <1>1, <2>1, OthersLeft
    <3>2. Control /\ TypeOK /\ LocFits(loc[t], t) /\ InFork(loc[t])
      BY <1>1, <3>1 DEF PInv, Control, InFork
    <3>3. t \in Forker /\ c \in AllTasks BY <1>1, <3>1, <3>2, ChildOf
    <3>4. task[t].cr3 \in Frame /\ task[c].cr3 \in Frame \cup {NoFrame}
      BY <3>1, <3>2, <3>3 DEF LocFits, TypeOK, TaskRec
    <3>5. task[c].cr3 = NoFrame \/ Has(entry, task[c].cr3) = Has(entry, task[t].cr3)
      BY <1>1, <3>1 DEF PagesInv, ForkPages
    <3>6. task[c].cr3 # NoFrame => Mapped(task[c].cr3) = Mapped(task[t].cr3)
      BY <3>4, <3>5, PagesAreHold
    <3> QED BY <3>1, <3>3, <3>6
  <2>2. CASE UNCHANGED procVars BY <2>2 DEF procVars
  <2> QED BY <1>1, <2>1, <2>2 DEF Next, Step
<1> QED BY <1>1, PagesInvHolds, PTL DEF Spec, ForkCopiesAll

(* Where the pages are is a fact about states.                             *)
PagesAre ==
  \A d \in Frame : /\ Mapped(d) = Has(entry, d)
                   /\ \A v \in UserPage : FrameOf(d, v) = PageIn(entry, d, v)

LEMMA PagesAlwaysAre == Spec => []PagesAre
<1>1. PagesAre BY PagesAreHold DEF PagesAre
<1> QED BY <1>1, PTL

(* What becomes of the address space of task u.                            *)
Kept(u) ==
  LET old == task[u].cr3
      new == task'[u].cr3
  IN  IF new = old
      THEN old = NoFrame \/ \A v \in Mapped(old) : FrameOf(old, v)' = FrameOf(old, v)
      ELSE {ArgPage, Base} \subseteq Mapped(new) \/ u \in short'

LEMMA SpaceGrows ==
  ASSUME PInv, Ordered, NEW t \in AllTasks, Step(t), NEW u \in AllTasks
  PROVE  \A v \in Has(entry, task[u].cr3) :
           PageIn(entry', task[u].cr3, v) = PageIn(entry, task[u].cr3, v)
<1>1. CASE u # t \/ ~ Grows(t)
  <2>1. Same(task[u].cr3) BY <1>1, SpacesLeft
  <2> QED BY <2>1 DEF Same, Has
<1>2. CASE u = t /\ Grows(t)
  <2>0. Control /\ LocFits(loc[t], t) BY DEF PInv, Control
  <2>1. MapFor(t)
    BY <1>2 DEF Step, Grows, Fork, Exec, Sbrk, AllocTask, GdtAllocDesc, AllocStack,
           TssCreateUvm, TaskInit, CopyCreateUvm, CopyPage, CopyMap, CopyDone, CopyFailed,
           StartChild, SwitchToBroken, ExecName, ExecCreateUvm, ExecLoaded, ExecLoadFailed,
           ExecSwap, ExecFailed, SbrkInPage, SbrkPages, SbrkDone, DestroyUvm, AllocFor, CanRun,
           At
  <2>2. loc[t].dir = task[t].cr3 BY <1>2, <2>0 DEF LocFits, HeapDir, Grows
  <2>3. CASE UNCHANGED entry BY <2>3
  <2>4. CASE ~ UNCHANGED entry
    <3>1. ~ IsPresent(loc[t].dir, loc[t].at) /\ ~ NoTable(loc[t].dir, loc[t].at)
      BY <2>1, <2>4 DEF MapFor, memVars
    <3>2. Gains(loc[t].dir, loc[t].at) BY <2>1, <3>1, ForGains
    <3> QED BY <1>2, <2>2, <3>2 DEF Gains
  <2> QED BY <2>3, <2>4
<1> QED BY <1>1, <1>2

(* Only the end of an execve gives a started task another directory.       *)
LEMMA DirectoryStays ==
  ASSUME PInv, Ordered, NEW t \in AllTasks, Step(t), NEW u \in started,
         task'[u].cr3 # task[u].cr3
  PROVE  u = t /\ ExecSwap(t)
<1>0. Control /\ TypeOK /\ u \in AllTasks BY DEF PInv, Control, TypeOK
<1>1. InFork(loc[t]) => loc[t].child # u BY <1>0, ChildOf
<1>2. u = t BY <1>0, <1>1, OthersLeft
<1>3. SUFFICES ASSUME ~ ExecSwap(t) PROVE FALSE BY <1>2
<1>4. task[t] \in TaskRec BY <1>0 DEF TypeOK
<1>5. CASE UNCHANGED task BY <1>5
<1>6. CASE AllocStack(t) \/ TssCreateUvm(t) \/ TaskInit(t)
  <2>1. InFork(loc[t]) BY <1>6 DEF AllocStack, TssCreateUvm, TaskInit, At, InFork
  <2> QED BY <1>0, <1>1, <1>2, <1>6, <2>1 DEF AllocStack, TssCreateUvm, TaskInit, TypeOK
<1>7. CASE CopyCreateUvm(t) \/ CopyDone(t) \/ CopyFailed(t)
  <2>1. InFork(loc[t]) BY <1>7 DEF CopyCreateUvm, CopyDone, CopyFailed, At, InFork
  <2>2. PICK d : UNCHANGED task \/ task' = [task EXCEPT ![loc[t].child].cr3 = d]
    BY <1>7 DEF CopyCreateUvm, CopyDone, CopyFailed, SetCr3
  <2> QED BY <1>0, <1>1, <1>2, <2>1, <2>2 DEF TypeOK
<1>8. CASE ExecName(t) \/ ExecLoaded(t) \/ ExecLoadFailed(t) \/ Sbrk(t)
  <2>1. PICK n, h : \/ UNCHANGED task
                    \/ task' = [task EXCEPT ![t].named = n]
                    \/ task' = [task EXCEPT ![t].heapEnd = h]
    BY <1>8 DEF ExecName, ExecLoaded, ExecLoadFailed, Sbrk, SbrkInPage, SbrkPages, SbrkDone
  <2> QED BY <1>0, <1>2, <1>4, <2>1 DEF TypeOK, TaskRec
<1>9. CASE \/ AllocTask(t) \/ GdtAllocDesc(t) \/ CopyPage(t) \/ CopyMap(t) \/ StartChild(t)
           \/ SwitchToBroken(t) \/ ExecCreateUvm(t) \/ ExecFailed(t) \/ DestroyUvm(t)
           \/ AllocFor(t) \/ MapFor(t)
  BY <1>5, <1>9 DEF AllocTask, GdtAllocDesc, CopyPage, CopyMap, StartChild, SwitchToBroken,
                    ExecCreateUvm, ExecFailed, DestroyUvm, AllocFor, MapFor
<1> QED BY <1>3, <1>6, <1>7, <1>8, <1>9 DEF Step, Fork, Exec

LEMMA SwapIsReady ==
  ASSUME PInv, Ordered, PagesInv, NEW t \in AllTasks, ExecSwap(t)
  PROVE  {ArgPage, Base} \subseteq Mapped(loc[t].dir) \/ t \in short'
<1>0. Control /\ TypeOK /\ LocFits(loc[t], t) BY DEF PInv, Control
<1>1. loc[t].pc = "args" /\ ArgPage \in Mapped(loc[t].dir) BY DEF ExecSwap, At
<1>2. SUFFICES ASSUME t \notin short' PROVE Base \in Mapped(loc[t].dir) BY <1>1
<1>3. ~ loc[t].missing BY <1>2 DEF ExecSwap
<1>4. Full(entry, loc[t].dir, ProgramEnd) BY <1>1, <1>3 DEF PagesInv, ExecPages, InArgs
<1>5. Base \in UserPage /\ Base * PageUnits < ProgramEnd
  <2>1. PICK e \in Nat \ {0}, b \in Nat : e = EntryCnt /\ b = Base BY MemoryAssumption
  <2>2. e * e >= 1 /\ e * e \in Nat BY <2>1
  <2>3. Base \in UserPage BY <2>1, <2>2 DEF UserPage
  <2>4. UserStart \in Nat /\ UserStart = Base * PageUnits
    BY MemoryAssumption, ProcessAssumption DEF UserStart
  <2>5. UserStart < ProgramEnd BY <2>4, ProcessAssumption
  <2> QED BY <2>3, <2>4, <2>5
<1>6. loc[t].dir \in Frame BY <1>0, <1>1 DEF LocFits, OwnDir, TypeOK, LocRec
<1>7. Base \in Has(entry, loc[t].dir) BY <1>4, <1>5 DEF Full
<1> QED BY <1>6, <1>7, PagesAreHold

LEMMA PagesKept ==
  ASSUME PInv, Ordered, PagesInv, PagesAre, PagesAre', NEW t \in AllTasks, Step(t),
         NEW u \in started
  PROVE  Kept(u)
<1>0. Control /\ TypeOK /\ u \in AllTasks BY DEF PInv, Control, TypeOK
<1>1. CASE task'[u].cr3 = task[u].cr3
  <2>1. PICK d : d = task[u].cr3 OBVIOUS
  <2>2. d \in Frame \cup {NoFrame} BY <1>0, <2>1 DEF TypeOK, TaskRec
  <2>3. CASE d = NoFrame BY <1>1, <2>1, <2>3 DEF Kept
  <2>4. CASE d # NoFrame
    <3>1. ASSUME NEW v \in Mapped(d) PROVE FrameOf(d, v)' = FrameOf(d, v)
      <4>1. d \in Frame BY <2>2, <2>4
      <4>2. v \in UserPage /\ v \in Has(entry, d) BY <3>1, <4>1 DEF PagesAre, Mapped
      <4>3. PageIn(entry', d, v) = PageIn(entry, d, v) BY <1>0, <2>1, <4>2, SpaceGrows
      <4>4. FrameOf(d, v)' = PageIn(entry', d, v) BY <4>1, <4>2 DEF PagesAre
      <4>5. FrameOf(d, v) = PageIn(entry, d, v) BY <4>1, <4>2 DEF PagesAre
      <4> QED BY <4>3, <4>4, <4>5
    <3> QED BY <1>1, <2>1, <3>1 DEF Kept
  <2> QED BY <2>3, <2>4
<1>2. CASE task'[u].cr3 # task[u].cr3
  <2>1. u = t /\ ExecSwap(t) BY <1>2, DirectoryStays
  <2>2. task'[t].cr3 = loc[t].dir BY <1>0, <2>1 DEF ExecSwap, TypeOK, TaskRec
  <2> QED BY <1>2, <2>1, <2>2, SwapIsReady DEF Kept
<1> QED BY <1>1, <1>2

(* A started task keeps its pages in their frames until it has a new       *)
(* address space that is ready: neither a failed execve nor what other     *)
(* tasks allocate, map and destroy takes them away (core/task.c:557-610,   *)
(* core/memory.c:246-309).                                                 *)
THEOREM PagesAreKept == ASSUME Ordered PROVE Spec => KeepsPages
<1> DEFINE A == \A t \in started :
                  LET old == task[t].cr3
                      new == task'[t].cr3
                  IN  IF new = old
                      THEN old = NoFrame \/
                           \A v \in Mapped(old) : FrameOf(old, v)' = FrameOf(old, v)
                      ELSE {ArgPage, Base} \subseteq Mapped(new) \/ t \in short'
<1>1. ASSUME Ordered, PInv, PagesInv, PagesAre, PagesAre', [Next]_procVars PROVE [A]_procVars
  <2>1. ASSUME NEW t \in AllTasks, Step(t) PROVE A
    <3>1. \A u \in started : Kept(u) BY <1>1, <2>1, PagesKept
    <3> QED BY <3>1 DEF Kept
  <2>2. CASE UNCHANGED procVars BY <2>2 DEF procVars
  <2> QED BY <1>1, <2>1, <2>2 DEF Next, Step
<1> QED BY <1>1, PagesInvHolds, PagesAlwaysAre, PTL DEF Spec, KeepsPages

=============================================================================
