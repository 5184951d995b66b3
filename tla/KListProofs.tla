----------------------------- MODULE KListProofs -----------------------------
(* What the list operators of KList do to the members and to the order of  *)
(* a list, for every list.                                                 *)
EXTENDS KList, FiniteSetTheorems, SequenceTheorems, WellFoundedInduction, TLAPS

(* Every set of numbers has a least one: what is to be shown of all numbers *)
(* is shown for the least one for which it could fail.                      *)
LEMMA LeastNumber ==
  ASSUME NEW T, T \subseteq Nat, T # {}
  PROVE  \E m \in T : \A k \in T : ~ (k < m)
<1>1. PICK m \in T : \A k \in T : ~ (<<k, m>> \in OpToRel(<, Nat))
  <2>1. IsWellFoundedOn(OpToRel(<, Nat), Nat) BY NatLessThanWellFounded
  <2> QED BY <2>1, WFMin, Zenon
<1>2. \A k \in T : k < m => <<k, m>> \in OpToRel(<, Nat)
  BY DEF OpToRel
<1> QED BY <1>1, <1>2

(* The rank of an element of a finite set of numbers. *)
Rank(I, i) == Cardinality({j \in I : j <= i})

(* The members of a list over S are in S. *)
LEMMA MembersType ==
  ASSUME NEW S, NEW l \in Seq(S)
  PROVE  Members(l) \subseteq S
BY DEF Members

(* A bigger element of a finite set has a bigger rank. *)
LEMMA RankMonotonic ==
  ASSUME NEW n \in Nat, NEW I \in SUBSET (1 .. n),
         NEW i \in I, NEW j \in I, i < j
  PROVE  Rank(I, i) < Rank(I, j)
<1> DEFINE A == {k \in I : k <= i}
           B == {k \in I : k <= j}
<1>0. I \subseteq Int OBVIOUS
<1>1. IsFiniteSet(1 .. n) BY FS_Interval
<1>2. IsFiniteSet(B) BY <1>1, FS_Subset
<1>3. A \in SUBSET B /\ A # B
  <2>1. ASSUME NEW k \in I, k <= i PROVE k <= j
    BY <1>0, <2>1
  <2>2. j \in B /\ j \notin A BY <1>0
  <2> QED BY <2>1, <2>2
<1>4. Cardinality(A) <= Cardinality(B) /\ Cardinality(A) # Cardinality(B)
  BY <1>2, <1>3, FS_Subset
<1>5. IsFiniteSet(A) BY <1>2, <1>3, FS_Subset
<1>6. Cardinality(A) \in Nat /\ Cardinality(B) \in Nat
  BY <1>2, <1>5, FS_CardinalityType
<1> QED BY <1>4, <1>6 DEF Rank

(* The ranks of I are exactly 1 .. Cardinality(I). *)
LEMMA RankBijection ==
  ASSUME NEW n \in Nat, NEW I \in SUBSET (1 .. n)
  PROVE  /\ Cardinality(I) \in Nat
         /\ \A i \in I : Rank(I, i) \in 1 .. Cardinality(I)
         /\ \A k \in 1 .. Cardinality(I) : \E i \in I : Rank(I, i) = k
         /\ \A i, j \in I : Rank(I, i) = Rank(I, j) => i = j
<1> DEFINE c == Cardinality(I)
           f == [i \in I |-> Rank(I, i)]
<1>0. I \subseteq Int OBVIOUS
<1>1. IsFiniteSet(I)
  <2>1. IsFiniteSet(1 .. n) BY FS_Interval
  <2> QED BY <2>1, FS_Subset
<1>2. c \in Nat BY <1>1, FS_CardinalityType
<1>3. ASSUME NEW i \in I PROVE Rank(I, i) \in 1 .. c
  <2> DEFINE A == {j \in I : j <= i}
  <2>1. A \in SUBSET I /\ i \in A BY SMT
  <2>2. IsFiniteSet(A) /\ Cardinality(A) <= c BY <1>1, <2>1, FS_Subset
  <2>3. Cardinality(A) \in Nat BY <2>2, FS_CardinalityType
  <2>4. Cardinality(A) # 0 BY <2>1, <2>2, FS_EmptySet
  <2> QED BY <1>2, <2>2, <2>3, <2>4 DEF Rank
<1>4. ASSUME NEW i \in I, NEW j \in I, Rank(I, i) = Rank(I, j) PROVE i = j
  <2>0. Rank(I, i) \in Int /\ i \in Int /\ j \in Int BY <1>0, <1>2, <1>3
  <2>1. ~ (i < j)
    <3>1. i < j => Rank(I, i) < Rank(I, j) BY RankMonotonic
    <3> QED BY <2>0, <3>1, <1>4
  <2>2. ~ (j < i)
    <3>1. j < i => Rank(I, j) < Rank(I, i) BY RankMonotonic
    <3> QED BY <2>0, <3>1, <1>4
  <2> QED BY <2>0, <2>1, <2>2
<1>5. f \in Injection(I, 1 .. c)
  BY <1>3, <1>4 DEF Injection, IsInjective
<1>6. IsFiniteSet(1 .. c) /\ Cardinality(1 .. c) = c BY <1>2, FS_Interval
<1>7. f \in Surjection(I, 1 .. c) BY <1>5, <1>6, FS_Injection
<1>8. \A k \in 1 .. c : \E i \in I : Rank(I, i) = k
  BY <1>7 DEF Surjection
<1> QED BY <1>2, <1>3, <1>4, <1>8

-----------------------------------------------------------------------------
(* ListKeep l K enumerates the indices of the kept nodes in order: the     *)
(* node at k of the result stood at p[k] in l, and p is increasing.        *)
LEMMA ListKeepIndices ==
  ASSUME NEW S, NEW l \in Seq(S), NEW K
  PROVE  \E p \in [1 .. Len(ListKeep(l, K)) -> DOMAIN l] :
           /\ ListKeep(l, K) = [k \in 1 .. Len(ListKeep(l, K)) |-> l[p[k]]]
           /\ Len(ListKeep(l, K)) \in Nat
           /\ \A i \in DOMAIN l : l[i] \in K => \E k \in DOMAIN p : p[k] = i
           /\ \A k \in DOMAIN p : l[p[k]] \in K
           /\ \A j, k \in DOMAIN p : j < k => p[j] < p[k]
<1> DEFINE I == {i \in DOMAIN l : l[i] \in K}
           c == Cardinality(I)
           p == [k \in 1 .. c |-> CHOOSE i \in I : Rank(I, i) = k]
<1>1. Len(l) \in Nat /\ DOMAIN l = 1 .. Len(l) OBVIOUS
<1>2. I \in SUBSET (1 .. Len(l)) BY <1>1
<1>3. /\ c \in Nat
      /\ \A i \in I : Rank(I, i) \in 1 .. c
      /\ \A k \in 1 .. c : \E i \in I : Rank(I, i) = k
      /\ \A i, j \in I : Rank(I, i) = Rank(I, j) => i = j
  <2> HIDE DEF I
  <2> QED BY <1>1, <1>2, RankBijection
<1>4. ASSUME NEW k \in 1 .. c PROVE p[k] \in I /\ Rank(I, p[k]) = k
  <2> HIDE DEF I, c
  <2> QED BY <1>3
<1>5. p \in [1 .. c -> DOMAIN l] BY <1>4
<1>6. ListKeep(l, K) = [k \in 1 .. c |-> l[p[k]]]
  BY DEF ListKeep, Rank
<1>7. Len(ListKeep(l, K)) = c
  <2> HIDE DEF c, p
  <2> QED BY <1>3, <1>6
<1>8. ASSUME NEW i \in DOMAIN l, l[i] \in K PROVE \E k \in DOMAIN p : p[k] = i
  <2>1. i \in I BY <1>8
  <2> DEFINE k == Rank(I, i)
  <2>2. k \in 1 .. c
    <3> HIDE DEF I, c, p
    <3> QED BY <1>3, <2>1
  <2>3. p[k] \in I /\ Rank(I, p[k]) = k BY <1>4, <2>2
  <2>4. p[k] = i
    <3> HIDE DEF I, c, p
    <3> QED BY <1>3, <2>1, <2>3
  <2> QED BY <2>2, <2>4
<1>9. ASSUME NEW j \in DOMAIN p, NEW k \in DOMAIN p, j < k PROVE p[j] < p[k]
  <2>1. j \in 1 .. c /\ k \in 1 .. c OBVIOUS
  <2>2. p[j] \in I /\ p[k] \in I /\ Rank(I, p[j]) = j /\ Rank(I, p[k]) = k
    BY <1>4, <2>1
  <2>6. I \subseteq Int BY <1>2
  <2>7. j \in Int /\ k \in Int BY <1>3, <2>1
  <2> HIDE DEF I, c, p
  <2>3. p[j] \in Int /\ p[k] \in Int /\ j \in Int /\ k \in Int
    BY <2>2, <2>6, <2>7
  <2>4. p[k] < p[j] => k < j BY <1>1, <1>2, <2>2, RankMonotonic
  <2>5. p[k] # p[j] BY <2>2, <2>3, <1>9
  <2> QED BY <2>3, <2>4, <2>5, <1>9
<1>10. \A k \in DOMAIN p : l[p[k]] \in K BY <1>4
<1> HIDE DEF I, c, p
<1> QED BY <1>3, <1>5, <1>6, <1>7, <1>8, <1>9, <1>10

(* Keeping some nodes of a list of distinct nodes. *)
LEMMA ListKeepProperties ==
  ASSUME NEW S, NEW l \in Seq(S), NEW K
  PROVE  /\ ListKeep(l, K) \in Seq(S)
         /\ Members(ListKeep(l, K)) = Members(l) \cap K
         /\ Distinct(l) => Distinct(ListKeep(l, K))
<1> DEFINE r == ListKeep(l, K)
           n == Len(r)
<1>1. PICK p \in [1 .. n -> DOMAIN l] :
           /\ r = [k \in 1 .. n |-> l[p[k]]]
           /\ n \in Nat
           /\ \A i \in DOMAIN l : l[i] \in K => \E k \in DOMAIN p : p[k] = i
           /\ \A k \in DOMAIN p : l[p[k]] \in K
           /\ \A j, k \in DOMAIN p : j < k => p[j] < p[k]
  BY ListKeepIndices
<1> HIDE DEF n, r
<1>2. \A i \in DOMAIN l : l[i] \in S OBVIOUS
<1>3. r \in [1 .. n -> S] BY <1>1, <1>2
<1>4. r \in Seq(S) BY <1>1, <1>3
<1>5. Members(r) = Members(l) \cap K
  BY <1>1 DEF Members
<1>6. ASSUME Distinct(l), NEW j \in DOMAIN r, NEW k \in DOMAIN r, r[j] = r[k]
      PROVE  j = k
  <2>1. j \in 1 .. n /\ k \in 1 .. n /\ DOMAIN p = 1 .. n BY <1>1
  <2>2. p[j] \in DOMAIN l /\ p[k] \in DOMAIN l /\ l[p[j]] = l[p[k]]
    BY <1>1, <1>6, <2>1
  <2>3. p[j] = p[k] BY <1>6, <2>2 DEF Distinct
  <2>4. p[j] \in Int BY <2>2
  <2>5. ~ (j < k) /\ ~ (k < j) BY <1>1, <2>1, <2>3, <2>4
  <2> QED BY <1>1, <2>1, <2>5
<1> QED BY <1>4, <1>5, <1>6 DEF Distinct, r

(* Unlinking a node leaves the others. *)
LEMMA ListRemoveProperties ==
  ASSUME NEW S, NEW l \in Seq(S), NEW n
  PROVE  /\ ListRemove(l, n) \in Seq(S)
         /\ Members(ListRemove(l, n)) = Members(l) \ {n}
         /\ Distinct(l) => Distinct(ListRemove(l, n))
BY ListKeepProperties DEF ListRemove

(* Linking a list behind another. *)
LEMMA ConcatProperties2 ==
  ASSUME NEW S, NEW l \in Seq(S), NEW m \in Seq(S)
  PROVE  /\ l \o m \in Seq(S)
         /\ Members(l \o m) = Members(l) \cup Members(m)
         /\ (Distinct(l) /\ Distinct(m) /\ Members(l) \cap Members(m) = {})
              => Distinct(l \o m)
<1>1. /\ l \o m \in Seq(S)
      /\ Len(l \o m) = Len(l) + Len(m)
      /\ \A i \in 1 .. Len(l) + Len(m) :
           (l \o m)[i] = IF i <= Len(l) THEN l[i] ELSE m[i - Len(l)]
  BY ConcatProperties
<1>2. Len(l) \in Nat /\ Len(m) \in Nat /\ DOMAIN l = 1 .. Len(l) /\ DOMAIN m = 1 .. Len(m)
  OBVIOUS
<1>3. DOMAIN (l \o m) = 1 .. Len(l) + Len(m) BY <1>1
<1>4. Members(l \o m) \subseteq Members(l) \cup Members(m)
  BY <1>1, <1>2, <1>3 DEF Members
<1>5. Members(l) \subseteq Members(l \o m)
  BY <1>1, <1>2, <1>3 DEF Members
<1>6. ASSUME NEW i \in DOMAIN m PROVE m[i] \in Members(l \o m)
  <2>1. i + Len(l) \in DOMAIN (l \o m) BY <1>2, <1>3
  <2>2. (l \o m)[i + Len(l)] = m[i] BY <1>1, <1>2, <1>3, <2>1
  <2> QED BY <2>1, <2>2 DEF Members
<1>7. ASSUME Distinct(l), Distinct(m), Members(l) \cap Members(m) = {}
      PROVE  Distinct(l \o m)
  <2> SUFFICES ASSUME NEW i \in DOMAIN (l \o m), NEW j \in DOMAIN (l \o m),
                      (l \o m)[i] = (l \o m)[j]
               PROVE  i = j
    BY DEF Distinct
  <2>1. CASE i <= Len(l) /\ j <= Len(l)
    BY <1>1, <1>2, <1>3, <1>7, <2>1 DEF Distinct
  <2>2. CASE i > Len(l) /\ j > Len(l)
    <3>1. i - Len(l) \in DOMAIN m /\ j - Len(l) \in DOMAIN m
      BY <1>2, <1>3, <2>2
    <3>2. m[i - Len(l)] = m[j - Len(l)] BY <1>1, <1>2, <1>3, <2>2
    <3>3. i - Len(l) = j - Len(l) BY <1>7, <3>1, <3>2 DEF Distinct
    <3> QED BY <1>2, <1>3, <3>3
  <2>3. \A a, b \in DOMAIN (l \o m) :
          a <= Len(l) /\ b > Len(l) => (l \o m)[a] # (l \o m)[b]
    <3> SUFFICES ASSUME NEW a \in DOMAIN (l \o m), NEW b \in DOMAIN (l \o m),
                        a <= Len(l), b > Len(l)
                 PROVE  (l \o m)[a] # (l \o m)[b]
      OBVIOUS
    <3>1. a \in DOMAIN l /\ b - Len(l) \in DOMAIN m BY <1>2, <1>3
    <3>2. (l \o m)[a] = l[a] /\ (l \o m)[b] = m[b - Len(l)]
      BY <1>1, <1>2, <1>3
    <3>3. l[a] \in Members(l) /\ m[b - Len(l)] \in Members(m)
      BY <3>1 DEF Members
    <3> QED BY <1>7, <3>2, <3>3
  <2> QED BY <1>2, <1>3, <2>1, <2>2, <2>3
<1> QED BY <1>1, <1>4, <1>5, <1>6, <1>7 DEF Members

(* Linking one node at the end. *)
LEMMA ListInsertLastProperties ==
  ASSUME NEW S, NEW l \in Seq(S), NEW n \in S
  PROVE  /\ ListInsertLast(l, n) \in Seq(S)
         /\ Members(ListInsertLast(l, n)) = Members(l) \cup {n}
         /\ (Distinct(l) /\ n \notin Members(l)) => Distinct(ListInsertLast(l, n))
<1> DEFINE m == <<n>>
<1>1. m \in Seq(S) /\ Members(m) = {n} /\ Distinct(m)
  BY DEF Members, Distinct
<1>2. ListInsertLast(l, n) = l \o m BY AppendIsConcat DEF ListInsertLast
<1> HIDE DEF m
<1>3. /\ l \o m \in Seq(S)
      /\ Members(l \o m) = Members(l) \cup {n}
      /\ Distinct(l) /\ Members(l) \cap {n} = {} => Distinct(l \o m)
  BY <1>1, ConcatProperties2
<1>4. n \notin Members(l) => Members(l) \cap {n} = {} OBVIOUS
<1> QED BY <1>2, <1>3, <1>4

(* Unlinking the first node. *)
LEMMA ListRemoveFirstProperties ==
  ASSUME NEW S, NEW l \in Seq(S), l # <<>>
  PROVE  /\ Head(l) \in S /\ Head(l) \in Members(l)
         /\ ListRemoveFirst(l) \in Seq(S)
         /\ Members(l) = Members(ListRemoveFirst(l)) \cup {Head(l)}
         /\ Distinct(l) => /\ Distinct(ListRemoveFirst(l))
                           /\ Members(ListRemoveFirst(l)) = Members(l) \ {Head(l)}
<1> DEFINE r == ListRemoveFirst(l)
<1>1. /\ Len(l) \in Nat \ {0} /\ DOMAIN l = 1 .. Len(l)
      /\ Head(l) = l[1] /\ Head(l) \in S
  OBVIOUS
<1>2. /\ r \in Seq(S) /\ DOMAIN r = 1 .. Len(l) - 1
      /\ \A i \in 1 .. Len(l) - 1 : r[i] = l[i + 1]
  BY <1>1 DEF ListRemoveFirst
<1> HIDE DEF r
<1>3. Head(l) \in Members(l) BY <1>1 DEF Members
<1>4. Members(l) = Members(r) \cup {Head(l)}
  <2>1. \A i \in DOMAIN l : l[i] \in Members(r) \cup {Head(l)}
    <3>1. TAKE i \in DOMAIN l
    <3>2. CASE i = 1 BY <3>2, <1>1
    <3>3. CASE i # 1
      <4>1. i - 1 \in DOMAIN r /\ r[i - 1] = l[i] BY <3>3, <1>1, <1>2
      <4> QED BY <4>1 DEF Members
    <3> QED BY <3>2, <3>3
  <2>2. \A i \in DOMAIN r : r[i] \in Members(l)
    <3>1. TAKE i \in DOMAIN r
    <3>2. i + 1 \in DOMAIN l /\ r[i] = l[i + 1] BY <1>1, <1>2
    <3> QED BY <3>2 DEF Members
  <2> QED BY <2>1, <2>2, <1>3 DEF Members
<1>5. ASSUME Distinct(l) PROVE Distinct(r) /\ Head(l) \notin Members(r)
  <2>1. ASSUME NEW i \in DOMAIN r, NEW j \in DOMAIN r, r[i] = r[j] PROVE i = j
    <3>1. /\ i + 1 \in DOMAIN l /\ j + 1 \in DOMAIN l
          /\ l[i + 1] = l[j + 1]
      BY <1>1, <1>2, <2>1
    <3>2. i + 1 = j + 1 BY <3>1, <1>5 DEF Distinct
    <3> QED BY <3>2, <1>1, <1>2
  <2>2. ASSUME NEW i \in DOMAIN r PROVE r[i] # Head(l)
    <3>1. i + 1 \in DOMAIN l /\ 1 \in DOMAIN l /\ r[i] = l[i + 1] /\ i + 1 # 1
      BY <1>1, <1>2
    <3> QED BY <3>1, <1>1, <1>5 DEF Distinct
  <2> QED BY <2>1, <2>2 DEF Distinct, Members
<1> QED BY <1>1, <1>2, <1>3, <1>4, <1>5 DEF r

-----------------------------------------------------------------------------
(* u stands before t in the list l. *)
Before(l, u, t) == \E i, j \in DOMAIN l : i < j /\ l[i] = u /\ l[j] = t

(* Nothing stands before itself in a list of distinct nodes. *)
LEMMA BeforeIsStrict ==
  ASSUME NEW S, NEW l \in Seq(S), Distinct(l), NEW u, NEW t, Before(l, u, t)
  PROVE  u # t /\ u \in Members(l) /\ t \in Members(l)
BY DEF Before, Distinct, Members

(* The first node stands before the others. *)
LEMMA HeadIsBefore ==
  ASSUME NEW S, NEW l \in Seq(S), NEW t \in Members(l), t # Head(l)
  PROVE  Before(l, Head(l), t)
<1>1. PICK j \in DOMAIN l : l[j] = t BY DEF Members
<1>2. Len(l) \in Nat /\ DOMAIN l = 1 .. Len(l) OBVIOUS
<1>3. 1 \in DOMAIN l /\ Head(l) = l[1] BY <1>1, <1>2
<1>4. 1 < j BY <1>1, <1>2, <1>3
<1> QED BY <1>1, <1>3, <1>4 DEF Before

(* Unlinking nodes does not bring one before another. *)
LEMMA KeepKeepsOrder ==
  ASSUME NEW S, NEW l \in Seq(S), NEW K, NEW u, NEW t, Before(ListKeep(l, K), u, t)
  PROVE  Before(l, u, t)
<1> DEFINE r == ListKeep(l, K)
           n == Len(r)
<1>1. PICK p \in [1 .. n -> DOMAIN l] :
           /\ r = [k \in 1 .. n |-> l[p[k]]]
           /\ \A j, k \in DOMAIN p : j < k => p[j] < p[k]
  BY ListKeepIndices
<1>2. PICK i, j \in DOMAIN r : i < j /\ r[i] = u /\ r[j] = t BY DEF Before
<1> HIDE DEF n, r
<1>3. i \in 1 .. n /\ j \in 1 .. n /\ DOMAIN p = 1 .. n BY <1>1, <1>2
<1>4. l[p[i]] = u /\ l[p[j]] = t /\ p[i] < p[j] BY <1>1, <1>2, <1>3
<1>5. p[i] \in DOMAIN l /\ p[j] \in DOMAIN l BY <1>1, <1>3
<1> QED BY <1>4, <1>5 DEF Before

(* Nor does linking others behind them. *)
LEMMA ConcatKeepsOrder ==
  ASSUME NEW S, NEW l \in Seq(S), NEW m \in Seq(S), NEW u, NEW t,
         t \notin Members(m), Before(l \o m, u, t)
  PROVE  Before(l, u, t)
<1>1. /\ Len(l) \in Nat /\ Len(m) \in Nat
      /\ DOMAIN l = 1 .. Len(l) /\ DOMAIN m = 1 .. Len(m)
      /\ DOMAIN (l \o m) = 1 .. Len(l) + Len(m)
      /\ \A i \in 1 .. Len(l) + Len(m) :
           (l \o m)[i] = IF i <= Len(l) THEN l[i] ELSE m[i - Len(l)]
  OBVIOUS
<1>2. PICK i, j \in DOMAIN (l \o m) : i < j /\ (l \o m)[i] = u /\ (l \o m)[j] = t
  BY DEF Before
<1>3. j <= Len(l)
  <2> SUFFICES ASSUME j > Len(l) PROVE FALSE BY <1>1, <1>2
  <2>1. j - Len(l) \in DOMAIN m /\ m[j - Len(l)] = t BY <1>1, <1>2
  <2> QED BY <2>1 DEF Members
<1>4. i \in DOMAIN l /\ j \in DOMAIN l /\ l[i] = u /\ l[j] = t BY <1>1, <1>2, <1>3
<1> QED BY <1>2, <1>4 DEF Before

=============================================================================
