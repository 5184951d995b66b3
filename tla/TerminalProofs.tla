--------------------------- MODULE TerminalProofs ---------------------------
(***************************************************************************)
(* One terminal with any number of readers and writers, any sizes of its   *)
(* buffers, and all keys.                                                  *)
(***************************************************************************)
EXTENDS Terminal, KListProofs

(* Sequences flattened into one. *)
(* f gives the first sequences of s in one, up to n of them. *)
Flattens(f, s, n) == f = [i \in 1 .. n |-> IF i = 1 THEN s[i] ELSE f[i - 1] \o s[i]]

SameUpTo(s, u, n) == \A i \in 1 .. n : s[i] = u[i]

LEMMA FlattensExist ==
  ASSUME NEW s, NEW n \in Nat
  PROVE  \E f : Flattens(f, s, n)
<1> DEFINE Bad == {m \in Nat : ~ \E f : Flattens(f, s, m)}
<1> SUFFICES ASSUME Bad # {} PROVE FALSE OBVIOUS
<1>1. PICK m \in Bad : \A k \in Bad : ~ (k < m)
  <2> HIDE DEF Bad
  <2> QED BY LeastNumber DEF Bad
<1>2. m \in Nat /\ ~ \E f : Flattens(f, s, m) OBVIOUS
<1>3. CASE m = 0
  <2> DEFINE f == [i \in 1 .. 0 |-> s[i]]
  <2>1. Flattens(f, s, 0) BY DEF Flattens
  <2> QED BY <1>2, <1>3, <2>1
<1>4. CASE m # 0
  <2>1. m - 1 \in Nat /\ m - 1 < m BY <1>2, <1>4
  <2>2. m - 1 \notin Bad BY <1>1, <2>1
  <2>3. PICK g : Flattens(g, s, m - 1) BY <2>1, <2>2
  <2> DEFINE Step(h, i) == IF i = 1 THEN s[i] ELSE h[i - 1] \o s[i]
             f == [i \in 1 .. m |-> IF i = m THEN Step(g, m) ELSE g[i]]
  <2>4. \A i \in 1 .. m - 1 : g[i] = Step(g, i) BY <2>3 DEF Flattens
  <2>5. ASSUME NEW i \in 1 .. m PROVE f[i] = Step(f, i)
    <3>1. f[i] = Step(g, i)
      <4>1. f[i] = IF i = m THEN Step(g, m) ELSE g[i] OBVIOUS
      <4>2. i # m => i \in 1 .. m - 1 BY <1>2
      <4> HIDE DEF f, Step
      <4> QED BY <2>4, <4>1, <4>2
    <3>2. i # 1 => f[i - 1] = g[i - 1] BY <1>2
    <3>3. Step(f, i) = Step(g, i)
      <4> HIDE DEF f
      <4> QED BY <3>2
    <3> QED BY <3>1, <3>3
  <2>6. f = [i \in 1 .. m |-> f[i]] OBVIOUS
  <2>7. f = [i \in 1 .. m |-> Step(f, i)]
    <3> HIDE DEF f, Step
    <3> QED BY <2>5, <2>6
  <2>8. Flattens(f, s, m)
    <3> HIDE DEF f
    <3> QED BY <2>7 DEF Flattens
  <2> QED BY <1>2, <2>8
<1> QED BY <1>3, <1>4

LEMMA FlattensAgree ==
  ASSUME NEW S, NEW s \in Seq(Seq(S)), NEW u, NEW n \in Nat \ {0}, NEW m \in Nat, n <= m,
         n <= Len(s), SameUpTo(s, u, n), NEW f, Flattens(f, s, n), NEW g, Flattens(g, u, m)
  PROVE  f[n] \in Seq(S) /\ f[n] = g[n]
<1> DEFINE Bad == {i \in 1 .. n : ~ (f[i] \in Seq(S) /\ f[i] = g[i])}
<1>0. n \in 1 .. n OBVIOUS
<1> SUFFICES ASSUME Bad # {} PROVE FALSE BY <1>0
<1>1. PICK k \in Bad : \A i \in Bad : ~ (i < k)
  <2>1. Bad \subseteq Nat OBVIOUS
  <2> HIDE DEF Bad
  <2> QED BY <2>1, LeastNumber
<1>2. k \in 1 .. n /\ ~ (f[k] \in Seq(S) /\ f[k] = g[k]) OBVIOUS
<1>3. f[k] = IF k = 1 THEN s[k] ELSE f[k - 1] \o s[k]
  <2> HIDE DEF Bad
  <2> QED BY <1>2 DEF Flattens
<1>4. g[k] = IF k = 1 THEN u[k] ELSE g[k - 1] \o u[k]
  <2>1. k \in 1 .. m BY <1>2
  <2> HIDE DEF Bad
  <2> QED BY <2>1 DEF Flattens
<1>5. s[k] = u[k] /\ s[k] \in Seq(S)
  <2>1. k \in 1 .. Len(s) BY <1>2
  <2> HIDE DEF Bad
  <2> QED BY <1>2, <2>1 DEF SameUpTo
<1>6. k # 1 => f[k - 1] \in Seq(S) /\ f[k - 1] = g[k - 1]
  <2> SUFFICES ASSUME k # 1 PROVE f[k - 1] \in Seq(S) /\ f[k - 1] = g[k - 1] OBVIOUS
  <2>1. k - 1 \in 1 .. n /\ k - 1 < k BY <1>2
  <2>2. k - 1 \notin Bad BY <1>1, <2>1
  <2> QED BY <2>1, <2>2
<1>7. f[k] = g[k] /\ f[k] \in Seq(S)
  <2> HIDE DEF Bad
  <2>1. CASE k = 1 BY <1>3, <1>4, <1>5, <2>1
  <2>2. CASE k # 1
    <3>1. f[k - 1] \o s[k] \in Seq(S) BY <1>5, <1>6, <2>2
    <3>2. f[k] = f[k - 1] \o s[k] /\ g[k] = g[k - 1] \o u[k] BY <1>3, <1>4, <2>2
    <3> QED BY <1>5, <1>6, <2>2, <3>1, <3>2
  <2> QED BY <2>1, <2>2
<1> QED BY <1>2, <1>7

LEMMA FlattenIsLast ==
  ASSUME NEW S, NEW s \in Seq(S), Len(s) # 0
  PROVE  \E f : Flattens(f, s, Len(s)) /\ FlattenSeq(s) = f[Len(s)]
<1> DEFINE F == CHOOSE f : f = [i \in 1 .. Len(s) |-> IF i = 1 THEN s[i] ELSE f[i - 1] \o s[i]]
<1>1. Len(s) \in Nat OBVIOUS
<1>2. \E f : Flattens(f, s, Len(s)) BY <1>1, FlattensExist
<1>3. F = [i \in 1 .. Len(s) |-> IF i = 1 THEN s[i] ELSE F[i - 1] \o s[i]]
  BY <1>2, Zenon DEF Flattens
<1>4. FlattenSeq(s) = F[Len(s)] BY Zenon DEF FlattenSeq
<1>5. Flattens(F, s, Len(s))
  <2> HIDE DEF F
  <2> QED BY <1>3 DEF Flattens
<1> HIDE DEF F
<1> QED BY <1>4, <1>5

LEMMA FlattenOfNothing == FlattenSeq(<<>>) = <<>>
BY DEF FlattenSeq

LEMMA FlattenType ==
  ASSUME NEW S, NEW s \in Seq(Seq(S))
  PROVE  FlattenSeq(s) \in Seq(S)
<1>1. CASE Len(s) = 0 BY <1>1 DEF FlattenSeq
<1>2. CASE Len(s) # 0
  <2>1. PICK f : Flattens(f, s, Len(s)) /\ FlattenSeq(s) = f[Len(s)] BY <1>2, FlattenIsLast
  <2> DEFINE n == Len(s)
  <2>2. n \in Nat \ {0} /\ n <= n /\ n <= Len(s) /\ SameUpTo(s, s, n) /\ n \in Nat BY <1>2 DEF SameUpTo
  <2>3. Flattens(f, s, n) BY <2>1
  <2>4. f[n] \in Seq(S)
    <3> HIDE DEF n
    <3> QED BY <2>2, <2>3, FlattensAgree
  <2> QED BY <2>1, <2>4
<1> QED BY <1>1, <1>2

LEMMA FlattenOfMore ==
  ASSUME NEW S, NEW s \in Seq(Seq(S)), NEW x \in Seq(S)
  PROVE  FlattenSeq(Append(s, x)) = FlattenSeq(s) \o x
<1> DEFINE u == Append(s, x)
           n == Len(s)
           m == Len(u)
<1>1. u \in Seq(Seq(S)) /\ m = n + 1 /\ n \in Nat /\ m \in Nat \ {0} /\ u[m] = x
      /\ \A i \in 1 .. n : s[i] = u[i]
  OBVIOUS
<1> HIDE DEF u
<1>2. PICK g : Flattens(g, u, m) /\ FlattenSeq(u) = g[m]
  <2>1. Len(u) # 0 BY <1>1
  <2> QED BY <1>1, <2>1, FlattenIsLast
<1>3. g[m] = IF m = 1 THEN u[m] ELSE g[m - 1] \o u[m]
  <2>1. m \in 1 .. m BY <1>1
  <2> HIDE DEF m
  <2> QED BY <1>2, <2>1 DEF Flattens
<1>4. CASE n = 0
  <2>1. s = <<>> BY <1>4
  <2>2. FlattenSeq(s) = <<>> BY <2>1, FlattenOfNothing
  <2>3. <<>> \o x = x OBVIOUS
  <2>4. g[m] = x
    <3>1. m = 1 BY <1>1, <1>4
    <3> HIDE DEF m, n
    <3> QED BY <1>1, <1>3, <3>1
  <2> QED BY <1>2, <2>2, <2>3, <2>4 DEF u
<1>5. CASE n # 0
  <2>1. PICK f : Flattens(f, s, n) /\ FlattenSeq(s) = f[n] BY <1>5, FlattenIsLast
  <2>2. f[n] = g[n]
    <3>1. n \in Nat \ {0} /\ m \in Nat /\ n <= m /\ n <= Len(s) /\ SameUpTo(s, u, n)
      BY <1>1, <1>5 DEF SameUpTo
    <3> HIDE DEF n, m
    <3> QED BY <1>2, <2>1, <3>1, FlattensAgree
  <2>3. m # 1 /\ m - 1 = n BY <1>1, <1>5
  <2>4. g[m] = f[n] \o x
    <3> HIDE DEF n, m
    <3> QED BY <1>1, <1>3, <2>2, <2>3
  <2>5. FlattenSeq(u) = FlattenSeq(s) \o x
    <3> HIDE DEF n, m
    <3> QED BY <1>2, <2>1, <2>4
  <2> QED BY <2>5 DEF u
<1> QED BY <1>4, <1>5

JoinsAgain(a, b, c) == (a \o b) \o c = a \o (b \o c)

LEMMA JoinAgain ==
  ASSUME NEW S, NEW a \in Seq(S), NEW b \in Seq(S), NEW c \in Seq(S)
  PROVE  JoinsAgain(a, b, c)
<1> DEFINE l == (a \o b) \o c
           r == a \o (b \o c)
<1>1. l \in Seq(S) /\ r \in Seq(S) /\ Len(l) = Len(r) OBVIOUS
<1>2. ASSUME NEW i \in 1 .. Len(l) PROVE l[i] = r[i] OBVIOUS
<1> HIDE DEF l, r
<1>3. l = r BY <1>1, <1>2
<1> QED BY <1>3 DEF l, r, JoinsAgain

LEMMA JoinOneMore ==
  ASSUME NEW S, NEW a \in Seq(S), NEW b \in Seq(S), NEW x \in S
  PROVE  a \o Append(b, x) = Append(a \o b, x)
<1> DEFINE l == a \o Append(b, x)
           r == Append(a \o b, x)
<1>1. l \in Seq(S) /\ r \in Seq(S) /\ Len(l) = Len(r) OBVIOUS
<1>2. ASSUME NEW i \in 1 .. Len(l) PROVE l[i] = r[i] OBVIOUS
<1> HIDE DEF l, r
<1>3. l = r BY <1>1, <1>2
<1> QED BY <1>3 DEF l, r

MovesOver(s, c, q, e) == s \o ((<<c>> \o q) \o e) = Append(s, c) \o (q \o e)

LEMMA HeadMovesOver ==
  ASSUME NEW S, NEW s \in Seq(S), NEW c \in S, NEW q \in Seq(S), NEW e \in Seq(S)
  PROVE  MovesOver(s, c, q, e)
<1> DEFINE C == <<c>>
           qe == q \o e
<1>1. C \in Seq(S) /\ qe \in Seq(S) /\ Append(s, c) = s \o C OBVIOUS
<1>2. (C \o q) \o e = C \o qe
  <2> HIDE DEF C
  <2>1. JoinsAgain(C, q, e) BY <1>1, JoinAgain
  <2> QED BY <2>1 DEF JoinsAgain
<1>3. (s \o C) \o qe = s \o (C \o qe)
  <2> HIDE DEF C, qe
  <2>1. JoinsAgain(s, C, qe) BY <1>1, JoinAgain
  <2> QED BY <2>1 DEF JoinsAgain
<1>4. s \o ((C \o q) \o e) = Append(s, c) \o qe
  <2> HIDE DEF C, qe
  <2> QED BY <1>1, <1>2, <1>3
<1> QED BY <1>4, Zenon DEF MovesOver

Joined(a, b) ==
  /\ Len(a \o b) = Len(a) + Len(b)
  /\ \A i \in 1 .. Len(a \o b) : (a \o b)[i] = IF i <= Len(a) THEN a[i] ELSE b[i - Len(a)]

LEMMA JoinIs ==
  ASSUME NEW S, NEW a \in Seq(S), NEW b \in Seq(S)
  PROVE  a \o b \in Seq(S) /\ Joined(a, b)
BY DEF Joined

(* Flattening a part of b behind a. *)
FlatJoin(a, b) == FlattenSeq(a \o b) = FlattenSeq(a) \o FlattenSeq(b)

LEMMA FlattenOfJoin ==
  ASSUME NEW S, NEW a \in Seq(Seq(S)), NEW b \in Seq(Seq(S))
  PROVE  FlatJoin(a, b)
<1> DEFINE Bad == {n \in 0 .. Len(b) : ~ FlatJoin(a, SubSeq(b, 1, n))}
<1>0. Len(b) \in Nat OBVIOUS
<1>1. Bad = {}
  <2> SUFFICES ASSUME Bad # {} PROVE FALSE OBVIOUS
  <2>1. PICK n \in Bad : \A k \in Bad : ~ (k < n)
    <3>1. Bad \subseteq Nat BY <1>0
    <3> HIDE DEF Bad
    <3> QED BY <3>1, LeastNumber
  <2>2. n \in 0 .. Len(b) /\ ~ FlatJoin(a, SubSeq(b, 1, n)) OBVIOUS
  <2>3. n # 0
    <3>1. FlattenSeq(a) \in Seq(S) BY FlattenType
    <3>2. FlattenSeq(a) \o <<>> = FlattenSeq(a) BY <3>1
    <3>3. a \o <<>> = a OBVIOUS
    <3>4. FlatJoin(a, <<>>) BY <3>2, <3>3, FlattenOfNothing DEF FlatJoin
    <3>5. SubSeq(b, 1, 0) = <<>> OBVIOUS
    <3> HIDE DEF Bad
    <3> QED BY <2>2, <3>4, <3>5
  <2>4. n - 1 \in 0 .. Len(b) /\ n - 1 < n BY <1>0, <2>2, <2>3
  <2>5. n - 1 \notin Bad BY <2>1, <2>4
  <2> DEFINE p == SubSeq(b, 1, n - 1)
  <2>6. FlatJoin(a, p) BY <2>4, <2>5
  <2>7. p \in Seq(Seq(S)) /\ b[n] \in Seq(S) /\ SubSeq(b, 1, n) = Append(p, b[n])
    <3>1. n \in 1 .. Len(b) BY <1>0, <2>2, <2>3
    <3>2. p \in Seq(Seq(S)) BY <3>1
    <3>3. SubSeq(b, 1, n) = Append(p, b[n]) BY <3>1
    <3> HIDE DEF Bad, p
    <3> QED BY <3>1, <3>2, <3>3
  <2>8. FlatJoin(a, Append(p, b[n]))
    <3> DEFINE x == b[n]
               ap == a \o p
               fa == FlattenSeq(a)
               fp == FlattenSeq(p)
    <3>1. a \o Append(p, x) = Append(ap, x)
      <4> HIDE DEF p, x, Bad
      <4> QED BY <2>7, JoinOneMore DEF x
    <3>2. ap \in Seq(Seq(S)) /\ x \in Seq(S)
      <4> HIDE DEF p, Bad
      <4> QED BY <2>7
    <3>3. FlattenSeq(Append(ap, x)) = FlattenSeq(ap) \o x
      <4> HIDE DEF ap, x, p, Bad
      <4> QED BY <3>2, FlattenOfMore
    <3>4. FlattenSeq(ap) = fa \o fp
      <4> HIDE DEF p, Bad
      <4> QED BY <2>6 DEF FlatJoin
    <3>5. FlattenSeq(Append(p, x)) = fp \o x
      <4> HIDE DEF p, x, Bad
      <4> QED BY <2>7, <3>2, FlattenOfMore
    <3>6. fa \in Seq(S) /\ fp \in Seq(S)
      <4> HIDE DEF p, Bad
      <4> QED BY <2>7, FlattenType
    <3>7. (fa \o fp) \o x = fa \o (fp \o x)
      <4> HIDE DEF fa, fp, x, p, Bad
      <4>1. JoinsAgain(fa, fp, x) BY <3>2, <3>6, JoinAgain
      <4> QED BY <4>1 DEF JoinsAgain
    <3>8. FlattenSeq(a \o Append(p, x)) = fa \o FlattenSeq(Append(p, x))
      <4> HIDE DEF fa, fp, ap, x, p, Bad
      <4> QED BY <3>1, <3>3, <3>4, <3>5, <3>7
    <3> HIDE DEF p, Bad
    <3> QED BY <3>8 DEF FlatJoin
  <2> HIDE DEF p, Bad
  <2> QED BY <2>2, <2>7, <2>8
<1>2. Len(b) \notin Bad
  <2> HIDE DEF Bad
  <2> QED BY <1>1
<1>3. FlatJoin(a, SubSeq(b, 1, Len(b))) BY <1>0, <1>2
<1>4. SubSeq(b, 1, Len(b)) = b OBVIOUS
<1> HIDE DEF Bad
<1> QED BY <1>3, <1>4

-----------------------------------------------------------------------------
(* What the screen should show of calls, one call and one character. *)
PutOf(c) == IF c = LF THEN <<CR, LF>> ELSE <<c>>

Puts(call) == [j \in DOMAIN call |-> PutOf(call[j])]

OneCall(call) == FlattenSeq(Puts(call))

Calls(calls) == [i \in DOMAIN calls |-> OneCall(calls[i])]

LEMMA ExpandedIsCalls ==
  ASSUME NEW calls
  PROVE  Expanded(calls) = FlattenSeq(Calls(calls))
BY Zenon DEF Expanded, Calls, OneCall, Puts, PutOf

LEMMA PutsType ==
  ASSUME NEW S, CR \in S, LF \in S, NEW call \in Seq(S)
  PROVE  Puts(call) \in Seq(Seq(S)) /\ Len(Puts(call)) = Len(call)
         /\ OneCall(call) \in Seq(S)
<1>1. \A c \in S : PutOf(c) \in Seq(S) BY DEF PutOf
<1>2. DOMAIN call = 1 .. Len(call) /\ Len(call) \in Nat /\ \A j \in 1 .. Len(call) : call[j] \in S
  OBVIOUS
<1>3. Puts(call) = [j \in 1 .. Len(call) |-> PutOf(call[j])] BY <1>2 DEF Puts
<1>4. \A j \in 1 .. Len(call) : PutOf(call[j]) \in Seq(S) BY <1>1, <1>2
<1>5. Puts(call) \in Seq(Seq(S)) /\ Len(Puts(call)) = Len(call) BY <1>2, <1>3, <1>4
<1> QED BY <1>5, FlattenType DEF OneCall

LEMMA CallsType ==
  ASSUME NEW S, CR \in S, LF \in S, NEW calls \in Seq(Seq(S))
  PROVE  Calls(calls) \in Seq(Seq(S)) /\ Len(Calls(calls)) = Len(calls)
         /\ Expanded(calls) \in Seq(S)
<1>2. DOMAIN calls = 1 .. Len(calls) /\ Len(calls) \in Nat
      /\ \A j \in 1 .. Len(calls) : calls[j] \in Seq(S)
  OBVIOUS
<1>3. Calls(calls) = [j \in 1 .. Len(calls) |-> OneCall(calls[j])] BY <1>2 DEF Calls
<1>4. \A j \in 1 .. Len(calls) : OneCall(calls[j]) \in Seq(S) BY <1>2, PutsType
<1>5. Calls(calls) \in Seq(Seq(S)) /\ Len(Calls(calls)) = Len(calls) BY <1>2, <1>3, <1>4
<1> QED BY <1>5, FlattenType, ExpandedIsCalls

LEMMA PutsOfJoin ==
  ASSUME NEW S, CR \in S, LF \in S, NEW a \in Seq(S), NEW b \in Seq(S)
  PROVE  OneCall(a \o b) = OneCall(a) \o OneCall(b)
<1> DEFINE ab == a \o b
           l == Puts(ab)
           pa == Puts(a)
           pb == Puts(b)
           r == pa \o pb
<1>1. ab \in Seq(S) /\ Len(ab) = Len(a) + Len(b) /\ Len(a) \in Nat /\ Len(b) \in Nat
      /\ \A i \in 1 .. Len(ab) : ab[i] = IF i <= Len(a) THEN a[i] ELSE b[i - Len(a)]
  OBVIOUS
<1>2. pa \in Seq(Seq(S)) /\ pb \in Seq(Seq(S)) /\ Len(pa) = Len(a) /\ Len(pb) = Len(b) BY PutsType
<1>3. l \in Seq(Seq(S)) /\ Len(l) = Len(ab)
  <2> HIDE DEF ab
  <2> QED BY <1>1, PutsType
<1>4. r \in Seq(Seq(S)) /\ Len(r) = Len(a) + Len(b)
      /\ \A i \in 1 .. Len(r) : r[i] = IF i <= Len(a) THEN pa[i] ELSE pb[i - Len(a)]
  <2> HIDE DEF pa, pb
  <2>1. r \in Seq(Seq(S)) /\ Len(r) = Len(pa) + Len(pb)
        /\ \A i \in 1 .. Len(r) : r[i] = IF i <= Len(pa) THEN pa[i] ELSE pb[i - Len(pa)]
    BY <1>2, JoinIs DEF Joined
  <2> HIDE DEF r
  <2> QED BY <1>2, <2>1
<1>5. ASSUME NEW i \in 1 .. Len(l) PROVE l[i] = r[i]
  <2>1. i \in 1 .. Len(ab) /\ i \in 1 .. Len(r) /\ i \in DOMAIN ab
    <3> HIDE DEF l, r, ab
    <3> QED BY <1>1, <1>3, <1>4
  <2>2. l[i] = PutOf(ab[i])
    <3> HIDE DEF ab
    <3> QED BY <2>1 DEF Puts
  <2>3. CASE i <= Len(a)
    <3>1. i \in DOMAIN a BY <2>1, <2>3
    <3>2. pa[i] = PutOf(a[i]) BY <3>1 DEF Puts
    <3> HIDE DEF ab, l, r, pa, pb
    <3> QED BY <1>1, <1>4, <2>1, <2>2, <2>3, <3>2
  <2>4. CASE ~ (i <= Len(a))
    <3>1. i - Len(a) \in DOMAIN b BY <2>1, <2>4
    <3>2. pb[i - Len(a)] = PutOf(b[i - Len(a)]) BY <3>1 DEF Puts
    <3> HIDE DEF ab, l, r, pa, pb
    <3> QED BY <1>1, <1>4, <2>1, <2>2, <2>4, <3>2
  <2> QED BY <2>3, <2>4
<1>6. l = r
  <2> HIDE DEF l, r, ab
  <2>1. l \in Seq(Seq(S)) /\ r \in Seq(Seq(S)) /\ Len(l) = Len(r) BY <1>1, <1>3, <1>4
  <2> QED BY <1>5, <2>1
<1>7. FlatJoin(pa, pb)
  <2> HIDE DEF pa, pb
  <2> QED BY <1>2, FlattenOfJoin
<1> QED BY <1>6, <1>7 DEF OneCall, FlatJoin

LEMMA CallsOfJoin ==
  ASSUME NEW S, CR \in S, LF \in S, NEW a \in Seq(Seq(S)), NEW b \in Seq(Seq(S))
  PROVE  Expanded(a \o b) = Expanded(a) \o Expanded(b)
<1> DEFINE ab == a \o b
           l == Calls(ab)
           pa == Calls(a)
           pb == Calls(b)
           r == pa \o pb
<1>1. ab \in Seq(Seq(S)) /\ Len(ab) = Len(a) + Len(b) /\ Len(a) \in Nat /\ Len(b) \in Nat
      /\ \A i \in 1 .. Len(ab) : ab[i] = IF i <= Len(a) THEN a[i] ELSE b[i - Len(a)]
  OBVIOUS
<1>2. pa \in Seq(Seq(S)) /\ pb \in Seq(Seq(S)) /\ Len(pa) = Len(a) /\ Len(pb) = Len(b) BY CallsType
<1>3. l \in Seq(Seq(S)) /\ Len(l) = Len(ab)
  <2> HIDE DEF ab
  <2> QED BY <1>1, CallsType
<1>4. r \in Seq(Seq(S)) /\ Len(r) = Len(a) + Len(b)
      /\ \A i \in 1 .. Len(r) : r[i] = IF i <= Len(a) THEN pa[i] ELSE pb[i - Len(a)]
  <2> HIDE DEF pa, pb
  <2>1. r \in Seq(Seq(S)) /\ Len(r) = Len(pa) + Len(pb)
        /\ \A i \in 1 .. Len(r) : r[i] = IF i <= Len(pa) THEN pa[i] ELSE pb[i - Len(pa)]
    BY <1>2, JoinIs DEF Joined
  <2> HIDE DEF r
  <2> QED BY <1>2, <2>1
<1>5. ASSUME NEW i \in 1 .. Len(l) PROVE l[i] = r[i]
  <2>1. i \in 1 .. Len(ab) /\ i \in 1 .. Len(r) /\ i \in DOMAIN ab
    <3> HIDE DEF l, r, ab
    <3> QED BY <1>1, <1>3, <1>4
  <2>2. l[i] = OneCall(ab[i])
    <3> HIDE DEF ab
    <3> QED BY <2>1 DEF Calls
  <2>3. CASE i <= Len(a)
    <3>1. i \in DOMAIN a BY <2>1, <2>3
    <3>2. pa[i] = OneCall(a[i]) BY <3>1 DEF Calls
    <3> HIDE DEF ab, l, r, pa, pb
    <3> QED BY <1>1, <1>4, <2>1, <2>2, <2>3, <3>2
  <2>4. CASE ~ (i <= Len(a))
    <3>1. i - Len(a) \in DOMAIN b BY <2>1, <2>4
    <3>2. pb[i - Len(a)] = OneCall(b[i - Len(a)]) BY <3>1 DEF Calls
    <3> HIDE DEF ab, l, r, pa, pb
    <3> QED BY <1>1, <1>4, <2>1, <2>2, <2>4, <3>2
  <2> QED BY <2>3, <2>4
<1>6. l = r
  <2> HIDE DEF l, r, ab
  <2>1. l \in Seq(Seq(S)) /\ r \in Seq(Seq(S)) /\ Len(l) = Len(r) BY <1>1, <1>3, <1>4
  <2> QED BY <1>5, <2>1
<1>7. FlatJoin(pa, pb)
  <2> HIDE DEF pa, pb
  <2> QED BY <1>2, FlattenOfJoin
<1>8. Expanded(ab) = FlattenSeq(l) /\ Expanded(a) = FlattenSeq(pa) /\ Expanded(b) = FlattenSeq(pb)
  BY ExpandedIsCalls
<1> QED BY <1>6, <1>7, <1>8 DEF FlatJoin

LEMMA OneOfEach ==
  ASSUME NEW S, CR \in S, LF \in S
  PROVE  /\ Expanded(<<>>) = <<>> /\ OneCall(<<>>) = <<>>
         /\ \A c \in S : OneCall(<<c>>) = PutOf(c)
         /\ \A call \in Seq(S) : Expanded(<<call>>) = OneCall(call)
<1>0. \A x \in Seq(S) : FlattenSeq(<<x>>) = x
  <2> TAKE x \in Seq(S)
  <2>1. <<>> \in Seq(Seq(S)) /\ Append(<<>>, x) = <<x>> /\ <<>> \o x = x OBVIOUS
  <2>2. FlattenSeq(Append(<<>>, x)) = FlattenSeq(<<>>) \o x BY <2>1, FlattenOfMore
  <2> QED BY <2>1, <2>2, FlattenOfNothing
<1>1. Puts(<<>>) = <<>> /\ Calls(<<>>) = <<>> BY DEF Puts, Calls
<1>2. OneCall(<<>>) = <<>> BY <1>1, FlattenOfNothing DEF OneCall
<1>3. Expanded(<<>>) = <<>> BY <1>1, FlattenOfNothing, ExpandedIsCalls
<1>4. ASSUME NEW c \in S PROVE OneCall(<<c>>) = PutOf(c)
  <2>1. Puts(<<c>>) = <<PutOf(c)>> BY DEF Puts
  <2>2. PutOf(c) \in Seq(S) BY DEF PutOf
  <2> QED BY <1>0, <2>1, <2>2 DEF OneCall
<1>5. ASSUME NEW call \in Seq(S) PROVE Expanded(<<call>>) = OneCall(call)
  <2>1. Calls(<<call>>) = <<OneCall(call)>> BY DEF Calls
  <2>2. OneCall(call) \in Seq(S) BY PutsType
  <2> QED BY <1>0, <2>1, <2>2, ExpandedIsCalls
<1> QED BY <1>2, <1>3, <1>4, <1>5

LEMMA HeadAndTail ==
  ASSUME NEW S, NEW s \in Seq(S), s # <<>>
  PROVE  Head(s) \in S /\ Tail(s) \in Seq(S) /\ s = <<Head(s)>> \o Tail(s)
<1> DEFINE r == <<Head(s)>> \o Tail(s)
<1>1. Head(s) \in S /\ Tail(s) \in Seq(S) /\ Len(s) \in Nat \ {0} OBVIOUS
<1>2. r \in Seq(S) /\ Len(r) = Len(s) /\ \A i \in 1 .. Len(s) : r[i] = s[i] BY <1>1
<1> HIDE DEF r
<1>3. s = r BY <1>2
<1> QED BY <1>1, <1>3 DEF r

(* The next call has come to its end. *)
LEMMA ExpandedReturn ==
  ASSUME NEW S, CR \in S, LF \in S, NEW calls \in Seq(Seq(S)), calls # <<>>, Head(calls) = <<>>
  PROVE  Tail(calls) \in Seq(Seq(S)) /\ Expanded(calls) = Expanded(Tail(calls))
<1> DEFINE r == Tail(calls)
<1>1. r \in Seq(Seq(S)) /\ calls = <<<<>>>> \o r BY HeadAndTail
<1>2. <<>> \in Seq(S) /\ <<<<>>>> \in Seq(Seq(S)) OBVIOUS
<1> HIDE DEF r
<1>3. Expanded(calls) = Expanded(<<<<>>>>) \o Expanded(r) BY <1>1, <1>2, CallsOfJoin
<1>4. Expanded(<<<<>>>>) = <<>> BY <1>2, OneOfEach
<1>5. Expanded(r) \in Seq(S) BY <1>1, CallsType
<1>6. <<>> \o Expanded(r) = Expanded(r) BY <1>5
<1> QED BY <1>1, <1>3, <1>4, <1>6 DEF r

(* A character of the next call is taken. *)
Taken1(calls) == <<Tail(Head(calls))>> \o Tail(calls)

LEMMA ExpandedPut ==
  ASSUME NEW S, CR \in S, LF \in S, NEW calls \in Seq(Seq(S)), calls # <<>>, Head(calls) # <<>>
  PROVE  /\ Head(Head(calls)) \in S /\ Taken1(calls) \in Seq(Seq(S))
         /\ Expanded(calls) = PutOf(Head(Head(calls))) \o Expanded(Taken1(calls))
<1> DEFINE h == Head(calls)
           r == Tail(calls)
           c == Head(h)
           t == Tail(h)
<1>1. h \in Seq(S) /\ r \in Seq(Seq(S)) /\ calls = <<h>> \o r BY HeadAndTail
<1>2. c \in S /\ t \in Seq(S) /\ h = <<c>> \o t
  <2> HIDE DEF h
  <2> QED BY <1>1, HeadAndTail DEF h
<1>3. Taken1(calls) = <<t>> \o r BY DEF Taken1
<1> HIDE DEF h, r, c, t
<1>4. <<h>> \in Seq(Seq(S)) /\ <<t>> \in Seq(Seq(S)) /\ <<c>> \in Seq(S) BY <1>1, <1>2
<1>5. <<t>> \o r \in Seq(Seq(S)) BY <1>1, <1>4
<1>6. Expanded(calls) = Expanded(<<h>>) \o Expanded(r) BY <1>1, <1>4, CallsOfJoin
<1>7. Expanded(<<t>> \o r) = Expanded(<<t>>) \o Expanded(r) BY <1>1, <1>4, CallsOfJoin
<1>8. Expanded(<<h>>) = OneCall(h) /\ Expanded(<<t>>) = OneCall(t) BY <1>1, <1>2, OneOfEach
<1>9. OneCall(h) = OneCall(<<c>>) \o OneCall(t) BY <1>2, <1>4, PutsOfJoin
<1>10. OneCall(<<c>>) = PutOf(c) BY <1>2, OneOfEach
<1>11. PutOf(c) \in Seq(S) /\ OneCall(t) \in Seq(S) /\ Expanded(r) \in Seq(S)
  <2>1. PutOf(c) \in Seq(S) BY <1>2 DEF PutOf
  <2> QED BY <1>1, <1>2, <2>1, PutsType, CallsType
<1>12. (PutOf(c) \o OneCall(t)) \o Expanded(r) = PutOf(c) \o (OneCall(t) \o Expanded(r))
  <2>1. PICK x \in Seq(S), y \in Seq(S), z \in Seq(S) :
          x = PutOf(c) /\ y = OneCall(t) /\ z = Expanded(r)
    BY <1>11
  <2>2. JoinsAgain(x, y, z) BY JoinAgain
  <2> QED BY <2>1, <2>2 DEF JoinsAgain
<1> QED BY <1>2, <1>3, <1>5, <1>6, <1>7, <1>8, <1>9, <1>10, <1>12 DEF c, h

-----------------------------------------------------------------------------
(* The places where tasks are. *)
OutLabel ==
  {"begin", "next", "wait", "blocked", "putCheck", "putStore", "putWrap", "putLoad",
   "putCount", "getCheck", "getFetch", "getWrap", "getLoad", "getCount", "notify",
   "show", "done"}

InLabel == {"wait", "blocked", "check", "fetch", "wrap", "load", "store", "echo"}

USE OutputAssumption, TerminalAssumption

-----------------------------------------------------------------------------
(* Nobody is overlooked.  What makes it inductive is that nobody is in a   *)
(* wait list twice: the waiter that is notified is then gone from it.      *)
OutWaits ==
  /\ pc \in [Writer -> OutLabel]
  /\ osem \in Nat
  /\ osemWait \in Seq(Writer) /\ Distinct(osemWait)
  /\ NoRoomWhileBlocked

InWaits ==
  /\ inPc \in [Reader -> InLabel]
  /\ isem \in Nat
  /\ isemWait \in Seq(Reader) /\ Distinct(isemWait)
  /\ In!NoKeyWhileBlocked

(* A writer that is not blocked, and does not become so, goes on. *)
LEMMA WriterGoesOn ==
  ASSUME OutWaits, NEW t \in Writer, pc[t] # "blocked", NEW l \in OutLabel \ {"blocked"},
         pc' = [pc EXCEPT ![t] = l] \/ pc' = pc, UNCHANGED <<osem, osemWait>>
  PROVE  OutWaits'
<1>1. pc' \in [Writer -> OutLabel] BY DEF OutWaits
<1>2. \A u \in Writer : pc'[u] = "blocked" <=> pc[u] = "blocked"
  BY DEF OutWaits
<1> QED BY <1>1, <1>2 DEF OutWaits, NoRoomWhileBlocked

(* Most steps of tty_write and console_write neither block nor wake. *)
LEMMA OtherWritesGoOn ==
  ASSUME OutWaits, NEW t \in Writer, WriteStep(t), ~ WaitForRoom(t), ~ NotifyRoom(t)
  PROVE  /\ pc[t] # "blocked" /\ UNCHANGED <<osem, osemWait>>
         /\ \E l \in OutLabel \ {"blocked"} : pc' = [pc EXCEPT ![t] = l] \/ pc' = pc
<1>1. CASE Begin(t) \/ NextChar(t) \/ Return(t) \/ End(t) \/ PutFull(t)
  BY <1>1 DEF Begin, NextChar, Return, End, PutFull, GoTo, OutLabel
<1>2. CASE PutIndex(t) \/ PutStore(t) \/ PutWrap(t) \/ PutLoadCount(t)
  BY <1>2 DEF PutIndex, PutStore, PutWrap, PutLoadCount, GoTo, OutLabel
<1>3. CASE PutStoreCount(t)
  BY <1>3 DEF PutStoreCount, GoTo, OutLabel
<1>4. CASE GetEmpty(t) \/ GetIndex(t) \/ GetFetch(t) \/ GetWrap(t)
  BY <1>4 DEF GetEmpty, GetIndex, GetFetch, GetWrap, GoTo, OutLabel
<1>5. CASE GetLoadCount(t) \/ GetStoreCount(t) \/ Show(t)
  BY <1>5 DEF GetLoadCount, GetStoreCount, Show, GoTo, OutLabel
<1> QED BY <1>1, <1>2, <1>3, <1>4, <1>5 DEF WriteStep

LEMMA WaitForRoomKeepsWaits ==
  ASSUME OutWaits, NEW t \in Writer, WaitForRoom(t)
  PROVE  OutWaits'
<1>1. CASE osem > 0
  <2>1. /\ osem' = osem - 1 /\ osemWait' = osemWait /\ pc' = [pc EXCEPT ![t] = "putCheck"]
        /\ pc[t] = "wait"
    BY <1>1 DEF WaitForRoom, GoTo
  <2>2. osemWait = <<>> BY <1>1 DEF OutWaits, NoRoomWhileBlocked
  <2>3. pc' \in [Writer -> OutLabel] /\ osem' \in Nat
    BY <1>1, <2>1 DEF OutWaits, OutLabel
  <2>4. \A u \in Writer : pc'[u] = "blocked" <=> pc[u] = "blocked"
    BY <2>1 DEF OutWaits
  <2> QED BY <2>1, <2>2, <2>3, <2>4 DEF OutWaits, NoRoomWhileBlocked
<1>2. CASE ~ (osem > 0)
  <2>1. /\ osem' = osem /\ osemWait' = ListInsertLast(osemWait, t)
        /\ pc' = [pc EXCEPT ![t] = "blocked"] /\ pc[t] = "wait"
    BY <1>2 DEF WaitForRoom, GoTo, ListInsertLast
  <2>2. t \notin Members(osemWait)
    BY <2>1 DEF OutWaits, NoRoomWhileBlocked, ToSet, Members
  <2>3. /\ osemWait' \in Seq(Writer) /\ Distinct(osemWait')
        /\ Members(osemWait') = Members(osemWait) \cup {t}
    BY <2>1, <2>2, ListInsertLastProperties DEF OutWaits
  <2>4. pc' \in [Writer -> OutLabel] /\ osem = 0
    BY <1>2, <2>1 DEF OutWaits, OutLabel
  <2>5. \A u \in Writer : pc'[u] = "blocked" <=> u \in Members(osemWait')
    BY <2>1, <2>3 DEF OutWaits, NoRoomWhileBlocked, ToSet, Members
  <2> QED BY <2>1, <2>3, <2>4, <2>5 DEF OutWaits, NoRoomWhileBlocked, ToSet, Members
<1> QED BY <1>1, <1>2

LEMMA NotifyRoomKeepsWaits ==
  ASSUME OutWaits, NEW t \in Writer, NotifyRoom(t)
  PROVE  OutWaits'
<1>1. CASE osemWait = <<>>
  <2>1. /\ osem' = osem + 1 /\ osemWait' = osemWait /\ pc' = [pc EXCEPT ![t] = "show"]
        /\ pc[t] = "notify"
    BY <1>1 DEF NotifyRoom, GoTo
  <2>2. pc' \in [Writer -> OutLabel] /\ osem' \in Nat BY <2>1 DEF OutWaits, OutLabel
  <2>3. \A u \in Writer : pc'[u] = "blocked" <=> pc[u] = "blocked" BY <2>1 DEF OutWaits
  <2> QED BY <1>1, <2>1, <2>2, <2>3 DEF OutWaits, NoRoomWhileBlocked
<1>2. CASE osemWait # <<>>
  <2>1. PICK h \in Writer : h = Head(osemWait) /\ h \in Members(osemWait)
    BY <1>2, ListRemoveFirstProperties DEF OutWaits
  <2>2. /\ osem' = osem /\ osemWait' = ListRemoveFirst(osemWait)
        /\ pc' = [pc EXCEPT ![h] = "putCheck", ![t] = "show"] /\ pc[t] = "notify"
    BY <1>2, <2>1 DEF NotifyRoom, ListRemoveFirst
  <2>3. /\ osemWait' \in Seq(Writer) /\ Distinct(osemWait')
        /\ Members(osemWait') = Members(osemWait) \ {h}
    BY <1>2, <2>1, <2>2, ListRemoveFirstProperties DEF OutWaits
  <2>4. pc' \in [Writer -> OutLabel] BY <2>2 DEF OutWaits, OutLabel
  <2>5. \A u \in Writer : pc'[u] = "blocked" <=> (pc[u] = "blocked" /\ u # h)
    BY <2>2 DEF OutWaits
  <2>6. \A u \in Writer : pc'[u] = "blocked" <=> u \in Members(osemWait')
    BY <2>3, <2>5 DEF OutWaits, NoRoomWhileBlocked, ToSet, Members
  <2>7. osem = 0 BY <1>2 DEF OutWaits, NoRoomWhileBlocked
  <2> QED BY <2>2, <2>3, <2>4, <2>6, <2>7 DEF OutWaits, NoRoomWhileBlocked, ToSet, Members
<1> QED BY <1>1, <1>2

LEMMA WriteStepKeepsWaits ==
  ASSUME OutWaits, NEW t \in Writer, WriteStep(t)
  PROVE  OutWaits'
<1>1. CASE WaitForRoom(t) BY <1>1, WaitForRoomKeepsWaits
<1>2. CASE NotifyRoom(t) BY <1>2, NotifyRoomKeepsWaits
<1>3. CASE ~ WaitForRoom(t) /\ ~ NotifyRoom(t)
  BY <1>3, OtherWritesGoOn, WriterGoesOn
<1> QED BY <1>1, <1>2, <1>3

-----------------------------------------------------------------------------
(* A step of a reader between sem_wait and the next one. *)
LEMMA ReaderGoesOn ==
  ASSUME InWaits, NEW r \in Reader, In!ReadStep(r), ~ In!ReadWait(r)
  PROVE  InWaits'
<1>1. /\ inPc[r] # "blocked" /\ UNCHANGED <<isem, isemWait>>
      /\ \E l \in InLabel \ {"blocked"} : inPc' = [inPc EXCEPT ![r] = l]
  BY DEF In!ReadStep, In!GetEmpty, In!GetIndex, In!GetFetch, In!GetWrap, In!GetLoadCount,
         In!GetStoreCount, In!ReadNext, In!GoTo, InLabel
<1>2. inPc' \in [Reader -> InLabel] BY <1>1 DEF InWaits
<1>3. \A u \in Reader : inPc'[u] = "blocked" <=> inPc[u] = "blocked"
  BY <1>1 DEF InWaits
<1> QED BY <1>1, <1>2, <1>3 DEF InWaits, In!NoKeyWhileBlocked

LEMMA ReadWaitKeepsWaits ==
  ASSUME InWaits, NEW r \in Reader, In!ReadWait(r)
  PROVE  InWaits'
<1>0. inPc[r] = "wait" BY DEF In!ReadWait
<1>1. CASE isem > 0
  <2>1. /\ isem' = isem - 1 /\ isemWait' = isemWait /\ inPc' = [inPc EXCEPT ![r] = "check"]
    BY <1>1 DEF In!ReadWait, In!WaitIsem, In!GoTo, InWaits
  <2>2. isemWait = <<>> BY <1>1 DEF InWaits, In!NoKeyWhileBlocked
  <2>3. inPc' \in [Reader -> InLabel] /\ isem' \in Nat
    BY <1>1, <2>1 DEF InWaits, InLabel
  <2>4. \A u \in Reader : inPc'[u] = "blocked" <=> inPc[u] = "blocked"
    BY <1>0, <2>1 DEF InWaits
  <2> QED BY <2>1, <2>2, <2>3, <2>4 DEF InWaits, In!NoKeyWhileBlocked
<1>2. CASE ~ (isem > 0)
  <2>1. /\ isem' = isem /\ isemWait' = ListInsertLast(isemWait, r)
        /\ inPc' = [inPc EXCEPT ![r] = "blocked"]
    BY <1>2 DEF In!ReadWait, In!WaitIsem, In!GoTo, ListInsertLast, InWaits
  <2>2. r \notin Members(isemWait)
    BY <1>0 DEF InWaits, In!NoKeyWhileBlocked, Members
  <2>3. /\ isemWait' \in Seq(Reader) /\ Distinct(isemWait')
        /\ Members(isemWait') = Members(isemWait) \cup {r}
    BY <2>1, <2>2, ListInsertLastProperties DEF InWaits
  <2>4. inPc' \in [Reader -> InLabel] /\ isem = 0
    BY <1>2, <2>1 DEF InWaits, InLabel
  <2>5. \A u \in Reader : inPc'[u] = "blocked" <=> u \in Members(isemWait')
    BY <2>1, <2>3 DEF InWaits, In!NoKeyWhileBlocked, Members
  <2> QED BY <2>1, <2>3, <2>4, <2>5 DEF InWaits, In!NoKeyWhileBlocked, Members
<1> QED BY <1>1, <1>2

(* The interrupt handler wakes the first reader, or leaves a token. *)
LEMMA TtyInKeepsWaits ==
  ASSUME InWaits, NEW c, In!TtyIn(c)
  PROVE  InWaits'
<1>1. CASE In!KeyDropped(c)
  BY <1>1 DEF In!KeyDropped, In!vars, InWaits, In!NoKeyWhileBlocked
<1>2. CASE In!KeyTaken(c) /\ isemWait = <<>>
  <2>1. isem' = isem + 1 /\ UNCHANGED <<isemWait, inPc>>
    BY <1>2 DEF In!KeyTaken, In!NotifyIsem
  <2> QED BY <1>2, <2>1 DEF InWaits, In!NoKeyWhileBlocked
<1>3. CASE In!KeyTaken(c) /\ isemWait # <<>>
  <2>1. PICK h \in Reader : h = Head(isemWait) /\ h \in Members(isemWait)
    BY <1>3, ListRemoveFirstProperties DEF InWaits
  <2>2. /\ isem' = isem /\ isemWait' = ListRemoveFirst(isemWait)
        /\ inPc' = [inPc EXCEPT ![h] = "check"]
    BY <1>3, <2>1 DEF In!KeyTaken, In!NotifyIsem, In!GoTo, ListRemoveFirst
  <2>3. /\ isemWait' \in Seq(Reader) /\ Distinct(isemWait')
        /\ Members(isemWait') = Members(isemWait) \ {h}
    BY <1>3, <2>1, <2>2, ListRemoveFirstProperties DEF InWaits
  <2>4. inPc' \in [Reader -> InLabel] BY <2>2 DEF InWaits, InLabel
  <2>5. \A u \in Reader : inPc'[u] = "blocked" <=> (inPc[u] = "blocked" /\ u # h)
    BY <2>2 DEF InWaits
  <2>6. \A u \in Reader : inPc'[u] = "blocked" <=> u \in Members(isemWait')
    <3>1. \A u \in Reader : inPc[u] = "blocked" <=> u \in Members(isemWait)
      BY DEF InWaits, In!NoKeyWhileBlocked, Members
    <3> QED BY <2>3, <2>5, <3>1
  <2>7. isem = 0 BY <1>3 DEF InWaits, In!NoKeyWhileBlocked
  <2> QED BY <2>2, <2>3, <2>4, <2>6, <2>7 DEF InWaits, In!NoKeyWhileBlocked, Members
<1> QED BY <1>1, <1>2, <1>3 DEF In!TtyIn

-----------------------------------------------------------------------------
LEMMA InitHasWaits ==
  ASSUME Init
  PROVE  OutWaits /\ InWaits
<1>1. OutWaits
  <2>1. pc = [t \in Writer |-> IF scene.calls[t] = <<>> THEN "done" ELSE "begin"]
        /\ osem = ObufSize /\ osemWait = <<>>
    BY DEF Init, OutInit
  <2> QED BY <2>1 DEF OutWaits, OutLabel, NoRoomWhileBlocked, ToSet, Distinct
<1>2. InWaits
  BY DEF Init, In!Init, InWaits, InLabel, In!NoKeyWhileBlocked, Distinct
<1> QED BY <1>1, <1>2

LEMMA NextKeepsWaits ==
  ASSUME OutWaits, InWaits, [Next]_termVars
  PROVE  OutWaits' /\ InWaits'
<1>1. ASSUME UNCHANGED <<pc, osem, osemWait>> PROVE OutWaits'
  BY <1>1 DEF OutWaits, NoRoomWhileBlocked
<1>2. ASSUME UNCHANGED <<inPc, isem, isemWait>> PROVE InWaits'
  BY <1>2 DEF InWaits, In!NoKeyWhileBlocked
<1>3. CASE UseKey BY <1>1, <1>2, <1>3 DEF UseKey, outVars, inVars
<1>4. CASE KeyboardInterrupt
  <2>1. OutWaits' BY <1>1, <1>4 DEF KeyboardInterrupt, outVars
  <2>2. CASE UNCHANGED inVars BY <1>2, <2>1, <2>2 DEF inVars
  <2>3. CASE ~ UNCHANGED inVars
    BY <1>4, <2>1, <2>3, TtyInKeepsWaits DEF KeyboardInterrupt
  <2> QED BY <2>2, <2>3
<1>5. ASSUME NEW r \in Reader, Read(r) PROVE OutWaits' /\ InWaits'
  <2>1. In!ReadStep(r) BY <1>5 DEF Read
  <2>2. InWaits' BY <2>1, ReaderGoesOn, ReadWaitKeepsWaits
  <2>3. OutWaits'
    <3>1. pc' = [pc EXCEPT ![r] = "begin"] \/ pc' = pc
      <4>1. CASE inPc'[r] = "echo" BY <1>5, <4>1 DEF Read, GoTo
      <4>2. CASE inPc'[r] # "echo" BY <1>5, <4>2 DEF Read
      <4> QED BY <4>1, <4>2
    <3>2. pc[r] # "blocked" /\ UNCHANGED <<osem, osemWait>> BY <1>5 DEF Read
    <3>3. "begin" \in OutLabel \ {"blocked"} BY DEF OutLabel
    <3>4. r \in Writer BY TerminalAssumption
    <3> QED BY <3>1, <3>2, <3>3, <3>4, WriterGoesOn
  <2> QED BY <2>2, <2>3
<1>6. ASSUME NEW t \in Writer, Write(t) PROVE OutWaits' /\ InWaits'
  BY <1>2, <1>6, WriteStepKeepsWaits DEF Write, inVars
<1>7. CASE UNCHANGED termVars BY <1>1, <1>2, <1>7 DEF termVars, outVars, inVars
<1> QED BY <1>3, <1>4, <1>5, <1>6, <1>7 DEF Next

(* No wake-up is lost (dev/tty.c, ipc/sem.c): a task is blocked exactly    *)
(* while it waits in one of the two lists, and never while the semaphore   *)
(* has a token, whatever the tasks do to the buffers.                      *)
THEOREM NobodyIsOverlooked == Spec => []NobodyOverlooked
<1>1. Init => OutWaits /\ InWaits BY InitHasWaits
<1>2. (OutWaits /\ InWaits) /\ [Next]_termVars => (OutWaits /\ InWaits)'
  BY NextKeepsWaits
<1>3. OutWaits /\ InWaits => NobodyOverlooked
  BY DEF OutWaits, InWaits, NobodyOverlooked
<1> QED BY <1>1, <1>2, <1>3, PTL DEF Spec

(***************************************************************************)
(* The keyboard driver.  While bytes are still to be delivered, the driver *)
(* knows less than the keyboard; what it will know when it has handled     *)
(* them is the invariant: from where it is now, the bytes that are on the  *)
(* wire lead it to exactly the keys that are held, Caps Lock as it is, and *)
(* all characters given.  A key adds bytes to the end of this path, an     *)
(* interrupt takes the first step of it.                                   *)
(***************************************************************************)
Mod == {"capsLock", "lshift", "rshift", "lalt", "ralt", "lctrl", "rctrl"}
Byte == 0 .. 255

(* What the driver knows, and how many characters it has given. *)
DriverState ==
  [recv : {Kbd!NORMAL, Kbd!BEGIN_E0, Kbd!BBEGIN_E1}, mods : [Mod -> BOOLEAN], n : Nat]

(* What handling b makes of it: DoHandlerKbd as a function of the state.  *)
KRecv(b) ==
  IF b = Kbd!KEY_E0 THEN Kbd!BEGIN_E0
  ELSE IF b = Kbd!KEY_E1 THEN Kbd!BBEGIN_E1 ELSE Kbd!NORMAL

IsPrefixByte(b) == b = Kbd!KEY_E0 \/ b = Kbd!KEY_E1

KMods(s, b) ==
  LET key == Kbd!GetKey(b)
      make == Kbd!IsMakeCode(b)
  IN  IF IsPrefixByte(b) \/ s.recv = Kbd!BBEGIN_E1 THEN s.mods
      ELSE IF s.recv = Kbd!NORMAL
      THEN IF key \in DOMAIN Kbd!NormalModifier
           THEN [s.mods EXCEPT ![Kbd!NormalModifier[key]] = make]
           ELSE IF key = Kbd!KEY_CAPS THEN [s.mods EXCEPT !["capsLock"] = (@ # make)]
           ELSE s.mods
      ELSE IF key \in DOMAIN Kbd!E0Modifier
           THEN [s.mods EXCEPT ![Kbd!E0Modifier[key]] = make] ELSE s.mods

CharsWith(mods, key) ==
  LET shift == mods["lshift"] \/ mods["rshift"]
      entry == Kbd!MapTable[key]
      c == IF shift THEN entry.func ELSE entry.normal
  IN  IF key > Kbd!LastMapped THEN Char
      ELSE {IF mods["capsLock"] THEN Kbd!SwapCase(c) ELSE c}

KGives(s, b) ==
  LET key == Kbd!GetKey(b)
  IN  IF /\ ~ IsPrefixByte(b) /\ s.recv = Kbd!NORMAL /\ Kbd!IsMakeCode(b)
         /\ key \notin DOMAIN Kbd!NormalModifier /\ key # Kbd!KEY_CAPS
         /\ key \notin Kbd!FunctionKey
      THEN CharsWith(s.mods, key) ELSE {}

Now == [recv |-> recvState, mods |-> kbdState, n |-> Len(handed)]

LEMMA SameChars == \A key : CharsWith(kbdState, key) = Kbd!CharsOf(key)
BY DEF CharsWith, Kbd!CharsOf

LEMMA HandlerDoes ==
  ASSUME NEW b \in Byte, Kbd!DoHandlerKbd(b), Now \in DriverState
  PROVE  /\ recvState' = KRecv(b)
         /\ kbdState' = KMods(Now, b)
         /\ \/ KGives(Now, b) = {} /\ handed' = handed
            \/ \E c \in KGives(Now, b) : handed' = Append(handed, c)
<1>0. recvState \in {Kbd!NORMAL, Kbd!BEGIN_E0, Kbd!BBEGIN_E1} /\ kbdState \in [Mod -> BOOLEAN]
  BY DEF Now, DriverState
<1> DEFINE s == Now
<1>s. s.recv = recvState /\ s.mods = kbdState BY DEF Now
<1>1. CASE IsPrefixByte(b)
  <2>1. /\ recvState' = KRecv(b) /\ UNCHANGED <<kbdState, handed>>
    <3>1. CASE b = Kbd!KEY_E0
      <4>1. b # Kbd!KEY_E1 BY <3>1 DEF Kbd!KEY_E0, Kbd!KEY_E1
      <4>2. recvState' = Kbd!BEGIN_E0 /\ UNCHANGED <<kbdState, handed>>
        BY <3>1, <4>1 DEF Kbd!DoHandlerKbd
      <4> QED BY <3>1, <4>2 DEF KRecv
    <3>2. CASE b = Kbd!KEY_E1
      <4>1. b # Kbd!KEY_E0 BY <3>2 DEF Kbd!KEY_E0, Kbd!KEY_E1
      <4> QED BY <3>2, <4>1 DEF Kbd!DoHandlerKbd, KRecv
    <3> QED BY <1>1, <3>1, <3>2 DEF IsPrefixByte
  <2> QED BY <1>1, <2>1, <1>s DEF KMods, KGives
<1>2. CASE ~ IsPrefixByte(b) /\ recvState = Kbd!BBEGIN_E1
  <2>1. /\ recvState' = KRecv(b) /\ UNCHANGED <<kbdState, handed>>
    BY <1>2 DEF IsPrefixByte, Kbd!DoHandlerKbd, KRecv, Kbd!NORMAL, Kbd!BEGIN_E0, Kbd!BBEGIN_E1
  <2>2. recvState # Kbd!NORMAL BY <1>2 DEF Kbd!NORMAL, Kbd!BBEGIN_E1
  <2> QED BY <1>2, <2>1, <2>2, <1>s DEF KMods, KGives
<1>3. CASE ~ IsPrefixByte(b) /\ recvState = Kbd!BEGIN_E0
  <2>1. /\ recvState' = KRecv(b) /\ Kbd!DoE0Key(b)
    BY <1>3 DEF IsPrefixByte, Kbd!DoHandlerKbd, KRecv, Kbd!NORMAL, Kbd!BEGIN_E0, Kbd!BBEGIN_E1
  <2>2. recvState # Kbd!NORMAL /\ recvState # Kbd!BBEGIN_E1
    BY <1>3 DEF Kbd!NORMAL, Kbd!BBEGIN_E1, Kbd!BEGIN_E0
  <2>3. handed' = handed /\ kbdState' = KMods(s, b)
    BY <1>3, <2>1, <2>2, <1>s DEF KMods, Kbd!DoE0Key
  <2>4. KGives(s, b) = {} BY <2>2, <1>s DEF KGives
  <2> QED BY <2>1, <2>3, <2>4
<1>4. CASE ~ IsPrefixByte(b) /\ recvState = Kbd!NORMAL
  <2>1. /\ recvState' = KRecv(b) /\ Kbd!DoNormalKey(b)
    BY <1>4 DEF IsPrefixByte, Kbd!DoHandlerKbd, KRecv, Kbd!NORMAL, Kbd!BEGIN_E0, Kbd!BBEGIN_E1
  <2>2. recvState # Kbd!BBEGIN_E1 BY <1>4 DEF Kbd!NORMAL, Kbd!BBEGIN_E1
  <2> DEFINE key == Kbd!GetKey(b)
  <2>3. CASE key \in DOMAIN Kbd!NormalModifier
    BY <1>4, <2>1, <2>2, <2>3, <1>s DEF KMods, KGives, Kbd!DoNormalKey
  <2>4. CASE key \notin DOMAIN Kbd!NormalModifier /\ key = Kbd!KEY_CAPS
    BY <1>4, <2>1, <2>2, <2>4, <1>s DEF KMods, KGives, Kbd!DoNormalKey, Kbd!ToggleCaps
  <2>5. CASE key \notin DOMAIN Kbd!NormalModifier /\ key # Kbd!KEY_CAPS
    <3>1. kbdState' = KMods(s, b)
      BY <1>4, <2>1, <2>2, <2>5, <1>s DEF KMods, Kbd!DoNormalKey
    <3>2. CASE Kbd!IsMakeCode(b) /\ key \notin Kbd!FunctionKey
      <4>1. \E c \in Kbd!CharsOf(key) : handed' = Append(handed, c)
        BY <2>1, <2>5, <3>2 DEF Kbd!DoNormalKey
      <4>2. KGives(s, b) = CharsWith(kbdState, key)
        BY <1>4, <2>5, <3>2, <1>s DEF KGives
      <4> QED BY <2>1, <3>1, <4>1, <4>2, SameChars
    <3>3. CASE ~ (Kbd!IsMakeCode(b) /\ key \notin Kbd!FunctionKey)
      BY <2>1, <2>5, <3>1, <3>3, <1>s DEF KGives, Kbd!DoNormalKey
    <3> QED BY <3>2, <3>3
  <2> QED BY <2>3, <2>4, <2>5
<1> QED BY <1>0, <1>1, <1>2, <1>3, <1>4

-----------------------------------------------------------------------------
(* Which key is behind a modifier, and which modifier is of a key. *)
KeyOf ==
  [m \in Mod \ {"capsLock"} |->
     CASE m = "lshift" -> "LShift" [] m = "rshift" -> "RShift"
       [] m = "lalt" -> "LAlt"     [] m = "ralt" -> "RAlt"
       [] m = "lctrl" -> "LCtrl"   [] m = "rctrl" -> "RCtrl"]

Modifier == {"LShift", "RShift", "LAlt", "RAlt", "LCtrl", "RCtrl"}

ModOf ==
  [k \in Modifier |->
     CASE k = "LShift" -> "lshift" [] k = "RShift" -> "rshift"
       [] k = "LAlt" -> "lalt"     [] k = "RAlt" -> "ralt"
       [] k = "LCtrl" -> "lctrl"   [] k = "RCtrl" -> "rctrl"]

AsHeld(keys, caps) ==
  [m \in Mod |-> IF m = "capsLock" THEN caps ELSE KeyOf[m] \in keys]

(* The driver goes from s to u when it handles b, and whatever character   *)
(* it gives is one that was asked for.                                     *)
StepsTo(s, b, u, want) ==
  /\ u.recv = KRecv(b) /\ u.mods = KMods(s, b)
  /\ KGives(s, b) = {} => u.n = s.n
  /\ KGives(s, b) # {} => /\ u.n = s.n + 1 /\ u.n <= Len(want)
                          /\ KGives(s, b) \subseteq want[u.n]

Settled(keys, caps, want) ==
  [recv |-> Kbd!NORMAL, mods |-> AsHeld(keys, caps), n |-> Len(want)]

(* The driver goes from s to u when it handles bytes. *)
Reaches(s, bytes, u, want) ==
  \E tr \in [1 .. Len(bytes) + 1 -> DriverState] :
    /\ tr[1] = s /\ tr[Len(bytes) + 1] = u
    /\ \A i \in 1 .. Len(bytes) : StepsTo(tr[i], bytes[i], tr[i + 1], want)

KbdInv ==
  /\ held \subseteq Kbd!Key /\ last \subseteq held /\ locked \in BOOLEAN
  /\ wire \in Seq(Byte)
  /\ asked \in Seq(SUBSET Char) /\ handed \in Seq(Char)
  /\ Len(handed) <= Len(asked)
  /\ \A i \in DOMAIN handed : handed[i] \in asked[i]
  /\ Reaches(Now, wire, Settled(held, locked, asked), asked)

LEMMA ReachesFirst ==
  ASSUME NEW s, NEW bytes \in Seq(Byte), NEW u, NEW want, bytes # <<>>,
         Reaches(s, bytes, u, want)
  PROVE  /\ s \in DriverState
         /\ \E v \in DriverState : StepsTo(s, bytes[1], v, want) /\ Reaches(v, Tail(bytes), u, want)
<1>1. PICK tr \in [1 .. Len(bytes) + 1 -> DriverState] :
         /\ tr[1] = s /\ tr[Len(bytes) + 1] = u
         /\ \A i \in 1 .. Len(bytes) : StepsTo(tr[i], bytes[i], tr[i + 1], want)
  BY DEF Reaches
<1>2. /\ Len(bytes) \in Nat \ {0} /\ Len(Tail(bytes)) = Len(bytes) - 1
      /\ \A i \in 1 .. Len(bytes) - 1 : Tail(bytes)[i] = bytes[i + 1]
  BY HeadTailProperties
<1> DEFINE tl == [i \in 1 .. Len(bytes) |-> tr[i + 1]]
<1>3. tl \in [1 .. Len(Tail(bytes)) + 1 -> DriverState] BY <1>2
<1>4. tl[1] = tr[2] /\ tl[Len(Tail(bytes)) + 1] = u BY <1>1, <1>2
<1>5. \A i \in 1 .. Len(Tail(bytes)) : StepsTo(tl[i], Tail(bytes)[i], tl[i + 1], want)
  <2> TAKE i \in 1 .. Len(Tail(bytes))
  <2>1. i \in 1 .. Len(bytes) - 1 /\ i + 1 \in 1 .. Len(bytes) BY <1>2
  <2>2. StepsTo(tr[i + 1], bytes[i + 1], tr[(i + 1) + 1], want) BY <1>1, <2>1
  <2>3. tl[i] = tr[i + 1] /\ tl[i + 1] = tr[(i + 1) + 1] BY <2>1, <1>2
  <2> QED BY <2>1, <2>2, <2>3, <1>2
<1>6. Reaches(tr[2], Tail(bytes), u, want) BY <1>3, <1>4, <1>5 DEF Reaches
<1>7. tr[2] \in DriverState /\ tr[1] \in DriverState /\ StepsTo(tr[1], bytes[1], tr[2], want)
  BY <1>1, <1>2
<1> QED BY <1>1, <1>6, <1>7

LEMMA ReachesNext ==
  ASSUME NEW s, NEW bytes \in Seq(Byte), NEW u, NEW want, Reaches(s, bytes, u, want),
         NEW b \in Byte, NEW v \in DriverState, StepsTo(u, b, v, want)
  PROVE  Reaches(s, Append(bytes, b), v, want)
<1>1. PICK tr \in [1 .. Len(bytes) + 1 -> DriverState] :
         /\ tr[1] = s /\ tr[Len(bytes) + 1] = u
         /\ \A i \in 1 .. Len(bytes) : StepsTo(tr[i], bytes[i], tr[i + 1], want)
  BY DEF Reaches
<1> DEFINE more == Append(bytes, b)
           n == Len(bytes)
           tl == [i \in 1 .. n + 2 |-> IF i = n + 2 THEN v ELSE tr[i]]
<1>2. /\ n \in Nat /\ Len(more) = n + 1 /\ more[n + 1] = b
      /\ \A i \in 1 .. n : more[i] = bytes[i]
  BY AppendProperties
<1>3. tl \in [1 .. Len(more) + 1 -> DriverState] BY <1>2, <1>1
<1>4. tl[1] = s /\ tl[Len(more) + 1] = v /\ tl[n + 1] = u BY <1>1, <1>2
<1>5. \A i \in 1 .. Len(more) : StepsTo(tl[i], more[i], tl[i + 1], want)
  <2> TAKE i \in 1 .. Len(more)
  <2>1. CASE i = n + 1 BY <2>1, <1>2, <1>4
  <2>2. CASE i \in 1 .. n
    <3>1. tl[i] = tr[i] /\ tl[i + 1] = tr[i + 1] BY <2>2, <1>2
    <3> QED BY <2>2, <3>1, <1>1, <1>2
  <2> QED BY <2>1, <2>2, <1>2
<1> HIDE DEF tl
<1> QED BY <1>3, <1>4, <1>5 DEF Reaches

LEMMA ReachesMore ==
  ASSUME NEW s, NEW bytes \in Seq(Byte), NEW u,
         NEW want \in Seq(SUBSET Char), NEW more \in Seq(SUBSET Char),
         Len(want) <= Len(more), \A i \in 1 .. Len(want) : more[i] = want[i],
         Reaches(s, bytes, u, want)
  PROVE  Reaches(s, bytes, u, more)
<1>1. PICK tr \in [1 .. Len(bytes) + 1 -> DriverState] :
         /\ tr[1] = s /\ tr[Len(bytes) + 1] = u
         /\ \A i \in 1 .. Len(bytes) : StepsTo(tr[i], bytes[i], tr[i + 1], want)
  BY DEF Reaches
<1>2. ASSUME NEW i \in 1 .. Len(bytes) PROVE StepsTo(tr[i], bytes[i], tr[i + 1], more)
  <2>1. StepsTo(tr[i], bytes[i], tr[i + 1], want) BY <1>1
  <2>2. tr[i].n \in Nat BY <1>1 DEF DriverState
  <2>3. CASE KGives(tr[i], bytes[i]) = {} BY <2>1, <2>3 DEF StepsTo
  <2>4. CASE KGives(tr[i], bytes[i]) # {}
    <3>1. /\ tr[i + 1].n = tr[i].n + 1 /\ tr[i + 1].n <= Len(want)
          /\ KGives(tr[i], bytes[i]) \subseteq want[tr[i + 1].n]
      BY <2>1, <2>4 DEF StepsTo
    <3>2. tr[i + 1].n \in 1 .. Len(want) /\ tr[i + 1].n <= Len(more) BY <3>1, <2>2
    <3> QED BY <2>1, <2>4, <3>1, <3>2 DEF StepsTo
  <2> QED BY <2>3, <2>4
<1> QED BY <1>1, <1>2 DEF Reaches

LEMMA InterruptKeeps ==
  ASSUME KbdInv, Kbd!Interrupt
  PROVE  KbdInv'
<1>2. /\ wire \in Seq(Byte) /\ wire # <<>> /\ wire' = Tail(wire)
      /\ UNCHANGED <<held, last, locked, presses, asked>>
      /\ Kbd!DoHandlerKbd(Head(wire))
  BY DEF KbdInv, Kbd!Interrupt, Kbd!user
<1>3. wire' \in Seq(Byte) /\ Head(wire) = wire[1] /\ Head(wire) \in Byte
  BY <1>2, HeadTailProperties
<1>1. /\ Now \in DriverState
      /\ \E v \in DriverState : /\ StepsTo(Now, wire[1], v, asked)
                               /\ Reaches(v, wire', Settled(held, locked, asked), asked)
  <2>1. Reaches(Now, wire, Settled(held, locked, asked), asked) BY DEF KbdInv
  <2> QED BY <1>2, <2>1, ReachesFirst
<1>4. PICK u \in DriverState : /\ StepsTo(Now, wire[1], u, asked)
                             /\ Reaches(u, wire', Settled(held, locked, asked), asked)
  BY <1>1
<1>6. PICK b \in Byte : b = wire[1] BY <1>3
<1>5. StepsTo(Now, b, u, asked) BY <1>4, <1>6
<1>7. /\ recvState' = KRecv(b) /\ kbdState' = KMods(Now, b)
      /\ \/ KGives(Now, b) = {} /\ handed' = handed
         \/ \E c \in KGives(Now, b) : handed' = Append(handed, c)
  BY <1>1, <1>2, <1>3, <1>6, HandlerDoes
<1>8. /\ handed' \in Seq(Char) /\ Len(handed') <= Len(asked)
      /\ \A i \in DOMAIN handed' : handed'[i] \in asked[i]
      /\ Len(handed') = u.n
  <2>0. /\ handed \in Seq(Char) /\ asked \in Seq(SUBSET Char) /\ Len(handed) <= Len(asked)
        /\ \A i \in DOMAIN handed : handed[i] \in asked[i]
        /\ Now.n = Len(handed)
    BY DEF KbdInv, Now
  <2>1. CASE KGives(Now, b) = {} /\ handed' = handed
    <3>1. u.n = Now.n BY <2>1, <1>5 DEF StepsTo
    <3> QED BY <2>0, <2>1, <3>1
  <2>2. CASE \E c \in KGives(Now, b) : handed' = Append(handed, c)
    <3>1. PICK c \in KGives(Now, b) : handed' = Append(handed, c) BY <2>2
    <3>2. /\ u.n = Len(handed) + 1 /\ u.n <= Len(asked)
          /\ c \in asked[Len(handed) + 1]
      BY <2>0, <3>1, <1>5 DEF StepsTo
    <3>3. asked[Len(handed) + 1] \in SUBSET Char BY <2>0, <3>2
    <3>4. c \in Char BY <3>2, <3>3
    <3>5. /\ handed' \in Seq(Char) /\ Len(handed') = Len(handed) + 1
          /\ \A i \in 1 .. Len(handed) : handed'[i] = handed[i]
          /\ handed'[Len(handed) + 1] = c
      BY <2>0, <3>1, <3>4, AppendProperties
    <3> QED BY <2>0, <3>2, <3>5
  <2> QED BY <1>7, <2>1, <2>2
<1>9. Now' = u
  <2>1. Now' = [recv |-> recvState', mods |-> kbdState', n |-> Len(handed')] BY DEF Now
  <2>2. u.recv = recvState' /\ u.mods = kbdState' BY <1>5, <1>7 DEF StepsTo
  <2>3. u = [recv |-> u.recv, mods |-> u.mods, n |-> u.n] BY DEF DriverState
  <2> QED BY <2>1, <2>2, <2>3, <1>8
<1>11. Reaches(Now', wire', Settled(held', locked', asked'), asked')
  BY <1>2, <1>4, <1>9
<1> QED BY <1>2, <1>3, <1>8, <1>11 DEF KbdInv

-----------------------------------------------------------------------------
State(recv, mods, n) == [recv |-> recv, mods |-> mods, n |-> n]

(* What single bytes do: a prefix; the byte behind a prefix; a modifier;   *)
(* Caps Lock; a key that gives nothing; a key with a character.            *)
LEMMA PrefixSteps ==
  ASSUME NEW recv, NEW mods, NEW n, NEW want
  PROVE  /\ StepsTo(State(recv, mods, n), Kbd!KEY_E0, State(Kbd!BEGIN_E0, mods, n), want)
         /\ StepsTo(State(recv, mods, n), Kbd!KEY_E1, State(Kbd!BBEGIN_E1, mods, n), want)
BY DEF StepsTo, State, KRecv, KMods, KGives, IsPrefixByte, Kbd!KEY_E0, Kbd!KEY_E1

LEMMA BehindE1Steps ==
  ASSUME NEW mods, NEW n, NEW want, NEW b \in Byte, ~ IsPrefixByte(b)
  PROVE  StepsTo(State(Kbd!BBEGIN_E1, mods, n), b, State(Kbd!NORMAL, mods, n), want)
BY DEF StepsTo, State, KRecv, KMods, KGives, IsPrefixByte, Kbd!NORMAL, Kbd!BBEGIN_E1

LEMMA BehindE0Steps ==
  ASSUME NEW mods, NEW n, NEW want, NEW b \in Byte, ~ IsPrefixByte(b)
  PROVE  StepsTo(State(Kbd!BEGIN_E0, mods, n), b,
                 State(Kbd!NORMAL, IF Kbd!GetKey(b) \in {56, 29}
                                   THEN [mods EXCEPT ![IF Kbd!GetKey(b) = 56 THEN "ralt" ELSE "rctrl"]
                                           = Kbd!IsMakeCode(b)]
                                   ELSE mods, n), want)
<1>1. DOMAIN Kbd!E0Modifier = {56, 29} /\ \A k \in {56, 29} :
        Kbd!E0Modifier[k] = IF k = 56 THEN "ralt" ELSE "rctrl"
  BY DEF Kbd!E0Modifier
<1> QED
  BY <1>1 DEF StepsTo, State, KRecv, KMods, KGives, IsPrefixByte, Kbd!NORMAL, Kbd!BBEGIN_E1, Kbd!BEGIN_E0

ModifierOf(key) ==
  IF key = 54 THEN "rshift" ELSE IF key = 42 THEN "lshift"
  ELSE IF key = 56 THEN "lalt" ELSE "lctrl"

LEMMA ModifierSteps ==
  ASSUME NEW mods, NEW n, NEW want, NEW b \in Byte, ~ IsPrefixByte(b),
         Kbd!GetKey(b) \in {54, 42, 56, 29}
  PROVE  StepsTo(State(Kbd!NORMAL, mods, n), b,
                 State(Kbd!NORMAL, [mods EXCEPT ![ModifierOf(Kbd!GetKey(b))] = Kbd!IsMakeCode(b)], n),
                 want)
<1> DEFINE s == State(Kbd!NORMAL, mods, n)
           key == Kbd!GetKey(b)
<1>1. DOMAIN Kbd!NormalModifier = {54, 42, 56, 29} BY DEF Kbd!NormalModifier
<1>2. Kbd!NormalModifier[key] = ModifierOf(key) BY DEF Kbd!NormalModifier, ModifierOf
<1>3. s.recv = Kbd!NORMAL /\ s.mods = mods /\ s.n = n /\ s.recv # Kbd!BBEGIN_E1
  BY DEF State, Kbd!NORMAL, Kbd!BBEGIN_E1
<1>4. KMods(s, b) = [mods EXCEPT ![ModifierOf(key)] = Kbd!IsMakeCode(b)]
  BY <1>1, <1>2, <1>3 DEF KMods
<1>5. KGives(s, b) = {} /\ KRecv(b) = Kbd!NORMAL
  BY <1>1, <1>3 DEF KGives, KRecv, IsPrefixByte
<1> QED BY <1>3, <1>4, <1>5 DEF StepsTo, State

LEMMA CapsSteps ==
  ASSUME NEW mods, NEW n, NEW want, NEW b \in Byte, ~ IsPrefixByte(b),
         Kbd!GetKey(b) = Kbd!KEY_CAPS
  PROVE  StepsTo(State(Kbd!NORMAL, mods, n), b,
                 State(Kbd!NORMAL, [mods EXCEPT !["capsLock"] = (@ # Kbd!IsMakeCode(b))], n), want)
<1> DEFINE s == State(Kbd!NORMAL, mods, n)
<1>1. Kbd!GetKey(b) \notin DOMAIN Kbd!NormalModifier BY DEF Kbd!NormalModifier, Kbd!KEY_CAPS
<1>3. s.recv = Kbd!NORMAL /\ s.mods = mods /\ s.n = n /\ s.recv # Kbd!BBEGIN_E1
  BY DEF State, Kbd!NORMAL, Kbd!BBEGIN_E1
<1>4. KMods(s, b) = [mods EXCEPT !["capsLock"] = (@ # Kbd!IsMakeCode(b))]
  BY <1>1, <1>3 DEF KMods
<1>5. KGives(s, b) = {} /\ KRecv(b) = Kbd!NORMAL
  BY <1>1, <1>3 DEF KGives, KRecv, IsPrefixByte
<1> QED BY <1>3, <1>4, <1>5 DEF StepsTo, State

LEMMA QuietSteps ==
  ASSUME NEW mods, NEW n, NEW want, NEW b \in Byte, ~ IsPrefixByte(b),
         Kbd!GetKey(b) \notin {54, 42, 56, 29, Kbd!KEY_CAPS},
         ~ Kbd!IsMakeCode(b) \/ Kbd!GetKey(b) \in Kbd!FunctionKey
  PROVE  StepsTo(State(Kbd!NORMAL, mods, n), b, State(Kbd!NORMAL, mods, n), want)
<1> DEFINE s == State(Kbd!NORMAL, mods, n)
           key == Kbd!GetKey(b)
<1>1. key \notin DOMAIN Kbd!NormalModifier /\ key # Kbd!KEY_CAPS BY DEF Kbd!NormalModifier
<1>3. s.recv = Kbd!NORMAL /\ s.mods = mods /\ s.n = n /\ s.recv # Kbd!BBEGIN_E1
  BY DEF State, Kbd!NORMAL, Kbd!BBEGIN_E1
<1>4. KMods(s, b) = mods BY <1>1, <1>3 DEF KMods
<1>5. KRecv(b) = Kbd!NORMAL BY DEF KRecv, IsPrefixByte
<1>6. KGives(s, b) = {} BY DEF KGives
<1> QED BY <1>3, <1>4, <1>5, <1>6 DEF StepsTo

LEMMA CharSteps ==
  ASSUME NEW mods, NEW n, NEW want, NEW b \in Byte, ~ IsPrefixByte(b),
         Kbd!GetKey(b) \notin {54, 42, 56, 29, Kbd!KEY_CAPS},
         Kbd!IsMakeCode(b), Kbd!GetKey(b) \notin Kbd!FunctionKey,
         n + 1 <= Len(want), CharsWith(mods, Kbd!GetKey(b)) \subseteq want[n + 1]
  PROVE  StepsTo(State(Kbd!NORMAL, mods, n), b, State(Kbd!NORMAL, mods, n + 1), want)
<1> DEFINE s == State(Kbd!NORMAL, mods, n)
           key == Kbd!GetKey(b)
<1>1. key \notin DOMAIN Kbd!NormalModifier /\ key # Kbd!KEY_CAPS BY DEF Kbd!NormalModifier
<1>3. s.recv = Kbd!NORMAL /\ s.mods = mods /\ s.n = n /\ s.recv # Kbd!BBEGIN_E1
  BY DEF State, Kbd!NORMAL, Kbd!BBEGIN_E1
<1>4. KMods(s, b) = mods BY <1>1, <1>3 DEF KMods
<1>5. KRecv(b) = Kbd!NORMAL BY DEF KRecv, IsPrefixByte
<1>6. KGives(s, b) = CharsWith(mods, key) BY <1>1, <1>3 DEF KGives
<1>7. CharsWith(mods, key) # {}
  <2>1. Char # {} BY DEF Kbd!KeyboardAssumption
  <2> QED BY <2>1 DEF CharsWith
<1>8. LET u == State(Kbd!NORMAL, mods, n + 1)
      IN  u.recv = Kbd!NORMAL /\ u.mods = mods /\ u.n = n + 1
  BY DEF State
<1> QED BY <1>3, <1>4, <1>5, <1>6, <1>7, <1>8 DEF StepsTo

-----------------------------------------------------------------------------
LEMMA KeysAndModifiers ==
  /\ \A m \in Mod \ {"capsLock"} : KeyOf[m] \in Modifier
  /\ \A k \in Modifier : ModOf[k] \in Mod \ {"capsLock"}
  /\ \A k \in Modifier, m \in Mod \ {"capsLock"} : KeyOf[m] = k <=> m = ModOf[k]
BY DEF KeyOf, ModOf, Modifier, Mod

LEMMA AsHeldOf ==
  ASSUME NEW keys, NEW caps
  PROVE  /\ AsHeld(keys, caps)["capsLock"] = caps
         /\ AsHeld(keys, caps)["lshift"] = ("LShift" \in keys)
         /\ AsHeld(keys, caps)["rshift"] = ("RShift" \in keys)
<1>1. KeyOf["lshift"] = "LShift" /\ KeyOf["rshift"] = "RShift" BY DEF KeyOf, Mod
<1> QED BY <1>1 DEF AsHeld, Mod

(* AsHeld of a key more, and of a key less. *)
LEMMA AsHeldWith ==
  ASSUME NEW keys, NEW caps, NEW k
  PROVE  /\ k \in Modifier =>
              /\ AsHeld(keys \cup {k}, caps) = [AsHeld(keys, caps) EXCEPT ![ModOf[k]] = TRUE]
              /\ AsHeld(keys \ {k}, caps) = [AsHeld(keys, caps) EXCEPT ![ModOf[k]] = FALSE]
         /\ k \notin Modifier =>
              /\ AsHeld(keys \cup {k}, caps) = AsHeld(keys, caps)
              /\ AsHeld(keys \ {k}, caps) = AsHeld(keys, caps)
<1>1. ASSUME k \in Modifier
      PROVE  /\ AsHeld(keys \cup {k}, caps) = [AsHeld(keys, caps) EXCEPT ![ModOf[k]] = TRUE]
             /\ AsHeld(keys \ {k}, caps) = [AsHeld(keys, caps) EXCEPT ![ModOf[k]] = FALSE]
  <2>1. \A m \in Mod \ {"capsLock"} : KeyOf[m] = k <=> m = ModOf[k]
    BY <1>1, KeysAndModifiers
  <2>2. ModOf[k] \in Mod \ {"capsLock"} BY <1>1, KeysAndModifiers
  <2>3. ASSUME NEW m \in Mod
        PROVE  /\ (IF m = "capsLock" THEN caps ELSE KeyOf[m] \in keys \cup {k})
                    = IF m = ModOf[k] THEN TRUE
                      ELSE IF m = "capsLock" THEN caps ELSE KeyOf[m] \in keys
               /\ (IF m = "capsLock" THEN caps ELSE KeyOf[m] \in keys \ {k})
                    = IF m = ModOf[k] THEN FALSE
                      ELSE IF m = "capsLock" THEN caps ELSE KeyOf[m] \in keys
    <3>1. CASE m = "capsLock" BY <2>2, <3>1
    <3>2. CASE m = ModOf[k]
      <4>1. m # "capsLock" /\ KeyOf[m] = k BY <2>1, <2>2, <3>2
      <4>2. (KeyOf[m] \in keys \cup {k}) = TRUE BY <4>1
      <4>3. (KeyOf[m] \in keys \ {k}) = FALSE BY <4>1
      <4> QED BY <3>2, <4>1, <4>2, <4>3, Zenon
    <3>3. CASE m # "capsLock" /\ m # ModOf[k]
      <4>1. KeyOf[m] # k BY <2>1, <3>3
      <4> QED BY <3>3, <4>1
    <3> QED BY <3>1, <3>2, <3>3
  <2> QED BY <2>3 DEF AsHeld
<1>2. ASSUME k \notin Modifier
      PROVE  /\ AsHeld(keys \cup {k}, caps) = AsHeld(keys, caps)
             /\ AsHeld(keys \ {k}, caps) = AsHeld(keys, caps)
  <2>1. \A m \in Mod \ {"capsLock"} : KeyOf[m] # k BY <1>2, KeysAndModifiers
  <2> QED BY <2>1 DEF AsHeld
<1> QED BY <1>1, <1>2

LEMMA AsHeldPlus ==
  ASSUME NEW keys, NEW caps, NEW k \in Modifier
  PROVE  AsHeld(keys \cup {k}, caps) = [AsHeld(keys, caps) EXCEPT ![ModOf[k]] = TRUE]
BY AsHeldWith

LEMMA AsHeldMinus ==
  ASSUME NEW keys, NEW caps, NEW k \in Modifier
  PROVE  AsHeld(keys \ {k}, caps) = [AsHeld(keys, caps) EXCEPT ![ModOf[k]] = FALSE]
BY AsHeldWith

LEMMA AsHeldSame ==
  ASSUME NEW keys, NEW caps, NEW k, k \notin Modifier
  PROVE  /\ AsHeld(keys \cup {k}, caps) = AsHeld(keys, caps)
         /\ AsHeld(keys \ {k}, caps) = AsHeld(keys, caps)
BY AsHeldWith

LEMMA AsHeldType ==
  ASSUME NEW keys, NEW caps \in BOOLEAN
  PROVE  AsHeld(keys, caps) \in [Mod -> BOOLEAN]
<1>1. ASSUME NEW m \in Mod
      PROVE  (IF m = "capsLock" THEN caps ELSE KeyOf[m] \in keys) \in BOOLEAN
  <2>1. CASE m = "capsLock" BY <2>1
  <2>2. CASE m # "capsLock"
    <3>1. (KeyOf[m] \in keys) \in BOOLEAN OBVIOUS
    <3> QED BY <2>2, <3>1, Zenon
  <2> QED BY <2>1, <2>2
<1> QED BY <1>1, Zenon DEF AsHeld

LEMMA Codes ==
  ASSUME NEW c \in 0 .. 95
  PROVE  /\ Kbd!GetKey(c) = c /\ Kbd!IsMakeCode(c) = TRUE
         /\ Kbd!GetKey(Kbd!Released(c)) = c /\ Kbd!IsMakeCode(Kbd!Released(c)) = FALSE
         /\ c \in Byte /\ Kbd!Released(c) \in Byte
         /\ ~ IsPrefixByte(c) /\ ~ IsPrefixByte(Kbd!Released(c))
<1>1. c % 128 = c /\ (c + 128) % 128 = c OBVIOUS
<1> QED BY <1>1 DEF Kbd!GetKey, Kbd!IsMakeCode, Kbd!Released, Byte, IsPrefixByte, Kbd!KEY_E0, Kbd!KEY_E1

LEMMA StateType ==
  ASSUME NEW mods \in [Mod -> BOOLEAN], NEW n \in Nat,
         NEW recv \in {Kbd!NORMAL, Kbd!BEGIN_E0, Kbd!BBEGIN_E1}
  PROVE  State(recv, mods, n) \in DriverState
BY DEF State, DriverState

LEMMA ReachesOne ==
  ASSUME NEW s, NEW bytes \in Seq(Byte), NEW u, NEW want, Reaches(s, bytes, u, want),
         NEW b \in Byte, NEW v \in DriverState, StepsTo(u, b, v, want)
  PROVE  Reaches(s, bytes \o <<b>>, v, want)
<1>1. bytes \o <<b>> = Append(bytes, b) OBVIOUS
<1>2. Reaches(s, Append(bytes, b), v, want) BY ReachesNext
<1> QED BY <1>1, <1>2

LEMMA ReachesTwo ==
  ASSUME NEW s, NEW bytes \in Seq(Byte), NEW u, NEW want, Reaches(s, bytes, u, want),
         NEW b1 \in Byte, NEW v1 \in DriverState, StepsTo(u, b1, v1, want),
         NEW b2 \in Byte, NEW v2 \in DriverState, StepsTo(v1, b2, v2, want)
  PROVE  Reaches(s, bytes \o <<b1, b2>>, v2, want)
<1>1. Reaches(s, bytes \o <<b1>>, v1, want) BY ReachesOne
<1>2. bytes \o <<b1>> \in Seq(Byte) OBVIOUS
<1>3. Reaches(s, (bytes \o <<b1>>) \o <<b2>>, v2, want) BY <1>1, <1>2, ReachesOne
<1>4. (bytes \o <<b1>>) \o <<b2>> = bytes \o <<b1, b2>> OBVIOUS
<1> QED BY <1>3, <1>4

(* The code of a modifier, of Caps Lock, and what E0 in front changes, as  *)
(* changes of AsHeld.                                                      *)
PlainModifier == [RShift |-> 54, LShift |-> 42, LAlt |-> 56, LCtrl |-> 29]

LEMMA PlainModifierReaches ==
  ASSUME NEW s, NEW bytes \in Seq(Byte), NEW keys, NEW caps \in BOOLEAN,
         NEW want, NEW n \in Nat,
         Reaches(s, bytes, State(Kbd!NORMAL, AsHeld(keys, caps), n), want),
         NEW k \in DOMAIN PlainModifier
  PROVE  /\ Reaches(s, bytes \o <<PlainModifier[k]>>,
                    State(Kbd!NORMAL, AsHeld(keys \cup {k}, caps), n), want)
         /\ Reaches(s, bytes \o <<Kbd!Released(PlainModifier[k])>>,
                    State(Kbd!NORMAL, AsHeld(keys \ {k}, caps), n), want)
<1>1. /\ PlainModifier[k] \in 0 .. 95 /\ PlainModifier[k] \in {54, 42, 56, 29}
      /\ ModifierOf(PlainModifier[k]) = ModOf[k] /\ k \in Modifier
  BY DEF PlainModifier, ModifierOf, ModOf, Modifier
<1>2. PICK d \in 0 .. 95 : d = PlainModifier[k] BY <1>1
<1> DEFINE m == AsHeld(keys, caps)
           u == State(Kbd!NORMAL, m, n)
           more == State(Kbd!NORMAL, AsHeld(keys \cup {k}, caps), n)
           less == State(Kbd!NORMAL, AsHeld(keys \ {k}, caps), n)
<1>3. more \in DriverState /\ less \in DriverState BY AsHeldType, StateType
<1>4. /\ AsHeld(keys \cup {k}, caps) = [m EXCEPT ![ModifierOf(d)] = TRUE]
      /\ AsHeld(keys \ {k}, caps) = [m EXCEPT ![ModifierOf(d)] = FALSE]
  <2>1. k \in Modifier /\ ModifierOf(d) = ModOf[k] BY <1>1, <1>2
  <2>2. /\ AsHeld(keys \cup {k}, caps) = [m EXCEPT ![ModOf[k]] = TRUE]
        /\ AsHeld(keys \ {k}, caps) = [m EXCEPT ![ModOf[k]] = FALSE]
    BY <2>1, AsHeldPlus, AsHeldMinus
  <2> QED BY <2>1, <2>2, Zenon
<1>5. PICK e \in Byte : e = Kbd!Released(d) BY Codes
<1>6. /\ d \in Byte /\ ~ IsPrefixByte(d) /\ ~ IsPrefixByte(e)
      /\ Kbd!GetKey(d) = d /\ Kbd!IsMakeCode(d) = TRUE
      /\ Kbd!GetKey(e) = d /\ Kbd!IsMakeCode(e) = FALSE
      /\ d \in {54, 42, 56, 29}
  BY <1>1, <1>2, <1>5, Codes
<1>7. StepsTo(u, d, more, want)
  <2>1. StepsTo(u, d, State(Kbd!NORMAL, [m EXCEPT ![ModifierOf(Kbd!GetKey(d))] = Kbd!IsMakeCode(d)], n), want)
    BY <1>6, ModifierSteps
  <2> QED BY <2>1, <1>6, <1>4, Zenon
<1>8. StepsTo(u, e, less, want)
  <2>1. StepsTo(u, e, State(Kbd!NORMAL, [m EXCEPT ![ModifierOf(Kbd!GetKey(e))] = Kbd!IsMakeCode(e)], n), want)
    BY <1>6, ModifierSteps
  <2> QED BY <2>1, <1>6, <1>4, Zenon
<1> HIDE DEF u, more, less
<1>9. Reaches(s, bytes \o <<d>>, more, want) BY <1>3, <1>6, <1>7, ReachesOne DEF u
<1>10. Reaches(s, bytes \o <<e>>, less, want) BY <1>3, <1>8, ReachesOne DEF u
<1> QED BY <1>2, <1>5, <1>9, <1>10 DEF more, less

ExtendedModifier == [RAlt |-> 56, RCtrl |-> 29]

LEMMA ExtendedModifierReaches ==
  ASSUME NEW s, NEW bytes \in Seq(Byte), NEW keys, NEW caps \in BOOLEAN,
         NEW want, NEW n \in Nat,
         Reaches(s, bytes, State(Kbd!NORMAL, AsHeld(keys, caps), n), want),
         NEW k \in DOMAIN ExtendedModifier
  PROVE  /\ Reaches(s, bytes \o <<Kbd!KEY_E0, ExtendedModifier[k]>>,
                    State(Kbd!NORMAL, AsHeld(keys \cup {k}, caps), n), want)
         /\ Reaches(s, bytes \o <<Kbd!KEY_E0, Kbd!Released(ExtendedModifier[k])>>,
                    State(Kbd!NORMAL, AsHeld(keys \ {k}, caps), n), want)
<1>1. /\ ExtendedModifier[k] \in 0 .. 95 /\ ExtendedModifier[k] \in {56, 29}
      /\ (IF ExtendedModifier[k] = 56 THEN "ralt" ELSE "rctrl") = ModOf[k] /\ k \in Modifier
  BY DEF ExtendedModifier, ModOf, Modifier
<1>2. PICK d \in 0 .. 95 : d = ExtendedModifier[k] BY <1>1
<1> DEFINE m == AsHeld(keys, caps)
           name == IF d = 56 THEN "ralt" ELSE "rctrl"
           u == State(Kbd!NORMAL, m, n)
           e0 == State(Kbd!BEGIN_E0, m, n)
           more == State(Kbd!NORMAL, AsHeld(keys \cup {k}, caps), n)
           less == State(Kbd!NORMAL, AsHeld(keys \ {k}, caps), n)
<1>3. more \in DriverState /\ less \in DriverState /\ e0 \in DriverState
  BY AsHeldType, StateType
<1>4. /\ AsHeld(keys \cup {k}, caps) = [m EXCEPT ![name] = TRUE]
      /\ AsHeld(keys \ {k}, caps) = [m EXCEPT ![name] = FALSE]
  <2>1. k \in Modifier /\ name = ModOf[k] BY <1>1, <1>2
  <2>2. /\ AsHeld(keys \cup {k}, caps) = [m EXCEPT ![ModOf[k]] = TRUE]
        /\ AsHeld(keys \ {k}, caps) = [m EXCEPT ![ModOf[k]] = FALSE]
    BY <2>1, AsHeldPlus, AsHeldMinus
  <2> QED BY <2>1, <2>2, Zenon
<1>5. PICK e \in Byte : e = Kbd!Released(d) BY Codes
<1>6. /\ d \in Byte /\ ~ IsPrefixByte(d) /\ ~ IsPrefixByte(e)
      /\ Kbd!GetKey(d) = d /\ Kbd!IsMakeCode(d) = TRUE
      /\ Kbd!GetKey(e) = d /\ Kbd!IsMakeCode(e) = FALSE
      /\ d \in {56, 29} /\ Kbd!KEY_E0 \in Byte
  <2>1. Kbd!KEY_E0 \in Byte BY DEF Kbd!KEY_E0, Byte
  <2> QED BY <2>1, <1>1, <1>2, <1>5, Codes
<1>7. StepsTo(e0, d, more, want)
  <2>1. StepsTo(e0, d, State(Kbd!NORMAL, IF Kbd!GetKey(d) \in {56, 29}
                 THEN [m EXCEPT ![IF Kbd!GetKey(d) = 56 THEN "ralt" ELSE "rctrl"] = Kbd!IsMakeCode(d)]
                 ELSE m, n), want)
    BY <1>6, BehindE0Steps
  <2>2. StepsTo(e0, d, State(Kbd!NORMAL, [m EXCEPT ![name] = Kbd!IsMakeCode(d)], n), want)
    BY <2>1, <1>6
  <2> QED BY <2>2, <1>6, <1>4, Zenon
<1>8. StepsTo(e0, e, less, want)
  <2>1. StepsTo(e0, e, State(Kbd!NORMAL, IF Kbd!GetKey(e) \in {56, 29}
                 THEN [m EXCEPT ![IF Kbd!GetKey(e) = 56 THEN "ralt" ELSE "rctrl"] = Kbd!IsMakeCode(e)]
                 ELSE m, n), want)
    BY <1>6, BehindE0Steps
  <2>2. StepsTo(e0, e, State(Kbd!NORMAL, [m EXCEPT ![name] = Kbd!IsMakeCode(e)], n), want)
    BY <2>1, <1>6
  <2> QED BY <2>2, <1>6, <1>4, Zenon
<1>9. StepsTo(u, Kbd!KEY_E0, e0, want) BY PrefixSteps
<1> HIDE DEF u, e0, more, less
<1>10. Reaches(s, bytes \o <<Kbd!KEY_E0, d>>, more, want)
  BY <1>3, <1>6, <1>7, <1>9, ReachesTwo DEF u
<1>11. Reaches(s, bytes \o <<Kbd!KEY_E0, e>>, less, want)
  BY <1>3, <1>6, <1>8, <1>9, ReachesTwo DEF u
<1> QED BY <1>2, <1>5, <1>10, <1>11 DEF more, less

(* Caps Lock pressed and released. *)
LEMMA CapsReaches ==
  ASSUME NEW s, NEW bytes \in Seq(Byte), NEW keys, NEW caps \in BOOLEAN,
         NEW want, NEW n \in Nat,
         Reaches(s, bytes, State(Kbd!NORMAL, AsHeld(keys, caps), n), want)
  PROVE  /\ Reaches(s, bytes \o <<58>>, State(Kbd!NORMAL, AsHeld(keys, ~ caps), n), want)
         /\ Reaches(s, bytes \o <<Kbd!Released(58)>>,
                    State(Kbd!NORMAL, AsHeld(keys, caps), n), want)
<1> DEFINE m == AsHeld(keys, caps)
           u == State(Kbd!NORMAL, m, n)
           other == State(Kbd!NORMAL, AsHeld(keys, ~ caps), n)
<1>1. PICK e \in Byte : e = Kbd!Released(58) BY Codes
<1>2. /\ 58 \in Byte /\ ~ IsPrefixByte(58) /\ ~ IsPrefixByte(e)
      /\ Kbd!GetKey(58) = Kbd!KEY_CAPS /\ Kbd!IsMakeCode(58) = TRUE
      /\ Kbd!GetKey(e) = Kbd!KEY_CAPS /\ Kbd!IsMakeCode(e) = FALSE
  <2>1. PICK c \in 0 .. 95 : c = 58 OBVIOUS
  <2>2. Kbd!KEY_CAPS = c BY <2>1 DEF Kbd!KEY_CAPS
  <2>3. /\ c \in Byte /\ ~ IsPrefixByte(c) /\ ~ IsPrefixByte(Kbd!Released(c))
        /\ Kbd!GetKey(c) = c /\ Kbd!IsMakeCode(c) = TRUE
        /\ Kbd!GetKey(Kbd!Released(c)) = c /\ Kbd!IsMakeCode(Kbd!Released(c)) = FALSE
    BY Codes
  <2> QED BY <1>1, <2>1, <2>2, <2>3
<1>3. u \in DriverState /\ other \in DriverState
  <2>1. (~ caps) \in BOOLEAN OBVIOUS
  <2> QED BY <2>1, AsHeldType, StateType
<1>4. m["capsLock"] = caps /\ m \in [Mod -> BOOLEAN] BY AsHeldOf, AsHeldType
<1>5. [m EXCEPT !["capsLock"] = (@ # Kbd!IsMakeCode(58))] = AsHeld(keys, ~ caps)
  <2>1. (m["capsLock"] # Kbd!IsMakeCode(58)) = ~ caps BY <1>2, <1>4
  <2>2. [m EXCEPT !["capsLock"] = ~ caps] = AsHeld(keys, ~ caps) BY DEF AsHeld, Mod
  <2> QED BY <2>1, <2>2, Zenon
<1>6. [m EXCEPT !["capsLock"] = (@ # Kbd!IsMakeCode(e))] = m
  <2>1. (m["capsLock"] # Kbd!IsMakeCode(e)) = m["capsLock"] BY <1>2, <1>4
  <2>2. [m EXCEPT !["capsLock"] = m["capsLock"]] = m BY <1>4
  <2> QED BY <2>1, <2>2, Zenon
<1>7. StepsTo(u, 58, other, want)
  <2>1. StepsTo(u, 58, State(Kbd!NORMAL, [m EXCEPT !["capsLock"] = (@ # Kbd!IsMakeCode(58))], n), want)
    BY <1>2, CapsSteps
  <2> QED BY <2>1, <1>5, Zenon
<1>8. StepsTo(u, e, u, want)
  <2>1. StepsTo(u, e, State(Kbd!NORMAL, [m EXCEPT !["capsLock"] = (@ # Kbd!IsMakeCode(e))], n), want)
    BY <1>2, CapsSteps
  <2> QED BY <2>1, <1>6, Zenon
<1> HIDE DEF u, other
<1>9. Reaches(s, bytes \o <<58>>, other, want) BY <1>2, <1>3, <1>7, ReachesOne DEF u
<1>10. Reaches(s, bytes \o <<e>>, u, want) BY <1>3, <1>8, ReachesOne DEF u
<1> QED BY <1>1, <1>9, <1>10 DEF u, other

(* Keys that change nothing: function keys, and a key with a character     *)
(* when it is released.                                                    *)
LEMMA QuietReaches ==
  ASSUME NEW s, NEW bytes \in Seq(Byte), NEW mods \in [Mod -> BOOLEAN],
         NEW want, NEW n \in Nat, NEW c \in 0 .. 95,
         Reaches(s, bytes, State(Kbd!NORMAL, mods, n), want),
         c \notin {54, 42, 56, 29, 58}
  PROVE  /\ Reaches(s, bytes \o <<Kbd!Released(c)>>, State(Kbd!NORMAL, mods, n), want)
         /\ c = 59 => Reaches(s, bytes \o <<c>>, State(Kbd!NORMAL, mods, n), want)
<1> DEFINE u == State(Kbd!NORMAL, mods, n)
<1>1. PICK e \in Byte : e = Kbd!Released(c) BY Codes
<1>2. /\ c \in Byte /\ ~ IsPrefixByte(c) /\ ~ IsPrefixByte(e)
      /\ Kbd!GetKey(c) = c /\ Kbd!GetKey(e) = c /\ ~ Kbd!IsMakeCode(e)
      /\ c \notin {54, 42, 56, 29, Kbd!KEY_CAPS}
  BY <1>1, Codes DEF Kbd!KEY_CAPS
<1>3. u \in DriverState BY StateType
<1>4. StepsTo(u, e, u, want) BY <1>2, QuietSteps
<1>5. ASSUME c = 59 PROVE StepsTo(u, c, u, want)
  <2>1. Kbd!GetKey(c) \in Kbd!FunctionKey BY <1>2, <1>5 DEF Kbd!FunctionKey
  <2> QED BY <2>1, <1>2, QuietSteps
<1> HIDE DEF u
<1>6. Reaches(s, bytes \o <<e>>, u, want) BY <1>3, <1>4, ReachesOne DEF u
<1>7. ASSUME c = 59 PROVE Reaches(s, bytes \o <<c>>, u, want)
  BY <1>2, <1>3, <1>5, <1>7, ReachesOne DEF u
<1> QED BY <1>1, <1>6, <1>7 DEF u

LEMMA CharReaches ==
  ASSUME NEW s, NEW bytes \in Seq(Byte), NEW mods \in [Mod -> BOOLEAN],
         NEW want, NEW n \in Nat, NEW c \in 0 .. 95,
         Reaches(s, bytes, State(Kbd!NORMAL, mods, n), want),
         c \notin {54, 42, 56, 29, 58, 87, 88} \cup (59 .. 68),
         n + 1 <= Len(want), CharsWith(mods, c) \subseteq want[n + 1]
  PROVE  Reaches(s, bytes \o <<c>>, State(Kbd!NORMAL, mods, n + 1), want)
<1> DEFINE u == State(Kbd!NORMAL, mods, n)
           v == State(Kbd!NORMAL, mods, n + 1)
<1>1. /\ c \in Byte /\ ~ IsPrefixByte(c) /\ Kbd!GetKey(c) = c /\ Kbd!IsMakeCode(c)
      /\ c \notin {54, 42, 56, 29, Kbd!KEY_CAPS} /\ Kbd!GetKey(c) \notin Kbd!FunctionKey
  <2>1. c \in Byte /\ ~ IsPrefixByte(c) /\ Kbd!GetKey(c) = c /\ Kbd!IsMakeCode(c) = TRUE
    BY Codes
  <2>2. c \notin {54, 42, 56, 29, Kbd!KEY_CAPS} /\ c \notin Kbd!FunctionKey
    BY DEF Kbd!KEY_CAPS, Kbd!FunctionKey
  <2> QED BY <2>1, <2>2
<1>2. v \in DriverState BY StateType
<1>3. StepsTo(u, c, v, want)
  <2>1. CharsWith(mods, Kbd!GetKey(c)) \subseteq want[n + 1] BY <1>1
  <2> QED BY <1>1, <2>1, CharSteps
<1> HIDE DEF u, v
<1> QED BY <1>1, <1>2, <1>3, ReachesOne DEF u, v

(* E0 in front of a code that is no modifier there. *)
LEMMA ExtendedQuietReaches ==
  ASSUME NEW s, NEW bytes \in Seq(Byte), NEW mods \in [Mod -> BOOLEAN],
         NEW want, NEW n \in Nat, NEW c \in 0 .. 95,
         Reaches(s, bytes, State(Kbd!NORMAL, mods, n), want), c \notin {56, 29}
  PROVE  /\ Reaches(s, bytes \o <<Kbd!KEY_E0, c>>, State(Kbd!NORMAL, mods, n), want)
         /\ Reaches(s, bytes \o <<Kbd!KEY_E0, Kbd!Released(c)>>, State(Kbd!NORMAL, mods, n), want)
<1> DEFINE u == State(Kbd!NORMAL, mods, n)
           e0 == State(Kbd!BEGIN_E0, mods, n)
<1>1. PICK e \in Byte : e = Kbd!Released(c) BY Codes
<1>2. /\ c \in Byte /\ ~ IsPrefixByte(c) /\ ~ IsPrefixByte(e)
      /\ Kbd!GetKey(c) = c /\ Kbd!GetKey(e) = c /\ Kbd!KEY_E0 \in Byte
  <2>1. Kbd!KEY_E0 \in Byte BY DEF Kbd!KEY_E0, Byte
  <2> QED BY <2>1, <1>1, Codes
<1>3. u \in DriverState /\ e0 \in DriverState BY StateType
<1>4. ASSUME NEW b \in {c, e} PROVE b \in Byte /\ StepsTo(e0, b, u, want)
  <2>1. b \in Byte /\ ~ IsPrefixByte(b) /\ Kbd!GetKey(b) \notin {56, 29} BY <1>2
  <2>2. StepsTo(e0, b, State(Kbd!NORMAL, IF Kbd!GetKey(b) \in {56, 29}
                 THEN [mods EXCEPT ![IF Kbd!GetKey(b) = 56 THEN "ralt" ELSE "rctrl"] = Kbd!IsMakeCode(b)]
                 ELSE mods, n), want)
    BY <2>1, BehindE0Steps
  <2> QED BY <2>1, <2>2
<1>5. StepsTo(u, Kbd!KEY_E0, e0, want) BY PrefixSteps
<1> HIDE DEF u, e0
<1>6. ASSUME NEW b \in {c, e} PROVE Reaches(s, bytes \o <<Kbd!KEY_E0, b>>, u, want)
  BY <1>2, <1>3, <1>4, <1>5, ReachesTwo DEF u
<1> QED BY <1>1, <1>6 DEF u

LEMMA FewBytes ==
  ASSUME NEW bytes \in Seq(Byte), NEW b \in Byte, NEW c \in Byte
  PROVE  /\ bytes \o <<b>> \in Seq(Byte) /\ bytes \o <<b, c>> \in Seq(Byte)
         /\ bytes \o <<b>> = Append(bytes, b)
         /\ bytes \o <<b, c>> = Append(Append(bytes, b), c)
OBVIOUS

(* Pause: E1 hides the codes of Ctrl, and the other code gives a character. *)
LEMMA PauseReaches ==
  ASSUME NEW s, NEW bytes \in Seq(Byte), NEW mods \in [Mod -> BOOLEAN],
         NEW want, NEW n \in Nat, Reaches(s, bytes, State(Kbd!NORMAL, mods, n), want),
         n + 1 <= Len(want), Char \subseteq want[n + 1]
  PROVE  Reaches(s, bytes \o <<Kbd!KEY_E1, 29, 69, Kbd!KEY_E1, Kbd!Released(29), Kbd!Released(69)>>,
                 State(Kbd!NORMAL, mods, n + 1), want)
<1> DEFINE u == State(Kbd!NORMAL, mods, n)
           v == State(Kbd!NORMAL, mods, n + 1)
           p == State(Kbd!BBEGIN_E1, mods, n)
           q == State(Kbd!BBEGIN_E1, mods, n + 1)
<1>1. PICK e \in Byte : e = Kbd!Released(29) BY Codes
<1>2. PICK f \in Byte : f = Kbd!Released(69) BY Codes
<1>3. /\ 29 \in Byte /\ ~ IsPrefixByte(29) /\ ~ IsPrefixByte(e) /\ 69 \in Byte /\ Kbd!KEY_E1 \in Byte
  <2>1. Kbd!KEY_E1 \in Byte BY DEF Kbd!KEY_E1, Byte
  <2> QED BY <2>1, <1>1, Codes DEF Byte
<1>4. p \in DriverState /\ q \in DriverState /\ u \in DriverState /\ v \in DriverState /\ n + 1 \in Nat
  BY StateType
<1>5. StepsTo(u, Kbd!KEY_E1, p, want) /\ StepsTo(v, Kbd!KEY_E1, q, want) BY PrefixSteps
<1>6. StepsTo(p, 29, u, want) /\ StepsTo(q, e, v, want) BY <1>3, BehindE1Steps
<1> HIDE DEF p, q
<1> DEFINE b7 == bytes \o <<Kbd!KEY_E1, 29>>
           b8 == b7 \o <<69>>
           b9 == b8 \o <<Kbd!KEY_E1, e>>
<1>7. /\ b7 \in Seq(Byte) /\ b8 \in Seq(Byte) /\ b9 \in Seq(Byte)
      /\ b9 \o <<f>> = bytes \o <<Kbd!KEY_E1, 29, 69, Kbd!KEY_E1, e, f>>
  <2>1. PICK c \in Byte, d \in Byte, x \in Byte : c = 29 /\ d = 69 /\ x = Kbd!KEY_E1 BY <1>3
  <2>2. b7 \in Seq(Byte) BY <2>1, FewBytes
  <2>3. b8 \in Seq(Byte)
    <3> HIDE DEF b7
    <3> QED BY <2>1, <2>2, FewBytes
  <2>4. b9 \in Seq(Byte)
    <3> HIDE DEF b8
    <3> QED BY <2>1, <2>3, FewBytes
  <2>5. (((bytes \o <<x, c>>) \o <<d>>) \o <<x, e>>) \o <<f>> = bytes \o <<x, c, d, x, e, f>>
    BY SMTT(60)
  <2> QED BY <2>1, <2>2, <2>3, <2>4, <2>5
<1>8. Reaches(s, b7, u, want) BY <1>3, <1>4, <1>5, <1>6, ReachesTwo
<1>9. CharsWith(mods, 69) \subseteq want[n + 1] BY DEF CharsWith, Kbd!LastMapped
<1> HIDE DEF b7
<1>10. Reaches(s, b8, v, want)
  <2>1. PICK c \in 0 .. 95 : c = 69 OBVIOUS
  <2>2. c \notin {54, 42, 56, 29, 58, 87, 88} \cup (59 .. 68) BY <2>1
  <2>3. Reaches(s, b7 \o <<c>>, State(Kbd!NORMAL, mods, n + 1), want)
    <3>1. CharsWith(mods, c) \subseteq want[n + 1] BY <1>9, <2>1
    <3>2. Reaches(s, b7, State(Kbd!NORMAL, mods, n), want) BY <1>8
    <3> HIDE DEF u, v
    <3> QED BY <3>1, <3>2, <2>2, <1>7, CharReaches
  <2> QED BY <2>1, <2>3
<1> HIDE DEF b8
<1>11. Reaches(s, b9, v, want) BY <1>3, <1>4, <1>5, <1>6, <1>7, <1>10, ReachesTwo
<1> HIDE DEF b9
<1>12. Reaches(s, b9 \o <<f>>, v, want)
  <2>1. PICK c \in 0 .. 95 : c = 69 OBVIOUS
  <2>2. c \notin {54, 42, 56, 29, 58} BY <2>1
  <2> QED BY <2>1, <2>2, <1>2, <1>4, <1>7, <1>11, QuietReaches
<1> QED BY <1>1, <1>2, <1>7, <1>12

-----------------------------------------------------------------------------
PlainKey == {"A", "One", "Enter", "LShift", "RShift", "Caps", "LCtrl", "LAlt", "F1", "Star",
             "NumLock"}

LEMMA Keys ==
  /\ DOMAIN Kbd!PlainCode = PlainKey /\ DOMAIN Kbd!ExtendedCode = {"RCtrl", "RAlt", "Up"}
  /\ Kbd!Key = PlainKey \cup {"RCtrl", "RAlt", "Up", "PrintScreen", "Pause"}
  /\ Kbd!PlainCode.A = 30 /\ Kbd!PlainCode.One = 2 /\ Kbd!PlainCode.Enter = 28
  /\ Kbd!PlainCode.LShift = 42 /\ Kbd!PlainCode.RShift = 54 /\ Kbd!PlainCode.Caps = 58
  /\ Kbd!PlainCode.LCtrl = 29 /\ Kbd!PlainCode.LAlt = 56 /\ Kbd!PlainCode.F1 = 59
  /\ Kbd!PlainCode.Star = 55 /\ Kbd!PlainCode.NumLock = 69
  /\ Kbd!ExtendedCode.RCtrl = 29 /\ Kbd!ExtendedCode.RAlt = 56 /\ Kbd!ExtendedCode.Up = 72
BY DEF Kbd!PlainCode, Kbd!ExtendedCode, Kbd!Key, PlainKey

(* What the user may expect of a key, the driver gives. *)
LEMMA ExpectedChars ==
  ASSUME NEW keys, NEW caps \in BOOLEAN
  PROVE  /\ CharsWith(AsHeld(keys, caps), 30) = Kbd!Expected("A", keys, caps)
         /\ CharsWith(AsHeld(keys, caps), 2) = Kbd!Expected("One", keys, caps)
         /\ CharsWith(AsHeld(keys, caps), 28) = Kbd!Expected("Enter", keys, caps)
         /\ CharsWith(AsHeld(keys, caps), 55) = Kbd!Expected("Star", keys, caps)
         /\ CharsWith(AsHeld(keys, caps), 69) = Kbd!Expected("NumLock", keys, caps)
         /\ Kbd!Expected("Pause", keys, caps) = Char
<1> DEFINE m == AsHeld(keys, caps)
           shift == m["lshift"] \/ m["rshift"]
           down == keys \cap {"LShift", "RShift"} # {}
<1>1. m["capsLock"] = caps /\ (shift <=> down)
  <2>1. /\ m["capsLock"] = caps /\ m["lshift"] = ("LShift" \in keys)
        /\ m["rshift"] = ("RShift" \in keys)
    BY AsHeldOf
  <2>2. down <=> "LShift" \in keys \/ "RShift" \in keys OBVIOUS
  <2> QED BY <2>1, <2>2
<1>2. /\ Kbd!MapTable[2] = [normal |-> "1", func |-> "!"]
      /\ Kbd!MapTable[28] = [normal |-> LF, func |-> LF]
      /\ Kbd!MapTable[30] = [normal |-> "a", func |-> "A"]
      /\ Kbd!MapTable[55] = [normal |-> NUL, func |-> NUL]
  <2>1. 2 \in 0 .. Kbd!LastMapped /\ 28 \in 0 .. Kbd!LastMapped /\ 30 \in 0 .. Kbd!LastMapped
        /\ 55 \in 0 .. Kbd!LastMapped
    BY DEF Kbd!LastMapped
  <2>2. Kbd!MapTable[2] = [normal |-> "1", func |-> "!"] BY <2>1 DEF Kbd!MapTable
  <2>3. Kbd!MapTable[28] = [normal |-> LF, func |-> LF] BY <2>1 DEF Kbd!MapTable, LF, Kbd!LF
  <2>4. Kbd!MapTable[30] = [normal |-> "a", func |-> "A"] BY <2>1 DEF Kbd!MapTable
  <2>5. Kbd!MapTable[55] = [normal |-> NUL, func |-> NUL]
    BY <2>1 DEF Kbd!MapTable, NUL, Kbd!NUL
  <2> QED BY <2>2, <2>3, <2>4, <2>5
<1>3. /\ Kbd!SwapCase("a") = "A" /\ Kbd!SwapCase("A") = "a" /\ Kbd!SwapCase("1") = "1"
      /\ Kbd!SwapCase("!") = "!" /\ Kbd!SwapCase(LF) = LF /\ Kbd!SwapCase(NUL) = NUL
  BY DEF Kbd!SwapCase, LF, NUL
<1> HIDE DEF m
<1>4. CharsWith(m, 30) = Kbd!Expected("A", keys, caps)
  <2>1. CharsWith(m, 30) = {IF m["capsLock"] THEN Kbd!SwapCase(IF shift THEN "A" ELSE "a")
                            ELSE IF shift THEN "A" ELSE "a"}
    BY <1>2 DEF CharsWith, Kbd!LastMapped
  <2>2. Kbd!Expected("A", keys, caps) = {IF down # caps THEN "A" ELSE "a"} BY DEF Kbd!Expected
  <2> QED BY <1>1, <1>3, <2>1, <2>2
<1>5. CharsWith(m, 2) = Kbd!Expected("One", keys, caps)
  <2>1. CharsWith(m, 2) = {IF m["capsLock"] THEN Kbd!SwapCase(IF shift THEN "!" ELSE "1")
                            ELSE IF shift THEN "!" ELSE "1"}
    BY <1>2 DEF CharsWith, Kbd!LastMapped
  <2>2. Kbd!Expected("One", keys, caps) = {IF down THEN "!" ELSE "1"} BY DEF Kbd!Expected
  <2> QED BY <1>1, <1>3, <2>1, <2>2
<1>6. CharsWith(m, 28) = Kbd!Expected("Enter", keys, caps)
  BY <1>2, <1>3 DEF CharsWith, Kbd!LastMapped, Kbd!Expected, LF, Kbd!LF, NUL, Kbd!NUL
<1>7. CharsWith(m, 55) = Kbd!Expected("Star", keys, caps)
  BY <1>2, <1>3 DEF CharsWith, Kbd!LastMapped, Kbd!Expected, LF, Kbd!LF, NUL, Kbd!NUL
<1>8. CharsWith(m, 69) = Char /\ Kbd!Expected("NumLock", keys, caps) = Char
  BY DEF CharsWith, Kbd!LastMapped, Kbd!Expected
<1>9. Kbd!Expected("Pause", keys, caps) = Char BY DEF Kbd!Expected
<1> QED BY <1>4, <1>5, <1>6, <1>7, <1>8, <1>9 DEF m

Silent == {"LShift", "RShift", "Caps", "LCtrl", "LAlt", "F1", "RCtrl", "RAlt", "Up", "PrintScreen"}

LEMMA ExpectedType ==
  ASSUME NEW keys, NEW caps, NEW k \in Kbd!Key
  PROVE  /\ Kbd!Expected(k, keys, caps) \in SUBSET Char
         /\ Kbd!Expected(k, keys, caps) = {} <=> k \in Silent
<1>1. /\ LF \in Char /\ NUL \in Char /\ "a" \in Char /\ "A" \in Char /\ "1" \in Char
      /\ "!" \in Char
  BY DEF Kbd!KeyboardAssumption, LF, Kbd!LF, NUL, Kbd!NUL
<1>2. CASE k \in {"A", "One", "Enter", "Star", "NumLock", "Pause"}
  <2>1. Kbd!Expected("A", keys, caps) \in {{"A"}, {"a"}} BY DEF Kbd!Expected
  <2>2. Kbd!Expected("One", keys, caps) \in {{"1"}, {"!"}} BY DEF Kbd!Expected
  <2>3. Kbd!Expected("Enter", keys, caps) = {LF} BY DEF Kbd!Expected, LF, Kbd!LF
  <2>4. Kbd!Expected("Star", keys, caps) = {NUL} BY DEF Kbd!Expected, NUL, Kbd!NUL
  <2>5. Kbd!Expected("NumLock", keys, caps) = Char /\ Kbd!Expected("Pause", keys, caps) = Char
    BY DEF Kbd!Expected
  <2>6. k \notin Silent BY <1>2 DEF Silent
  <2>7. CASE k = "A" BY <1>1, <2>1, <2>6, <2>7
  <2>8. CASE k = "One" BY <1>1, <2>2, <2>6, <2>8
  <2>9. CASE k = "Enter" BY <1>1, <2>3, <2>6, <2>9
  <2>10. CASE k = "Star" BY <1>1, <2>4, <2>6, <2>10
  <2>11. CASE k \in {"NumLock", "Pause"} BY <1>1, <2>5, <2>6, <2>11
  <2> QED BY <1>2, <2>7, <2>8, <2>9, <2>10, <2>11
<1>3. CASE k \in Silent BY <1>3 DEF Kbd!Expected, Silent
<1> QED BY <1>2, <1>3, Keys DEF PlainKey, Silent

(* What a key sends when it goes down, or repeats, leads the driver to     *)
(* what it should know then.                                               *)
Wanted(want, k, keys, caps) ==
  LET chars == Kbd!Expected(k, keys, caps)
  IN  IF chars = {} THEN want ELSE Append(want, chars)

LEMMA WantedType ==
  ASSUME NEW want \in Seq(SUBSET Char), NEW k \in Kbd!Key, NEW keys, NEW caps,
         NEW more, more = Wanted(want, k, keys, caps)
  PROVE  /\ more \in Seq(SUBSET Char) /\ Len(want) <= Len(more)
         /\ \A i \in 1 .. Len(want) : more[i] = want[i]
         /\ Kbd!Expected(k, keys, caps) = {} => more = want
         /\ Kbd!Expected(k, keys, caps) # {} =>
              Len(more) = Len(want) + 1 /\ more[Len(want) + 1] = Kbd!Expected(k, keys, caps)
<1> DEFINE chars == Kbd!Expected(k, keys, caps)
<1>1. chars \in SUBSET Char BY ExpectedType
<1> HIDE DEF chars
<1>2. CASE chars = {} BY <1>2 DEF Wanted, chars
<1>3. CASE chars # {}
  <2>1. more = Append(want, chars) BY <1>3 DEF Wanted, chars
  <2> QED BY <1>1, <1>3, <2>1, AppendProperties DEF chars
<1> QED BY <1>2, <1>3

LEMMA PressReaches ==
  ASSUME NEW s, NEW bytes \in Seq(Byte), NEW keys, NEW caps \in BOOLEAN,
         NEW want \in Seq(SUBSET Char), NEW k \in Kbd!Key,
         Reaches(s, bytes, Settled(keys, caps, want), want),
         NEW caps2, caps2 = (caps # (k = "Caps")),
         NEW more, more = Wanted(want, k, keys, caps)
  PROVE  Reaches(s, bytes \o Kbd!PressBytes(k), Settled(keys \cup {k}, caps2, more), more)
<1> DEFINE m == AsHeld(keys, caps)
           n == Len(want)
           chars == Kbd!Expected(k, keys, caps)
           pressed(n2) == State(Kbd!NORMAL, AsHeld(keys \cup {k}, caps2), n2)
<1>0. n \in Nat /\ m \in [Mod -> BOOLEAN] BY AsHeldType
<1>1. /\ more \in Seq(SUBSET Char) /\ n <= Len(more)
      /\ \A i \in 1 .. n : more[i] = want[i]
      /\ chars = {} => more = want
      /\ chars # {} => Len(more) = n + 1 /\ more[n + 1] = chars
  BY WantedType
<1>2. Reaches(s, bytes, State(Kbd!NORMAL, m, n), more)
  <2>1. Reaches(s, bytes, State(Kbd!NORMAL, m, n), want) BY DEF Settled, State
  <2> HIDE DEF m
  <2> QED BY <2>1, <1>1, ReachesMore
<1>3. k # "Caps" => caps2 = caps OBVIOUS
<1>4. k \notin Modifier \cup {"Caps"} => AsHeld(keys \cup {k}, caps2) = m
  <2>1. k \notin Modifier => AsHeld(keys \cup {k}, caps) = AsHeld(keys, caps) BY AsHeldSame
  <2> QED BY <2>1, <1>3
<1>5. Reaches(s, bytes \o Kbd!PressBytes(k), pressed(Len(more)), more)
  <2> USE <1>0, <1>2
  <2>1. CASE k \in DOMAIN PlainModifier
    <3>1. /\ k \in {"RShift", "LShift", "LAlt", "LCtrl"} /\ k \in Silent
          /\ Kbd!PressBytes(k) = <<PlainModifier[k]>>
      BY <2>1, Keys DEF PlainModifier, Silent, PlainKey, Kbd!PressBytes
    <3>2. chars = {} /\ Len(more) = n BY <3>1, <1>1, ExpectedType
    <3>3. Reaches(s, bytes \o <<PlainModifier[k]>>, State(Kbd!NORMAL, AsHeld(keys \cup {k}, caps), n), more)
      BY <2>1, PlainModifierReaches
    <3> QED BY <3>1, <3>2, <3>3, <1>3
  <2>2. CASE k \in DOMAIN ExtendedModifier
    <3>1. /\ k \in {"RCtrl", "RAlt"} /\ k \in Silent
          /\ Kbd!PressBytes(k) = <<Kbd!KEY_E0, ExtendedModifier[k]>>
      BY <2>2, Keys DEF ExtendedModifier, Silent, PlainKey, Kbd!PressBytes
    <3>2. chars = {} /\ Len(more) = n BY <3>1, <1>1, ExpectedType
    <3>3. Reaches(s, bytes \o <<Kbd!KEY_E0, ExtendedModifier[k]>>,
                  State(Kbd!NORMAL, AsHeld(keys \cup {k}, caps), n), more)
      BY <2>2, ExtendedModifierReaches
    <3> QED BY <3>1, <3>2, <3>3, <1>3
  <2>3. CASE k = "Caps"
    <3>1. k \in Silent /\ Kbd!PressBytes(k) = <<58>> BY <2>3, Keys DEF Silent, PlainKey, Kbd!PressBytes
    <3>2. chars = {} /\ Len(more) = n BY <3>1, <1>1, ExpectedType
    <3>3. Reaches(s, bytes \o <<58>>, State(Kbd!NORMAL, AsHeld(keys, ~ caps), n), more)
      BY CapsReaches
    <3>4. AsHeld(keys \cup {k}, caps2) = AsHeld(keys, ~ caps)
      <4>1. caps2 = ~ caps BY <2>3
      <4>2. k \notin Modifier BY <2>3 DEF Modifier
      <4>3. k \notin Modifier => AsHeld(keys \cup {k}, ~ caps) = AsHeld(keys, ~ caps) BY AsHeldSame
      <4> QED BY <4>1, <4>2, <4>3, Zenon
    <3> QED BY <3>1, <3>2, <3>3, <3>4
  <2>4. CASE k = "F1"
    <3>1. k \in Silent /\ Kbd!PressBytes(k) = <<59>> /\ k \notin Modifier \cup {"Caps"}
      BY <2>4, Keys DEF Silent, PlainKey, Kbd!PressBytes, Modifier
    <3>2. chars = {} /\ Len(more) = n BY <3>1, <1>1, ExpectedType
    <3>3. PICK c \in 0 .. 95 : c = 59 /\ c \notin {54, 42, 56, 29, 58} OBVIOUS
    <3>4. Reaches(s, bytes \o <<c>>, State(Kbd!NORMAL, m, n), more) BY <3>3, QuietReaches
    <3> QED BY <3>1, <3>2, <3>3, <3>4, <1>4
  <2>5. CASE k \in {"A", "One", "Enter", "Star", "NumLock"}
    <3>1. /\ k \notin Silent /\ k \notin Modifier \cup {"Caps"} /\ k \in PlainKey
          /\ Kbd!PressBytes(k) = <<Kbd!PlainCode[k]>>
          /\ Kbd!PlainCode[k] \in {30, 2, 28, 55, 69}
      BY <2>5, Keys DEF Silent, PlainKey, Kbd!PressBytes, Modifier
    <3>2. chars # {} /\ Len(more) = n + 1 /\ more[n + 1] = chars BY <3>1, <1>1, ExpectedType
    <3>3. CharsWith(m, Kbd!PlainCode[k]) = chars BY <2>5, Keys, ExpectedChars
    <3>4. PICK c \in 0 .. 95 : /\ c = Kbd!PlainCode[k]
                              /\ c \notin {54, 42, 56, 29, 58, 87, 88} \cup (59 .. 68)
      BY <3>1
    <3>5. n + 1 <= Len(more) /\ CharsWith(m, c) \subseteq more[n + 1] BY <3>2, <3>3, <3>4
    <3> HIDE DEF m, n, chars
    <3>6. Reaches(s, bytes \o <<c>>, State(Kbd!NORMAL, m, n + 1), more)
      BY <3>4, <3>5, CharReaches
    <3> QED BY <3>1, <3>2, <3>4, <3>6, <1>4
  <2>6. CASE k = "Up"
    <3>1. /\ k \in Silent /\ Kbd!PressBytes(k) = <<Kbd!KEY_E0, 72>> /\ k \notin Modifier \cup {"Caps"}
      BY <2>6, Keys DEF Silent, PlainKey, Kbd!PressBytes, Modifier
    <3>2. chars = {} /\ Len(more) = n BY <3>1, <1>1, ExpectedType
    <3>3. PICK c \in 0 .. 95 : c = 72 /\ c \notin {56, 29} OBVIOUS
    <3>4. Reaches(s, bytes \o <<Kbd!KEY_E0, c>>, State(Kbd!NORMAL, m, n), more)
      BY <3>3, ExtendedQuietReaches
    <3> QED BY <3>1, <3>2, <3>3, <3>4, <1>4
  <2>7. CASE k = "PrintScreen"
    <3>1. /\ k \in Silent /\ k \notin Modifier \cup {"Caps"}
          /\ Kbd!PressBytes(k) = <<Kbd!KEY_E0, 42, Kbd!KEY_E0, 55>>
      BY <2>7, Keys DEF Silent, PlainKey, Kbd!PressBytes, Modifier
    <3>2. chars = {} /\ Len(more) = n BY <3>1, <1>1, ExpectedType
    <3>3. PICK c \in 0 .. 95, d \in 0 .. 95, x \in Byte :
            c = 42 /\ d = 55 /\ c \notin {56, 29} /\ d \notin {56, 29} /\ x = Kbd!KEY_E0
      BY DEF Byte, Kbd!KEY_E0
    <3>4. Reaches(s, bytes \o <<x, c>>, State(Kbd!NORMAL, m, n), more)
      BY <3>3, ExtendedQuietReaches
    <3>5. bytes \o <<x, c>> \in Seq(Byte) /\ c \in Byte /\ d \in Byte
      <4>1. c \in Byte /\ d \in Byte BY DEF Byte
      <4> QED BY <4>1, <3>3, FewBytes
    <3>6. Reaches(s, (bytes \o <<x, c>>) \o <<x, d>>, State(Kbd!NORMAL, m, n), more)
      BY <3>3, <3>4, <3>5, ExtendedQuietReaches
    <3>7. (bytes \o <<x, c>>) \o <<x, d>> = bytes \o <<x, c, x, d>> BY <3>5, SMTT(60)
    <3> QED BY <3>1, <3>2, <3>3, <3>6, <3>7, <1>4
  <2>8. CASE k = "Pause"
    <3>1. /\ k \notin Silent /\ k \notin Modifier \cup {"Caps"}
          /\ Kbd!PressBytes(k)
               = <<Kbd!KEY_E1, 29, 69, Kbd!KEY_E1, Kbd!Released(29), Kbd!Released(69)>>
      BY <2>8, Keys DEF Silent, PlainKey, Kbd!PressBytes, Modifier
    <3>2. chars # {} /\ Len(more) = n + 1 /\ more[n + 1] = chars BY <3>1, <1>1, ExpectedType
    <3>3. chars = Char BY <2>8, ExpectedChars
    <3>4. n + 1 <= Len(more) /\ Char \subseteq more[n + 1] BY <3>2, <3>3
    <3> HIDE DEF m, n, chars
    <3>5. Reaches(s, bytes \o <<Kbd!KEY_E1, 29, 69, Kbd!KEY_E1, Kbd!Released(29), Kbd!Released(69)>>,
                  State(Kbd!NORMAL, m, n + 1), more)
      BY <3>4, PauseReaches
    <3> QED BY <3>1, <3>2, <3>5, <1>4
  <2> QED
    BY <2>1, <2>2, <2>3, <2>4, <2>5, <2>6, <2>7, <2>8, Keys DEF PlainKey, PlainModifier, ExtendedModifier
<1>6. pressed(Len(more)) = Settled(keys \cup {k}, caps2, more) BY DEF Settled, State
<1> QED BY <1>1, <1>5, <1>6

LEMMA ReleaseReaches ==
  ASSUME NEW s, NEW bytes \in Seq(Byte), NEW keys, NEW caps \in BOOLEAN,
         NEW want \in Seq(SUBSET Char), NEW k \in Kbd!Key,
         Reaches(s, bytes, Settled(keys, caps, want), want)
  PROVE  Reaches(s, bytes \o Kbd!ReleaseBytes(k), Settled(keys \ {k}, caps, want), want)
<1> DEFINE m == AsHeld(keys, caps)
           n == Len(want)
           u == State(Kbd!NORMAL, AsHeld(keys \ {k}, caps), n)
<1>0. n \in Nat /\ m \in [Mod -> BOOLEAN] BY AsHeldType
<1>1. Reaches(s, bytes, State(Kbd!NORMAL, m, n), want) BY DEF Settled, State
<1>2. k \notin Modifier => AsHeld(keys \ {k}, caps) = m BY AsHeldSame
<1> HIDE DEF m, n
<1>3. Reaches(s, bytes \o Kbd!ReleaseBytes(k), u, want)
  <2> USE <1>0, <1>1
  <2>1. CASE k \in DOMAIN PlainModifier
    <3>1. Kbd!ReleaseBytes(k) = <<Kbd!Released(PlainModifier[k])>>
      BY <2>1, Keys DEF PlainModifier, PlainKey, Kbd!ReleaseBytes
    <3>2. Reaches(s, bytes \o <<Kbd!Released(PlainModifier[k])>>, u, want)
      BY <2>1, PlainModifierReaches DEF m
    <3> QED BY <3>1, <3>2
  <2>2. CASE k \in DOMAIN ExtendedModifier
    <3>1. Kbd!ReleaseBytes(k) = <<Kbd!KEY_E0, Kbd!Released(ExtendedModifier[k])>>
      BY <2>2, Keys DEF ExtendedModifier, PlainKey, Kbd!ReleaseBytes
    <3>2. Reaches(s, bytes \o <<Kbd!KEY_E0, Kbd!Released(ExtendedModifier[k])>>, u, want)
      BY <2>2, ExtendedModifierReaches DEF m
    <3> QED BY <3>1, <3>2
  <2>3. CASE k = "Caps"
    <3>1. Kbd!ReleaseBytes(k) = <<Kbd!Released(58)>> /\ k \notin Modifier
      BY <2>3, Keys DEF PlainKey, Kbd!ReleaseBytes, Modifier
    <3>2. Reaches(s, bytes \o <<Kbd!Released(58)>>, State(Kbd!NORMAL, m, n), want)
      BY CapsReaches DEF m
    <3> QED BY <3>1, <3>2, <1>2
  <2>4. CASE k \in {"A", "One", "Enter", "Star", "NumLock", "F1"}
    <3>1. /\ k \notin Modifier /\ k \in PlainKey
          /\ Kbd!ReleaseBytes(k) = <<Kbd!Released(Kbd!PlainCode[k])>>
          /\ Kbd!PlainCode[k] \in {30, 2, 28, 55, 69, 59}
      BY <2>4, Keys DEF PlainKey, Kbd!ReleaseBytes, Modifier
    <3>2. PICK c \in 0 .. 95 : c = Kbd!PlainCode[k] /\ c \notin {54, 42, 56, 29, 58}
      BY <3>1
    <3>3. Reaches(s, bytes \o <<Kbd!Released(c)>>, State(Kbd!NORMAL, m, n), want)
      BY <3>2, QuietReaches
    <3> QED BY <3>1, <3>2, <3>3, <1>2
  <2>5. CASE k = "Up"
    <3>1. Kbd!ReleaseBytes(k) = <<Kbd!KEY_E0, Kbd!Released(72)>> /\ k \notin Modifier
      BY <2>5, Keys DEF PlainKey, Kbd!ReleaseBytes, Modifier
    <3>2. PICK c \in 0 .. 95 : c = 72 /\ c \notin {56, 29} OBVIOUS
    <3>3. Reaches(s, bytes \o <<Kbd!KEY_E0, Kbd!Released(c)>>, State(Kbd!NORMAL, m, n), want)
      BY <3>2, ExtendedQuietReaches
    <3> QED BY <3>1, <3>2, <3>3, <1>2
  <2>6. CASE k = "PrintScreen"
    <3>1. /\ k \notin Modifier
          /\ Kbd!ReleaseBytes(k)
               = <<Kbd!KEY_E0, Kbd!Released(55), Kbd!KEY_E0, Kbd!Released(42)>>
      BY <2>6, Keys DEF PlainKey, Kbd!ReleaseBytes, Modifier
    <3>2. PICK c \in 0 .. 95, d \in 0 .. 95, x \in Byte :
            c = 55 /\ d = 42 /\ c \notin {56, 29} /\ d \notin {56, 29} /\ x = Kbd!KEY_E0
      BY DEF Byte, Kbd!KEY_E0
    <3>3. PICK c1 \in Byte, d1 \in Byte : c1 = Kbd!Released(c) /\ d1 = Kbd!Released(d) BY Codes
    <3>4. Reaches(s, bytes \o <<x, c1>>, State(Kbd!NORMAL, m, n), want)
      BY <3>2, <3>3, ExtendedQuietReaches
    <3>5. bytes \o <<x, c1>> \in Seq(Byte) BY FewBytes
    <3>6. Reaches(s, (bytes \o <<x, c1>>) \o <<x, d1>>, State(Kbd!NORMAL, m, n), want)
      BY <3>2, <3>3, <3>4, <3>5, ExtendedQuietReaches
    <3>7. (bytes \o <<x, c1>>) \o <<x, d1>> = bytes \o <<x, c1, x, d1>> BY SMTT(60)
    <3> QED BY <3>1, <3>2, <3>3, <3>6, <3>7, <1>2
  <2>7. CASE k = "Pause"
    <3>1. k \notin Modifier /\ Kbd!ReleaseBytes(k) = <<>>
      BY <2>7, Keys DEF PlainKey, Kbd!ReleaseBytes, Modifier
    <3>2. bytes \o <<>> = bytes OBVIOUS
    <3> QED BY <3>1, <3>2, <1>2
  <2> QED
    BY <2>1, <2>2, <2>3, <2>4, <2>5, <2>6, <2>7, Keys DEF PlainKey, PlainModifier, ExtendedModifier
<1> QED BY <1>3 DEF Settled, State, n

-----------------------------------------------------------------------------
LEMMA KeyBytes ==
  ASSUME NEW k \in Kbd!Key
  PROVE  Kbd!PressBytes(k) \in Seq(Byte) /\ Kbd!ReleaseBytes(k) \in Seq(Byte)
<1>0. Kbd!KEY_E0 \in Byte /\ Kbd!KEY_E1 \in Byte BY DEF Kbd!KEY_E0, Kbd!KEY_E1, Byte
<1>1. CASE k \in DOMAIN Kbd!PlainCode
  <2>1. Kbd!PlainCode[k] \in {30, 2, 28, 42, 54, 58, 29, 56, 59, 55, 69}
    BY <1>1, Keys DEF PlainKey
  <2>2. PICK c \in 0 .. 95 : c = Kbd!PlainCode[k] BY <2>1
  <2>3. c \in Byte /\ Kbd!Released(c) \in Byte BY Codes
  <2> QED BY <1>1, <2>2, <2>3 DEF Kbd!PressBytes, Kbd!ReleaseBytes
<1>2. CASE k \notin DOMAIN Kbd!PlainCode /\ k \in DOMAIN Kbd!ExtendedCode
  <2>1. Kbd!ExtendedCode[k] \in {29, 56, 72} BY <1>2, Keys
  <2>2. PICK c \in 0 .. 95 : c = Kbd!ExtendedCode[k] BY <2>1
  <2>3. c \in Byte /\ Kbd!Released(c) \in Byte BY Codes
  <2> QED BY <1>0, <1>2, <2>2, <2>3 DEF Kbd!PressBytes, Kbd!ReleaseBytes
<1>3. CASE k \notin DOMAIN Kbd!PlainCode /\ k \notin DOMAIN Kbd!ExtendedCode
  <2>1. PICK a \in 0 .. 95, b \in 0 .. 95, c \in 0 .. 95, d \in 0 .. 95 :
          a = 42 /\ b = 55 /\ c = 29 /\ d = 69
    OBVIOUS
  <2>2. /\ a \in Byte /\ b \in Byte /\ c \in Byte /\ d \in Byte
        /\ Kbd!Released(a) \in Byte /\ Kbd!Released(b) \in Byte
        /\ Kbd!Released(c) \in Byte /\ Kbd!Released(d) \in Byte
    BY Codes
  <2>3. CASE k = "PrintScreen"
    BY <1>0, <1>3, <2>1, <2>2, <2>3 DEF Kbd!PressBytes, Kbd!ReleaseBytes
  <2>4. CASE k # "PrintScreen"
    BY <1>0, <1>3, <2>1, <2>2, <2>4 DEF Kbd!PressBytes, Kbd!ReleaseBytes
  <2> QED BY <2>3, <2>4
<1> QED BY <1>1, <1>2, <1>3

LEMMA UserKeeps ==
  ASSUME KbdInv, NEW k, Kbd!UseKey(k)
  PROVE  KbdInv'
<1>0. /\ held \subseteq Kbd!Key /\ last \subseteq held /\ locked \in BOOLEAN /\ wire \in Seq(Byte)
      /\ asked \in Seq(SUBSET Char) /\ handed \in Seq(Char) /\ Len(handed) <= Len(asked)
      /\ \A i \in DOMAIN handed : handed[i] \in asked[i]
      /\ Reaches(Now, wire, Settled(held, locked, asked), asked)
  BY DEF KbdInv
<1>a. CASE Kbd!Press(k) \/ Kbd!Repeat(k)
  <2>1. /\ k \in Kbd!Key /\ Kbd!Make(k) /\ held' = held \cup {k} /\ last' \subseteq held'
        /\ UNCHANGED <<recvState, kbdState, handed>>
    BY <1>0, <1>a DEF Kbd!Press, Kbd!Repeat, Kbd!driver
  <2>2. /\ wire' = wire \o Kbd!PressBytes(k) /\ locked' = (locked # (k = "Caps"))
        /\ asked' = Wanted(asked, k, held, locked)
    BY <2>1 DEF Kbd!Make, Wanted
  <2>3. /\ asked' \in Seq(SUBSET Char) /\ Len(asked) <= Len(asked')
        /\ \A i \in 1 .. Len(asked) : asked'[i] = asked[i]
        /\ Reaches(Now, wire', Settled(held', locked', asked'), asked')
    <3>1. PICK s, a2, l2 : s = Now /\ a2 = asked' /\ l2 = locked' OBVIOUS
    <3>2. Reaches(s, wire \o Kbd!PressBytes(k), Settled(held \cup {k}, l2, a2), a2)
      BY <1>0, <2>1, <2>2, <3>1, PressReaches
    <3>3. /\ a2 \in Seq(SUBSET Char) /\ Len(asked) <= Len(a2)
          /\ \A i \in 1 .. Len(asked) : a2[i] = asked[i]
      <4>1. a2 = Wanted(asked, k, held, locked) BY <2>2, <3>1
      <4>2. asked \in Seq(SUBSET Char) /\ k \in Kbd!Key BY <1>0, <2>1
      <4>3. a2 \in Seq(SUBSET Char) BY <4>1, <4>2, WantedType
      <4>4. Len(asked) <= Len(a2) BY <4>1, <4>2, WantedType
      <4>5. \A i \in 1 .. Len(asked) : a2[i] = asked[i] BY <4>1, <4>2, WantedType
      <4> QED BY <4>3, <4>4, <4>5
    <3> QED BY <2>1, <2>2, <3>1, <3>2, <3>3
  <2>4. Kbd!PressBytes(k) \in Seq(Byte) BY <2>1, KeyBytes
  <2>5. wire' \in Seq(Byte) BY <1>0, <2>2, <2>4
  <2>6. Now' = Now BY <2>1 DEF Now
  <2>7. locked' \in BOOLEAN BY <1>0, <2>2
  <2>8. Len(handed') <= Len(asked') /\ \A i \in DOMAIN handed' : handed'[i] \in asked'[i]
    <3>1. /\ Len(handed) \in Nat /\ Len(asked) \in Nat /\ Len(asked') \in Nat
          /\ DOMAIN handed = 1 .. Len(handed)
      BY <1>0, <2>3
    <3> QED BY <1>0, <2>1, <2>3, <3>1
  <2> QED BY <1>0, <2>1, <2>3, <2>5, <2>6, <2>7, <2>8 DEF KbdInv
<1>b. CASE Kbd!Release(k)
  <2>1. /\ k \in held /\ wire' = wire \o Kbd!ReleaseBytes(k) /\ held' = held \ {k}
        /\ last' = last \ {k}
        /\ UNCHANGED <<locked, asked, recvState, kbdState, handed>>
    BY <1>b DEF Kbd!Release, Kbd!driver
  <2>2. Reaches(Now, wire', Settled(held', locked, asked), asked)
    BY <1>0, <2>1, ReleaseReaches
  <2>3. Kbd!ReleaseBytes(k) \in Seq(Byte) BY <1>0, <2>1, KeyBytes
  <2>4. wire' \in Seq(Byte) BY <1>0, <2>1, <2>3
  <2>5. Now' = Now BY <2>1 DEF Now
  <2> QED BY <1>0, <2>1, <2>2, <2>4, <2>5 DEF KbdInv
<1> QED BY <1>a, <1>b DEF Kbd!UseKey

LEMMA KbdStarts ==
  ASSUME Kbd!KbdInit
  PROVE  KbdInv
<1>1. /\ held = {} /\ last = {} /\ locked = FALSE /\ wire = <<>> /\ asked = <<>> /\ handed = <<>>
      /\ recvState = Kbd!NORMAL /\ kbdState = [m \in Mod |-> FALSE]
  BY DEF Kbd!KbdInit, Mod
<1>2. Now = Settled(held, locked, asked)
  <2>1. AsHeld({}, FALSE) = [m \in Mod |-> FALSE]
    <3>1. ASSUME NEW m \in Mod PROVE (IF m = "capsLock" THEN FALSE ELSE KeyOf[m] \in {}) = FALSE
      <4>1. (KeyOf[m] \in {}) = FALSE OBVIOUS
      <4> QED BY <4>1, Zenon
    <3> QED BY <3>1, Zenon DEF AsHeld
  <2> QED BY <1>1, <2>1 DEF Now, Settled
<1>3. Reaches(Now, wire, Settled(held, locked, asked), asked)
  <2>1. Now \in DriverState BY <1>1 DEF Now, DriverState
  <2>2. PICK d \in DriverState : d = Now BY <2>1
  <2>3. PICK tr \in [1 .. Len(wire) + 1 -> DriverState] : tr[1] = Now
    <3>1. [i \in 1 .. 1 |-> d] \in [1 .. Len(wire) + 1 -> DriverState] BY <1>1
    <3>2. [i \in 1 .. 1 |-> d][1] = d OBVIOUS
    <3> QED BY <2>2, <3>1, <3>2
  <2>4. Len(wire) = 0 /\ 1 .. 0 = {} BY <1>1
  <2>5. tr[Len(wire) + 1] = Now BY <2>3, <2>4
  <2> QED BY <1>2, <2>3, <2>4, <2>5 DEF Reaches
<1>4. /\ wire \in Seq(Byte) /\ asked \in Seq(SUBSET Char) /\ handed \in Seq(Char)
      /\ Len(handed) <= Len(asked) /\ DOMAIN handed = {}
  BY <1>1
<1> QED BY <1>1, <1>3, <1>4 DEF KbdInv

LEMMA KbdUnchanged ==
  ASSUME KbdInv, UNCHANGED kbdVars
  PROVE  KbdInv'
BY DEF KbdInv, Now, kbdVars

LEMMA NextKeepsKbd ==
  ASSUME KbdInv, [Next]_termVars
  PROVE  KbdInv'
<1>1. CASE UseKey BY <1>1, UserKeeps DEF UseKey
<1>2. CASE KeyboardInterrupt BY <1>2, InterruptKeeps DEF KeyboardInterrupt
<1>3. ASSUME NEW r \in Reader, Read(r) PROVE KbdInv'
  BY <1>3, KbdUnchanged DEF Read
<1>4. ASSUME NEW t \in Writer, Write(t) PROVE KbdInv'
  BY <1>4, KbdUnchanged DEF Write
<1>5. CASE UNCHANGED termVars BY <1>5, KbdUnchanged DEF termVars
<1> QED BY <1>1, <1>2, <1>3, <1>4, <1>5 DEF Next

LEMMA NothingOnTheWire ==
  ASSUME KbdInv, wire = <<>>
  PROVE  /\ recvState = Kbd!NORMAL /\ kbdState = AsHeld(held, locked)
         /\ Len(handed) = Len(asked)
<1>1. PICK tr \in [1 .. Len(wire) + 1 -> DriverState] :
        tr[1] = Now /\ tr[Len(wire) + 1] = Settled(held, locked, asked)
  BY DEF KbdInv, Reaches
<1>2. Len(wire) + 1 = 1 OBVIOUS
<1>3. Now = Settled(held, locked, asked) BY <1>1, <1>2
<1> QED BY <1>3 DEF Now, Settled

LEMMA KbdInvHolds == Spec => []KbdInv
<1>1. Init => KbdInv BY KbdStarts DEF Init
<1>2. KbdInv /\ [Next]_termVars => KbdInv' BY NextKeepsKbd
<1> QED BY <1>1, <1>2, PTL DEF Spec

(* The state of the modifiers (dev/kbd.c: kbd_state, recv_state) is that   *)
(* of the keys when the keyboard has nothing more to say: whatever keys    *)
(* are pressed, held and released, in whatever order, and however late     *)
(* their bytes come, no modifier sticks and none is invented.              *)
THEOREM ModifiersAlwaysAsHeld == Spec => []ModifiersAsHeld
<1>1. ASSUME KbdInv PROVE ModifiersAsHeld
  <2>1. SUFFICES ASSUME wire = <<>>
                 PROVE  /\ recvState = Kbd!NORMAL
                        /\ kbdState = [capsLock |-> locked,
                              lshift |-> "LShift" \in held, rshift |-> "RShift" \in held,
                              lalt |-> "LAlt" \in held, ralt |-> "RAlt" \in held,
                              lctrl |-> "LCtrl" \in held, rctrl |-> "RCtrl" \in held]
    BY DEF ModifiersAsHeld, Kbd!ModifiersAsHeld
  <2>2. recvState = Kbd!NORMAL /\ kbdState = AsHeld(held, locked)
    BY <1>1, <2>1, NothingOnTheWire
  <2>3. /\ KeyOf["lshift"] = "LShift" /\ KeyOf["rshift"] = "RShift"
        /\ KeyOf["lalt"] = "LAlt" /\ KeyOf["ralt"] = "RAlt"
        /\ KeyOf["lctrl"] = "LCtrl" /\ KeyOf["rctrl"] = "RCtrl"
    BY DEF KeyOf, Mod
  <2>4. AsHeld(held, locked)
          = [capsLock |-> locked,
             lshift |-> "LShift" \in held, rshift |-> "RShift" \in held,
             lalt |-> "LAlt" \in held, ralt |-> "RAlt" \in held,
             lctrl |-> "LCtrl" \in held, rctrl |-> "RCtrl" \in held]
    BY <2>3 DEF AsHeld, Mod
  <2> QED BY <2>2, <2>4
<1> QED BY <1>1, KbdInvHolds, PTL

(* The driver hands to tty_in one character per press of a key that has    *)
(* one, in order, and the one that the modifiers held at the press call    *)
(* for (dev/kbd.c: do_normal_key).                                         *)
THEOREM KeysAlwaysGiveTheirChars == Spec => []KeysGiveTheirChars
<1>1. ASSUME KbdInv PROVE KeysGiveTheirChars
  <2>1. Len(handed) <= Len(asked) /\ \A i \in DOMAIN handed : handed[i] \in asked[i]
    BY <1>1 DEF KbdInv
  <2>2. wire = <<>> => Len(handed) = Len(asked) BY <1>1, NothingOnTheWire
  <2> QED BY <2>1, <2>2 DEF KeysGiveTheirChars, Kbd!KeysGiveTheirChars
<1> QED BY <1>1, KbdInvHolds, PTL

-----------------------------------------------------------------------------
(* What tty_in, tty_read and the ring between them do (dev/tty.c).  The    *)
(* ring stays a ring of characters; a line stays in the buffer it is read  *)
(* into, and a line feed is the last of it.                                *)
RingChar == Char \cup {Junk}

RingOf(size) ==
  [buf : [0 .. size - 1 -> RingChar], read : Nat, write : Nat, count : Int]

InType ==
  /\ inPc \in [Reader -> InLabel]
  /\ ififo \in RingOf(IbufSize)
  /\ inReg \in [Reader -> Int]
  /\ \A r \in Reader : inPc[r] = "fetch" => inReg[r] \in Nat
  /\ inCh \in [Reader -> RingChar]
  /\ line \in [Reader -> Seq(RingChar \cup {CR})]
  /\ typed \in Seq(Char) /\ got \in Seq(RingChar)

(* tty_read before it has a character, and while it shows it. *)
LineFits(r) ==
  LET n == Len(line[r])
  IN  /\ n <= BufSize
      /\ inPc[r] # "echo" => n < BufSize
      /\ \A i \in 1 .. n : line[r][i] = LF =>
           /\ inPc[r] = "echo" /\ inCh[r] = LF
           /\ i = n /\ (n < BufSize => n > 1 /\ line[r][n - 1] = CR)

LEMMA RingStore ==
  ASSUME NEW size \in Nat, NEW f \in RingOf(size), NEW c \in RingChar, NEW i \in Nat
  PROVE  FifoStore(f, i, c) \in RingOf(size) /\ FifoStore(f, i, c).count = f.count
<1>1. f = [buf |-> f.buf, read |-> f.read, write |-> f.write, count |-> f.count]
      /\ f.buf \in [0 .. size - 1 -> RingChar] /\ f.read \in Nat /\ f.write \in Nat /\ f.count \in Int
  BY DEF RingOf
<1>2. FifoStore(f, i, c) = [buf |-> [f.buf EXCEPT ![i] = c], read |-> f.read,
                            write |-> i + 1, count |-> f.count]
  <2>1. PICK b, r, w, n : /\ f = [buf |-> b, read |-> r, write |-> w, count |-> n]
                          /\ b = f.buf /\ r = f.read /\ w = f.write /\ n = f.count
    BY <1>1
  <2>2. [f EXCEPT !.buf[i] = c, !.write = i + 1]
          = [buf |-> [b EXCEPT ![i] = c], read |-> r, write |-> i + 1, count |-> n]
    <3>1. [f EXCEPT !.buf[i] = c, !.write = i + 1]
            = [[f EXCEPT !.buf[i] = c] EXCEPT !.write = i + 1]
      OBVIOUS
    <3>2. [f EXCEPT !.buf[i] = c] = [buf |-> [b EXCEPT ![i] = c], read |-> r, write |-> w, count |-> n]
      BY <2>1
    <3>3. [[buf |-> [b EXCEPT ![i] = c], read |-> r, write |-> w, count |-> n] EXCEPT !.write = i + 1]
            = [buf |-> [b EXCEPT ![i] = c], read |-> r, write |-> i + 1, count |-> n]
      OBVIOUS
    <3> QED BY <3>1, <3>2, <3>3
  <2> QED BY <2>1, <2>2 DEF FifoStore
<1>3. [f.buf EXCEPT ![i] = c] \in [0 .. size - 1 -> RingChar] BY <1>1
<1> QED BY <1>1, <1>2, <1>3 DEF RingOf

LEMMA RingMoves ==
  ASSUME NEW size \in Nat, NEW f \in RingOf(size), NEW i \in Nat, NEW n \in Int
  PROVE  /\ FifoWrapWrite(f, size) \in RingOf(size) /\ FifoWrapWrite(f, size).count = f.count
         /\ FifoWrapRead(f, size) \in RingOf(size) /\ FifoWrapRead(f, size).count = f.count
         /\ FifoFetch(f, i) \in RingOf(size) /\ FifoFetch(f, i).count = f.count
         /\ FifoSetCount(f, n) \in RingOf(size) /\ FifoSetCount(f, n).count = n
BY DEF RingOf, FifoWrapWrite, FifoWrapRead, FifoFetch, FifoSetCount

LEMMA RingPut ==
  ASSUME NEW size \in Nat, NEW f \in RingOf(size), NEW c \in RingChar
  PROVE  FifoPut(f, c, size) \in RingOf(size) /\ FifoPut(f, c, size).count = f.count + 1
<1>1. f.write \in Nat /\ f.count \in Int BY DEF RingOf
<1>2. PICK g \in RingOf(size) : g = FifoStore(f, f.write, c) BY <1>1, RingStore
<1>3. PICK h \in RingOf(size) : h = FifoWrapWrite(g, size) BY RingMoves
<1>4. PICK n \in Int : n = f.count + 1 BY <1>1
<1>5. FifoSetCount(h, n) \in RingOf(size) /\ FifoSetCount(h, n).count = n
  BY RingMoves
<1> QED BY <1>2, <1>3, <1>4, <1>5 DEF FifoPut

(* In and Terminal have the same operators on rings. *)
LEMMA SameFifo ==
  ASSUME NEW f, NEW c, NEW i, NEW size
  PROVE  /\ In!FifoEmpty(f) <=> FifoEmpty(f)
         /\ In!FifoFull(f, size) <=> FifoFull(f, size)
         /\ In!FifoFetch(f, i) = FifoFetch(f, i)
         /\ In!FifoWrapRead(f, size) = FifoWrapRead(f, size)
         /\ In!FifoSetCount(f, i) = FifoSetCount(f, i)
         /\ In!FifoPut(f, c, size) = FifoPut(f, c, size)
         /\ In!FifoInit(size) = FifoInit(size)
BY DEF In!FifoEmpty, FifoEmpty, In!FifoFetch, FifoFetch, In!FifoFull, FifoFull,
       In!FifoWrapRead, FifoWrapRead, In!FifoSetCount, FifoSetCount, In!FifoPut, FifoPut,
       In!FifoInit, FifoInit, In!FifoStore, FifoStore, In!FifoWrapWrite, FifoWrapWrite,
       In!Junk, Junk

LEMMA SameChars2 == In!LF = LF /\ In!CR = CR /\ In!Junk = Junk
BY DEF In!LF, LF, In!CR, CR, In!Junk, Junk

(* What the handler gives to tty_in is a character. *)
LEMMA HandlerGivesChar ==
  ASSUME KbdInv, KeyboardInterrupt
  PROVE  handed' = handed \/ Last(handed') \in Char
<1>1. KbdInv' /\ Kbd!Interrupt BY InterruptKeeps DEF KeyboardInterrupt
<1>2. handed \in Seq(Char) /\ handed' \in Seq(Char) BY <1>1 DEF KbdInv
<1>3. Kbd!DoHandlerKbd(Head(wire)) BY <1>1 DEF Kbd!Interrupt
<1>4. handed' = handed \/ \E c : handed' = Append(handed, c)
  <2>1. wire \in Seq(Byte) /\ wire # <<>> BY <1>1 DEF KbdInv, Kbd!Interrupt
  <2>2. PICK b \in Byte : b = Head(wire) BY <2>1, HeadTailProperties
  <2>3. Now \in DriverState
    <3>1. Reaches(Now, wire, Settled(held, locked, asked), asked) BY DEF KbdInv
    <3> QED BY <2>1, <3>1, ReachesFirst
  <2> QED BY <1>3, <2>2, <2>3, HandlerDoes
<1>5. ASSUME NEW c, handed' = Append(handed, c) PROVE Last(handed') \in Char
  <2>1. Len(handed') = Len(handed) + 1 BY <1>2, <1>5, AppendProperties
  <2>2. Len(handed') \in 1 .. Len(handed') BY <1>2, <2>1
  <2> QED BY <1>2, <2>2 DEF Last
<1> QED BY <1>4, <1>5

InFits == InType /\ \A r \in Reader : LineFits(r)

(* What a step does not touch of a reader stays as it was. *)
LEMMA OthersFit ==
  ASSUME InFits, NEW q \in Reader, inPc'[q] = "echo" <=> inPc[q] = "echo",
         inCh'[q] = inCh[q], line'[q] = line[q]
  PROVE  LineFits(q)'
BY DEF InFits, LineFits

LEMMA StoreFits ==
  ASSUME InFits, NEW r \in Reader, inPc[r] # "echo", NEW c \in RingChar, In!Store(r, c),
         inPc' = [inPc EXCEPT ![r] = "echo"], inCh'[r] = c,
         \A q \in Reader \ {r} : inCh'[q] = inCh[q]
  PROVE  line' \in [Reader -> Seq(RingChar \cup {CR})] /\ \A q \in Reader : LineFits(q)'
<1> DEFINE n == Len(line[r])
<1>0. /\ line \in [Reader -> Seq(RingChar \cup {CR})] /\ inPc \in [Reader -> InLabel]
      /\ BufSize \in Nat \ {0} /\ LF \in RingChar /\ LF # CR
  BY DEF InFits, InType, In!InputAssumption, RingChar, In!LF, LF, CR
<1>1. line[r] \in Seq(RingChar \cup {CR}) /\ n \in Nat /\ n < BufSize
      /\ \A i \in 1 .. n : line[r][i] # LF
  BY <1>0 DEF InFits, LineFits
<1>2. line' = [line EXCEPT ![r] = IF c = LF /\ Len(line[r]) < BufSize - 1
                                  THEN line[r] \o <<CR, LF>> ELSE Append(line[r], c)]
  BY SameChars2 DEF In!Store
<1>3. PICK old \in Seq(RingChar \cup {CR}) : old = line[r] BY <1>1
<1>n. PICK new : line'[r] = new OBVIOUS
<1>4. /\ new \in Seq(RingChar \cup {CR})
      /\ line'[r] = new
      /\ Len(new) <= BufSize
      /\ \A i \in 1 .. Len(new) : new[i] = LF =>
            c = LF /\ i = Len(new) /\ (Len(new) < BufSize => Len(new) > 1 /\ new[Len(new) - 1] = CR)
  <2>1. CASE c = LF /\ n < BufSize - 1
    <3>1. line'[r] = old \o <<CR, LF>> BY <1>0, <1>2, <1>3, <2>1
    <3>2. /\ old \o <<CR, LF>> \in Seq(RingChar \cup {CR})
          /\ Len(old \o <<CR, LF>>) = n + 2
          /\ \A i \in 1 .. n : (old \o <<CR, LF>>)[i] = old[i]
          /\ (old \o <<CR, LF>>)[n + 1] = CR /\ (old \o <<CR, LF>>)[n + 2] = LF
      <4>1. old \o <<CR, LF>> = Append(Append(old, CR), LF) BY <1>0
      <4>2. Append(old, CR) \in Seq(RingChar \cup {CR}) /\ Len(Append(old, CR)) = n + 1
        BY <1>3
      <4> QED BY <1>0, <1>3, <4>1, <4>2
    <3>3. new \in Seq(RingChar \cup {CR}) /\ new = old \o <<CR, LF>> BY <1>n, <3>1, <3>2
    <3>4. /\ Len(new) = n + 2 /\ new[n + 1] = CR /\ \A i \in 1 .. n : new[i] # LF
      BY <1>1, <1>3, <3>2, <3>3
    <3>5. ASSUME NEW i \in 1 .. Len(new), new[i] = LF
          PROVE  i = Len(new) /\ Len(new) > 1 /\ new[Len(new) - 1] = CR
      BY <3>4, <3>5, <1>0, <1>1
    <3>6. Len(new) <= BufSize BY <1>0, <1>1, <2>1, <3>4
    <3> QED BY <2>1, <1>n, <3>3, <3>5, <3>6
  <2>2. CASE ~ (c = LF /\ n < BufSize - 1)
    <3>1. line'[r] = Append(old, c) BY <1>0, <1>2, <1>3, <2>2
    <3>2. new \in Seq(RingChar \cup {CR}) /\ new = Append(old, c)
      BY <1>n, <1>3, <3>1, AppendProperties
    <3>3. /\ Len(new) = n + 1 /\ new[n + 1] = c /\ \A i \in 1 .. n : new[i] # LF
      BY <1>1, <1>3, <3>2, AppendProperties
    <3>4. ASSUME NEW i \in 1 .. Len(new), new[i] = LF PROVE c = LF /\ i = Len(new) /\ Len(new) >= BufSize
      BY <3>3, <3>4, <1>0, <1>1, <2>2
    <3>5. Len(new) <= BufSize BY <1>0, <1>1, <3>3
    <3> QED BY <1>0, <1>1, <1>n, <3>2, <3>3, <3>4, <3>5
  <2> QED BY <2>1, <2>2
<1>5. line' \in [Reader -> Seq(RingChar \cup {CR})] BY <1>0, <1>2, <1>4
<1>6. inPc'[r] = "echo" /\ \A q \in Reader \ {r} : inPc'[q] = inPc[q] /\ line'[q] = line[q]
  BY <1>0, <1>2
<1>7. LineFits(r)' BY <1>0, <1>4, <1>6 DEF LineFits
<1>8. ASSUME NEW q \in Reader \ {r} PROVE LineFits(q)' BY <1>6, OthersFit
<1> QED BY <1>5, <1>7, <1>8

LEMMA ReadStepFits ==
  ASSUME InFits, NEW r \in Reader, In!ReadStep(r)
  PROVE  InFits'
<1>0. /\ inPc \in [Reader -> InLabel] /\ ififo \in RingOf(IbufSize) /\ inReg \in [Reader -> Int]
      /\ inCh \in [Reader -> RingChar] /\ line \in [Reader -> Seq(RingChar \cup {CR})]
      /\ typed \in Seq(Char) /\ got \in Seq(RingChar)
      /\ \A q \in Reader : inPc[q] = "fetch" => inReg[q] \in Nat
      /\ IbufSize \in Nat
  BY DEF InFits, InType, In!InputAssumption
<1>f. ififo.read \in Nat /\ ififo.count \in Int /\ ififo.buf \in [0 .. IbufSize - 1 -> RingChar]
  BY <1>0 DEF RingOf
<1>j. Junk \in RingChar /\ Char \subseteq RingChar BY DEF RingChar
<1>1. CASE In!ReadWait(r)
  <2>1. PICK l \in {"check", "blocked"} : inPc' = [inPc EXCEPT ![r] = l]
    BY <1>1 DEF In!ReadWait, In!WaitIsem, In!GoTo
  <2>2. /\ UNCHANGED <<ififo, inReg, inCh, line, typed, got>> /\ inPc[r] = "wait"
    BY <1>1 DEF In!ReadWait
  <2>3. InType' BY <1>0, <2>1, <2>2 DEF InType, InLabel
  <2>4. \A q \in Reader : LineFits(q)' BY <1>0, <2>1, <2>2, OthersFit
  <2> QED BY <2>3, <2>4 DEF InFits
<1>2. CASE In!GetEmpty(r)
  <2>1. /\ inPc[r] = "check" /\ inPc' = [inPc EXCEPT ![r] = "echo"]
        /\ got' = Append(got, Junk) /\ UNCHANGED <<ififo, inReg, typed>>
        /\ \E c \in Char : inCh' = [inCh EXCEPT ![r] = c] /\ In!Store(r, c)
    BY <1>2, SameChars2 DEF In!GetEmpty, In!GoTo
  <2>2. PICK c \in Char : inCh' = [inCh EXCEPT ![r] = c] /\ In!Store(r, c) BY <2>1
  <2>3. c \in RingChar /\ inCh'[r] = c /\ \A q \in Reader \ {r} : inCh'[q] = inCh[q]
    BY <1>0, <1>j, <2>2
  <2>4. line' \in [Reader -> Seq(RingChar \cup {CR})] /\ \A q \in Reader : LineFits(q)'
    BY <2>1, <2>2, <2>3, StoreFits
  <2>5. got' \in Seq(RingChar) BY <1>0, <1>j, <2>1
  <2>6. inPc' \in [Reader -> InLabel] /\ inCh' \in [Reader -> RingChar]
    BY <1>0, <2>1, <2>2, <2>3 DEF InLabel
  <2>7. InType' BY <1>0, <2>1, <2>4, <2>5, <2>6 DEF InType
  <2> QED BY <2>4, <2>7 DEF InFits
<1>3. CASE In!GetIndex(r)
  <2>1. /\ inPc[r] = "check" /\ inPc' = [inPc EXCEPT ![r] = "fetch"]
        /\ inReg' = [inReg EXCEPT ![r] = ififo.read]
        /\ UNCHANGED <<ififo, inCh, line, typed, got>>
    BY <1>3 DEF In!GetIndex, In!GoTo
  <2>2. InType' BY <1>0, <1>f, <2>1 DEF InType, InLabel
  <2>3. \A q \in Reader : LineFits(q)' BY <1>0, <2>1, OthersFit
  <2> QED BY <2>2, <2>3 DEF InFits
<1>4. CASE In!GetFetch(r)
  <2>1. /\ inPc[r] = "fetch" /\ inPc' = [inPc EXCEPT ![r] = "wrap"]
        /\ inCh' = [inCh EXCEPT ![r] = IF inReg[r] < IbufSize THEN ififo.buf[inReg[r]] ELSE Junk]
        /\ ififo' = FifoFetch(ififo, inReg[r])
        /\ UNCHANGED <<inReg, line, typed, got>>
    BY <1>4, SameChars2, SameFifo DEF In!GetFetch, In!GoTo
  <2>2. inReg[r] \in Nat BY <1>0, <2>1
  <2>3. (IF inReg[r] < IbufSize THEN ififo.buf[inReg[r]] ELSE Junk) \in RingChar
    BY <1>0, <1>f, <1>j, <2>2
  <2>4. ififo' \in RingOf(IbufSize) BY <1>0, <2>1, <2>2, RingMoves
  <2>5. InType' BY <1>0, <2>1, <2>3, <2>4 DEF InType, InLabel
  <2>6. ASSUME NEW q \in Reader PROVE LineFits(q)'
    <3>1. CASE q # r BY <1>0, <2>1, <3>1, OthersFit
    <3>2. CASE q = r
      <4>1. inPc[r] # "echo" /\ inPc'[r] # "echo" /\ line' = line BY <1>0, <2>1
      <4> QED BY <3>2, <4>1 DEF InFits, LineFits
    <3> QED BY <3>1, <3>2
  <2> QED BY <2>5, <2>6 DEF InFits
<1>5. CASE In!GetWrap(r)
  <2>1. /\ inPc[r] = "wrap" /\ inPc' = [inPc EXCEPT ![r] = "load"]
        /\ ififo' = FifoWrapRead(ififo, IbufSize)
        /\ UNCHANGED <<inReg, inCh, line, typed, got>>
    BY <1>5, SameFifo DEF In!GetWrap, In!GoTo
  <2>2. ififo' \in RingOf(IbufSize) BY <1>0, <2>1, RingMoves
  <2>3. InType' BY <1>0, <2>1, <2>2 DEF InType, InLabel
  <2>4. \A q \in Reader : LineFits(q)' BY <1>0, <2>1, OthersFit
  <2> QED BY <2>3, <2>4 DEF InFits
<1>6. CASE In!GetLoadCount(r)
  <2>1. /\ inPc[r] = "load" /\ inPc' = [inPc EXCEPT ![r] = "store"]
        /\ inReg' = [inReg EXCEPT ![r] = ififo.count]
        /\ UNCHANGED <<ififo, inCh, line, typed, got>>
    BY <1>6 DEF In!GetLoadCount, In!GoTo
  <2>2. InType' BY <1>0, <1>f, <2>1 DEF InType, InLabel
  <2>3. \A q \in Reader : LineFits(q)' BY <1>0, <2>1, OthersFit
  <2> QED BY <2>2, <2>3 DEF InFits
<1>7. CASE In!GetStoreCount(r)
  <2>1. /\ inPc[r] = "store" /\ inPc' = [inPc EXCEPT ![r] = "echo"]
        /\ ififo' = FifoSetCount(ififo, inReg[r] - 1)
        /\ got' = Append(got, inCh[r]) /\ In!Store(r, inCh[r])
        /\ inReg' = [inReg EXCEPT ![r] = 0]
        /\ UNCHANGED <<inCh, typed>>
    BY <1>7, SameFifo DEF In!GetStoreCount, In!GoTo
  <2>2. inReg[r] - 1 \in Int /\ inCh[r] \in RingChar BY <1>0
  <2>3. ififo' \in RingOf(IbufSize) BY <1>0, <2>1, <2>2, RingMoves
  <2>4. line' \in [Reader -> Seq(RingChar \cup {CR})] /\ \A q \in Reader : LineFits(q)'
    BY <2>1, <2>2, StoreFits
  <2>5. got' \in Seq(RingChar) BY <1>0, <2>1, <2>2
  <2>6. inPc' \in [Reader -> InLabel] /\ inReg' \in [Reader -> Int]
        /\ \A q \in Reader : inPc'[q] = "fetch" => inReg'[q] \in Nat
    BY <1>0, <2>1 DEF InLabel
  <2>7. InType' BY <1>0, <2>1, <2>3, <2>4, <2>5, <2>6 DEF InType
  <2> QED BY <2>4, <2>7 DEF InFits
<1>8. CASE In!ReadNext(r)
  <2>1. /\ inPc[r] = "echo" /\ inPc' = [inPc EXCEPT ![r] = "wait"]
        /\ line' = [line EXCEPT ![r] = IF inCh[r] \in {LF, CR} \/ Len(line[r]) >= BufSize
                                       THEN <<>> ELSE line[r]]
        /\ inCh' = [inCh EXCEPT ![r] = Junk]
        /\ UNCHANGED <<ififo, inReg, typed, got>>
    BY <1>8, SameChars2 DEF In!ReadNext, In!GoTo
  <2>2. line' \in [Reader -> Seq(RingChar \cup {CR})] BY <1>0, <2>1
  <2>3. InType' BY <1>0, <1>j, <2>1, <2>2 DEF InType, InLabel
  <2>4. ASSUME NEW q \in Reader PROVE LineFits(q)'
    <3>1. CASE q # r BY <1>0, <2>1, <3>1, OthersFit
    <3>2. CASE q = r
      <4>0. BufSize \in Nat \ {0} BY DEF In!InputAssumption
      <4>1. inPc'[r] = "wait" BY <1>0, <2>1
      <4>2. CASE line'[r] = <<>>
        <5>1. Len(line'[r]) = 0 BY <4>2
        <5> QED BY <3>2, <4>0, <4>1, <5>1 DEF LineFits
      <4>3. CASE line'[r] # <<>>
        <5>1. line'[r] = line[r] /\ inCh[r] # LF /\ ~ (Len(line[r]) >= BufSize)
          BY <1>0, <2>1, <4>3
        <5>2. Len(line[r]) \in Nat BY <1>0
        <5>3. \A i \in 1 .. Len(line[r]) : line[r][i] # LF BY <5>1 DEF InFits, LineFits
        <5> QED BY <3>2, <4>0, <4>1, <5>1, <5>2, <5>3 DEF LineFits
      <4> QED BY <4>2, <4>3
    <3> QED BY <3>1, <3>2
  <2> QED BY <2>3, <2>4 DEF InFits
<1> QED BY <1>1, <1>2, <1>3, <1>4, <1>5, <1>6, <1>7, <1>8 DEF In!ReadStep

LEMMA NotifyIsemFits ==
  ASSUME InFits, InWaits, In!NotifyIsem
  PROVE  /\ inPc' \in [Reader -> InLabel]
         /\ \A q \in Reader : /\ inPc'[q] = "echo" <=> inPc[q] = "echo"
                              /\ inPc'[q] = "fetch" <=> inPc[q] = "fetch"
                              /\ inPc'[q] = "store" <=> inPc[q] = "store"
<1>0. inPc \in [Reader -> InLabel] /\ isemWait \in Seq(Reader)
      /\ \A r \in Reader : inPc[r] = "blocked" <=> \E i \in DOMAIN isemWait : isemWait[i] = r
  BY DEF InWaits, In!NoKeyWhileBlocked
<1>1. CASE UNCHANGED inPc BY <1>0, <1>1
<1>2. CASE isemWait # <<>> /\ inPc' = [inPc EXCEPT ![Head(isemWait)] = "check"]
  <2>1. Head(isemWait) \in Reader /\ inPc[Head(isemWait)] = "blocked" BY <1>0, <1>2
  <2> QED BY <1>0, <1>2, <2>1 DEF InLabel
<1> QED BY <1>1, <1>2 DEF In!NotifyIsem, In!GoTo

LEMMA KeyTakenFits ==
  ASSUME InFits, InWaits, NEW c \in Char, In!TtyIn(c)
  PROVE  InFits'
<1>1. CASE In!KeyDropped(c)
  BY <1>1 DEF In!KeyDropped, In!vars, InFits, InType, LineFits
<1>2. CASE In!KeyTaken(c)
  <2>1. /\ UNCHANGED <<inReg, inCh, line, got>> /\ In!NotifyIsem
        /\ \/ UNCHANGED <<ififo, typed>>
           \/ ififo' = FifoPut(ififo, c, IbufSize) /\ typed' = Append(typed, c)
    BY <1>2, SameFifo DEF In!KeyTaken
  <2>2. /\ inPc' \in [Reader -> InLabel]
        /\ \A q \in Reader : /\ inPc'[q] = "echo" <=> inPc[q] = "echo"
                             /\ inPc'[q] = "fetch" <=> inPc[q] = "fetch"
    BY <2>1, NotifyIsemFits
  <2>3. /\ ififo \in RingOf(IbufSize) /\ typed \in Seq(Char) /\ IbufSize \in Nat /\ c \in RingChar
    BY DEF InFits, InType, In!InputAssumption, RingChar
  <2>4. ififo' \in RingOf(IbufSize) /\ typed' \in Seq(Char)
    BY <2>1, <2>3, RingPut
  <2>5. InType' BY <2>1, <2>2, <2>4 DEF InFits, InType
  <2>6. \A q \in Reader : LineFits(q)' BY <2>1, <2>2, OthersFit
  <2> QED BY <2>5, <2>6 DEF InFits
<1> QED BY <1>1, <1>2 DEF In!TtyIn

LEMMA InitFits ==
  ASSUME Init
  PROVE  InFits
<1>1. In!Init BY DEF Init
<1>2. /\ ififo = FifoInit(IbufSize) /\ inPc = [r \in Reader |-> "wait"]
      /\ inReg = [r \in Reader |-> 0] /\ inCh = [r \in Reader |-> Junk]
      /\ line = [r \in Reader |-> <<>>] /\ typed = <<>> /\ got = <<>>
  BY <1>1, SameFifo, SameChars2 DEF In!Init
<1>3. ififo \in RingOf(IbufSize) BY <1>2 DEF FifoInit, RingOf, RingChar
<1>4. InType BY <1>2, <1>3 DEF InType, InLabel, RingChar
<1>5. BufSize \in Nat \ {0} BY DEF In!InputAssumption
<1>6. \A r \in Reader : LineFits(r) BY <1>2, <1>5 DEF LineFits
<1> QED BY <1>4, <1>6 DEF InFits

LEMMA NextFits ==
  ASSUME InFits, InWaits, KbdInv, [Next]_termVars
  PROVE  InFits'
<1>1. ASSUME UNCHANGED inVars PROVE InFits'
  BY <1>1 DEF inVars, InFits, InType, LineFits
<1>2. CASE UseKey BY <1>1, <1>2 DEF UseKey
<1>3. CASE KeyboardInterrupt
  <2>1. CASE handed' = handed BY <1>1, <1>3, <2>1 DEF KeyboardInterrupt
  <2>2. CASE handed' # handed
    <3>1. Last(handed') \in Char /\ In!TtyIn(Last(handed'))
      BY <1>3, <2>2, HandlerGivesChar DEF KeyboardInterrupt
    <3> QED BY <3>1, KeyTakenFits
  <2> QED BY <2>1, <2>2
<1>4. ASSUME NEW r \in Reader, Read(r) PROVE InFits'
  BY <1>4, ReadStepFits DEF Read
<1>5. ASSUME NEW t \in Writer, Write(t) PROVE InFits' BY <1>1, <1>5 DEF Write
<1>6. CASE UNCHANGED termVars BY <1>1, <1>6 DEF termVars
<1> QED BY <1>2, <1>3, <1>4, <1>5, <1>6 DEF Next

LEMMA WaitsHold == Spec => [](OutWaits /\ InWaits)
<1>1. Init => OutWaits /\ InWaits BY InitHasWaits
<1>2. (OutWaits /\ InWaits) /\ [Next]_termVars => (OutWaits /\ InWaits)'
  BY NextKeepsWaits
<1> QED BY <1>1, <1>2, PTL DEF Spec

LEMMA InFitsHolds == Spec => []InFits
<1>1. Init => InFits BY InitFits
<1>2. InFits /\ InWaits /\ KbdInv /\ [Next]_termVars => InFits' BY NextFits
<1> QED BY <1>1, <1>2, WaitsHold, KbdInvHolds, PTL DEF Spec

(* tty_read never writes past the buffer of its caller, though a line end  *)
(* takes two places, and a line end is the last of what a read returns     *)
(* (dev/tty.c: tty_read), for any number of readers that race for the      *)
(* characters and any size of the buffer.                                  *)
THEOREM ReadsAlwaysFit == Spec => []ReadsFit
<1>1. ASSUME InFits PROVE ReadsFit
  <2>1. SUFFICES ASSUME NEW r \in Reader
                 PROVE  /\ Len(line[r]) <= BufSize
                        /\ \A i \in 1 .. Len(line[r]) : line[r][i] = LF =>
                             i = Len(line[r]) /\ (Len(line[r]) < BufSize =>
                               Len(line[r]) > 1 /\ line[r][Len(line[r]) - 1] = CR)
    BY SameChars2 DEF ReadsFit, In!ReadsFit
  <2> QED BY <1>1 DEF InFits, LineFits
<1> QED BY <1>1, InFitsHolds, PTL

-----------------------------------------------------------------------------
(* Lost updates of the count of the input ring go one way: the count may   *)
(* fall behind what is in the ring, and so may the count that the reader   *)
(* has loaded and not yet stored.                                          *)
Taken(s) == {i \in DOMAIN s : s[i] # Junk}

CountBehind ==
  /\ ififo.count + Cardinality(Taken(got)) <= Len(typed)
  /\ \A r \in Reader :
       inPc[r] = "store" => inReg[r] + Cardinality(Taken(got)) <= Len(typed)

LEMMA TakenAppend ==
  ASSUME NEW s \in Seq(RingChar), NEW c \in RingChar
  PROVE  /\ Cardinality(Taken(s)) \in Nat
         /\ Cardinality(Taken(Append(s, c))) \in Nat
         /\ Cardinality(Taken(Append(s, c))) <= Cardinality(Taken(s)) + 1
         /\ c = Junk => Cardinality(Taken(Append(s, c))) = Cardinality(Taken(s))
<1> DEFINE more == Append(s, c)
           n == Len(s)
<1>1. /\ n \in Nat /\ DOMAIN s = 1 .. n /\ DOMAIN more = 1 .. n + 1 /\ more[n + 1] = c
      /\ \A i \in 1 .. n : more[i] = s[i]
  BY AppendProperties
<1>2. IsFiniteSet(Taken(s))
  <2>1. IsFiniteSet(1 .. n) BY <1>1, FS_Interval
  <2>2. Taken(s) \subseteq 1 .. n BY <1>1 DEF Taken
  <2> QED BY <2>1, <2>2, FS_Subset
<1>3. Cardinality(Taken(s)) \in Nat BY <1>2, FS_CardinalityType
<1> HIDE DEF more
<1>4. CASE c = Junk
  <2>1. Taken(more) = Taken(s) BY <1>1, <1>4 DEF Taken
  <2> QED BY <1>3, <1>4, <2>1 DEF more
<1>5. CASE c # Junk
  <2>1. Taken(more) = Taken(s) \cup {n + 1} BY <1>1, <1>5 DEF Taken
  <2>2. n + 1 \notin Taken(s) BY <1>1 DEF Taken
  <2>3. Cardinality(Taken(s) \cup {n + 1}) = Cardinality(Taken(s)) + 1
    BY <1>2, <2>2, FS_AddElement
  <2> QED BY <1>3, <1>5, <2>1, <2>3 DEF more
<1> QED BY <1>4, <1>5

LEMMA InitCounts == ASSUME Init PROVE CountBehind
<1>1. In!Init BY DEF Init
<1>2. /\ ififo = FifoInit(IbufSize) /\ inPc = [r \in Reader |-> "wait"]
      /\ typed = <<>> /\ got = <<>>
  BY <1>1, SameFifo DEF In!Init
<1>3. Taken(got) = {} BY <1>2 DEF Taken
<1>4. Cardinality(Taken(got)) = 0 BY <1>3, FS_EmptySet
<1> QED BY <1>2, <1>4 DEF CountBehind, FifoInit

LEMMA NextCounts ==
  ASSUME \A q, r \in Reader : q = r, CountBehind, InFits, InWaits, KbdInv, [Next]_termVars
  PROVE  CountBehind'
<1> DEFINE n == Cardinality(Taken(got))
<1>0. /\ ififo \in RingOf(IbufSize) /\ typed \in Seq(Char) /\ got \in Seq(RingChar)
      /\ inPc \in [Reader -> InLabel] /\ inReg \in [Reader -> Int] /\ inCh \in [Reader -> RingChar]
      /\ Junk \in RingChar
  BY DEF InFits, InType, RingChar
<1>f. ififo.count \in Int /\ ififo.read \in Nat /\ Len(typed) \in Nat /\ n \in Nat /\ IbufSize \in Nat
  BY <1>0, TakenAppend DEF RingOf, In!InputAssumption
<1>1. ASSUME UNCHANGED inVars PROVE CountBehind'
  BY <1>1 DEF inVars, CountBehind
<1>2. CASE UseKey BY <1>1, <1>2 DEF UseKey
<1>3. ASSUME NEW c \in Char, In!KeyTaken(c) PROVE CountBehind'
  <2>1. /\ UNCHANGED <<inReg, got>> /\ In!NotifyIsem
        /\ \/ UNCHANGED <<ififo, typed>>
           \/ ififo' = FifoPut(ififo, c, IbufSize) /\ typed' = Append(typed, c)
    BY <1>3, SameFifo DEF In!KeyTaken
  <2>2. \A q \in Reader : inPc'[q] = "store" <=> inPc[q] = "store"
    BY <2>1, NotifyIsemFits
  <2>3. c \in RingChar BY DEF RingChar
  <2>4. \/ ififo'.count = ififo.count /\ Len(typed') = Len(typed)
        \/ ififo'.count = ififo.count + 1 /\ Len(typed') = Len(typed) + 1
    BY <2>1, <2>3, <1>0, <1>f, RingPut, AppendProperties
  <2>5. Cardinality(Taken(got')) = n BY <2>1
  <2>6. ififo'.count + n <= Len(typed') BY <2>4, <1>f DEF CountBehind
  <2>7. ASSUME NEW r \in Reader, inPc'[r] = "store" PROVE inReg'[r] + n <= Len(typed')
    <3>1. inReg[r] + n <= Len(typed) /\ inReg[r] \in Int BY <1>0, <2>2, <2>7 DEF CountBehind
    <3> HIDE DEF n
    <3> QED BY <2>1, <2>4, <3>1, <1>f
  <2> QED BY <2>5, <2>6, <2>7 DEF CountBehind
<1>4. CASE KeyboardInterrupt
  <2>1. CASE handed' = handed BY <1>1, <1>4, <2>1 DEF KeyboardInterrupt
  <2>2. CASE handed' # handed
    <3>1. Last(handed') \in Char /\ In!TtyIn(Last(handed'))
      BY <1>4, <2>2, HandlerGivesChar DEF KeyboardInterrupt
    <3>2. CASE In!KeyDropped(Last(handed'))
      BY <1>1, <3>2 DEF In!KeyDropped, In!vars, inVars
    <3>3. CASE In!KeyTaken(Last(handed')) BY <1>3, <3>1, <3>3
    <3> QED BY <3>1, <3>2, <3>3 DEF In!TtyIn
  <2> QED BY <2>1, <2>2
<1>5. ASSUME NEW r \in Reader, Read(r) PROVE CountBehind'
  <2>0. In!ReadStep(r) /\ \A q \in Reader : q = r BY <1>5 DEF Read
  <2>1. CASE In!ReadWait(r) \/ In!GetIndex(r) \/ In!ReadNext(r) \/ In!GetFetch(r) \/ In!GetWrap(r)
    <3>1. UNCHANGED <<typed, got>> /\ inPc'[r] # "store"
      BY <1>0, <2>1 DEF In!ReadWait, In!WaitIsem, In!GetIndex, In!ReadNext, In!GetFetch, In!GetWrap, In!GoTo
    <3>2. ififo'.count = ififo.count
      <4>1. CASE In!GetFetch(r)
        <5>1. inReg[r] \in Nat /\ ififo' = FifoFetch(ififo, inReg[r])
          BY <4>1, SameFifo DEF In!GetFetch, InFits, InType
        <5> QED BY <5>1, <1>0, <1>f, RingMoves
      <4>2. CASE In!GetWrap(r)
        <5>1. ififo' = FifoWrapRead(ififo, IbufSize) BY <4>2, SameFifo DEF In!GetWrap
        <5> QED BY <5>1, <1>0, <1>f, RingMoves
      <4>3. CASE In!ReadWait(r) \/ In!GetIndex(r) \/ In!ReadNext(r)
        BY <4>3 DEF In!ReadWait, In!GetIndex, In!ReadNext
      <4> QED BY <2>1, <4>1, <4>2, <4>3
    <3> QED BY <2>0, <3>1, <3>2 DEF CountBehind
  <2>2. CASE In!GetEmpty(r)
    <3>1. got' = Append(got, Junk) /\ UNCHANGED <<ififo, typed>> /\ inPc'[r] # "store"
      BY <1>0, <2>2, SameChars2 DEF In!GetEmpty, In!GoTo
    <3>2. Cardinality(Taken(got')) = n BY <1>0, <3>1, TakenAppend
    <3> QED BY <2>0, <3>1, <3>2 DEF CountBehind
  <2>3. CASE In!GetLoadCount(r)
    <3>1. inReg' = [inReg EXCEPT ![r] = ififo.count] /\ UNCHANGED <<ififo, typed, got>>
      BY <2>3 DEF In!GetLoadCount
    <3>2. inReg'[r] = ififo.count BY <1>0, <3>1
    <3> QED BY <2>0, <3>1, <3>2 DEF CountBehind
  <2>4. CASE In!GetStoreCount(r)
    <3>1. /\ inPc[r] = "store" /\ inPc' = [inPc EXCEPT ![r] = "echo"]
          /\ ififo' = FifoSetCount(ififo, inReg[r] - 1)
          /\ got' = Append(got, inCh[r]) /\ UNCHANGED typed
      BY <2>4, SameFifo DEF In!GetStoreCount, In!GoTo
    <3>2. inReg[r] \in Int /\ inReg[r] + n <= Len(typed) BY <1>0, <3>1 DEF CountBehind
    <3>3. PICK m \in Int : m = inReg[r] - 1 BY <3>2
    <3>4. ififo'.count = m
      <4>1. ififo \in RingOf(IbufSize) BY <1>0
      <4>2. FifoSetCount(ififo, m).count = m BY <4>1 DEF RingOf, FifoSetCount
      <4> QED BY <3>1, <3>3, <4>2
    <3>5. inCh[r] \in RingChar BY <1>0
    <3>6. Cardinality(Taken(got')) \in Nat /\ Cardinality(Taken(got')) <= n + 1
      BY <1>0, <3>1, <3>5, TakenAppend
    <3>7. inPc'[r] # "store" BY <1>0, <3>1
    <3>8. ififo'.count + Cardinality(Taken(got')) <= Len(typed')
      <4> HIDE DEF n
      <4> QED BY <3>1, <3>2, <3>3, <3>4, <3>6, <1>f
    <3> QED BY <2>0, <3>7, <3>8 DEF CountBehind
  <2> QED BY <2>0, <2>1, <2>2, <2>3, <2>4 DEF In!ReadStep
<1>6. ASSUME NEW t \in Writer, Write(t) PROVE CountBehind' BY <1>1, <1>6 DEF Write
<1>7. CASE UNCHANGED termVars BY <1>1, <1>7 DEF termVars
<1> QED BY <1>2, <1>4, <1>5, <1>6, <1>7 DEF Next

(* With one reader, which is how terminals are used, nothing that was not  *)
(* typed is read out of the input ring, although count-- of tty_read and   *)
(* count++ of the keyboard handler (dev/tty.c: tty_fifo_get, tty_fifo_put) *)
(* are not protected from each other: updates get lost, but the count never *)
(* gets ahead.                                                             *)
THEOREM CountIsNeverAhead ==
  ASSUME \A q, r \in Reader : q = r
  PROVE  Spec => []CountNeverAhead
<1>1. Init => CountBehind BY InitCounts
<1>2. CountBehind /\ InFits /\ InWaits /\ KbdInv /\ [Next]_termVars => CountBehind'
  BY NextCounts
<1>3. CountBehind /\ InFits => CountNeverAhead
  <2> SUFFICES ASSUME CountBehind, InFits PROVE CountNeverAhead OBVIOUS
  <2>1. Taken(got) = {i \in DOMAIN got : got[i] # In!Junk} BY SameChars2 DEF Taken
  <2>2. got \in Seq(RingChar) /\ Junk \in RingChar /\ Len(typed) \in Nat /\ ififo.count \in Int
    BY DEF InFits, InType, RingOf, RingChar
  <2>3. Cardinality(Taken(got)) \in Nat BY <2>2, TakenAppend
  <2>4. ififo.count + Cardinality(Taken(got)) <= Len(typed) BY DEF CountBehind
  <2>5. ififo.count <= Len(typed) - Cardinality(Taken(got)) BY <2>2, <2>3, <2>4
  <2>6. ififo.count <= Len(typed) - Cardinality({i \in DOMAIN got : got[i] # In!Junk})
    BY <2>1, <2>5
  <2>7. \A S : In!Cardinality(S) = Cardinality(S) BY DEF In!Cardinality, Cardinality
  <2> QED BY <2>6, <2>7, Zenon DEF CountNeverAhead, In!CountNeverAhead
<1> QED BY <1>1, <1>2, <1>3, WaitsHold, KbdInvHolds, InFitsHolds, PTL DEF Spec

-----------------------------------------------------------------------------
(* The tasks that write in this scene, and those that are in tty_write or  *)
(* between their calls of it.                                              *)
Writes ==
  {t \in Writer : scene.calls[t] # <<>>} \cup IF scene.reads THEN Reader ELSE {}

Active == {t \in Writer : pc[t] \notin {"begin", "done"}}

(* The mutex of log_printf is taken by the one task that logs. *)
Turns ==
  /\ scene \in Scene /\ logging = scene.logs
  /\ pc \in [Writer -> OutLabel]
  /\ \A t \in Writer : pc[t] # "done" => t \in Writes
  /\ \A t \in Active : t \in logging => logOwner = t

HoldLabel == {"putCheck", "putStore", "putWrap", "putLoad", "putCount", "notify"}

IsRing(f) ==
  /\ f = [buf |-> f.buf, read |-> f.read, write |-> f.write, count |-> f.count]
  /\ f.read \in Int /\ f.write \in Int /\ f.count \in Int

(* A protected writer finds the count of ofifo as it has loaded it, and    *)
(* no token is lost.                                                       *)
Tokens ==
  /\ IsRing(ofifo)
  /\ osem \in Nat
  /\ reg \in [Writer -> Int]
  /\ \A t \in Writer : pc[t] \in {"putCount", "getCount"} => reg[t] = ofifo.count
  /\ NoTokenLost

LEMMA RingKept ==
  ASSUME NEW f, IsRing(f), NEW i \in Int, NEW c, NEW size, NEW n \in Int
  PROVE  /\ IsRing(FifoStore(f, i, c)) /\ FifoStore(f, i, c).count = f.count
         /\ IsRing(FifoWrapWrite(f, size)) /\ FifoWrapWrite(f, size).count = f.count
         /\ IsRing(FifoFetch(f, i)) /\ FifoFetch(f, i).count = f.count
         /\ IsRing(FifoWrapRead(f, size)) /\ FifoWrapRead(f, size).count = f.count
         /\ IsRing(FifoSetCount(f, n)) /\ FifoSetCount(f, n).count = n
<1>1. PICK b, r, w, m : /\ f = [buf |-> b, read |-> r, write |-> w, count |-> m]
                        /\ r \in Int /\ w \in Int /\ m \in Int
  BY DEF IsRing
<1>2. IsRing(FifoStore(f, i, c)) /\ FifoStore(f, i, c).count = f.count
  <2>1. [f EXCEPT !.buf[i] = c, !.write = i + 1]
          = [[f EXCEPT !.buf[i] = c] EXCEPT !.write = i + 1]
    OBVIOUS
  <2>2. [f EXCEPT !.buf[i] = c] = [buf |-> [b EXCEPT ![i] = c], read |-> r, write |-> w, count |-> m]
    BY <1>1
  <2>3. [[buf |-> [b EXCEPT ![i] = c], read |-> r, write |-> w, count |-> m] EXCEPT !.write = i + 1]
          = [buf |-> [b EXCEPT ![i] = c], read |-> r, write |-> i + 1, count |-> m]
    OBVIOUS
  <2>4. FifoStore(f, i, c) = [buf |-> [b EXCEPT ![i] = c], read |-> r, write |-> i + 1, count |-> m]
    BY <2>1, <2>2, <2>3 DEF FifoStore
  <2> QED BY <1>1, <2>4 DEF IsRing
<1>3. IsRing(FifoWrapWrite(f, size)) /\ FifoWrapWrite(f, size).count = f.count
  BY <1>1 DEF IsRing, FifoWrapWrite
<1>4. IsRing(FifoFetch(f, i)) /\ FifoFetch(f, i).count = f.count
  BY <1>1 DEF IsRing, FifoFetch
<1>5. IsRing(FifoWrapRead(f, size)) /\ FifoWrapRead(f, size).count = f.count
  BY <1>1 DEF IsRing, FifoWrapRead
<1>6. IsRing(FifoSetCount(f, n)) /\ FifoSetCount(f, n).count = n
  BY <1>1 DEF IsRing, FifoSetCount
<1> QED BY <1>2, <1>3, <1>4, <1>5, <1>6

-----------------------------------------------------------------------------
(* Which writer is where. *)
LEMMA InitTurns == ASSUME Init PROVE Turns
BY DEF Init, OutInit, Turns, Active, Writes, OutLabel

(* What a step of a writer does to the places where writers are. *)
LEMMA WriterMoves ==
  ASSUME Turns, OutWaits, NEW t \in Writer, WriteStep(t)
  PROVE  /\ pc[t] # "done"
         /\ pc[t] = "begin" <=> Begin(t)
         /\ UNCHANGED logging
         /\ ~ NotifyRoom(t) \/ osemWait = <<>> =>
              \E l \in OutLabel : pc' = [pc EXCEPT ![t] = l] /\ l # "begin"
         /\ logOwner' = logOwner \/ Begin(t) \/ End(t)
<1>1. CASE Begin(t) \/ NextChar(t) \/ Return(t) \/ End(t) \/ PutFull(t) \/ WaitForRoom(t)
  BY <1>1 DEF Begin, NextChar, Return, End, PutFull, WaitForRoom, GoTo, OutLabel, Turns
<1>2. CASE PutIndex(t) \/ PutStore(t) \/ PutWrap(t) \/ PutLoadCount(t)
  BY <1>2 DEF PutIndex, PutStore, PutWrap, PutLoadCount, GoTo, OutLabel, Begin
<1>3. CASE PutStoreCount(t)
  BY <1>3 DEF PutStoreCount, GoTo, OutLabel, Begin
<1>4. CASE GetEmpty(t) \/ GetIndex(t) \/ GetFetch(t) \/ GetWrap(t)
  BY <1>4 DEF GetEmpty, GetIndex, GetFetch, GetWrap, GoTo, OutLabel, Begin
<1>5. CASE GetLoadCount(t) \/ GetStoreCount(t) \/ Show(t)
  BY <1>5 DEF GetLoadCount, GetStoreCount, Show, GoTo, OutLabel, Begin
<1>6. CASE NotifyRoom(t)
  BY <1>6 DEF NotifyRoom, GoTo, OutLabel, Begin
<1> QED BY <1>1, <1>2, <1>3, <1>4, <1>5, <1>6 DEF WriteStep

LEMMA WriteKeepsTurns ==
  ASSUME Turns, OutWaits, scene' = scene, NEW t \in Writer, WriteStep(t)
  PROVE  Turns'
<1>0. /\ pc[t] # "done" /\ (pc[t] = "begin" <=> Begin(t)) /\ logging' = logging
      /\ logOwner' = logOwner \/ Begin(t) \/ End(t)
      /\ t \in Writes /\ Writes' = Writes /\ NoTask \notin Writer
      /\ pc' \in [Writer -> OutLabel]
  BY WriterMoves, WriteStepKeepsWaits DEF Turns, Writes, OutWaits
<1>1. CASE Begin(t)
  <2>1. /\ pc' = [pc EXCEPT ![t] = "next"]
        /\ t \in logging => logOwner = NoTask
        /\ logOwner' = IF t \in logging THEN t ELSE logOwner
    BY <1>1 DEF Begin, GoTo
  <2>2. \A u \in Writer : u # t => pc'[u] = pc[u]
    BY <2>1 DEF Turns
  <2>3. ASSUME NEW u \in Writer, u \in Active', u \in logging PROVE logOwner' = u
    BY <1>0, <2>1, <2>2, <2>3 DEF Turns, Active
  <2> QED BY <1>0, <2>2, <2>3 DEF Turns, Active
<1>2. CASE End(t)
  <2>1. /\ pc[t] = "next" /\ pc' = [pc EXCEPT ![t] = "done"]
        /\ logOwner' = IF t \in logging THEN NoTask ELSE logOwner
    BY <1>2 DEF End, GoTo
  <2>2. \A u \in Writer : u # t => pc'[u] = pc[u]
    BY <2>1 DEF Turns
  <2>3. ASSUME NEW u \in Writer, u \in Active', u \in logging PROVE logOwner' = u
    BY <1>0, <2>1, <2>2, <2>3 DEF Turns, Active
  <2> QED BY <1>0, <2>2, <2>3 DEF Turns, Active
<1>3. CASE ~ Begin(t) /\ ~ End(t)
  <2>1. t \in Active BY <1>0, <1>3 DEF Active
  <2>2. CASE ~ NotifyRoom(t) \/ osemWait = <<>>
    <3>1. PICK l \in OutLabel : pc' = [pc EXCEPT ![t] = l] BY <2>2, WriterMoves
    <3>2. \A u \in Writer : u # t => pc'[u] = pc[u] BY <3>1 DEF Turns
    <3> QED BY <1>0, <1>3, <2>1, <3>2 DEF Turns, Active
  <2>3. CASE NotifyRoom(t) /\ osemWait # <<>>
    <3>1. Head(osemWait) \in Writer /\ pc[Head(osemWait)] = "blocked"
      <4>1. 1 \in DOMAIN osemWait /\ osemWait[1] = Head(osemWait) BY <2>3 DEF OutWaits
      <4> QED BY <4>1 DEF OutWaits, NoRoomWhileBlocked, ToSet
    <3>2. PICK h \in Writer : h = Head(osemWait) BY <3>1
    <3>3. pc' = [pc EXCEPT ![h] = "putCheck", ![t] = "show"] BY <2>3, <3>2 DEF NotifyRoom
    <3>4. \A u \in Writer : pc'[u] # pc[u] => u = h \/ u = t BY <3>3 DEF Turns
    <3>5. h \in Active BY <3>1, <3>2 DEF Active
    <3> QED BY <1>0, <1>3, <2>1, <3>4, <3>5 DEF Turns, Active
  <2> QED BY <2>2, <2>3
<1> QED BY <1>1, <1>2, <1>3

LEMMA NextKeepsTurns == ASSUME Turns, OutWaits, [Next]_termVars PROVE Turns'
<1>1. ASSUME UNCHANGED <<pc, logging, logOwner, scene>> PROVE Turns'
  BY <1>1 DEF Turns, Active, Writes
<1>2. CASE UseKey BY <1>1, <1>2 DEF UseKey, outVars
<1>3. CASE KeyboardInterrupt BY <1>1, <1>3 DEF KeyboardInterrupt, outVars
<1>4. ASSUME NEW r \in Reader, Read(r) PROVE Turns'
  <2>1. /\ scene.reads /\ UNCHANGED <<logging, logOwner, scene>>
        /\ pc' = [pc EXCEPT ![r] = "begin"] \/ pc' = pc
    BY <1>4 DEF Read, GoTo
  <2>2. r \in Writer /\ r \in Writes BY <2>1 DEF Writes
  <2>3. \A u \in Writer : pc'[u] # pc[u] => u = r /\ pc'[u] = "begin" BY <2>1 DEF Turns
  <2>4. pc' \in [Writer -> OutLabel] BY <2>1 DEF Turns, OutLabel
  <2> QED BY <2>1, <2>2, <2>3, <2>4 DEF Turns, Active, Writes
<1>5. ASSUME NEW t \in Writer, Write(t) PROVE Turns'
  BY <1>5, WriteKeepsTurns DEF Write
<1>6. CASE UNCHANGED termVars BY <1>1, <1>6 DEF termVars, outVars
<1> QED BY <1>2, <1>3, <1>4, <1>5, <1>6 DEF Next

(* With the mutex, or alone: at most one writer is active. *)
OneAtATime == \A t, u \in Active : t = u

LEMMA OneActive == Turns /\ Protected => OneAtATime
<1> SUFFICES ASSUME Turns, Protected PROVE \A t, u \in Active : t = u BY DEF OneAtATime
<1>1. CASE Writes \subseteq logging BY <1>1 DEF Turns, Active
<1>2. CASE \E t \in Writer : Writes = {t} BY <1>2 DEF Turns, Active
<1> QED BY <1>1, <1>2 DEF Protected, Writes

-----------------------------------------------------------------------------
(* When at most one writer is active, it alone can hold a token. *)
LEMMA OneHolder ==
  ASSUME NEW t \in Writer, \A u \in Writer : pc[u] \in HoldLabel => u = t
  PROVE  Cardinality(Holders) = IF pc[t] \in HoldLabel THEN 1 ELSE 0
<1>1. CASE pc[t] \in HoldLabel
  <2>1. Holders = {t} BY <1>1 DEF Holders, HoldLabel
  <2> QED BY <1>1, <2>1, FS_Singleton
<1>2. CASE pc[t] \notin HoldLabel
  <2>1. Holders = {} BY <1>2 DEF Holders, HoldLabel
  <2> QED BY <1>2, <2>1, FS_EmptySet
<1> QED BY <1>1, <1>2

(* What a step of the only active writer does to its token. *)
LEMMA StepCountsTokens ==
  ASSUME Tokens, Turns, OutWaits, NEW t \in Writer, WriteStep(t),
         \A u \in Writer : pc[u] \in HoldLabel => u = t,
         osemWait = <<>>
  PROVE  /\ IsRing(ofifo') /\ osem' \in Nat /\ reg' \in [Writer -> Int]
         /\ pc'[t] \in {"putCount", "getCount"} => reg'[t] = ofifo'.count
         /\ osem' + ofifo'.count + (IF pc'[t] \in HoldLabel THEN 1 ELSE 0) = ObufSize
<1> DEFINE h == IF pc[t] \in HoldLabel THEN 1 ELSE 0
<1>0. /\ pc \in [Writer -> OutLabel] /\ reg \in [Writer -> Int] /\ reg[t] \in Int
      /\ osem \in Nat /\ IsRing(ofifo)
      /\ ofifo.count \in Int /\ ofifo.write \in Int /\ ofifo.read \in Int /\ ObufSize \in Nat
  BY DEF Tokens, Turns, IsRing
<1>1. osem + ofifo.count + h = ObufSize
  <2>1. Cardinality(Holders) = h BY OneHolder
  <2> QED BY <2>1 DEF Tokens, NoTokenLost
<1>2. CASE Begin(t) \/ NextChar(t) \/ Return(t) \/ End(t) \/ GetEmpty(t) \/ Show(t)
  BY <1>0, <1>1, <1>2 DEF Begin, NextChar, Return, End, GetEmpty, Show, GoTo, HoldLabel
<1>3. CASE WaitForRoom(t)
  BY <1>0, <1>1, <1>3 DEF WaitForRoom, GoTo, HoldLabel
<1>4. CASE PutFull(t)
  BY <1>0, <1>1, <1>4 DEF PutFull, FifoFull, HoldLabel
<1>5. CASE PutIndex(t) \/ GetIndex(t)
  BY <1>0, <1>1, <1>5 DEF PutIndex, GetIndex, GoTo, HoldLabel
<1>6. CASE PutLoadCount(t) \/ GetLoadCount(t)
  BY <1>0, <1>1, <1>6 DEF PutLoadCount, GetLoadCount, GoTo, HoldLabel
<1>7. CASE PutStore(t)
  <2>1. /\ pc[t] = "putStore" /\ pc' = [pc EXCEPT ![t] = "putWrap"]
        /\ ofifo' = FifoStore(ofifo, reg[t], char[t]) /\ UNCHANGED <<osem, reg>>
    BY <1>7 DEF PutStore, GoTo
  <2>2. PICK i \in Int : i = reg[t] BY <1>0
  <2>c. PICK c : c = char[t] OBVIOUS
  <2>3. IsRing(FifoStore(ofifo, i, c)) /\ FifoStore(ofifo, i, c).count = ofifo.count
    BY <1>0, RingKept
  <2> QED BY <1>0, <1>1, <2>1, <2>2, <2>c, <2>3 DEF HoldLabel
<1>8. CASE PutWrap(t)
  <2>1. /\ pc[t] = "putWrap" /\ pc' = [pc EXCEPT ![t] = "putLoad"]
        /\ ofifo' = FifoWrapWrite(ofifo, ObufSize) /\ UNCHANGED <<osem, reg>>
    BY <1>8 DEF PutWrap, GoTo
  <2>2. IsRing(FifoWrapWrite(ofifo, ObufSize)) /\ FifoWrapWrite(ofifo, ObufSize).count = ofifo.count
    BY <1>0, RingKept
  <2> QED BY <1>0, <1>1, <2>1, <2>2 DEF HoldLabel
<1>9. CASE GetFetch(t)
  <2>1. /\ pc[t] = "getFetch" /\ pc' = [pc EXCEPT ![t] = "getWrap"]
        /\ ofifo' = FifoFetch(ofifo, reg[t]) /\ UNCHANGED <<osem, reg>>
    BY <1>9 DEF GetFetch, GoTo
  <2>2. PICK i \in Int : i = reg[t] BY <1>0
  <2>3. IsRing(FifoFetch(ofifo, i)) /\ FifoFetch(ofifo, i).count = ofifo.count
    BY <1>0, RingKept
  <2> QED BY <1>0, <1>1, <2>1, <2>2, <2>3 DEF HoldLabel
<1>10. CASE GetWrap(t)
  <2>1. /\ pc[t] = "getWrap" /\ pc' = [pc EXCEPT ![t] = "getLoad"]
        /\ ofifo' = FifoWrapRead(ofifo, ObufSize) /\ UNCHANGED <<osem, reg>>
    BY <1>10 DEF GetWrap, GoTo
  <2>2. IsRing(FifoWrapRead(ofifo, ObufSize)) /\ FifoWrapRead(ofifo, ObufSize).count = ofifo.count
    BY <1>0, RingKept
  <2> QED BY <1>0, <1>1, <2>1, <2>2 DEF HoldLabel
<1>11. CASE PutStoreCount(t)
  <2>1. /\ pc[t] = "putCount" /\ reg[t] = ofifo.count
        /\ pc' = [pc EXCEPT ![t] = "wait"] \/ pc' = [pc EXCEPT ![t] = "getCheck"]
        /\ ofifo' = FifoSetCount(ofifo, reg[t] + 1) /\ reg' = [reg EXCEPT ![t] = 0]
        /\ osem' = osem
    BY <1>11 DEF PutStoreCount, GoTo, Tokens
  <2>2. PICK n \in Int : n = reg[t] + 1 BY <1>0
  <2>3. IsRing(FifoSetCount(ofifo, n)) /\ FifoSetCount(ofifo, n).count = n
    BY <1>0, RingKept
  <2> QED BY <1>0, <1>1, <2>1, <2>2, <2>3 DEF HoldLabel
<1>12. CASE GetStoreCount(t)
  <2>1. /\ pc[t] = "getCount" /\ reg[t] = ofifo.count
        /\ pc' = [pc EXCEPT ![t] = "notify"]
        /\ ofifo' = FifoSetCount(ofifo, reg[t] - 1) /\ reg' = [reg EXCEPT ![t] = 0]
        /\ osem' = osem
    BY <1>12 DEF GetStoreCount, GoTo, Tokens
  <2>2. PICK n \in Int : n = reg[t] - 1 BY <1>0
  <2>3. IsRing(FifoSetCount(ofifo, n)) /\ FifoSetCount(ofifo, n).count = n
    BY <1>0, RingKept
  <2> QED BY <1>0, <1>1, <2>1, <2>2, <2>3 DEF HoldLabel
<1>13. CASE NotifyRoom(t)
  BY <1>0, <1>1, <1>13 DEF NotifyRoom, GoTo, HoldLabel
<1> QED BY <1>2, <1>3, <1>4, <1>5, <1>6, <1>7, <1>8, <1>9, <1>10, <1>11, <1>12, <1>13
        DEF WriteStep

(* A writer that makes a step under these conditions is the only one. *)
LEMMA ActsAlone ==
  ASSUME Turns, OutWaits, Protected, scene' = scene, NEW t \in Writer, WriteStep(t)
  PROVE  /\ \A u \in Active : u = t
         /\ osemWait = <<>>
         /\ \E l \in OutLabel : pc' = [pc EXCEPT ![t] = l] /\ l # "begin"
<1>1. Turns' /\ OutWaits' BY WriteKeepsTurns, WriteStepKeepsWaits
<1>2. Protected'
  <2>1. logging' = logging BY WriterMoves
  <2> QED BY <2>1 DEF Protected
<1>3. \A u, v \in Active' : u = v
  <2>1. (Turns /\ Protected => OneAtATime)' BY OneActive, PTL
  <2> QED BY <1>1, <1>2, <2>1 DEF OneAtATime
<1>4. \A u, v \in Active : u = v BY OneActive DEF OneAtATime
<1>5. \A u \in Active : u = t
  <2>1. CASE pc[t] = "begin"
    <3>1. Begin(t) BY <2>1, WriterMoves
    <3>2. pc' = [pc EXCEPT ![t] = "next"] BY <3>1 DEF Begin, GoTo
    <3>3. t \in Active' /\ \A u \in Active : u \in Active' BY <3>2 DEF Active, Turns
    <3> QED BY <1>3, <3>3
  <2>2. CASE pc[t] # "begin"
    <3>1. t \in Active BY <2>2, WriterMoves DEF Active
    <3> QED BY <1>4, <3>1
  <2> QED BY <2>1, <2>2
<1>6. osemWait = <<>>
  <2>1. SUFFICES ASSUME osemWait # <<>> PROVE FALSE OBVIOUS
  <2>2. 1 \in DOMAIN osemWait BY <2>1 DEF OutWaits
  <2>3. osemWait[1] \in Writer /\ pc[osemWait[1]] = "blocked"
    BY <2>2 DEF OutWaits, NoRoomWhileBlocked, ToSet
  <2>4. osemWait[1] = t BY <1>5, <2>3 DEF Active
  <2>5. pc[t] # "blocked"
    <3>1. CASE WaitForRoom(t) \/ NotifyRoom(t) BY <3>1 DEF WaitForRoom, NotifyRoom
    <3>2. CASE ~ WaitForRoom(t) /\ ~ NotifyRoom(t) BY <3>2, OtherWritesGoOn
    <3> QED BY <3>1, <3>2
  <2> QED BY <2>3, <2>4, <2>5
<1>7. \E l \in OutLabel : pc' = [pc EXCEPT ![t] = l] /\ l # "begin"
  BY <1>6, WriterMoves
<1> QED BY <1>5, <1>6, <1>7

LEMMA WriteKeepsTokens ==
  ASSUME Tokens, Turns, OutWaits, Protected, scene' = scene, NEW t \in Writer, WriteStep(t)
  PROVE  Tokens'
<1>5. \A u \in Active : u = t BY ActsAlone
<1>6. osemWait = <<>> BY ActsAlone
<1>7. PICK l \in OutLabel : pc' = [pc EXCEPT ![t] = l] /\ l # "begin" BY ActsAlone
<1>8. \A u \in Writer : pc[u] \in HoldLabel => u = t
  BY <1>5 DEF HoldLabel, Active
<1>9. \A u \in Writer : u # t => pc'[u] = pc[u] BY <1>7 DEF Turns
<1>10. \A u \in Writer : pc'[u] \in HoldLabel => u = t BY <1>8, <1>9
<1>11. /\ IsRing(ofifo') /\ osem' \in Nat /\ reg' \in [Writer -> Int]
       /\ pc'[t] \in {"putCount", "getCount"} => reg'[t] = ofifo'.count
       /\ osem' + ofifo'.count + (IF pc'[t] \in HoldLabel THEN 1 ELSE 0) = ObufSize
  BY <1>6, <1>8, StepCountsTokens
<1>12. Cardinality(Holders') = IF pc'[t] \in HoldLabel THEN 1 ELSE 0
  <2>1. CASE pc'[t] \in HoldLabel
    <3>1. Holders' = {t} BY <1>10, <2>1 DEF Holders, HoldLabel
    <3> QED BY <2>1, <3>1, FS_Singleton
  <2>2. CASE pc'[t] \notin HoldLabel
    <3>1. Holders' = {} BY <1>10, <2>2 DEF Holders, HoldLabel
    <3> QED BY <2>2, <3>1, FS_EmptySet
  <2> QED BY <2>1, <2>2
<1>13. ASSUME NEW u \in Writer, pc'[u] \in {"putCount", "getCount"}
       PROVE  reg'[u] = ofifo'.count
  <2>1. u = t BY <1>5, <1>9, <1>13 DEF Active
  <2> QED BY <1>11, <1>13, <2>1
<1>14. NoTokenLost' BY <1>11, <1>12 DEF NoTokenLost
<1> QED BY <1>11, <1>13, <1>14 DEF Tokens

LEMMA ProtectedBefore ==
  ASSUME Turns, OutWaits, [Next]_termVars, Protected'
  PROVE  Protected /\ UNCHANGED <<logging, scene>>
<1>1. ASSUME NEW t \in Writer, Write(t) PROVE UNCHANGED <<logging, scene>>
  BY <1>1, WriterMoves DEF Write
<1>2. ASSUME NEW r \in Reader, Read(r) PROVE UNCHANGED <<logging, scene>>
  BY <1>2 DEF Read
<1>3. ASSUME UseKey \/ KeyboardInterrupt \/ UNCHANGED termVars
      PROVE  UNCHANGED <<logging, scene>>
  BY <1>3 DEF UseKey, KeyboardInterrupt, outVars, termVars
<1>4. UNCHANGED <<logging, scene>> BY <1>1, <1>2, <1>3 DEF Next
<1> QED BY <1>1, <1>4 DEF Protected

LEMMA NextKeepsTokens ==
  ASSUME Protected => Tokens, Turns, OutWaits, [Next]_termVars
  PROVE  (Protected => Tokens)'
<1>1. SUFFICES ASSUME Protected' PROVE Tokens' OBVIOUS
<1>2. Protected /\ UNCHANGED <<logging, scene>> BY <1>1, ProtectedBefore
<1>3. Tokens BY <1>2
<1>4. ASSUME UNCHANGED outVars PROVE Tokens'
  BY <1>3, <1>4 DEF outVars, Tokens, NoTokenLost, Holders
<1>5. CASE UseKey BY <1>4, <1>5 DEF UseKey
<1>6. CASE KeyboardInterrupt BY <1>4, <1>6 DEF KeyboardInterrupt
<1>7. ASSUME NEW r \in Reader, Read(r) PROVE Tokens'
  <2>1. /\ (pc[r] = "done" /\ pc' = [pc EXCEPT ![r] = "begin"]) \/ pc' = pc
        /\ UNCHANGED <<ofifo, osem, reg>> /\ r \in Writer
    BY <1>7 DEF Read, GoTo
  <2>2. \A u \in Writer : pc'[u] # pc[u] => pc[u] = "done" /\ pc'[u] = "begin"
    BY <2>1 DEF Turns
  <2>3. Holders' = Holders BY <2>2 DEF Holders
  <2> QED BY <1>3, <2>1, <2>2, <2>3 DEF Tokens, NoTokenLost
<1>8. ASSUME NEW t \in Writer, Write(t) PROVE Tokens'
  BY <1>2, <1>3, <1>8, WriteKeepsTokens DEF Write
<1>9. CASE UNCHANGED termVars BY <1>4, <1>9 DEF termVars
<1> QED BY <1>5, <1>6, <1>7, <1>8, <1>9 DEF Next

LEMMA InitHasTokens == ASSUME Init PROVE Tokens
<1>1. /\ ofifo = FifoInit(ObufSize) /\ osem = ObufSize /\ reg = [t \in Writer |-> 0]
      /\ \A t \in Writer : pc[t] \in {"begin", "done"}
  BY DEF Init, OutInit
<1>2. Holders = {} BY <1>1 DEF Holders
<1>3. Cardinality(Holders) = 0 BY <1>2, FS_EmptySet
<1>4. IsRing(ofifo) /\ ofifo.count = 0 BY <1>1 DEF IsRing, FifoInit
<1>5. osem \in Nat /\ osem + ofifo.count + Cardinality(Holders) = ObufSize
  BY <1>1, <1>3, <1>4
<1> QED BY <1>1, <1>4, <1>5 DEF Tokens, NoTokenLost

(* As long as writers hold the mutex of log_printf, or one task writes,    *)
(* every token of osem is in the semaphore, in the buffer or in the hands  *)
(* of the writer, at every point of tty_write and console_write, for any   *)
(* number of writers and any calls they make.                              *)
THEOREM TokensAlwaysConserved == Spec => []TokensConserved
<1>1. Init => Turns /\ (Protected => Tokens) BY InitTurns, InitHasTokens
<1>2. Turns /\ (Protected => Tokens) /\ OutWaits /\ [Next]_termVars
        => (Turns /\ (Protected => Tokens))'
  BY NextKeepsTurns, NextKeepsTokens
<1>3. (Protected => Tokens) => TokensConserved BY DEF Tokens, TokensConserved
<1> QED BY <1>1, <1>2, <1>3, WaitsHold, PTL DEF Spec

-----------------------------------------------------------------------------
(* The output ring and what is in it. *)
OutChar == RingChar \cup {CR, LF}

Slot(i) == IF i >= ObufSize THEN i - ObufSize ELSE i

Holds(f, q) ==
  /\ \E b, n : f = [buf |-> b, read |-> f.read, write |-> f.write, count |-> n]
  /\ f.read \in 0 .. ObufSize - 1 /\ Len(q) <= ObufSize /\ f.write = Slot(f.read + Len(q))
  /\ f.buf \in [0 .. ObufSize - 1 -> OutChar]
  /\ \A i \in 1 .. Len(q) : f.buf[Slot(f.read + i - 1)] = q[i]

LEMMA RingPuts ==
  ASSUME NEW f, NEW q \in Seq(OutChar), Holds(f, q), Len(q) < ObufSize, NEW c \in OutChar
  PROVE  /\ Holds(FifoWrapWrite(FifoStore(f, f.write, c), ObufSize), Append(q, c))
         /\ f.write < ObufSize
<1>1. PICK b, r, w, n :
        /\ f = [buf |-> b, read |-> r, write |-> w, count |-> n]
        /\ b = f.buf /\ r = f.read /\ w = f.write
  BY DEF Holds
<1>2. /\ r \in 0 .. ObufSize - 1 /\ w = Slot(r + Len(q)) /\ b \in [0 .. ObufSize - 1 -> OutChar]
      /\ \A i \in 1 .. Len(q) : b[Slot(r + i - 1)] = q[i]
      /\ Len(q) \in Nat /\ ObufSize \in Nat
  BY <1>1 DEF Holds
<1>3. w \in 0 .. ObufSize - 1 BY <1>2 DEF Slot
<1> DEFINE v == IF w + 1 >= ObufSize THEN 0 ELSE w + 1
           d == [b EXCEPT ![w] = c]
           g == [buf |-> d, read |-> r, write |-> v, count |-> n]
<1>4. FifoWrapWrite(FifoStore(f, f.write, c), ObufSize) = g
  <2>1. [f EXCEPT !.buf[w] = c, !.write = w + 1] = [[f EXCEPT !.buf[w] = c] EXCEPT !.write = w + 1]
    OBVIOUS
  <2>2. [f EXCEPT !.buf[w] = c] = [buf |-> d, read |-> r, write |-> w, count |-> n] BY <1>1
  <2>3. FifoStore(f, w, c) = [buf |-> d, read |-> r, write |-> w + 1, count |-> n]
    <3> PICK e : e = d OBVIOUS
    <3>1. [[buf |-> e, read |-> r, write |-> w, count |-> n] EXCEPT !.write = w + 1]
            = [buf |-> e, read |-> r, write |-> w + 1, count |-> n]
      OBVIOUS
    <3> HIDE DEF d
    <3> QED BY <2>1, <2>2, <3>1 DEF FifoStore
  <2>4. FifoStore(f, f.write, c) = [buf |-> d, read |-> r, write |-> w + 1, count |-> n]
    BY <1>1, <2>3
  <2> HIDE DEF d
  <2> QED BY <2>4 DEF FifoWrapWrite
<1>5. d \in [0 .. ObufSize - 1 -> OutChar] /\ d[w] = c
      /\ \A i \in 0 .. ObufSize - 1 : i # w => d[i] = b[i]
  BY <1>2, <1>3
<1>6. v = Slot(r + (Len(q) + 1)) BY <1>2, <1>3 DEF Slot
<1>7. Append(q, c) \in Seq(OutChar) /\ Len(Append(q, c)) = Len(q) + 1
      /\ Append(q, c)[Len(q) + 1] = c /\ \A i \in 1 .. Len(q) : Append(q, c)[i] = q[i]
  OBVIOUS
<1>8. ASSUME NEW i \in 1 .. Len(q) + 1 PROVE d[Slot(r + i - 1)] = Append(q, c)[i]
  <2> HIDE DEF d
  <2>1. CASE i = Len(q) + 1
    <3>1. r + i - 1 = r + Len(q) BY <1>2, <2>1
    <3> QED BY <1>2, <1>5, <1>7, <2>1, <3>1
  <2>2. CASE i # Len(q) + 1
    <3>1. i \in 1 .. Len(q)
      <4>1. Len(q) \in Nat OBVIOUS
      <4> QED BY <2>2, <4>1
    <3>2. Slot(r + i - 1) \in 0 .. ObufSize - 1 /\ Slot(r + i - 1) # w BY <1>2, <3>1 DEF Slot
    <3>3. d[Slot(r + i - 1)] = b[Slot(r + i - 1)] BY <1>5, <3>2
    <3> QED BY <1>2, <1>7, <3>1, <3>3
  <2> QED BY <2>1, <2>2
<1>9. Holds(g, Append(q, c))
  <2>1. g.buf = d /\ g.read = r /\ g.write = v OBVIOUS
  <2>2. \E e, m : g = [buf |-> e, read |-> r, write |-> v, count |-> m] OBVIOUS
  <2> PICK s : s = Append(q, c) OBVIOUS
  <2>3. Len(s) = Len(q) + 1 /\ Len(q) + 1 <= ObufSize BY <1>2, <1>7
  <2>4. \A i \in 1 .. Len(s) : d[Slot(r + i - 1)] = s[i]
    <3> HIDE DEF d
    <3> QED BY <1>8, <2>3
  <2> HIDE DEF g, d, v
  <2>5. Holds(g, s) BY <1>2, <1>5, <1>6, <2>1, <2>2, <2>3, <2>4 DEF Holds
  <2> QED BY <2>5
<1> QED BY <1>1, <1>3, <1>4, <1>9

LEMMA RingGets ==
  ASSUME NEW f, NEW q \in Seq(OutChar), Holds(f, q), q # <<>>
  PROVE  /\ f.read < ObufSize /\ f.buf[f.read] = Head(q)
         /\ Holds(FifoWrapRead(FifoFetch(f, f.read), ObufSize), Tail(q))
<1>1. PICK b, r, w, n :
        /\ f = [buf |-> b, read |-> r, write |-> w, count |-> n]
        /\ b = f.buf /\ r = f.read /\ w = f.write
  BY DEF Holds
<1>2. /\ r \in 0 .. ObufSize - 1 /\ w = Slot(r + Len(q)) /\ b \in [0 .. ObufSize - 1 -> OutChar]
      /\ \A i \in 1 .. Len(q) : b[Slot(r + i - 1)] = q[i]
      /\ Len(q) \in Nat \ {0} /\ ObufSize \in Nat /\ Len(q) <= ObufSize
  BY <1>1 DEF Holds
<1> DEFINE v == IF r + 1 >= ObufSize THEN 0 ELSE r + 1
           g == [buf |-> b, read |-> v, write |-> w, count |-> n]
<1>3. FifoWrapRead(FifoFetch(f, f.read), ObufSize) = g
  <2>1. FifoFetch(f, f.read) = [buf |-> b, read |-> r + 1, write |-> w, count |-> n]
    BY <1>1 DEF FifoFetch
  <2> QED BY <2>1 DEF FifoWrapRead
<1>4. Tail(q) \in Seq(OutChar) /\ Len(Tail(q)) = Len(q) - 1
      /\ \A i \in 1 .. Len(q) - 1 : Tail(q)[i] = q[i + 1]
  BY <1>2
<1>5. b[r] = Head(q)
  <2>1. 1 \in 1 .. Len(q) /\ Slot(r + 1 - 1) = r BY <1>2 DEF Slot
  <2>2. q[1] = Head(q) BY <1>2
  <2> QED BY <1>2, <2>1, <2>2
<1>6. v \in 0 .. ObufSize - 1 /\ w = Slot(v + (Len(q) - 1)) BY <1>2 DEF Slot
<1>7. ASSUME NEW i \in 1 .. Len(q) - 1 PROVE b[Slot(v + i - 1)] = Tail(q)[i]
  <2>1. i + 1 \in 1 .. Len(q) /\ Slot(v + i - 1) = Slot(r + (i + 1) - 1) BY <1>2 DEF Slot
  <2> QED BY <1>2, <1>4, <2>1
<1>8. Holds(g, Tail(q))
  <2>1. g.buf = b /\ g.read = v /\ g.write = w OBVIOUS
  <2>2. \E e, m : g = [buf |-> e, read |-> v, write |-> w, count |-> m] OBVIOUS
  <2>3. Len(Tail(q)) <= ObufSize BY <1>2, <1>4
  <2> HIDE DEF g, v
  <2> QED BY <1>2, <1>4, <1>6, <1>7, <2>1, <2>2, <2>3 DEF Holds
<1> QED BY <1>1, <1>2, <1>3, <1>5, <1>8

LEMMA RingCounts ==
  ASSUME NEW f, NEW q \in Seq(OutChar), Holds(f, q), NEW n
  PROVE  Holds(FifoSetCount(f, n), q)
<1>1. PICK b, r, w, m :
        /\ f = [buf |-> b, read |-> r, write |-> w, count |-> m]
        /\ b = f.buf /\ r = f.read /\ w = f.write
  BY DEF Holds
<1>2. PICK g : g = FifoSetCount(f, n) OBVIOUS
<1>3. g = [buf |-> b, read |-> r, write |-> w, count |-> n] BY <1>1, <1>2 DEF FifoSetCount
<1>4. g.buf = b /\ g.read = r /\ g.write = w BY <1>3
<1>5. \E e, k : g = [buf |-> e, read |-> g.read, write |-> g.write, count |-> k] BY <1>3, <1>4
<1>6. Holds(g, q) BY <1>1, <1>4, <1>5 DEF Holds
<1> QED BY <1>2, <1>6

LEMMA RingStarts == Holds(FifoInit(ObufSize), <<>>) /\ FifoInit(ObufSize).count = 0
<1>1. PICK f : f = FifoInit(ObufSize) OBVIOUS
<1>2. PICK b : b = [i \in 0 .. ObufSize - 1 |-> Junk] OBVIOUS
<1>3. f = [buf |-> b, read |-> 0, write |-> 0, count |-> 0] BY <1>1, <1>2 DEF FifoInit
<1>4. f.buf = b /\ f.read = 0 /\ f.write = 0 /\ f.count = 0 BY <1>3
<1>5. b \in [0 .. ObufSize - 1 -> OutChar] BY <1>2 DEF OutChar, RingChar
<1>6. 0 \in 0 .. ObufSize - 1 /\ Slot(0 + Len(<<>>)) = 0 /\ Len(<<>>) <= ObufSize BY DEF Slot
<1>7. \E e, k : f = [buf |-> e, read |-> f.read, write |-> f.write, count |-> k] BY <1>3, <1>4
<1>8. Holds(f, <<>>) BY <1>4, <1>5, <1>6, <1>7 DEF Holds
<1> QED BY <1>1, <1>4, <1>8

-----------------------------------------------------------------------------
(* Lines do not mix.  What the calls that have begun should show is what   *)
(* the screen has, what is on the way to it, and what is left of the calls *)
(* of the one writer that is active.                                       *)
OutType ==
  /\ left \in [Writer -> Seq(Seq(OutChar))] /\ begun \in Seq(Seq(OutChar))
  /\ char \in [Writer -> OutChar] /\ ch \in [Writer -> OutChar]
  /\ screen \in Seq(OutChar)

Quiet == screen = Expanded(begun) /\ ofifo.count = 0 /\ Holds(ofifo, <<>>)

NextOf(t) == Head(Head(left[t]))

AtNext(t) ==
  /\ Expanded(begun) = screen \o Expanded(left[t])
  /\ ofifo.count = 0 /\ Holds(ofifo, <<>>)

(* The ring has q, and char[t] is put behind it. *)
AtPut(t, q) ==
  /\ left[t] # <<>> /\ Head(left[t]) # <<>>
  /\ \/ q = <<>> /\ char[t] = IF NextOf(t) = LF THEN CR ELSE NextOf(t)
     \/ q = <<CR>> /\ char[t] = LF /\ NextOf(t) = LF
  /\ Expanded(begun) = screen \o Expanded(left[t])
  /\ ofifo.count = Len(q)
  /\ pc[t] \in {"wait", "blocked", "putCheck", "putStore"} => Holds(ofifo, q)
  /\ pc[t] = "putStore" => reg[t] = ofifo.write
  /\ pc[t] = "putWrap" => Holds(FifoWrapWrite(ofifo, ObufSize), Append(q, char[t]))
  /\ pc[t] \in {"putLoad", "putCount"} => Holds(ofifo, Append(q, char[t]))

(* The ring has q, and from the fetch on ch[t] is before it. *)
AtShow(t, q) ==
  /\ Expanded(begun) =
       screen \o ((IF pc[t] \in {"getCheck", "getFetch"} THEN q ELSE <<ch[t]>> \o q)
                    \o Expanded(left[t]))
  /\ ofifo.count = Len(q) + IF pc[t] \in {"getWrap", "getLoad", "getCount"} THEN 1 ELSE 0
  /\ IF pc[t] = "getWrap" THEN Holds(FifoWrapRead(ofifo, ObufSize), q) ELSE Holds(ofifo, q)
  /\ pc[t] = "getFetch" => q # <<>> /\ reg[t] = ofifo.read

PutLabel == {"wait", "blocked", "putCheck", "putStore", "putWrap", "putLoad", "putCount"}
ShowLabel == {"getCheck", "getFetch", "getWrap", "getLoad", "getCount", "notify", "show"}

OnTheWay(t) ==
  /\ pc[t] = "next" => AtNext(t)
  /\ pc[t] \in PutLabel => \E q \in Seq(OutChar) : AtPut(t, q)
  /\ pc[t] \in ShowLabel => \E q \in Seq(OutChar) : AtShow(t, q)

(* A writer that is active or has just finished. *)
Orderly(t) == OutType /\ OnTheWay(t) /\ (pc[t] = "done" => Quiet)

LEMMA OutChars == CR \in OutChar /\ LF \in OutChar /\ Junk \in OutChar /\ CR # LF
BY DEF OutChar, RingChar, CR, LF

LEMMA AppendToOne ==
  ASSUME NEW S, NEW x \in S, NEW y \in S
  PROVE  Append(<<x>>, y) = <<x, y>>
<1> DEFINE l == Append(<<x>>, y)
           r == <<x, y>>
<1>1. <<x>> \in Seq(S) /\ Len(<<x>>) = 1 /\ <<x>>[1] = x OBVIOUS
<1>2. l \in Seq(S) /\ Len(l) = 2 /\ l[1] = x /\ l[2] = y
  <2> PICK s \in Seq(S) : s = <<x>> BY <1>1
  <2>1. Append(s, y) \in Seq(S) /\ Len(Append(s, y)) = Len(s) + 1
        /\ Append(s, y)[Len(s) + 1] = y /\ \A i \in 1 .. Len(s) : Append(s, y)[i] = s[i]
    OBVIOUS
  <2>2. Len(s) = 1 /\ s[1] = x BY <1>1
  <2> QED BY <2>1, <2>2
<1>3. r \in Seq(S) /\ Len(r) = 2 /\ r[1] = x /\ r[2] = y OBVIOUS
<1> HIDE DEF l, r
<1>4. l = r
  <2>1. \A i \in 1 .. 2 : l[i] = r[i] BY <1>2, <1>3
  <2> QED BY <1>2, <1>3, <2>1
<1> QED BY <1>4 DEF l, r

LEMMA BeginIsOrderly ==
  ASSUME OutType, Quiet, NEW t \in Writer, pc \in [Writer -> OutLabel], Begin(t)
  PROVE  Orderly(t)'
<1>1. /\ begun' = begun \o left[t] /\ pc' = [pc EXCEPT ![t] = "next"]
      /\ UNCHANGED <<ofifo, left, char, ch, screen>>
  BY DEF Begin, GoTo
<1>2. begun' \in Seq(Seq(OutChar)) /\ left[t] \in Seq(Seq(OutChar)) BY <1>1 DEF OutType
<1>3. Expanded(begun \o left[t]) = Expanded(begun) \o Expanded(left[t])
  BY <1>2, OutChars, CallsOfJoin DEF OutType
<1>4. OutType' BY <1>1, <1>2 DEF OutType
<1>5. pc'[t] = "next" BY <1>1
<1>6. AtNext(t)' BY <1>1, <1>3 DEF AtNext, Quiet
<1> QED BY <1>4, <1>5, <1>6 DEF Orderly, OnTheWay, PutLabel, ShowLabel

LEMMA NextIsOrderly ==
  ASSUME OutType, NEW t \in Writer, OnTheWay(t), pc \in [Writer -> OutLabel],
         NextChar(t) \/ Return(t) \/ End(t)
  PROVE  Orderly(t)'
<1>1. pc[t] = "next" /\ AtNext(t) /\ left[t] \in Seq(Seq(OutChar))
  BY DEF NextChar, Return, End, OnTheWay, OutType
<1>2. CASE NextChar(t)
  <2>1. /\ left[t] # <<>> /\ Head(left[t]) # <<>>
        /\ char' = [char EXCEPT ![t] = IF NextOf(t) = LF THEN CR ELSE NextOf(t)]
        /\ pc' = [pc EXCEPT ![t] = "wait"]
        /\ UNCHANGED <<ofifo, left, ch, screen, begun>>
    BY <1>2 DEF NextChar, GoTo, NextOf
  <2>2. NextOf(t) \in OutChar BY <1>1, <2>1, OutChars, ExpandedPut DEF NextOf
  <2>3. OutType' BY <2>1, <2>2, OutChars DEF OutType
  <2>4. pc'[t] = "wait" BY <2>1
  <2>5. char'[t] = IF NextOf(t)' = LF THEN CR ELSE NextOf(t)'
    BY <2>1, <2>2 DEF OutType, NextOf
  <2>6. AtPut(t, <<>>)' BY <1>1, <2>1, <2>4, <2>5 DEF AtPut, AtNext
  <2>7. <<>> \in Seq(OutChar) OBVIOUS
  <2> QED BY <2>3, <2>4, <2>6, <2>7 DEF Orderly, OnTheWay, PutLabel, ShowLabel
<1>3. CASE Return(t)
  <2>1. /\ left[t] # <<>> /\ Head(left[t]) = <<>>
        /\ left' = [left EXCEPT ![t] = Tail(left[t])]
        /\ UNCHANGED <<ofifo, pc, char, ch, screen, begun>>
    BY <1>3 DEF Return
  <2>2. Tail(left[t]) \in Seq(Seq(OutChar)) /\ Expanded(left[t]) = Expanded(Tail(left[t]))
    BY <1>1, <2>1, OutChars, ExpandedReturn
  <2>3. OutType' BY <2>1, <2>2 DEF OutType
  <2>4. left'[t] = Tail(left[t]) BY <2>1 DEF OutType
  <2>5. AtNext(t)' BY <1>1, <2>1, <2>2, <2>4 DEF AtNext
  <2> QED BY <1>1, <2>1, <2>3, <2>5 DEF Orderly, OnTheWay, PutLabel, ShowLabel
<1>4. CASE End(t)
  <2>1. /\ left[t] = <<>> /\ pc' = [pc EXCEPT ![t] = "done"]
        /\ UNCHANGED <<ofifo, left, char, ch, screen, begun>>
    BY <1>4 DEF End, GoTo
  <2>2. Expanded(left[t]) = <<>> BY <2>1, OutChars, OneOfEach
  <2>3. screen \o <<>> = screen BY DEF OutType
  <2>4. Quiet' BY <1>1, <2>1, <2>2, <2>3 DEF Quiet, AtNext
  <2>5. OutType' BY <2>1 DEF OutType
  <2>6. pc'[t] = "done" BY <2>1
  <2> QED BY <2>4, <2>5, <2>6 DEF Orderly, OnTheWay, PutLabel, ShowLabel
<1> QED BY <1>2, <1>3, <1>4

LEMMA WaitIsOrderly ==
  ASSUME OutType, NEW t \in Writer, OnTheWay(t), pc \in [Writer -> OutLabel],
         WaitForRoom(t) \/ PutIndex(t) \/ PutLoadCount(t),
         reg \in [Writer -> Int]
  PROVE  Orderly(t)'
<1>1. PICK q \in Seq(OutChar) : AtPut(t, q)
  BY DEF WaitForRoom, PutIndex, PutLoadCount, OnTheWay, PutLabel
<1>2. UNCHANGED <<ofifo, left, char, ch, screen, begun>>
  BY DEF WaitForRoom, PutIndex, PutLoadCount
<1>3. OutType' BY <1>2 DEF OutType
<1>4. CASE WaitForRoom(t)
  <2>1. pc[t] = "wait" /\ pc'[t] \in {"putCheck", "blocked"} BY <1>4 DEF WaitForRoom, GoTo
  <2>2. AtPut(t, q)' BY <1>1, <1>2, <2>1 DEF AtPut, NextOf
  <2> QED BY <1>3, <2>1, <2>2 DEF Orderly, OnTheWay, PutLabel, ShowLabel
<1>5. CASE PutIndex(t)
  <2>1. pc[t] = "putCheck" /\ pc'[t] = "putStore" /\ reg'[t] = ofifo.write BY <1>5 DEF PutIndex, GoTo
  <2>2. AtPut(t, q)' BY <1>1, <1>2, <2>1 DEF AtPut, NextOf
  <2> QED BY <1>3, <2>1, <2>2 DEF Orderly, OnTheWay, PutLabel, ShowLabel
<1>6. CASE PutLoadCount(t)
  <2>1. pc[t] = "putLoad" /\ pc'[t] = "putCount" BY <1>6 DEF PutLoadCount, GoTo
  <2>2. AtPut(t, q)' BY <1>1, <1>2, <2>1 DEF AtPut, NextOf
  <2> QED BY <1>3, <2>1, <2>2 DEF Orderly, OnTheWay, PutLabel, ShowLabel
<1> QED BY <1>4, <1>5, <1>6

LEMMA StoreIsOrderly ==
  ASSUME OutType, NEW t \in Writer, OnTheWay(t), pc \in [Writer -> OutLabel],
         PutStore(t) \/ PutWrap(t), IsRing(ofifo), ofifo.count < ObufSize
  PROVE  Orderly(t)'
<1>1. PICK q \in Seq(OutChar) : AtPut(t, q)
  BY DEF PutStore, PutWrap, OnTheWay, PutLabel
<1>2. UNCHANGED <<left, char, ch, screen, begun>>
  BY DEF PutStore, PutWrap
<1>3. OutType' BY <1>2 DEF OutType
<1> PICK c \in OutChar : c = char[t] BY DEF OutType
<1>4. CASE PutStore(t)
  <2>1. pc[t] = "putStore" /\ pc'[t] = "putWrap" /\ ofifo' = FifoStore(ofifo, reg[t], c)
    BY <1>4 DEF PutStore, GoTo
  <2>2. Holds(ofifo, q) /\ reg[t] = ofifo.write /\ ofifo.count = Len(q) BY <1>1, <2>1 DEF AtPut
  <2>3. Len(q) < ObufSize BY <2>2
  <2>4. Holds(FifoWrapWrite(FifoStore(ofifo, ofifo.write, c), ObufSize), Append(q, c))
    BY <2>2, <2>3, RingPuts
  <2>5. ofifo'.count = ofifo.count
    <3>1. PICK i \in Int : i = reg[t] BY <2>2 DEF IsRing
    <3>2. FifoStore(ofifo, i, c).count = ofifo.count /\ 0 \in Int BY RingKept
    <3> QED BY <2>1, <3>1, <3>2
  <2>6. ofifo' = FifoStore(ofifo, ofifo.write, c) BY <2>1, <2>2
  <2>7. AtPut(t, q)' BY <1>1, <1>2, <2>1, <2>4, <2>5, <2>6 DEF AtPut, NextOf
  <2> QED BY <1>3, <2>1, <2>7 DEF Orderly, OnTheWay, PutLabel, ShowLabel
<1>5. CASE PutWrap(t)
  <2>1. pc[t] = "putWrap" /\ pc'[t] = "putLoad" /\ ofifo' = FifoWrapWrite(ofifo, ObufSize)
    BY <1>5 DEF PutWrap, GoTo
  <2>2. ofifo'.count = ofifo.count
    <3>1. FifoWrapWrite(ofifo, ObufSize).count = ofifo.count /\ 0 \in Int BY RingKept
    <3> QED BY <2>1, <3>1
  <2>3. AtPut(t, q)' BY <1>1, <1>2, <2>1, <2>2 DEF AtPut, NextOf
  <2> QED BY <1>3, <2>1, <2>3 DEF Orderly, OnTheWay, PutLabel, ShowLabel
<1> QED BY <1>4, <1>5

LEMMA CountIsOrderly ==
  ASSUME OutType, NEW t \in Writer, OnTheWay(t), pc \in [Writer -> OutLabel],
         PutStoreCount(t), IsRing(ofifo), reg[t] = ofifo.count
  PROVE  Orderly(t)'
<1>1. PICK q \in Seq(OutChar) : AtPut(t, q)
  BY DEF PutStoreCount, OnTheWay, PutLabel
<1>2. pc[t] = "putCount" /\ ofifo' = FifoSetCount(ofifo, reg[t] + 1) /\ UNCHANGED <<ch, screen, begun>>
  BY DEF PutStoreCount
<1> PICK n \in Int : n = ofifo.count + 1 BY DEF IsRing
<1> PICK c \in OutChar : c = char[t] BY DEF OutType
<1>3. ofifo' = FifoSetCount(ofifo, n) BY <1>2
<1>4. ofifo'.count = n /\ Holds(ofifo', Append(q, c))
  <2>1. Append(q, c) \in Seq(OutChar) /\ Holds(ofifo, Append(q, c)) BY <1>1, <1>2 DEF AtPut
  <2>2. Holds(FifoSetCount(ofifo, n), Append(q, c)) BY <2>1, RingCounts
  <2>3. FifoSetCount(ofifo, n).count = n BY RingKept
  <2> QED BY <1>3, <2>2, <2>3
<1>5. left[t] \in Seq(Seq(OutChar)) /\ left[t] # <<>> /\ Head(left[t]) # <<>>
  BY <1>1 DEF AtPut, OutType
<1>6. NextOf(t) \in OutChar /\ Taken1(left[t]) \in Seq(Seq(OutChar))
      /\ Expanded(left[t]) = PutOf(NextOf(t)) \o Expanded(Taken1(left[t]))
  BY <1>5, OutChars, ExpandedPut DEF NextOf
<1>7. Append(q, c) \in Seq(OutChar) /\ Len(Append(q, c)) = Len(q) + 1 /\ n = Len(q) + 1
  BY <1>1 DEF AtPut
<1>8. CASE c = CR /\ NextOf(t) = LF
  <2>1. char' = [char EXCEPT ![t] = LF] /\ pc' = [pc EXCEPT ![t] = "wait"] /\ left' = left
    BY <1>8 DEF PutStoreCount, GoTo, NextOf
  <2>2. OutType' BY <1>2, <2>1, OutChars DEF OutType
  <2>3. pc'[t] = "wait" /\ char'[t] = LF BY <2>1 DEF OutType
  <2>4. q = <<>> /\ Append(q, c) = <<CR>>
    <3>1. q = <<>> BY <1>1, <1>8, OutChars DEF AtPut
    <3>2. Append(<<>>, c) = <<c>> OBVIOUS
    <3> QED BY <1>8, <3>1, <3>2
  <2>5. Len(<<CR>>) = 1 /\ n = 1 /\ <<CR>> \in Seq(OutChar) BY <1>7, <2>4
  <2>6. AtPut(t, <<CR>>)'
    BY <1>1, <1>2, <1>4, <1>8, <2>1, <2>3, <2>4, <2>5 DEF AtPut, NextOf
  <2> QED BY <2>2, <2>3, <2>5, <2>6 DEF Orderly, OnTheWay, PutLabel, ShowLabel
<1>9. CASE ~ (c = CR /\ NextOf(t) = LF)
  <2>1. left' = [left EXCEPT ![t] = Taken1(left[t])] /\ pc' = [pc EXCEPT ![t] = "getCheck"]
        /\ char' = char
    BY <1>9 DEF PutStoreCount, GoTo, NextOf, Taken1
  <2>2. OutType' BY <1>2, <1>6, <2>1 DEF OutType
  <2>3. pc'[t] = "getCheck" /\ left'[t] = Taken1(left[t]) BY <2>1 DEF OutType
  <2>4. Append(q, c) = PutOf(NextOf(t))
    <3>1. CASE q = <<>> /\ c = IF NextOf(t) = LF THEN CR ELSE NextOf(t)
      BY <1>9, <3>1 DEF PutOf
    <3>2. CASE q = <<CR>> /\ c = LF /\ NextOf(t) = LF
      <4>1. Append(<<CR>>, LF) = <<CR, LF>> BY OutChars, AppendToOne
      <4> QED BY <3>2, <4>1 DEF PutOf
    <3> QED BY <1>1, <3>1, <3>2 DEF AtPut
  <2>5. Expanded(begun') = screen' \o (Append(q, c) \o Expanded(left'[t]))
    BY <1>1, <1>2, <1>6, <2>3, <2>4 DEF AtPut
  <2> PICK s \in Seq(OutChar) : s = Append(q, c) BY <1>7
  <2>6. AtShow(t, s)'
    <3>1. ofifo'.count = Len(s) + 0 /\ Holds(ofifo', s) BY <1>4, <1>7
    <3>2. Expanded(begun') = screen' \o (s \o Expanded(left'[t])) BY <2>5
    <3> QED BY <2>3, <3>1, <3>2 DEF AtShow
  <2> QED BY <2>2, <2>3, <2>6 DEF Orderly, OnTheWay, PutLabel, ShowLabel
<1> QED BY <1>8, <1>9

LEMMA GetIsOrderly ==
  ASSUME OutType, NEW t \in Writer, OnTheWay(t), pc \in [Writer -> OutLabel],
         GetEmpty(t) \/ GetIndex(t) \/ GetLoadCount(t), reg \in [Writer -> Int]
  PROVE  Orderly(t)'
<1>1. PICK q \in Seq(OutChar) : AtShow(t, q)
  BY DEF GetEmpty, GetIndex, GetLoadCount, OnTheWay, ShowLabel
<1>2. UNCHANGED <<ofifo, left, char, ch, screen, begun>>
  BY DEF GetEmpty, GetIndex, GetLoadCount
<1>3. OutType' BY <1>2 DEF OutType
<1>4. CASE GetEmpty(t)
  <2>1. pc[t] = "getCheck" /\ pc'[t] = "next" /\ ofifo.count <= 0 BY <1>4 DEF GetEmpty, GoTo, FifoEmpty
  <2>2. ofifo.count = Len(q) + 0 /\ Holds(ofifo, q)
        /\ Expanded(begun) = screen \o (q \o Expanded(left[t]))
    BY <1>1, <2>1 DEF AtShow
  <2>3. q = <<>> /\ ofifo.count = 0 BY <2>1, <2>2
  <2>4. <<>> \o Expanded(left[t]) = Expanded(left[t])
    <3>1. Expanded(left[t]) \in Seq(OutChar) BY OutChars, CallsType DEF OutType
    <3> QED BY <3>1
  <2>5. AtNext(t)' BY <1>2, <2>2, <2>3, <2>4 DEF AtNext
  <2> QED BY <1>3, <2>1, <2>5 DEF Orderly, OnTheWay, PutLabel, ShowLabel
<1>5. CASE GetIndex(t)
  <2>1. pc[t] = "getCheck" /\ pc'[t] = "getFetch" /\ ~ (ofifo.count <= 0) /\ reg'[t] = ofifo.read
    BY <1>5 DEF GetIndex, GoTo, FifoEmpty
  <2>2. ofifo.count = Len(q) + 0 BY <1>1, <2>1 DEF AtShow
  <2>3. q # <<>> BY <2>1, <2>2
  <2>4. AtShow(t, q)' BY <1>1, <1>2, <2>1, <2>3 DEF AtShow
  <2> QED BY <1>3, <2>1, <2>4 DEF Orderly, OnTheWay, PutLabel, ShowLabel
<1>6. CASE GetLoadCount(t)
  <2>1. pc[t] = "getLoad" /\ pc'[t] = "getCount" BY <1>6 DEF GetLoadCount, GoTo
  <2>2. AtShow(t, q)' BY <1>1, <1>2, <2>1 DEF AtShow
  <2> QED BY <1>3, <2>1, <2>2 DEF Orderly, OnTheWay, PutLabel, ShowLabel
<1> QED BY <1>4, <1>5, <1>6

LEMMA FetchIsOrderly ==
  ASSUME OutType, NEW t \in Writer, OnTheWay(t), pc \in [Writer -> OutLabel],
         GetFetch(t) \/ GetWrap(t), IsRing(ofifo)
  PROVE  Orderly(t)'
<1>1. PICK q \in Seq(OutChar) : AtShow(t, q)
  BY DEF GetFetch, GetWrap, OnTheWay, ShowLabel
<1>2. UNCHANGED <<left, char, screen, begun>>
  BY DEF GetFetch, GetWrap
<1>3. CASE GetFetch(t)
  <2>1. /\ pc[t] = "getFetch" /\ pc'[t] = "getWrap" /\ ofifo' = FifoFetch(ofifo, reg[t])
        /\ ch' = [ch EXCEPT ![t] = IF reg[t] < ObufSize THEN ofifo.buf[reg[t]] ELSE Junk]
    BY <1>3 DEF GetFetch, GoTo
  <2>2. Holds(ofifo, q) /\ q # <<>> /\ reg[t] = ofifo.read /\ ofifo.count = Len(q) + 0
        /\ Expanded(begun) = screen \o (q \o Expanded(left[t]))
    BY <1>1, <2>1 DEF AtShow
  <2>3. ofifo.read < ObufSize /\ ofifo.buf[ofifo.read] = Head(q)
        /\ Holds(FifoWrapRead(FifoFetch(ofifo, ofifo.read), ObufSize), Tail(q))
    BY <2>2, RingGets
  <2>4. Head(q) \in OutChar /\ Tail(q) \in Seq(OutChar) /\ q = <<Head(q)>> \o Tail(q)
    BY <2>2, HeadAndTail
  <2>5. ch' = [ch EXCEPT ![t] = Head(q)] BY <2>1, <2>2, <2>3
  <2>6. OutType' BY <1>2, <2>4, <2>5 DEF OutType
  <2>7. ch'[t] = Head(q) BY <2>5 DEF OutType
  <2>8. ofifo'.count = ofifo.count
    <3>1. PICK i \in Int : i = reg[t] BY <2>2 DEF IsRing
    <3>2. FifoFetch(ofifo, i).count = ofifo.count /\ 0 \in Int BY RingKept
    <3> QED BY <2>1, <3>1, <3>2
  <2>9. Len(q) = Len(Tail(q)) + 1 BY <2>2
  <2>10. ofifo' = FifoFetch(ofifo, ofifo.read) BY <2>1, <2>2
  <2>11. AtShow(t, Tail(q))'
    <3>1. Expanded(begun') = screen' \o ((<<ch'[t]>> \o Tail(q)) \o Expanded(left'[t]))
      BY <1>2, <2>2, <2>4, <2>7
    <3>2. ofifo'.count = Len(Tail(q)) + 1 BY <2>2, <2>8, <2>9
    <3>3. Holds(FifoWrapRead(ofifo', ObufSize), Tail(q)) BY <2>3, <2>10
    <3> QED BY <2>1, <3>1, <3>2, <3>3 DEF AtShow
  <2> QED BY <2>1, <2>4, <2>6, <2>11 DEF Orderly, OnTheWay, PutLabel, ShowLabel
<1>4. CASE GetWrap(t)
  <2>1. pc[t] = "getWrap" /\ pc'[t] = "getLoad" /\ ofifo' = FifoWrapRead(ofifo, ObufSize) /\ ch' = ch
    BY <1>4 DEF GetWrap, GoTo
  <2>2. ofifo'.count = ofifo.count
    <3>1. FifoWrapRead(ofifo, ObufSize).count = ofifo.count BY DEF IsRing, FifoWrapRead
    <3> QED BY <2>1, <3>1
  <2>3. AtShow(t, q)' BY <1>1, <1>2, <2>1, <2>2 DEF AtShow
  <2>4. OutType' BY <1>2, <2>1 DEF OutType
  <2> QED BY <2>1, <2>3, <2>4 DEF Orderly, OnTheWay, PutLabel, ShowLabel
<1> QED BY <1>3, <1>4

LEMMA ShowIsOrderly ==
  ASSUME OutType, NEW t \in Writer, OnTheWay(t), pc \in [Writer -> OutLabel],
         GetStoreCount(t) \/ NotifyRoom(t) \/ Show(t), osemWait = <<>>,
         IsRing(ofifo), pc[t] = "getCount" => reg[t] = ofifo.count
  PROVE  Orderly(t)'
<1>1. PICK q \in Seq(OutChar) : AtShow(t, q)
  BY DEF GetStoreCount, NotifyRoom, Show, OnTheWay, ShowLabel
<1>2. UNCHANGED <<left, char, begun>>
  BY DEF GetStoreCount, NotifyRoom, Show
<1>3. CASE GetStoreCount(t)
  <2>1. /\ pc[t] = "getCount" /\ pc'[t] = "notify" /\ ofifo' = FifoSetCount(ofifo, reg[t] - 1)
        /\ UNCHANGED <<ch, screen>>
    BY <1>3 DEF GetStoreCount, GoTo
  <2>2. PICK n \in Int : n = ofifo.count - 1 BY DEF IsRing
  <2>3. ofifo.count = Len(q) + 1 /\ Holds(ofifo, q) BY <1>1, <2>1 DEF AtShow
  <2>4. ofifo' = FifoSetCount(ofifo, n) BY <2>1, <2>2
  <2>5. ofifo'.count = Len(q) + 0 /\ Holds(ofifo', q)
    <3>1. Holds(FifoSetCount(ofifo, n), q) BY <2>3, RingCounts
    <3>2. FifoSetCount(ofifo, n).count = n BY RingKept
    <3>3. n = Len(q) + 0 BY <2>2, <2>3
    <3> QED BY <2>4, <3>1, <3>2, <3>3
  <2>6. AtShow(t, q)' BY <1>1, <1>2, <2>1, <2>5 DEF AtShow
  <2>7. OutType' BY <1>2, <2>1 DEF OutType
  <2> QED BY <2>1, <2>6, <2>7 DEF Orderly, OnTheWay, PutLabel, ShowLabel
<1>4. CASE NotifyRoom(t)
  <2>1. pc[t] = "notify" /\ pc'[t] = "show" /\ UNCHANGED <<ofifo, ch, screen>>
    BY <1>4 DEF NotifyRoom, GoTo
  <2>2. AtShow(t, q)' BY <1>1, <1>2, <2>1 DEF AtShow
  <2>3. OutType' BY <1>2, <2>1 DEF OutType
  <2> QED BY <2>1, <2>2, <2>3 DEF Orderly, OnTheWay, PutLabel, ShowLabel
<1>5. CASE Show(t)
  <2>1. /\ pc[t] = "show" /\ pc'[t] = "getCheck" /\ ofifo' = ofifo
        /\ screen' = Append(screen, ch[t]) /\ ch' = [ch EXCEPT ![t] = Junk]
    BY <1>5 DEF Show, GoTo
  <2>2. OutType' BY <1>2, <2>1, OutChars DEF OutType
  <2>3. Expanded(begun) = screen \o ((<<ch[t]>> \o q) \o Expanded(left[t]))
        /\ ofifo.count = Len(q) + 0 /\ Holds(ofifo, q)
    BY <1>1, <2>1 DEF AtShow
  <2>4. screen \o ((<<ch[t]>> \o q) \o Expanded(left[t])) = Append(screen, ch[t]) \o (q \o Expanded(left[t]))
    <3> PICK e \in Seq(OutChar) : e = Expanded(left[t])
      <4>1. Expanded(left[t]) \in Seq(OutChar) BY OutChars, CallsType DEF OutType
      <4> QED BY <4>1
    <3> PICK c \in OutChar : c = ch[t] BY DEF OutType
    <3> PICK s \in Seq(OutChar) : s = screen BY DEF OutType
    <3>1. MovesOver(s, c, q, e) BY HeadMovesOver
    <3> QED BY <3>1 DEF MovesOver
  <2>5. AtShow(t, q)' BY <1>2, <2>1, <2>3, <2>4 DEF AtShow
  <2> QED BY <2>1, <2>2, <2>5 DEF Orderly, OnTheWay, PutLabel, ShowLabel
<1> QED BY <1>3, <1>4, <1>5

-----------------------------------------------------------------------------
(* One writer at a time. *)
InOrder ==
  /\ OutType
  /\ Active = {} => Quiet
  /\ \A t \in Active : OnTheWay(t)

LEMMA RoomForPut ==
  ASSUME Tokens, Turns, NEW t \in Writer, \A u \in Active : u = t,
         pc[t] \in {"putCheck", "putStore", "putWrap"}
  PROVE  ofifo.count < ObufSize
<1>1. \A u \in Writer : pc[u] \in HoldLabel => u = t BY DEF Active, HoldLabel
<1>2. Cardinality(Holders) = 1
  <2>1. pc[t] \in HoldLabel BY DEF HoldLabel
  <2> QED BY <1>1, <2>1, OneHolder
<1>3. osem \in Nat /\ ofifo.count \in Int /\ ObufSize \in Nat
      /\ osem + ofifo.count + Cardinality(Holders) = ObufSize
  BY DEF Tokens, NoTokenLost, IsRing
<1> QED BY <1>2, <1>3

LEMMA StepIsOrderly ==
  ASSUME InOrder, Tokens, Turns, NEW t \in Writer, WriteStep(t), pc[t] # "done",
         pc[t] = "begin" <=> Begin(t), \A u \in Active : u = t, osemWait = <<>>
  PROVE  Orderly(t)'
<1>1. OutType /\ pc \in [Writer -> OutLabel] /\ IsRing(ofifo) /\ reg \in [Writer -> Int]
      /\ (pc[t] \in {"putCount", "getCount"} => reg[t] = ofifo.count)
  BY DEF InOrder, Turns, Tokens
<1>2. CASE Begin(t)
  <2>1. Active = {} BY <1>2 DEF Active
  <2>2. Quiet BY <2>1 DEF InOrder
  <2> QED BY <1>1, <1>2, <2>2, BeginIsOrderly
<1>3. CASE ~ Begin(t)
  <2>1. t \in Active BY <1>3 DEF Active
  <2>2. OnTheWay(t) BY <2>1 DEF InOrder
  <2>3. CASE NextChar(t) \/ Return(t) \/ End(t) BY <1>1, <2>2, <2>3, NextIsOrderly
  <2>4. CASE WaitForRoom(t) \/ PutIndex(t) \/ PutLoadCount(t) BY <1>1, <2>2, <2>4, WaitIsOrderly
  <2>5. CASE PutStore(t) \/ PutWrap(t)
    <3>1. pc[t] \in {"putStore", "putWrap"} BY <2>5 DEF PutStore, PutWrap
    <3>2. ofifo.count < ObufSize BY <3>1, RoomForPut
    <3> QED BY <1>1, <2>2, <2>5, <3>2, StoreIsOrderly
  <2>6. CASE PutStoreCount(t)
    <3>1. pc[t] = "putCount" BY <2>6 DEF PutStoreCount
    <3> QED BY <1>1, <2>2, <2>6, <3>1, CountIsOrderly
  <2>7. CASE GetEmpty(t) \/ GetIndex(t) \/ GetLoadCount(t) BY <1>1, <2>2, <2>7, GetIsOrderly
  <2>8. CASE GetFetch(t) \/ GetWrap(t) BY <1>1, <2>2, <2>8, FetchIsOrderly
  <2>9. CASE GetStoreCount(t) \/ NotifyRoom(t) \/ Show(t) BY <1>1, <2>2, <2>9, ShowIsOrderly
  <2>10. ~ PutFull(t)
    <3>1. SUFFICES ASSUME PutFull(t) PROVE FALSE OBVIOUS
    <3>2. pc[t] = "putCheck" /\ ofifo.count >= ObufSize BY <3>1 DEF PutFull, FifoFull
    <3>3. ofifo.count < ObufSize BY <3>2, RoomForPut
    <3> QED BY <1>1, <3>2, <3>3 DEF IsRing
  <2> QED BY <1>3, <2>3, <2>4, <2>5, <2>6, <2>7, <2>8, <2>9, <2>10 DEF WriteStep
<1> QED BY <1>2, <1>3

LEMMA WriteKeepsOrder ==
  ASSUME InOrder, Tokens, Turns, OutWaits, Protected, scene' = scene, NEW t \in Writer, WriteStep(t)
  PROVE  InOrder'
<1>1. (\A u \in Active : u = t) /\ osemWait = <<>> BY ActsAlone
<1>2. PICK l \in OutLabel : pc' = [pc EXCEPT ![t] = l] /\ l # "begin" BY ActsAlone
<1>3. pc[t] # "done" /\ (pc[t] = "begin" <=> Begin(t)) BY WriterMoves
<1>4. Orderly(t)' BY <1>1, <1>3, StepIsOrderly
<1>5. \A u \in Writer : pc'[u] = IF u = t THEN l ELSE pc[u] BY <1>2 DEF Turns
<1>6. \A u \in Active' : u = t BY <1>1, <1>5 DEF Active
<1>7. Active' = {} => pc'[t] = "done" BY <1>2, <1>5 DEF Active
<1>8. Active' = {} => Quiet' BY <1>4, <1>7 DEF Orderly
<1>9. \A u \in Active' : OnTheWay(u)' BY <1>4, <1>6 DEF Orderly
<1>10. OutType' BY <1>4 DEF Orderly
<1> QED BY <1>8, <1>9, <1>10 DEF InOrder

LEMMA OtherKeepsOrder ==
  ASSUME InOrder, UNCHANGED outVars
  PROVE  InOrder'
<1>1. UNCHANGED <<left, begun, char, ch, screen>> /\ ofifo' = ofifo /\ pc' = pc /\ reg' = reg
  BY DEF outVars
<1>2. OutType' BY <1>1 DEF InOrder, OutType
<1>3. Active' = Active BY <1>1 DEF Active
<1>4. Quiet' = Quiet BY <1>1 DEF Quiet
<1>5. ASSUME NEW t \in Active PROVE OnTheWay(t)'
  <2>1. OnTheWay(t) BY DEF InOrder
  <2> QED BY <1>1, <2>1 DEF OnTheWay, AtNext, AtPut, AtShow, NextOf
<1> QED BY <1>2, <1>3, <1>4, <1>5 DEF InOrder

LEMMA ReadKeepsOrder ==
  ASSUME InOrder, Turns, InFits', NEW r \in Reader, Read(r)
  PROVE  InOrder'
<1>1. UNCHANGED <<begun, char, ch, screen, ofifo, reg>> /\ pc[r] = "done" /\ r \in Writer
  BY DEF Read
<1>2. \/ left' = [left EXCEPT ![r] = <<<<inCh'[r]>>>>] /\ pc' = [pc EXCEPT ![r] = "begin"]
      \/ left' = left /\ pc' = pc
  BY DEF Read, GoTo
<1>3. \A u \in Writer : u # r => left'[u] = left[u] /\ pc'[u] = pc[u]
  BY <1>1, <1>2 DEF InOrder, OutType, Turns
<1>4. left' \in [Writer -> Seq(Seq(OutChar))]
  <2>1. inCh'[r] \in OutChar BY DEF InFits, InType, OutChar
  <2>2. <<inCh'[r]>> \in Seq(OutChar) BY <2>1
  <2>3. <<<<inCh'[r]>>>> \in Seq(Seq(OutChar)) BY <2>2
  <2> QED BY <1>1, <1>2, <2>3 DEF InOrder, OutType
<1>5. OutType' BY <1>1, <1>4 DEF InOrder, OutType
<1>6. Active' = Active
  <2>1. pc'[r] \in {"begin", "done"} BY <1>1, <1>2 DEF Turns
  <2> QED BY <1>1, <1>3, <2>1 DEF Active
<1>7. Quiet' = Quiet BY <1>1 DEF Quiet
<1>8. ASSUME NEW t \in Active PROVE OnTheWay(t)'
  <2>1. OnTheWay(t) /\ t # r /\ t \in Writer BY <1>1 DEF InOrder, Active
  <2>2. left'[t] = left[t] /\ pc'[t] = pc[t] BY <1>3, <2>1
  <2> QED BY <1>1, <2>1, <2>2 DEF OnTheWay, AtNext, AtPut, AtShow, NextOf
<1> QED BY <1>5, <1>6, <1>7, <1>8 DEF InOrder

LEMMA InitInOrder == ASSUME Init PROVE InOrder
<1>1. /\ scene \in Scene /\ ofifo = FifoInit(ObufSize) /\ left = scene.calls
      /\ char = [t \in Writer |-> Junk] /\ ch = [t \in Writer |-> Junk]
      /\ screen = <<>> /\ begun = <<>>
      /\ \A t \in Writer : pc[t] \in {"begin", "done"}
  BY DEF Init, OutInit
<1>2. left \in [Writer -> Seq(Seq(OutChar))]
  <2>1. left \in [Writer -> Seq(Seq(Char))] BY <1>1, CallsAssumption
  <2>2. Char \subseteq OutChar BY DEF OutChar, RingChar
  <2>3. Seq(Char) \subseteq Seq(OutChar) BY <2>2
  <2>4. Seq(Seq(Char)) \subseteq Seq(Seq(OutChar)) BY <2>3
  <2> QED BY <2>1, <2>4
<1>3. OutType
  <2>1. <<>> \in Seq(OutChar) /\ <<>> \in Seq(Seq(OutChar)) OBVIOUS
  <2> QED BY <1>1, <1>2, <2>1, OutChars DEF OutType
<1>4. Quiet BY <1>1, OutChars, OneOfEach, RingStarts DEF Quiet
<1>5. Active = {} BY <1>1 DEF Active
<1> QED BY <1>3, <1>4, <1>5 DEF InOrder

LEMMA NextKeepsOrder ==
  ASSUME Protected => Tokens /\ InOrder, Turns, OutWaits, InFits', [Next]_termVars
  PROVE  (Protected => InOrder)'
<1>1. SUFFICES ASSUME Protected' PROVE InOrder' OBVIOUS
<1>2. Protected BY <1>1, ProtectedBefore
<1>3. Tokens /\ InOrder BY <1>2
<1>4. CASE UseKey \/ KeyboardInterrupt \/ UNCHANGED termVars
  <2>1. UNCHANGED outVars BY <1>4 DEF UseKey, KeyboardInterrupt, termVars
  <2> QED BY <1>3, <2>1, OtherKeepsOrder
<1>5. ASSUME NEW r \in Reader, Read(r) PROVE InOrder' BY <1>3, <1>5, ReadKeepsOrder
<1>6. ASSUME NEW t \in Writer, Write(t) PROVE InOrder'
  <2>1. WriteStep(t) /\ scene' = scene BY <1>6 DEF Write
  <2> QED BY <1>2, <1>3, <2>1, WriteKeepsOrder
<1> QED BY <1>4, <1>5, <1>6 DEF Next

LEMMA WayIsBehindScreen ==
  ASSUME OutType, NEW t \in Writer, pc \in [Writer -> OutLabel], t \in Active, OnTheWay(t)
  PROVE  \E e \in Seq(OutChar) : Expanded(begun) = screen \o e
<1>1. PICK x \in Seq(OutChar) : x = Expanded(left[t])
  <2>1. Expanded(left[t]) \in Seq(OutChar) BY OutChars, CallsType DEF OutType
  <2> QED BY <2>1
<1>2. CASE pc[t] \in {"next"} \cup PutLabel
  <2>1. Expanded(begun) = screen \o x BY <1>1, <1>2 DEF OnTheWay, AtNext, AtPut
  <2> QED BY <2>1
<1>3. CASE pc[t] \in ShowLabel
  <2>1. PICK q \in Seq(OutChar) : AtShow(t, q) BY <1>3 DEF OnTheWay
  <2>2. PICK p \in Seq(OutChar) : p = IF pc[t] \in {"getCheck", "getFetch"} THEN q ELSE <<ch[t]>> \o q
    <3>1. ch[t] \in OutChar BY DEF OutType
    <3>2. <<ch[t]>> \o q \in Seq(OutChar) BY <3>1
    <3> QED BY <3>2
  <2>3. Expanded(begun) = screen \o (p \o x) BY <1>1, <2>1, <2>2 DEF AtShow
  <2>4. p \o x \in Seq(OutChar) OBVIOUS
  <2> QED BY <2>3, <2>4
<1>4. pc[t] \in {"next"} \cup PutLabel \cup ShowLabel
  BY DEF Active, OutLabel, PutLabel, ShowLabel
<1> QED BY <1>2, <1>3, <1>4

LEMMA StartIsPrefix ==
  ASSUME NEW S, NEW s \in Seq(S), NEW e \in Seq(S)
  PROVE  IsPrefix(s, s \o e)
<1>1. SubSeq(s, 1, Len(s)) = s OBVIOUS
<1>2. SubSeq(s \o e, 1, Len(s)) = s OBVIOUS
<1>3. Len(s) <= Len(s \o e) OBVIOUS
<1> QED BY <1>1, <1>2, <1>3 DEF IsPrefix

(* As long as writers hold the mutex of log_printf, or one task writes,    *)
(* the screen has the texts of the calls one after the other as they       *)
(* began, each character once and a carriage return before each line feed, *)
(* at every point of tty_write and console_write, for any calls, any       *)
(* number of writers and any size of the buffer.                           *)
THEOREM LinesNeverMix == Spec => []LinesDoNotMix
<1>1. Init => Turns /\ (Protected => Tokens /\ InOrder)
  BY InitTurns, InitHasTokens, InitInOrder
<1>2. Turns /\ (Protected => Tokens /\ InOrder) /\ OutWaits /\ InFits' /\ [Next]_termVars
        => (Turns /\ (Protected => Tokens /\ InOrder))'
  BY NextKeepsTurns, NextKeepsTokens, NextKeepsOrder
<1>3. Turns /\ (Protected => Tokens /\ InOrder) => LinesDoNotMix
  <2> SUFFICES ASSUME Turns, InOrder PROVE ScreenInOrder BY DEF LinesDoNotMix
  <2>1. OutType /\ pc \in [Writer -> OutLabel] /\ screen \in Seq(OutChar) BY DEF InOrder, Turns, OutType
  <2>2. (\A t \in Writer : pc[t] = "done") => screen = Expanded(begun)
    BY DEF InOrder, Active, Quiet
  <2>3. \E e \in Seq(OutChar) : Expanded(begun) = screen \o e
    <3>1. CASE Active = {}
      <4>1. Expanded(begun) = screen BY <3>1 DEF InOrder, Quiet
      <4>2. screen \o <<>> = screen /\ <<>> \in Seq(OutChar) BY <2>1
      <4> QED BY <4>1, <4>2
    <3>2. ASSUME NEW t \in Active PROVE \E e \in Seq(OutChar) : Expanded(begun) = screen \o e
      <4>1. t \in Writer /\ OnTheWay(t) BY DEF InOrder, Active
      <4> QED BY <2>1, <4>1, WayIsBehindScreen
    <3> QED BY <3>1, <3>2
  <2>4. IsPrefix(screen, Expanded(begun))
    <3>1. PICK e \in Seq(OutChar) : Expanded(begun) = screen \o e BY <2>3
    <3>2. IsPrefix(screen, screen \o e) BY <2>1, StartIsPrefix
    <3> QED BY <3>1, <3>2
  <2> QED BY <2>2, <2>4 DEF ScreenInOrder
<1> QED BY <1>1, <1>2, <1>3, WaitsHold, InFitsHolds, PTL DEF Spec

=============================================================================
