----------------------------- MODULE BootProofs -----------------------------
(***************************************************************************)
(* The start of the kernel for any layout of its image, any size of pages  *)
(* and tables, and any machine.                                            *)
(***************************************************************************)
EXTENDS Boot, KListProofs

(* Sizes added up. *)
Sums(f, size, n) == f = [i \in 0 .. n |-> IF i = 0 THEN 0 ELSE f[i - 1] + size[i]]

LEMMA SumsExist ==
  ASSUME NEW size, NEW n \in Nat
  PROVE  \E f : Sums(f, size, n)
<1> DEFINE Bad == {m \in Nat : ~ \E f : Sums(f, size, m)}
<1> SUFFICES ASSUME Bad # {} PROVE FALSE OBVIOUS
<1>1. PICK m \in Bad : \A k \in Bad : ~ (k < m)
  <2>1. Bad \subseteq Nat OBVIOUS
  <2> HIDE DEF Bad
  <2> QED BY <2>1, LeastNumber
<1>2. m \in Nat /\ ~ \E f : Sums(f, size, m) OBVIOUS
<1>3. CASE m = 0
  <2> DEFINE f == [i \in 0 .. 0 |-> 0]
  <2>1. f = [i \in 0 .. 0 |-> IF i = 0 THEN 0 ELSE f[i - 1] + size[i]] OBVIOUS
  <2>2. Sums(f, size, 0)
    <3> HIDE DEF f
    <3> QED BY <2>1 DEF Sums
  <2> QED BY <1>2, <1>3, <2>2
<1>4. CASE m # 0
  <2>1. m - 1 \in Nat /\ m - 1 < m BY <1>2, <1>4
  <2>2. m - 1 \notin Bad BY <1>1, <2>1
  <2>3. PICK g : Sums(g, size, m - 1) BY <2>1, <2>2
  <2> DEFINE Step(h, i) == IF i = 0 THEN 0 ELSE h[i - 1] + size[i]
             f == [i \in 0 .. m |-> IF i = m THEN Step(g, m) ELSE g[i]]
  <2>4. \A i \in 0 .. m - 1 : g[i] = Step(g, i) BY <2>3 DEF Sums
  <2>5. ASSUME NEW i \in 0 .. m PROVE f[i] = Step(f, i)
    <3>1. f[i] = Step(g, i)
      <4>1. f[i] = IF i = m THEN Step(g, m) ELSE g[i] OBVIOUS
      <4>2. i # m => i \in 0 .. m - 1 BY <1>2
      <4> HIDE DEF f, Step
      <4> QED BY <2>4, <4>1, <4>2
    <3>2. i # 0 => f[i - 1] = g[i - 1] BY <1>2
    <3>3. Step(f, i) = Step(g, i)
      <4> HIDE DEF f
      <4> QED BY <3>2
    <3> QED BY <3>1, <3>3
  <2>6. f = [i \in 0 .. m |-> f[i]] OBVIOUS
  <2>7. f = [i \in 0 .. m |-> Step(f, i)]
    <3> HIDE DEF f, Step
    <3> QED BY <2>5, <2>6
  <2>8. Sums(f, size, m)
    <3> HIDE DEF f
    <3> QED BY <2>7 DEF Sums
  <2> QED BY <1>2, <2>8
<1> QED BY <1>3, <1>4

LEMMA SumIs ==
  ASSUME NEW size, NEW n \in Nat
  PROVE  \E f : Sums(f, size, n) /\ SumOf(size, n) = f[n]
<1> DEFINE F == CHOOSE f : f = [i \in 0 .. n |-> IF i = 0 THEN 0 ELSE f[i - 1] + size[i]]
<1>1. \E f : Sums(f, size, n) BY SumsExist
<1>2. F = [i \in 0 .. n |-> IF i = 0 THEN 0 ELSE F[i - 1] + size[i]]
  BY <1>1, Zenon DEF Sums
<1>3. SumOf(size, n) = F[n] BY Zenon DEF SumOf
<1>4. Sums(F, size, n)
  <2> HIDE DEF F
  <2> QED BY <1>2 DEF Sums
<1> HIDE DEF F
<1> QED BY <1>3, <1>4

SameUpTo(s, u, n) == \A i \in 1 .. n : s[i] = u[i]

(* A sum depends only on what is added up. *)
LEMMA SumsAgree ==
  ASSUME NEW s, NEW u, NEW n \in Nat, NEW m \in Nat, n <= m, SameUpTo(s, u, n),
         NEW f, Sums(f, s, n), NEW g, Sums(g, u, m)
  PROVE  f[n] = g[n]
<1> DEFINE Bad == {i \in 0 .. n : f[i] # g[i]}
<1>0. n \in 0 .. n OBVIOUS
<1> SUFFICES ASSUME Bad # {} PROVE FALSE BY <1>0
<1>1. PICK k \in Bad : \A i \in Bad : ~ (i < k)
  <2>1. Bad \subseteq Nat OBVIOUS
  <2> HIDE DEF Bad
  <2> QED BY <2>1, LeastNumber
<1>2. k \in 0 .. n /\ f[k] # g[k] OBVIOUS
<1>3. f[k] = IF k = 0 THEN 0 ELSE f[k - 1] + s[k]
  <2> HIDE DEF Bad
  <2> QED BY <1>2 DEF Sums
<1>4. g[k] = IF k = 0 THEN 0 ELSE g[k - 1] + u[k]
  <2>1. k \in 0 .. m BY <1>2
  <2> HIDE DEF Bad
  <2> QED BY <2>1 DEF Sums
<1>5. k # 0
  <2> HIDE DEF Bad
  <2> QED BY <1>2, <1>3, <1>4
<1>6. s[k] = u[k]
  <2>1. k \in 1 .. n BY <1>2, <1>5
  <2> HIDE DEF Bad
  <2> QED BY <2>1 DEF SameUpTo
<1>7. f[k - 1] = g[k - 1]
  <2>1. k - 1 \in 0 .. n /\ k - 1 < k BY <1>2, <1>5
  <2>2. k - 1 \notin Bad BY <1>1, <2>1
  <2> QED BY <2>1, <2>2
<1> HIDE DEF Bad
<1> QED BY <1>2, <1>3, <1>4, <1>5, <1>6, <1>7

LEMMA SumSame ==
  ASSUME NEW s, NEW u, NEW n \in Nat, SameUpTo(s, u, n)
  PROVE  SumOf(s, n) = SumOf(u, n)
<1>1. PICK f : Sums(f, s, n) /\ SumOf(s, n) = f[n] BY SumIs
<1>2. PICK g : Sums(g, u, n) /\ SumOf(u, n) = g[n] BY SumIs
<1>3. n <= n OBVIOUS
<1> QED BY <1>1, <1>2, <1>3, SumsAgree

LEMMA SumOfNone == ASSUME NEW s PROVE SumOf(s, 0) = 0
<1>1. PICK f : Sums(f, s, 0) /\ SumOf(s, 0) = f[0] BY SumIs
<1> QED BY <1>1 DEF Sums

LEMMA SumOfOneMore ==
  ASSUME NEW s, NEW n \in Nat
  PROVE  SumOf(s, n + 1) = SumOf(s, n) + s[n + 1]
<1> DEFINE m == n + 1
<1>0. m \in Nat /\ n <= m /\ m \in 0 .. m /\ m # 0 /\ m - 1 = n OBVIOUS
<1> HIDE DEF m
<1>1. PICK f : Sums(f, s, n) /\ SumOf(s, n) = f[n] BY SumIs
<1>2. PICK g : Sums(g, s, m) /\ SumOf(s, m) = g[m] BY <1>0, SumIs
<1>3. SameUpTo(s, s, n) BY DEF SameUpTo
<1>4. f[n] = g[n] BY <1>0, <1>1, <1>2, <1>3, SumsAgree
<1>5. g[m] = g[n] + s[m] BY <1>0, <1>2 DEF Sums
<1> QED BY <1>1, <1>2, <1>4, <1>5 DEF m

LEMMA SumType ==
  ASSUME NEW s, NEW n \in Nat, \A i \in 1 .. n : s[i] \in Nat
  PROVE  SumOf(s, n) \in Nat
<1> DEFINE Bad == {m \in 0 .. n : SumOf(s, m) \notin Nat}
<1>0. n \in 0 .. n OBVIOUS
<1> SUFFICES ASSUME Bad # {} PROVE FALSE BY <1>0
<1>1. PICK m \in Bad : \A k \in Bad : ~ (k < m)
  <2>1. Bad \subseteq Nat OBVIOUS
  <2> HIDE DEF Bad
  <2> QED BY <2>1, LeastNumber
<1>2. m \in 0 .. n /\ SumOf(s, m) \notin Nat OBVIOUS
<1>3. m # 0 BY <1>2, SumOfNone
<1> DEFINE k == m - 1
<1>4. k \in Nat /\ k \in 0 .. n /\ k < m /\ m = k + 1 /\ s[m] \in Nat BY <1>2, <1>3
<1>5. SumOf(s, k) \in Nat BY <1>1, <1>4
<1> HIDE DEF Bad, k
<1>6. SumOf(s, m) = SumOf(s, k) + s[m] BY <1>4, SumOfOneMore
<1> QED BY <1>2, <1>4, <1>5, <1>6

-----------------------------------------------------------------------------
(* What the loader hears of. *)
Sizes(r) == [i \in DOMAIN r |-> r[i].size]

LEMMA OneMoreRegion ==
  ASSUME NEW r \in Seq(Entry), NEW e \in Entry
  PROVE  /\ Append(r, e) \in Seq(Entry)
         /\ SumOf(Sizes(Append(r, e)), Len(Append(r, e))) = SumOf(Sizes(r), Len(r)) + e.size
<1> DEFINE u == Append(r, e)
           n == Len(r)
<1>1. u \in Seq(Entry) /\ n \in Nat /\ Len(u) = n + 1 /\ DOMAIN r = 1 .. n /\ DOMAIN u = 1 .. n + 1
      /\ u[n + 1] = e /\ \A i \in 1 .. n : u[i] = r[i]
  OBVIOUS
<1> HIDE DEF u, n
<1>2. SameUpTo(Sizes(r), Sizes(u), n) BY <1>1 DEF SameUpTo, Sizes
<1>3. Sizes(u)[n + 1] = e.size BY <1>1 DEF Sizes
<1>4. SumOf(Sizes(u), n + 1) = SumOf(Sizes(u), n) + e.size BY <1>1, <1>3, SumOfOneMore
<1>5. SumOf(Sizes(u), n) = SumOf(Sizes(r), n) BY <1>1, <1>2, SumSame
<1> QED BY <1>1, <1>4, <1>5 DEF u, n

LEMMA Kept32 ==
  ASSUME NEW e \in Entry
  PROVE  /\ e.size % Wrap \in Nat
         /\ [e EXCEPT !.size = e.size % Wrap] \in Entry
         /\ [e EXCEPT !.size = e.size % Wrap].size = e.size % Wrap
<1>1. Wrap \in Nat \ {0} /\ e.size \in Nat BY BootAssumption DEF Entry
<1>2. PICK k \in Nat : k = e.size % Wrap BY <1>1
<1> QED BY <1>2 DEF Entry

LEMMA ToldType ==
  ASSUME NEW m \in Machine
  PROVE  /\ Told(m) \in Nat /\ m.map \in Seq(Entry)
         /\ \A i \in DOMAIN m.map : m.map[i] \in Entry /\ Heard(m)[i] \in Nat
<1>1. m.map \in Seq(Entry) BY MachineAssumption
<1>2. \A i \in DOMAIN m.map : m.map[i] \in Entry BY <1>1
<1>3. \A i \in DOMAIN m.map : Heard(m)[i] \in Nat
  <2> SUFFICES ASSUME NEW i \in DOMAIN m.map PROVE Heard(m)[i] \in Nat OBVIOUS
  <2>1. m.map[i].size % Wrap \in Nat BY <1>2, Kept32
  <2> QED BY <2>1 DEF Heard
<1>4. PICK n \in Nat : n = IF Len(m.map) < RegionMax THEN Len(m.map) ELSE RegionMax
  BY <1>1, BootAssumption
<1>5. n <= Len(m.map) /\ DOMAIN m.map = 1 .. Len(m.map) BY <1>1, <1>4, BootAssumption
<1>6. SumOf(Heard(m), n) \in Nat
  <2>1. \A i \in 1 .. n : Heard(m)[i] \in Nat BY <1>1, <1>3, <1>5
  <2> QED BY <2>1, SumType
<1> QED BY <1>1, <1>2, <1>3, <1>4, <1>6 DEF Told

(* While it asks, the loader has the entries behind it; then it has what   *)
(* it hears of: if the last entry is not ignored, it does not begin again. *)
Listened ==
  /\ pc = "detect" =>
       /\ calls \in Nat /\ calls <= RegionMax /\ calls <= Len(machine.map)
       /\ contID = calls + 1
       /\ SumOf(Sizes(regions), Len(regions)) = SumOf(Heard(machine), calls)
  /\ pc # "detect" => SumOf(Sizes(regions), Len(regions)) = Told(machine)

Detected ==
  /\ machine \in Machine
  /\ regions \in Seq(Entry)
  /\ contID \in Nat \ {0}
  /\ OnePiece(machine) => Listened

LEMMA InitDetected == ASSUME Init PROVE Detected
<1>1. machine \in Machine /\ regions = <<>> /\ pc = "detect" /\ calls = 0 /\ contID = 1
  BY DEF Init
<1>2. Len(machine.map) \in Nat BY <1>1, ToldType
<1>3. <<>> \in Seq(Entry) /\ Len(regions) = 0 BY <1>1
<1>4. Listened BY <1>1, <1>2, <1>3, SumOfNone, BootAssumption DEF Listened
<1> QED BY <1>1, <1>3, <1>4 DEF Detected

LEMMA AskKeepsDetected == ASSUME Detected, AskBios PROVE Detected'
<1> DEFINE entry == machine.map[contID]
           kept == [entry EXCEPT !.size = entry.size % Wrap]
           last == contID = Len(machine.map) /\ machine.marked
           n == calls
<1>1. /\ machine \in Machine /\ regions \in Seq(Entry) /\ pc = "detect"
      /\ contID \in Nat \ {0} /\ calls < RegionMax /\ contID <= Len(machine.map)
  BY DEF Detected, AskBios
<1>2. /\ contID' = IF last THEN 1 ELSE contID + 1
      /\ regions' = IF entry.ignored THEN regions ELSE RegionsWith(entry)
      /\ pc' = IF last /\ ~ entry.ignored THEN "init" ELSE "detect"
      /\ calls' = n + 1 /\ machine' = machine
  BY DEF AskBios
<1>3. Len(machine.map) \in Nat /\ contID \in DOMAIN machine.map /\ entry \in Entry
  BY <1>1, ToldType
<1>4. kept \in Entry /\ kept.size = entry.size % Wrap /\ kept.size \in Nat BY <1>3, Kept32
<1>5. regions' = IF entry.usable /\ ~ entry.ignored THEN Append(regions, kept) ELSE regions
  <2> HIDE DEF entry
  <2> QED BY <1>2 DEF RegionsWith
<1>6. /\ regions' \in Seq(Entry)
      /\ SumOf(Sizes(regions'), Len(regions'))
           = SumOf(Sizes(regions), Len(regions))
             + (IF entry.usable /\ ~ entry.ignored THEN kept.size ELSE 0)
  <2>1. Append(regions, kept) \in Seq(Entry)
        /\ SumOf(Sizes(Append(regions, kept)), Len(Append(regions, kept)))
           = SumOf(Sizes(regions), Len(regions)) + kept.size
    <3> HIDE DEF kept
    <3> QED BY <1>1, <1>4, OneMoreRegion
  <2>2. SumOf(Sizes(regions), Len(regions)) \in Nat
    <3>1. \A i \in 1 .. Len(regions) : Sizes(regions)[i] \in Nat
      <4>1. \A i \in 1 .. Len(regions) : i \in DOMAIN regions /\ regions[i] \in Entry BY <1>1
      <4> QED BY <4>1 DEF Sizes, Entry
    <3>2. Len(regions) \in Nat BY <1>1
    <3> QED BY <3>1, <3>2, SumType
  <2>3. CASE entry.usable /\ ~ entry.ignored
    <3> HIDE DEF entry, kept
    <3> QED BY <1>5, <2>1, <2>3
  <2>4. CASE ~ (entry.usable /\ ~ entry.ignored)
    <3> HIDE DEF entry, kept
    <3> QED BY <1>1, <1>5, <2>2, <2>4
  <2> QED BY <2>3, <2>4
<1>7. ASSUME OnePiece(machine) PROVE Listened'
  <2>1. /\ calls \in Nat /\ calls <= Len(machine.map) /\ contID = calls + 1
        /\ SumOf(Sizes(regions), Len(regions)) = SumOf(Heard(machine), n)
    BY <1>1, <1>7 DEF Detected, Listened
  <2>2. last => ~ entry.ignored BY <1>7 DEF OnePiece
  <2>3. SumOf(Heard(machine), n + 1) = SumOf(Heard(machine), n) + Heard(machine)[n + 1]
    BY <2>1, SumOfOneMore
  <2>4. Heard(machine)[n + 1] = IF entry.usable /\ ~ entry.ignored THEN kept.size ELSE 0
    <3> HIDE DEF kept
    <3> QED BY <1>3, <1>4, <2>1 DEF Heard
  <2>5. SumOf(Sizes(regions'), Len(regions')) = SumOf(Heard(machine), n + 1)
    <3> HIDE DEF entry, kept, n
    <3> QED BY <1>6, <2>1, <2>3, <2>4
  <2>6. CASE last
    <3>1. pc' = "init" /\ n + 1 = Len(machine.map) BY <1>2, <2>1, <2>2, <2>6
    <3>2. Told(machine) = SumOf(Heard(machine), n + 1)
      <4>1. (IF Len(machine.map) < RegionMax THEN Len(machine.map) ELSE RegionMax) = n + 1
        BY <1>1, <2>1, <3>1, BootAssumption
      <4> QED BY <4>1 DEF Told
    <3> HIDE DEF entry, kept, last, n
    <3> QED BY <1>2, <2>5, <3>1, <3>2 DEF Listened
  <2>7. CASE ~ last
    <3>1. /\ pc' = "detect" /\ contID' = calls' + 1 /\ calls' \in Nat
          /\ calls' <= Len(machine.map) /\ calls' <= RegionMax
      <4> HIDE DEF entry, last
      <4>1. pc' = "detect" /\ contID' = contID + 1 /\ calls' = calls + 1 BY <1>2, <2>7
      <4>2. calls \in Nat /\ calls < RegionMax /\ contID = calls + 1 /\ contID <= Len(machine.map)
        BY <1>1, <2>1
      <4>3. RegionMax \in Nat BY BootAssumption
      <4> QED BY <4>1, <4>2, <4>3
    <3> HIDE DEF entry, kept, last
    <3> QED BY <1>2, <2>5, <3>1 DEF Listened
  <2> QED BY <2>6, <2>7
<1>8. contID' \in Nat \ {0} BY <1>1, <1>2
<1> HIDE DEF entry, kept, last, n
<1> QED BY <1>1, <1>2, <1>6, <1>7, <1>8 DEF Detected

LEMMA EndKeepsDetected == ASSUME Detected, EndOfMap PROVE Detected'
<1>1. /\ machine \in Machine /\ regions \in Seq(Entry) /\ pc = "detect"
      /\ calls = RegionMax \/ contID > Len(machine.map)
      /\ pc' = "init" /\ machine' = machine /\ regions' = regions /\ contID' = contID
  BY DEF Detected, EndOfMap
<1>2. Len(machine.map) \in Nat BY <1>1, ToldType
<1>3. ASSUME OnePiece(machine) PROVE Listened'
  <2>1. /\ calls \in Nat /\ calls <= RegionMax /\ contID = calls + 1 /\ calls <= Len(machine.map)
        /\ SumOf(Sizes(regions), Len(regions)) = SumOf(Heard(machine), calls)
    BY <1>1, <1>3 DEF Detected, Listened
  <2>2. (IF Len(machine.map) < RegionMax THEN Len(machine.map) ELSE RegionMax) = calls
    BY <1>1, <1>2, <2>1, BootAssumption
  <2>3. Told(machine) = SumOf(Heard(machine), calls) BY <2>2 DEF Told
  <2> QED BY <1>1, <2>1, <2>3 DEF Listened
<1> QED BY <1>1, <1>3 DEF Detected

LEMMA NextKeepsDetected == ASSUME Detected, [Next]_bootVars PROVE Detected'
<1>1. CASE MemoryInit \/ MapPage \/ PagingOn \/ UNCHANGED bootVars
  <2>1. machine' = machine /\ regions' = regions /\ contID' = contID /\ calls' = calls
        /\ (pc = "detect" <=> pc' = "detect")
    BY <1>1 DEF MemoryInit, MapPage, PagingOn, NextArea, bootVars
  <2> QED BY <2>1 DEF Detected, Listened
<1> QED BY <1>1, AskKeepsDetected, EndKeepsDetected DEF Next

-----------------------------------------------------------------------------
(* The layout of the kernel, in pages: the areas come one after the other. *)
First(a) == Down2(KernelMap[a].start)
Behind(a) == Up2(KernelMap[a].end)

LEMMA Rounding ==
  ASSUME NEW a \in Nat
  PROVE  /\ Down2(a) \in Nat /\ Up2(a) \in Nat /\ Down2(a) <= Up2(a)
         /\ Down2(a) * PageSize <= a /\ a < (Down2(a) + 1) * PageSize
         /\ a <= Up2(a) * PageSize /\ Up2(a) * PageSize < a + PageSize
<1>1. PageSize \in Nat \ {0} BY BootAssumption
<1> QED BY <1>1 DEF Down2, Up2

LEMMA RoundingOrder ==
  ASSUME NEW a \in Nat, NEW b \in Nat, a <= b
  PROVE  /\ Down2(a) <= Down2(b)
         /\ b % PageSize = 0 => Up2(a) <= Down2(b) /\ Up2(b) = Down2(b) /\ Down2(b) * PageSize = b
<1>1. PageSize \in Nat \ {0} BY BootAssumption
<1>2. Down2(a) <= Down2(b)
  <2>1. PICK x \in Nat, y \in Nat : x = Down2(a) /\ y = Down2(b) BY Rounding
  <2>2. x * PageSize <= a /\ b < (y + 1) * PageSize BY <2>1, Rounding
  <2>3. x * PageSize < (y + 1) * PageSize BY <1>1, <2>1, <2>2
  <2>4. x < y + 1 BY <1>1, <2>3
  <2> QED BY <2>1, <2>4
<1>3. ASSUME b % PageSize = 0 PROVE Down2(b) * PageSize = b BY <1>1, <1>3 DEF Down2
<1>4. ASSUME b % PageSize = 0 PROVE Up2(a) <= Down2(b)
  <2>1. Up2(a) * PageSize < (Down2(b) + 1) * PageSize
    <3>1. Up2(a) * PageSize < a + PageSize /\ Up2(a) \in Nat /\ Down2(b) \in Nat BY Rounding
    <3>2. Down2(b) * PageSize = b BY <1>3, <1>4
    <3>3. (Down2(b) + 1) * PageSize = b + PageSize BY <1>1, <3>1, <3>2
    <3> QED BY <1>1, <3>1, <3>3
  <2> QED BY <1>1, <2>1, Rounding
<1>5. ASSUME b % PageSize = 0 PROVE Up2(b) = Down2(b)
  <2>1. Up2(b) * PageSize < (Down2(b) + 1) * PageSize
    <3>1. Up2(b) * PageSize < b + PageSize /\ Up2(b) \in Nat /\ Down2(b) \in Nat BY Rounding
    <3>2. Down2(b) * PageSize = b BY <1>3, <1>5
    <3>3. (Down2(b) + 1) * PageSize = b + PageSize BY <1>1, <3>1, <3>2
    <3> QED BY <1>1, <3>1, <3>3
  <2>2. Up2(b) <= Down2(b) BY <1>1, <2>1, Rounding
  <2> QED BY <2>2, Rounding
<1> QED BY <1>2, <1>3, <1>4, <1>5

Area == 1 .. 5

LEMMA Layout ==
  /\ DOMAIN KernelMap = Area /\ Len(KernelMap) = 5
  /\ \A a \in Area : First(a) \in Nat /\ Behind(a) \in Nat /\ First(a) <= Behind(a)
  /\ \A a, b \in Area : a < b => Behind(a) <= First(b)
  /\ \A a \in Area : KernelMap[a].write <=> a # 2
<1>1. /\ DOMAIN KernelMap = Area /\ Len(KernelMap) = 5
      /\ \A a \in Area : KernelMap[a].write <=> a # 2
  BY DEF KernelMap, Area
<1>2. /\ First(1) = Down2(0) /\ First(2) = Down2(TextStart) /\ First(3) = Down2(DataStart)
      /\ First(4) = Down2(DispStart) /\ First(5) = Down2(ExtStart)
      /\ Behind(1) = Up2(TextStart) /\ Behind(2) = Up2(TextEnd) /\ Behind(3) = Up2(EbdaStart)
      /\ Behind(4) = Up2(DispEnd) /\ Behind(5) = Up2(ExtEnd)
  BY DEF First, Behind, KernelMap
<1>3. /\ {0, TextStart, TextEnd, DataStart, EbdaStart, DispStart, DispEnd, ExtStart, ExtEnd} \subseteq Nat
      /\ 0 <= TextStart /\ TextStart <= TextEnd /\ TextEnd <= DataStart /\ DataStart <= EbdaStart
      /\ EbdaStart <= DispStart /\ DispStart <= DispEnd /\ DispEnd <= ExtStart /\ ExtStart <= ExtEnd
      /\ TextStart % PageSize = 0 /\ DataStart % PageSize = 0 /\ EbdaStart % PageSize = 0
      /\ DispStart % PageSize = 0 /\ ExtStart % PageSize = 0
  BY BootAssumption
<1>4. \A a \in Area : First(a) \in Nat /\ Behind(a) \in Nat BY <1>2, <1>3, Rounding DEF Area
<1>5. /\ First(1) <= Behind(1) /\ Behind(1) <= First(2) /\ First(2) <= Behind(2)
      /\ Behind(2) <= First(3) /\ First(3) <= Behind(3) /\ Behind(3) <= First(4)
      /\ First(4) <= Behind(4) /\ Behind(4) <= First(5) /\ First(5) <= Behind(5)
  <2>1. \A x, y \in Nat : x <= y => Down2(x) <= Down2(y) /\ Down2(x) <= Up2(y)
    <3> TAKE x, y \in Nat
    <3> HAVE x <= y
    <3> QED BY Rounding, RoundingOrder
  <2>2. \A x, y \in Nat : x <= y /\ y % PageSize = 0 => Up2(x) <= Down2(y) BY RoundingOrder
  <2>3. Behind(1) <= First(2) /\ Behind(3) <= First(4) BY <1>2, <1>3, <2>2
  <2>4. Behind(2) <= First(3) /\ Behind(4) <= First(5) BY <1>2, <1>3, <2>2
  <2>5. First(1) <= Behind(1) /\ First(2) <= Behind(2) /\ First(3) <= Behind(3) BY <1>2, <1>3, <2>1
  <2>6. First(4) <= Behind(4) /\ First(5) <= Behind(5) BY <1>2, <1>3, <2>1
  <2> QED BY <2>3, <2>4, <2>5, <2>6
<1>6. \A a, b \in Area : a < b => Behind(a) <= First(b) BY <1>4, <1>5 DEF Area
<1>7. \A a \in Area : First(a) <= Behind(a) BY <1>5 DEF Area
<1> QED BY <1>1, <1>4, <1>6, <1>7

LEMMA WritesAreBoolean == \A a \in Area : KernelMap[a].write \in BOOLEAN
<1>1. /\ KernelMap[1].write = TRUE /\ KernelMap[2].write = FALSE /\ KernelMap[3].write = TRUE
      /\ KernelMap[4].write = TRUE /\ KernelMap[5].write = TRUE
  BY DEF KernelMap
<1>2. ASSUME NEW a \in Area PROVE KernelMap[a].write \in BOOLEAN
  <2>1. a = 1 \/ a = 2 \/ a = 3 \/ a = 4 \/ a = 5 BY DEF Area
  <2>2. CASE a = 2 BY <1>1, <2>2
  <2>3. CASE a # 2 BY <1>1, <2>1, <2>3
  <2> QED BY <2>2, <2>3
<1> QED BY <1>2

(* The entries of the directory that are needed, and how many pages there  *)
(* are for their tables.                                                   *)
LEMMA TablesNeeded ==
  /\ IsFiniteSet(Needed) /\ Cardinality(Needed) \in Nat
  /\ \A a \in Area : \A p \in First(a) .. Behind(a) - 1 : p \div EntryCnt \in Needed
<1>1. \A a \in Area : \A p \in First(a) .. Behind(a) - 1 : p \div EntryCnt \in Needed
  BY Layout DEF Needed, TableOf, First, Behind
<1>2. Needed \subseteq 0 .. Behind(5)
  <2>1. SUFFICES ASSUME NEW a \in Area, NEW p \in First(a) .. Behind(a) - 1
                 PROVE  p \div EntryCnt \in 0 .. Behind(5)
    BY Layout DEF Needed, TableOf, First, Behind
  <2>2. p \in Nat /\ p <= Behind(5) /\ Behind(5) \in Nat
    <3>1. 5 \in Area /\ a \in Nat BY DEF Area
    <3>2. a < 5 => Behind(a) <= First(5) BY <3>1, Layout
    <3>3. a = 5 \/ a < 5 BY DEF Area
    <3> QED BY <3>1, <3>2, <3>3, Layout
  <2>3. EntryCnt \in Nat \ {0} BY BootAssumption
  <2> QED BY <2>2, <2>3
<1>3. IsFiniteSet(0 .. Behind(5))
  <2>1. Behind(5) \in Nat BY Layout DEF Area
  <2> QED BY <2>1, FS_Interval
<1> QED BY <1>1, <1>2, <1>3, FS_Subset, FS_CardinalityType

LEMMA Distribute ==
  ASSUME NEW x \in Nat, NEW f \in Nat, NEW n \in Nat
  PROVE  (x + f) * n = x * n + f * n /\ f * n \in Nat
OBVIOUS

(* What memory_init counts, on any machine and on one whose memory is in   *)
(* one piece.                                                              *)
LEMMA FramesAreThere ==
  ASSUME Detected, NEW f, f = Down2((TotalMemSize - ExtStart) % Wrap)
  PROVE  /\ f \in Nat
         /\ pc # "detect" /\ OnePiece(machine) => ExtStart + f * PageSize <= Told(machine)
<1> DEFINE sum == SumOf(Sizes(regions), Len(regions))
<1>1. Wrap \in Nat \ {0} /\ ExtStart \in Nat /\ PageSize \in Nat \ {0} BY BootAssumption
<1>2. sum \in Nat /\ TotalMemSize = sum % Wrap
  <2>1. \A i \in 1 .. Len(regions) : i \in DOMAIN regions /\ regions[i] \in Entry
    BY DEF Detected
  <2>2. \A i \in 1 .. Len(regions) : Sizes(regions)[i] \in Nat BY <2>1 DEF Sizes, Entry
  <2>3. Len(regions) \in Nat BY DEF Detected
  <2>4. sum \in Nat BY <2>2, <2>3, SumType
  <2> QED BY <2>4 DEF TotalMemSize, Sizes
<1> HIDE DEF sum
<1>3. PICK d \in Nat : d = (TotalMemSize - ExtStart) % Wrap
  <2>1. TotalMemSize \in Nat BY <1>1, <1>2
  <2>2. TotalMemSize - ExtStart \in Int BY <1>1, <2>1
  <2> QED BY <1>1, <2>2
<1>4. f \in Nat /\ f * PageSize <= d /\ f * PageSize \in Nat
  <2>1. f = Down2(d) BY <1>3
  <2>2. f \in Nat /\ f * PageSize <= d BY <2>1, Rounding
  <2> QED BY <1>1, <2>2
<1>5. ASSUME pc # "detect", OnePiece(machine) PROVE ExtStart + f * PageSize <= Told(machine)
  <2>1. sum = Told(machine) BY <1>5 DEF Detected, Listened, sum
  <2>2. ExtStart <= sum /\ sum < Wrap BY <1>5, <2>1 DEF OnePiece
  <2>3. sum % Wrap = sum BY <1>1, <1>2, <2>2
  <2>4. PICK e \in Nat : e = sum - ExtStart /\ e < Wrap BY <1>1, <1>2, <2>2
  <2>5. e % Wrap = e BY <1>1, <2>4
  <2>6. d = sum - ExtStart BY <1>2, <1>3, <2>3, <2>4, <2>5
  <2> QED BY <1>1, <1>2, <1>4, <2>1, <2>6
<1> QED BY <1>4, <1>5

-----------------------------------------------------------------------------
(* What has been mapped, and the tables for it. *)
InArea(a, p) == p \in First(a) .. Behind(a) - 1

Done == {p \in Nat : \E a \in Area : InArea(a, p) /\ (a < area \/ (a = area /\ p < page))}

PageMap(p) == [to |-> p, write |-> ~ InArea(2, p)]

Tables ==
  /\ DOMAIN tables = {p \div EntryCnt : p \in DOMAIN mapped}
  /\ IsFiniteSet(used) /\ used \subseteq 0 .. frameCnt - 1
  /\ IsFiniteSet(DOMAIN tables) /\ Cardinality(used) = Cardinality(DOMAIN tables)
  /\ {tables[i] : i \in DOMAIN tables} = {PageOf(f) : f \in used}

Enough == Cardinality(Needed) <= frameCnt

(* Some tables may be missing when there is not Enough for them. *)
Mapping ==
  /\ pc \in {"detect", "init", "map", "on", "halt"}
  /\ pc = "halt" => KernelEnd + (frameCnt + 7) \div 8 >= EbdaStart
  /\ frameCnt \in Nat
  /\ area \in 1 .. 6
  /\ area \in Area => page \in First(area) .. Behind(area)
  /\ pc \in {"detect", "init"} => area = 1 /\ page = 0 /\ used = {} /\ tables = <<>>
  /\ pc \in {"map", "on"} /\ OnePiece(machine) => ExtStart + frameCnt * PageSize <= Told(machine)
  /\ pc = "on" => area = 6
  /\ DOMAIN mapped \subseteq Done /\ (Enough => DOMAIN mapped = Done)
  /\ \A p \in DOMAIN mapped : mapped[p] = PageMap(p)
  /\ Tables

BootInv == Detected /\ Mapping

LEMMA PageMapIs ==
  ASSUME NEW p
  PROVE  PageMap(p).to = p /\ (PageMap(p).write <=> ~ InArea(2, p))
BY DEF PageMap

LEMMA InitMapping == ASSUME Init PROVE Mapping
<1>1. /\ pc = "detect" /\ frameCnt = 0 /\ used = {} /\ tables = <<>> /\ mapped = <<>>
      /\ area = 1 /\ page = 0
  BY DEF Init
<1>2. First(1) = 0 /\ Behind(1) \in Nat
  <2>1. First(1) = 0 \div PageSize BY DEF First, KernelMap, Down2
  <2> QED BY <2>1, Layout, BootAssumption DEF Area
<1>3. Done = {}
  <2> SUFFICES ASSUME NEW p \in Nat, NEW a \in Area, InArea(a, p), a < 1 \/ (a = 1 /\ p < 0)
               PROVE  FALSE
    BY <1>1 DEF Done
  <2> QED BY DEF Area
<1>4. DOMAIN mapped = {} /\ DOMAIN tables = {} BY <1>1
<1>5. Tables BY <1>1, <1>4, FS_EmptySet DEF Tables
<1> QED BY <1>1, <1>2, <1>3, <1>4, <1>5 DEF Mapping

LEMMA DetectKeepsMapping ==
  ASSUME Mapping, AskBios \/ EndOfMap
  PROVE  Mapping'
<1>1. /\ pc = "detect" /\ pc' \in {"detect", "init"}
      /\ UNCHANGED <<machine, frameCnt, used, tables, mapped, area, page>>
  BY DEF AskBios, EndOfMap
<1>2. Tables' BY <1>1 DEF Mapping, Tables, PageOf
<1>3. Done' = Done /\ Enough' = Enough BY <1>1 DEF Done, Enough
<1> QED BY <1>1, <1>2, <1>3 DEF Mapping

LEMMA InitKeepsMapping ==
  ASSUME Detected, Mapping, MemoryInit
  PROVE  Mapping'
<1>1. /\ pc = "init" /\ frameCnt' = Down2((TotalMemSize - ExtStart) % Wrap)
      /\ pc' = IF KernelEnd + (frameCnt' + 7) \div 8 < EbdaStart THEN "map" ELSE "halt"
      /\ UNCHANGED <<machine, used, tables, mapped, area, page>>
  BY DEF MemoryInit
<1>2. /\ frameCnt' \in Nat
      /\ OnePiece(machine) => ExtStart + frameCnt' * PageSize <= Told(machine)
  BY <1>1, FramesAreThere
<1>3. /\ pc' \in {"map", "halt"}
      /\ pc' = "halt" => KernelEnd + (frameCnt' + 7) \div 8 >= EbdaStart
  BY <1>1, <1>2, BootAssumption
<1>4. used = {} /\ area = 1 /\ page = 0 BY <1>1 DEF Mapping
<1>5. Tables' BY <1>1, <1>4 DEF Mapping, Tables, PageOf
<1>6. Done' = Done BY <1>1 DEF Done
<1>7. Done = {}
  <2> SUFFICES ASSUME NEW p \in Nat, NEW a \in Area, InArea(a, p), a < 1 \/ (a = 1 /\ p < 0)
               PROVE  FALSE
    BY <1>4 DEF Done
  <2> QED BY DEF Area
<1>8. DOMAIN mapped' = Done' BY <1>1, <1>6, <1>7 DEF Mapping
<1> QED BY <1>1, <1>2, <1>3, <1>4, <1>5, <1>8 DEF Mapping

LEMMA OnKeepsMapping ==
  ASSUME Mapping, PagingOn
  PROVE  Mapping'
<1>1. /\ pc = "map" /\ pc' = "on" /\ area > 5
      /\ UNCHANGED <<machine, frameCnt, used, tables, mapped, area, page>>
  BY Layout DEF PagingOn
<1>2. Tables' BY <1>1 DEF Mapping, Tables, PageOf
<1>3. Done' = Done /\ Enough' = Enough BY <1>1 DEF Done, Enough
<1> QED BY <1>1, <1>2, <1>3 DEF Mapping

(* The page that comes next is not there yet. *)
LEMMA PageIsNew ==
  ASSUME Mapping, area \in Area, page < Behind(area)
  PROVE  page \in Nat /\ InArea(area, page) /\ page \notin DOMAIN mapped
         /\ page \div EntryCnt \in Needed
<1>1. page \in First(area) .. Behind(area) /\ First(area) \in Nat /\ Behind(area) \in Nat
  BY Layout DEF Mapping
<1>2. page \in Nat /\ InArea(area, page) BY <1>1 DEF InArea
<1>3. ASSUME NEW a \in Area, InArea(a, page), a < area \/ (a = area /\ page < page) PROVE FALSE
  <2>1. a < area BY <1>2, <1>3
  <2>2. Behind(a) <= First(area) /\ Behind(a) \in Nat BY <2>1, Layout
  <2> QED BY <1>1, <1>3, <2>2 DEF InArea
<1>4. page \notin DOMAIN mapped BY <1>3 DEF Mapping, Done
<1>5. page \div EntryCnt \in Needed BY <1>2, TablesNeeded DEF InArea
<1> QED BY <1>2, <1>4, <1>5

LEMMA NextAreaKeepsDone ==
  ASSUME Mapping, area \in Area, NextArea
  PROVE  /\ area' \in 1 .. 6 /\ Done \subseteq Done'
         /\ page >= Behind(area) => Done' = Done
         /\ area' \in Area => page' \in First(area') .. Behind(area')
<1>1. /\ page \in First(area) .. Behind(area) /\ area' = area + 1 /\ page \in Nat
      /\ page' = IF area = 5 THEN 0 ELSE First(area + 1)
  BY Layout DEF Mapping, NextArea, First
<1>2. area \in Int BY DEF Area
<1>3. area' \in Area => area # 5 BY <1>1 DEF Area
<1>4. ASSUME NEW p \in Nat, NEW a \in Area, InArea(a, p)
      PROVE  /\ (a < area \/ (a = area /\ p < page)) => (a < area' \/ (a = area' /\ p < page'))
             /\ page >= Behind(area) =>
                  ((a < area' \/ (a = area' /\ p < page')) <=> (a < area \/ (a = area /\ p < page)))
  <2>1. a \in Int /\ First(a) \in Nat /\ Behind(a) \in Nat /\ First(a) <= p /\ p < Behind(a)
    BY <1>4, Layout DEF Area, InArea
  <2>2. a = area' => page' = First(a) BY <1>1, <1>3
  <2> QED BY <1>1, <1>2, <2>1, <2>2
<1>5. Done \subseteq Done' BY <1>4 DEF Done
<1>6. page >= Behind(area) => Done' = Done BY <1>4 DEF Done
<1>7. area' \in Area => page' \in First(area') .. Behind(area')
  BY <1>1, <1>3, Layout
<1> QED BY <1>1, <1>5, <1>6, <1>7 DEF Area

(* There is a frame for every table that is needed. *)
LEMMA FrameForTable ==
  ASSUME Mapping, Enough, NEW i \in Needed, i \notin DOMAIN tables,
         DOMAIN tables \subseteq Needed
  PROVE  Free # {}
<1>1. frameCnt \in Nat /\ Cardinality(Needed) <= frameCnt BY DEF Mapping, Enough
<1>2. /\ IsFiniteSet(used) /\ used \subseteq 0 .. frameCnt - 1
      /\ IsFiniteSet(DOMAIN tables) /\ Cardinality(used) = Cardinality(DOMAIN tables)
  BY DEF Mapping, Tables
<1>3. Cardinality(DOMAIN tables) < Cardinality(Needed)
  <2>1. /\ Cardinality(DOMAIN tables) <= Cardinality(Needed)
        /\ Cardinality(Needed) = Cardinality(DOMAIN tables) => Needed = DOMAIN tables
    BY TablesNeeded, FS_Subset
  <2>2. Cardinality(DOMAIN tables) \in Nat /\ Cardinality(Needed) \in Nat
    BY <1>2, TablesNeeded, FS_CardinalityType
  <2> QED BY <2>1, <2>2
<1>4. Free # {}
  <2>1. SUFFICES ASSUME Free = {} PROVE FALSE OBVIOUS
  <2>2. used = 0 .. frameCnt - 1 BY <1>2, <2>1 DEF Free
  <2>3. Cardinality(used) = frameCnt
    <3>1. 0 \in Int /\ frameCnt - 1 \in Int BY <1>1
    <3>2. Cardinality(0 .. frameCnt - 1) = IF 0 > frameCnt - 1 THEN 0 ELSE frameCnt - 1 - 0 + 1
      BY <3>1, FS_Interval
    <3> QED BY <1>1, <2>2, <3>2
  <2>4. Cardinality(Needed) \in Nat BY TablesNeeded
  <2> QED BY <1>1, <1>2, <1>3, <2>3, <2>4
<1> QED BY <1>4

LEMMA FirstFree == ASSUME Mapping, Free # {} PROVE Min(Free) \in Free
<1>1. Free \subseteq Nat BY DEF Free, Mapping
<1>2. PICK f \in Free : \A g \in Free : ~ (g < f) BY <1>1, LeastNumber
<1>3. \E x \in Free : \A y \in Free : x <= y BY <1>1, <1>2
<1> QED BY <1>3, Zenon DEF Min

(* A table for entry i, in frame f. *)
LEMMA TableAdded ==
  ASSUME Tables, NEW i, i \notin DOMAIN tables, NEW f \in Free, frameCnt' = frameCnt,
         used' = used \cup {f},
         tables' = [j \in DOMAIN tables \cup {i} |-> IF j = i THEN PageOf(f) ELSE tables[j]],
         DOMAIN tables' = {p \div EntryCnt : p \in DOMAIN mapped'}
  PROVE  Tables'
<1>1. /\ IsFiniteSet(used) /\ used \subseteq 0 .. frameCnt - 1
      /\ IsFiniteSet(DOMAIN tables) /\ Cardinality(used) = Cardinality(DOMAIN tables)
      /\ {tables[j] : j \in DOMAIN tables} = {PageOf(g) : g \in used}
  BY DEF Tables
<1>2. f \in 0 .. frameCnt - 1 /\ f \notin used BY DEF Free
<1>3. DOMAIN tables' = DOMAIN tables \cup {i} OBVIOUS
<1>4. IsFiniteSet(used') /\ Cardinality(used') = Cardinality(used) + 1 BY <1>1, <1>2, FS_AddElement
<1>5. IsFiniteSet(DOMAIN tables') /\ Cardinality(DOMAIN tables') = Cardinality(DOMAIN tables) + 1
  BY <1>1, <1>3, FS_AddElement
<1>6. {tables'[j] : j \in DOMAIN tables'} = {tables[j] : j \in DOMAIN tables} \cup {PageOf(f)}
  <2>1. tables'[i] = PageOf(f) /\ \A j \in DOMAIN tables : tables'[j] = tables[j] BY <1>3
  <2> QED BY <1>3, <2>1
<1>7. {PageOf(g) : g \in used'} = {PageOf(g) : g \in used} \cup {PageOf(f)} OBVIOUS
<1>8. {tables'[j] : j \in DOMAIN tables'} = {PageOf(g) : g \in used'} BY <1>1, <1>6, <1>7
<1>9. used' \subseteq 0 .. frameCnt' - 1 BY <1>1, <1>2
<1> QED BY <1>1, <1>4, <1>5, <1>8, <1>9 DEF Tables, PageOf

LEMMA MapKeepsMapping ==
  ASSUME Mapping, MapPage
  PROVE  Mapping'
<1> DEFINE i == page \div EntryCnt
           f == Min(Free)
           w == KernelMap[area].write
<1>0. /\ pc = "map" /\ area \in Area
      /\ UNCHANGED <<machine, frameCnt>>
  BY Layout DEF MapPage, Mapping, Area
<1>a. Enough' = Enough BY <1>0 DEF Enough
<1>1. ASSUME NextArea, UNCHANGED <<pc, used, tables, mapped>>, page >= Behind(area) \/ ~ Enough
      PROVE  Mapping'
  <2>1. /\ area' \in 1 .. 6 /\ Done \subseteq Done'
        /\ page >= Behind(area) => Done' = Done
        /\ area' \in Area => page' \in First(area') .. Behind(area')
    BY <1>0, <1>1, NextAreaKeepsDone
  <2>2. Tables' BY <1>0, <1>1 DEF Mapping, Tables, PageOf
  <2>3. DOMAIN mapped' \subseteq Done' /\ (Enough' => DOMAIN mapped' = Done')
    BY <1>a, <1>1, <2>1 DEF Mapping
  <2> QED BY <1>0, <1>1, <2>1, <2>2, <2>3 DEF Mapping
<1>2. CASE page >= Behind(area)
  <2>1. NextArea /\ UNCHANGED <<pc, used, tables, mapped>> BY <1>2 DEF MapPage, Behind
  <2> QED BY <1>1, <1>2, <2>1
<1>3. CASE ~ (page >= Behind(area))
  <2>0. page < Behind(area) /\ Behind(area) \in Nat
    <3>1. page \in First(area) .. Behind(area) /\ First(area) \in Nat /\ Behind(area) \in Nat
      BY <1>0, Layout DEF Mapping
    <3> QED BY <1>3, <3>1
  <2>1. page \in Nat /\ InArea(area, page) /\ page \notin DOMAIN mapped /\ i \in Needed
    BY <1>0, <2>0, PageIsNew
  <2>2. DOMAIN tables \subseteq Needed
    <3>1. DOMAIN tables = {p \div EntryCnt : p \in DOMAIN mapped} /\ DOMAIN mapped \subseteq Done
      BY DEF Mapping, Tables
    <3> QED BY <3>1, TablesNeeded DEF Done, InArea
  <2>3. CASE i \notin DOMAIN tables /\ Free = {}
    <3>1. NextArea /\ UNCHANGED <<pc, used, tables, mapped>> BY <1>3, <2>3 DEF MapPage, Behind
    <3>2. ~ Enough
      <4> HIDE DEF i
      <4> QED BY <2>1, <2>2, <2>3, FrameForTable
    <3> QED BY <1>1, <3>1, <3>2
  <2>4. CASE ~ (i \notin DOMAIN tables /\ Free = {})
    <3>1. /\ IF i \in DOMAIN tables THEN UNCHANGED <<used, tables>>
             ELSE /\ used' = used \cup {f}
                  /\ tables' = [j \in DOMAIN tables \cup {i} |-> IF j = i THEN PageOf(f) ELSE tables[j]]
          /\ mapped' = [v \in DOMAIN mapped \cup {page} |->
                          IF v = page THEN [to |-> page, write |-> w] ELSE mapped[v]]
          /\ page' = page + 1 /\ UNCHANGED <<pc, area>>
      BY <1>3, <2>1, <2>4 DEF MapPage, Behind
    <3>2. /\ DOMAIN mapped' = DOMAIN mapped \cup {page}
          /\ \A p \in DOMAIN mapped : mapped'[p] = mapped[p]
          /\ mapped'[page] = [to |-> page, write |-> w]
      BY <2>1, <3>1
    <3>3. Done' = Done \cup {page}
      <4>1. ASSUME NEW p \in Nat, NEW a \in Area, InArea(a, p)
            PROVE  (a < area \/ (a = area /\ p < page + 1))
                     <=> (a < area \/ (a = area /\ p < page)) \/ (a = area /\ p = page)
        BY <2>1, <4>1
      <4>2. Done' = {p \in Nat : \E a \in Area : InArea(a, p)
                                   /\ (a < area \/ (a = area /\ p < page + 1))}
        BY <3>1 DEF Done
      <4> QED BY <1>0, <2>1, <4>1, <4>2 DEF Done
    <3>4. DOMAIN mapped' \subseteq Done' /\ (Enough' => DOMAIN mapped' = Done')
      BY <1>a, <3>2, <3>3 DEF Mapping
    <3>5. \A p \in DOMAIN mapped' : mapped'[p] = PageMap(p)
      <4>1. w = ~ InArea(2, page)
        <5>1. w <=> area # 2 BY <1>0, Layout
        <5>2. ASSUME area # 2 PROVE ~ InArea(2, page)
          <6>1. 2 \in Area /\ (area < 2 \/ 2 < area) BY <1>0, <5>2 DEF Area
          <6>2. Behind(area) <= First(2) \/ Behind(2) <= First(area) BY <1>0, <6>1, Layout DEF Area
          <6> QED BY <1>0, <2>1, <6>2, Layout DEF InArea, Area
        <5>3. w \in BOOLEAN BY <1>0, WritesAreBoolean
        <5> HIDE DEF w
        <5> QED BY <2>1, <5>1, <5>2, <5>3
      <4> QED BY <3>2, <4>1 DEF Mapping, PageMap
    <3>6. {p \div EntryCnt : p \in DOMAIN mapped'} = DOMAIN tables \cup {i}
      BY <3>2 DEF Mapping, Tables
    <3>7. Tables'
      <4>1. CASE i \in DOMAIN tables
        <5>1. used' = used /\ tables' = tables /\ frameCnt' = frameCnt BY <1>0, <3>1, <4>1
        <5> QED BY <3>6, <4>1, <5>1 DEF Mapping, Tables, PageOf
      <4>2. CASE i \notin DOMAIN tables
        <5>1. used' = used \cup {f} /\ f \in Free /\ frameCnt' = frameCnt
              /\ tables' = [j \in DOMAIN tables \cup {i} |-> IF j = i THEN PageOf(f) ELSE tables[j]]
          <6>1. f \in Free BY <2>4, <4>2, FirstFree
          <6> QED BY <1>0, <3>1, <4>2, <6>1
        <5>2. DOMAIN tables' = {p \div EntryCnt : p \in DOMAIN mapped'} BY <3>6, <5>1
        <5> HIDE DEF i, f
        <5> QED BY <4>2, <5>1, <5>2, TableAdded DEF Mapping
      <4> QED BY <4>1, <4>2
    <3>8. page' \in First(area) .. Behind(area)
      <4>1. page \in First(area) .. Behind(area) /\ First(area) \in Nat BY <1>0, Layout DEF Mapping
      <4> QED BY <2>0, <3>1, <4>1
    <3> HIDE DEF i, f, w
    <3> QED BY <1>0, <3>1, <3>4, <3>5, <3>7, <3>8 DEF Mapping
  <2> QED BY <2>3, <2>4
<1> QED BY <1>2, <1>3

LEMMA NextKeepsMapping == ASSUME Detected, Mapping, [Next]_bootVars PROVE Mapping'
<1>1. CASE UNCHANGED bootVars
  <2>1. UNCHANGED <<pc, machine, frameCnt, used, tables, mapped, area, page>> BY <1>1 DEF bootVars
  <2>2. Done' = Done /\ Enough' = Enough BY <2>1 DEF Done, Enough
  <2>3. Tables' BY <2>1 DEF Mapping, Tables, PageOf
  <2> QED BY <2>1, <2>2, <2>3 DEF Mapping
<1> QED BY <1>1, DetectKeepsMapping, InitKeepsMapping, MapKeepsMapping, OnKeepsMapping DEF Next

-----------------------------------------------------------------------------
(* When paging is on. *)
LEMMA FramesAreMemory ==
  ASSUME Detected, Mapping, pc = "on", OnePiece(machine), NEW f \in 0 .. frameCnt - 1
  PROVE  IsRam(PageOf(f))
<1>1. machine \in Machine BY DEF Detected
<1>2. PICK n \in Nat : n = frameCnt /\ ExtStart + n * PageSize <= Told(machine) BY DEF Mapping
<1>3. PageSize \in Nat \ {0} /\ ExtStart \in Nat BY BootAssumption
<1>4. PICK x \in Nat : x = Down2(ExtStart) /\ x * PageSize = ExtStart
  BY <1>3, RoundingOrder, BootAssumption, Rounding
<1>5. f \in Nat /\ f + 1 <= n /\ PageOf(f) = x + f BY <1>2, <1>4 DEF PageOf
<1>6. PICK j \in DOMAIN machine.map :
        /\ machine.map[j].usable /\ machine.map[j].start <= ExtStart
        /\ Told(machine) <= machine.map[j].start + machine.map[j].size
  BY DEF OnePiece
<1>7. machine.map[j].start \in Nat /\ machine.map[j].size \in Nat /\ Told(machine) \in Nat
  <2>1. machine.map[j] \in Entry BY <1>1, ToldType
  <2> QED BY <1>1, <2>1, ToldType DEF Entry
<1>8. machine.map[j].start <= (x + f) * PageSize
  <2>1. (x + f) * PageSize = x * PageSize + f * PageSize /\ f * PageSize \in Nat
    BY <1>3, <1>5, Distribute
  <2> QED BY <1>3, <1>4, <1>6, <1>7, <2>1
<1>9. (x + f + 1) * PageSize <= Told(machine) /\ (x + f + 1) * PageSize \in Nat
  <2>1. PICK g \in Nat : g = f + 1 /\ g <= n BY <1>5
  <2>2. x + f + 1 = x + g BY <1>5, <2>1
  <2>3. (x + g) * PageSize = ExtStart + g * PageSize /\ g * PageSize \in Nat
    BY <1>3, <1>4, Distribute
  <2>4. g * PageSize <= n * PageSize /\ n * PageSize \in Nat BY <1>3, <2>1
  <2> QED BY <1>2, <1>3, <1>7, <2>2, <2>3, <2>4
<1>10. (x + f + 1) * PageSize <= machine.map[j].start + machine.map[j].size
  BY <1>6, <1>7, <1>9
<1> QED BY <1>5, <1>6, <1>8, <1>10 DEF IsRam

(* The pages of the bitmap belong to the last area, or to none. *)
LEMMA FramesReached ==
  ASSUME Mapping, pc = "on", Enough, NEW f \in 0 .. frameCnt - 1
  PROVE  /\ PageOf(f) \in DOMAIN mapped <=> PageOf(f) < Down2(ExtEnd)
         /\ ~ InArea(2, PageOf(f))
<1>1. area = 6 /\ DOMAIN mapped = Done /\ f \in Nat BY DEF Mapping
<1>2. First(5) = Down2(ExtStart) /\ Behind(5) = Up2(ExtEnd) BY DEF First, Behind, KernelMap
<1>3. First(5) \in Nat /\ Behind(5) \in Nat BY Layout DEF Area
<1>4. PICK p \in Nat : p = PageOf(f) /\ p >= First(5) BY <1>1, <1>2, <1>3 DEF PageOf
<1>5. Behind(5) = Down2(ExtEnd) BY <1>2, RoundingOrder, BootAssumption
<1>6. ASSUME NEW a \in Area, a < 5 PROVE ~ InArea(a, p)
  <2>1. Behind(a) <= First(5) /\ Behind(a) \in Nat BY <1>6, Layout DEF Area
  <2> QED BY <1>3, <1>4, <2>1 DEF InArea
<1>7. p \in Done <=> InArea(5, p) BY <1>1, <1>6 DEF Done, Area
<1>8. InArea(5, p) <=> p < Behind(5) BY <1>3, <1>4 DEF InArea
<1>9. ~ InArea(2, p) BY <1>6 DEF Area
<1> QED BY <1>1, <1>4, <1>5, <1>7, <1>8, <1>9

LEMMA KernelIsReached ==
  ASSUME Mapping, pc = "on", Enough, NEW p \in 0 .. Down2(EbdaStart) - 1
  PROVE  p \in DOMAIN mapped \/ (p >= Up2(TextEnd) /\ p < Down2(DataStart))
<1>1. area = 6 /\ p \in Nat BY DEF Mapping
<1>2. /\ First(1) = Down2(0) /\ Behind(1) = Up2(TextStart) /\ First(2) = Down2(TextStart)
      /\ Behind(2) = Up2(TextEnd) /\ First(3) = Down2(DataStart) /\ Behind(3) = Up2(EbdaStart)
  BY DEF First, Behind, KernelMap
<1>3. Down2(0) = 0 BY BootAssumption DEF Down2
<1>4. Behind(1) = First(2) /\ Behind(3) = Down2(EbdaStart)
  BY <1>2, RoundingOrder, BootAssumption
<1>5. \A a \in Area : First(a) \in Nat /\ Behind(a) \in Nat BY Layout
<1>6. \/ InArea(1, p) \/ InArea(2, p) \/ InArea(3, p)
      \/ (p >= Up2(TextEnd) /\ p < Down2(DataStart))
  <2>1. /\ First(1) \in Nat /\ Behind(1) \in Nat /\ First(2) \in Nat /\ Behind(2) \in Nat
        /\ First(3) \in Nat /\ Behind(3) \in Nat
    BY <1>5 DEF Area
  <2> QED BY <1>1, <1>2, <1>3, <1>4, <2>1 DEF InArea
<1>7. \A a \in Area : InArea(a, p) => p \in Done BY <1>1 DEF Done, Area
<1> QED BY <1>6, <1>7 DEF Mapping, Area

(* PagesUsable, for every map that a BIOS may have, in whatever order: of  *)
(* the pages that memory_init has counted, create_kernel_table maps those  *)
(* below ExtEnd and no others, maps the kernel with its code protected,    *)
(* and maps no page twice; and if the memory is in one piece, all pages    *)
(* that are counted are memory.                                            *)
THEOREM PagesAlwaysUsable == Spec => []PagesUsable
<1>1. Init => BootInv BY InitDetected, InitMapping DEF BootInv
<1>2. BootInv /\ [Next]_bootVars => BootInv' BY NextKeepsDetected, NextKeepsMapping DEF BootInv
<1>3. BootInv => PagesUsable
  <2> SUFFICES ASSUME BootInv PROVE PagesUsable OBVIOUS
  <2>0. Detected /\ Mapping BY DEF BootInv
  <2>1. pc = "halt" => KernelEnd + (frameCnt + 7) \div 8 >= EbdaStart BY <2>0 DEF Mapping
  <2>2. /\ {tables[i] : i \in DOMAIN tables} = {PageOf(f) : f \in used}
        /\ used \subseteq 0 .. frameCnt - 1 /\ Cardinality(used) = Cardinality(DOMAIN tables)
    BY <2>0 DEF Mapping, Tables
  <2>3. ASSUME NEW p \in DOMAIN mapped
        PROVE  mapped[p].to = p /\ (mapped[p].write <=> ~ InArea(2, p))
    BY <2>0, PageMapIs DEF Mapping
  <2>4. ASSUME pc = "on", TablesHold, NEW f \in 0 .. frameCnt - 1
        PROVE  /\ Reached(PageOf(f)) <=> PageOf(f) < Down2(ExtEnd)
               /\ Reached(PageOf(f)) => mapped[PageOf(f)].write
    <3>1. Enough BY <2>4 DEF TablesHold, Enough
    <3>2. /\ PageOf(f) \in DOMAIN mapped <=> PageOf(f) < Down2(ExtEnd)
          /\ ~ InArea(2, PageOf(f))
      BY <2>0, <2>4, <3>1, FramesReached
    <3> QED BY <2>3, <3>2 DEF Reached
  <2>5. ASSUME pc = "on", TablesHold, NEW p \in 0 .. Down2(EbdaStart) - 1
        PROVE  /\ Reached(p) \/ (p >= Up2(TextEnd) /\ p < Down2(DataStart))
               /\ Reached(p) =>
                    (mapped[p].write <=> p \notin Down2(TextStart) .. Up2(TextEnd) - 1)
    <3>1. Enough BY <2>5 DEF TablesHold, Enough
    <3>2. p \in DOMAIN mapped \/ (p >= Up2(TextEnd) /\ p < Down2(DataStart))
      BY <2>0, <2>5, <3>1, KernelIsReached
    <3>3. First(2) = Down2(TextStart) /\ Behind(2) = Up2(TextEnd) BY DEF First, Behind, KernelMap
    <3>4. Reached(p) => (mapped[p].write <=> p \notin Down2(TextStart) .. Up2(TextEnd) - 1)
      BY <2>3, <3>3 DEF Reached, InArea
    <3> QED BY <2>3, <3>2, <3>4 DEF Reached
  <2>6. ASSUME pc = "on", OnePiece(machine), NEW f \in 0 .. frameCnt - 1 PROVE IsRam(PageOf(f))
    BY <2>0, <2>6, FramesAreMemory
  <2> QED BY <2>1, <2>2, <2>4, <2>5, <2>6 DEF PagesUsable
<1> QED BY <1>1, <1>2, <1>3, PTL DEF Spec

=============================================================================
