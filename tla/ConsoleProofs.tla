--------------------------- MODULE ConsoleProofs ---------------------------
(***************************************************************************)
(* A console implements a terminal, whatever the size of the screen.  The  *)
(* code keeps rows, columns and offsets into one array; the terminal keeps *)
(* lines and one position.  Division by the number of columns takes one to *)
(* the other.                                                              *)
(***************************************************************************)
EXTENDS Console, Sequences, TLAPS

USE ConsoleAssumption

(* A place on the screen, and its distance from the top left corner. *)
OnScreen(r, c) == r \in 0 .. Rows - 1 /\ c \in 0 .. Cols - 1
Place(r, c) == r * Cols + c

LEMMA PlaceInOffsets ==
  ASSUME NEW r, NEW c, OnScreen(r, c)
  PROVE  /\ Place(r, c) \in Offsets /\ Place(r, c) \in Nat
         /\ r * Cols \in Nat /\ Rows * Cols \in Nat
         /\ (Rows - 1) * Cols = Rows * Cols - Cols
         /\ r * Cols <= Rows * Cols - Cols
         /\ r < Rows - 1 => r * Cols <= Rows * Cols - Cols - Cols
         /\ (r + 1) * Cols = r * Cols + Cols
         /\ (r - 1) * Cols = r * Cols - Cols
         /\ r >= 1 => r * Cols >= Cols
BY DEF OnScreen, Place, Offsets

LEMMA PlaceDivides ==
  ASSUME NEW r, NEW c, OnScreen(r, c)
  PROVE  Place(r, c) \div Cols = r /\ Place(r, c) % Cols = c
BY DEF OnScreen, Place

LEMMA PlaceIsUnique ==
  ASSUME NEW r, NEW c, NEW q, NEW d, OnScreen(r, c), OnScreen(q, d), Place(r, c) = Place(q, d)
  PROVE  r = q /\ c = d
BY PlaceDivides

LEMMA EveryOffsetIsAPlace ==
  ASSUME NEW i \in Offsets
  PROVE  OnScreen(i \div Cols, i % Cols) /\ i = Place(i \div Cols, i % Cols)
BY DEF OnScreen, Place, Offsets

-----------------------------------------------------------------------------
(* The screen as the terminal sees it: its lines, for the characters d. *)
LinesOf(d) == [i \in 1 .. Rows |-> [c \in 0 .. Cols - 1 |-> d[(i - 1) * Cols + c]]]
Blanks == [c \in 0 .. Cols - 1 |-> Blank]
Written(ls, r, c, ch) == [ls EXCEPT ![r + 1][c] = ch]

LEMMA LinesType ==
  ASSUME NEW d \in [Offsets -> Char]
  PROVE  /\ LinesOf(d) \in [1 .. Rows -> [0 .. Cols - 1 -> Char]]
         /\ \A i \in 1 .. Rows, c \in 0 .. Cols - 1 : LinesOf(d)[i][c] = d[Place(i - 1, c)]
<1>1. ASSUME NEW i \in 1 .. Rows, NEW c \in 0 .. Cols - 1
      PROVE  (i - 1) * Cols + c \in Offsets
  <2>1. OnScreen(i - 1, c) BY DEF OnScreen
  <2> QED BY <2>1, PlaceInOffsets DEF Place
<1> QED BY <1>1 DEF LinesOf, Place

(* Two screens of lines are the same when every place has the same. *)
LEMMA SameLines ==
  ASSUME NEW k \in [1 .. Rows -> [0 .. Cols - 1 -> Char]],
         NEW l \in [1 .. Rows -> [0 .. Cols - 1 -> Char]],
         \A i \in 1 .. Rows, c \in 0 .. Cols - 1 : k[i][c] = l[i][c]
  PROVE  k = l
<1>1. ASSUME NEW i \in 1 .. Rows PROVE k[i] = l[i]
  <2>1. k[i] \in [0 .. Cols - 1 -> Char] /\ l[i] \in [0 .. Cols - 1 -> Char] OBVIOUS
  <2> QED BY <2>1
<1> QED BY <1>1

(* One character at an offset is one character in a line. *)
LEMMA WriteInLine ==
  ASSUME NEW d \in [Offsets -> Char], NEW ch \in Char, NEW r, NEW c, OnScreen(r, c)
  PROVE  /\ [d EXCEPT ![Place(r, c)] = ch] \in [Offsets -> Char]
         /\ LinesOf([d EXCEPT ![Place(r, c)] = ch]) = Written(LinesOf(d), r, c, ch)
<1> DEFINE e == [d EXCEPT ![Place(r, c)] = ch]
           ls == LinesOf(d)
           ms == LinesOf(e)
           ns == [ls EXCEPT ![r + 1][c] = ch]
<1>1. Place(r, c) \in Offsets BY PlaceInOffsets
<1>2. e \in [Offsets -> Char] BY <1>1
<1>3. ls \in [1 .. Rows -> [0 .. Cols - 1 -> Char]] /\ ms \in [1 .. Rows -> [0 .. Cols - 1 -> Char]]
  <2> HIDE DEF e
  <2> QED BY <1>2, LinesType
<1>4. r + 1 \in 1 .. Rows /\ c \in 0 .. Cols - 1 BY DEF OnScreen
<1>5. ns \in [1 .. Rows -> [0 .. Cols - 1 -> Char]]
  <2> HIDE DEF ls
  <2> QED BY <1>3, <1>4
<1>6. ASSUME NEW i \in 1 .. Rows, NEW j \in 0 .. Cols - 1 PROVE ms[i][j] = ns[i][j]
  <2>1. OnScreen(i - 1, j) BY DEF OnScreen
  <2>2. ms[i][j] = e[Place(i - 1, j)] /\ ls[i][j] = d[Place(i - 1, j)]
    <3> HIDE DEF e
    <3> QED BY <1>2, LinesType
  <2>3. Place(i - 1, j) \in Offsets BY <2>1, PlaceInOffsets
  <2>4. ns[i][j] = IF i = r + 1 /\ j = c THEN ch ELSE ls[i][j]
    <3> HIDE DEF ls
    <3> QED BY <1>3, <1>4
  <2>5. Place(i - 1, j) = Place(r, c) <=> i = r + 1 /\ j = c
    <3>1. i - 1 = r <=> i = r + 1 BY DEF OnScreen
    <3> QED BY <2>1, <3>1, PlaceIsUnique
  <2> HIDE DEF ms, ns, ls
  <2> QED BY <2>2, <2>3, <2>4, <2>5, <1>1
<1> HIDE DEF ms, ns, e
<1>7. ms = ns BY <1>3, <1>5, <1>6, SameLines
<1> QED BY <1>2, <1>7 DEF ms, ns, e, Written

(* Scrolling loses the first line and adds an empty one. *)
LEMMA ScrollUpDropsLine ==
  ASSUME NEW d \in [Offsets -> Char]
  PROVE  /\ ScrollUp(d) \in [Offsets -> Char]
         /\ LinesOf(ScrollUp(d)) = Append(Tail(LinesOf(d)), Blanks)
<1> DEFINE up == [i \in Offsets |-> IF i + Cols \in Offsets THEN d[i + Cols] ELSE d[i]]
           e == ScrollUp(d)
           ls == LinesOf(d)
           ms == LinesOf(e)
           ns == Append(Tail(ls), Blanks)
           Line1 == [0 .. Cols - 1 -> Char]
<1>1. up \in [Offsets -> Char] OBVIOUS
<1>2. /\ e \in [Offsets -> Char]
      /\ \A i \in Offsets : e[i] = IF i >= Cols * (Rows - 1) /\ i < Cols * Rows THEN Blank ELSE up[i]
  <2>1. e = EraseRows(up, Rows - 1, Rows - 1) BY DEF ScrollUp
  <2>2. Rows - 1 + 1 = Rows OBVIOUS
  <2> HIDE DEF e, up
  <2> QED BY <1>1, <2>1, <2>2 DEF EraseRows
<1>3. ls \in [1 .. Rows -> Line1] /\ ms \in [1 .. Rows -> Line1]
  <2> HIDE DEF e
  <2> QED BY <1>2, LinesType
<1>4. Blanks \in Line1 BY DEF Blanks
<1>5. ls \in Seq(Line1) /\ Len(ls) = Rows /\ ls # <<>>
  <2> HIDE DEF ls, Line1
  <2> QED BY <1>3
<1>6. /\ ns \in [1 .. Rows -> Line1]
      /\ \A i \in 1 .. Rows : ns[i] = IF i = Rows THEN Blanks ELSE ls[i + 1]
  <2> HIDE DEF ls, Line1, Blanks
  <2>1. Tail(ls) \in Seq(Line1) /\ Len(Tail(ls)) = Rows - 1 BY <1>5
  <2>2. \A i \in 1 .. Rows - 1 : Tail(ls)[i] = ls[i + 1] BY <1>5
  <2>3. ns \in Seq(Line1) /\ Len(ns) = Rows BY <1>4, <2>1
  <2>4. \A i \in 1 .. Rows : ns[i] = IF i = Rows THEN Blanks ELSE Tail(ls)[i] BY <2>1
  <2>5. \A i \in 1 .. Rows : i # Rows => i \in 1 .. Rows - 1 OBVIOUS
  <2>6. \A i \in 1 .. Rows : ns[i] = IF i = Rows THEN Blanks ELSE ls[i + 1]
    <3> HIDE DEF ns
    <3> QED BY <2>2, <2>4, <2>5, Zenon
  <2> HIDE DEF ns
  <2>7. ns \in [1 .. Rows -> Line1] BY <2>3
  <2> QED BY <2>6, <2>7
<1>7. ASSUME NEW i \in 1 .. Rows, NEW j \in 0 .. Cols - 1 PROVE ms[i][j] = ns[i][j]
  <2>1. OnScreen(i - 1, j) BY DEF OnScreen
  <2>2. ms[i][j] = e[Place(i - 1, j)]
    <3> HIDE DEF e
    <3> QED BY <1>2, LinesType
  <2>3. Place(i - 1, j) \in Offsets BY <2>1, PlaceInOffsets
  <2>4. CASE i = Rows
    <3>1. Place(i - 1, j) >= Cols * (Rows - 1) /\ Place(i - 1, j) < Cols * Rows
      BY <2>4 DEF Place
    <3>2. e[Place(i - 1, j)] = Blank BY <1>2, <2>3, <3>1
    <3>3. ns[i][j] = Blank
      <4> HIDE DEF ns
      <4> QED BY <1>6, <2>4 DEF Blanks
    <3> HIDE DEF ms, ns, e
    <3> QED BY <2>2, <3>2, <3>3
  <2>5. CASE i # Rows
    <3>1. OnScreen(i, j) BY <2>5 DEF OnScreen
    <3>2. Place(i, j) = Place(i - 1, j) + Cols BY DEF Place
    <3>3. Place(i, j) \in Offsets BY <3>1, PlaceInOffsets
    <3>4. ~ (Place(i - 1, j) >= Cols * (Rows - 1))
      <4>1. i - 1 < Rows - 1 /\ i - 1 \in Nat BY <2>5
      <4>2. Place(i - 1, j) < Cols * (Rows - 1) BY <4>1, <2>5 DEF Place
      <4> QED BY <4>2, <2>3 DEF Offsets
    <3>5. e[Place(i - 1, j)] = up[Place(i - 1, j)]
      <4> HIDE DEF e, up
      <4> QED BY <1>2, <2>3, <3>4
    <3>6. up[Place(i - 1, j)] = d[Place(i, j)] BY <2>3, <3>2, <3>3
    <3>7. ls[i + 1][j] = d[Place(i + 1 - 1, j)]
      <4>1. PICK k \in 1 .. Rows : k = i + 1 BY <2>5
      <4>2. \A k0 \in 1 .. Rows, c0 \in 0 .. Cols - 1 : ls[k0][c0] = d[Place(k0 - 1, c0)]
        BY LinesType
      <4> HIDE DEF ls
      <4>3. ls[k][j] = d[Place(k - 1, j)] BY <4>2
      <4> QED BY <4>1, <4>3
    <3>8. i + 1 - 1 = i OBVIOUS
    <3>9. ns[i] = ls[i + 1]
      <4> HIDE DEF ns, ls
      <4> QED BY <1>6, <2>5
    <3> HIDE DEF ms, ns, e, up, ls
    <3> QED BY <2>2, <3>5, <3>6, <3>7, <3>8, <3>9
  <2> QED BY <2>4, <2>5
<1> HIDE DEF ms, ns, e
<1>8. ms = ns BY <1>3, <1>6, <1>7, SameLines
<1> QED BY <1>2, <1>8 DEF ms, ns, e

(* Erasing all rows leaves empty lines. *)
LEMMA EraseAllRows ==
  ASSUME NEW d \in [Offsets -> Char]
  PROVE  /\ EraseRows(d, 0, Rows - 1) \in [Offsets -> Char]
         /\ LinesOf(EraseRows(d, 0, Rows - 1)) = [i \in 1 .. Rows |-> Blanks]
<1> DEFINE e == EraseRows(d, 0, Rows - 1)
<1>1. \A i \in Offsets : i >= Cols * 0 /\ i < Cols * (Rows - 1 + 1)
  <2>1. Cols * (Rows - 1 + 1) = Rows * Cols /\ Cols * 0 = 0 OBVIOUS
  <2> QED BY <2>1 DEF Offsets
<1>2. e = [i \in Offsets |-> Blank] BY <1>1 DEF EraseRows
<1>3. e \in [Offsets -> Char] BY <1>2
<1>4. ASSUME NEW i \in 1 .. Rows, NEW c \in 0 .. Cols - 1
      PROVE  e[(i - 1) * Cols + c] = Blank
  <2>1. OnScreen(i - 1, c) BY DEF OnScreen
  <2>2. (i - 1) * Cols + c \in Offsets BY <2>1, PlaceInOffsets DEF Place
  <2> HIDE DEF e
  <2> QED BY <1>2, <2>2
<1> HIDE DEF e
<1>5. LinesOf(e) = [i \in 1 .. Rows |-> Blanks] BY <1>4 DEF LinesOf, Blanks
<1> QED BY <1>3, <1>5 DEF e

-----------------------------------------------------------------------------
(* What the cursor movements do, in places. *)
Screens == [row : 0 .. Rows - 1, col : 0 .. Cols - 1, disp : [Offsets -> Char]]
At(s) == Place(s.row, s.col)
LastPlace == Rows * Cols - 1

LEMMA AtIsPlace ==
  ASSUME NEW s \in Screens
  PROVE  /\ OnScreen(s.row, s.col) /\ s.disp \in [Offsets -> Char]
         /\ At(s) \in 0 .. LastPlace /\ LastPlace \in Nat
         /\ At(s) \div Cols = s.row /\ At(s) % Cols = s.col
<1>1. OnScreen(s.row, s.col) /\ s.disp \in [Offsets -> Char] BY DEF OnScreen, Screens
<1>2. Place(s.row, s.col) \in Offsets /\ Rows * Cols \in Nat BY <1>1, PlaceInOffsets
<1>3. Place(s.row, s.col) \div Cols = s.row /\ Place(s.row, s.col) % Cols = s.col
  BY <1>1, PlaceDivides
<1> QED BY <1>1, <1>2, <1>3 DEF At, LastPlace, Offsets

LEMMA NextLineGoesDown ==
  ASSUME NEW s \in Screens
  PROVE  /\ MoveNextLine(s) \in Screens
         /\ MoveNextLine(s).col = s.col
         /\ s.row < Rows - 1 => /\ MoveNextLine(s).row = s.row + 1
                               /\ MoveNextLine(s).disp = s.disp
         /\ s.row = Rows - 1 => /\ MoveNextLine(s).row = s.row
                               /\ MoveNextLine(s).disp = ScrollUp(s.disp)
<1>1. s.disp \in [Offsets -> Char] BY DEF Screens
<1>2. PICK d : d = ScrollUp(s.disp) OBVIOUS
<1>3. d \in [Offsets -> Char] BY <1>1, <1>2, ScrollUpDropsLine
<1> QED BY <1>2, <1>3 DEF Screens, MoveNextLine

LEMMA ForwardIsNextPlace ==
  ASSUME NEW s \in Screens
  PROVE  /\ MoveForward(s) \in Screens
         /\ At(s) < LastPlace => At(MoveForward(s)) = At(s) + 1 /\ MoveForward(s).disp = s.disp
         /\ At(s) = LastPlace => /\ At(MoveForward(s)) = (Rows - 1) * Cols
                                /\ MoveForward(s).disp = ScrollUp(s.disp)
<1>1. CASE s.col + 1 < Cols
  <2>1. MoveForward(s) = [s EXCEPT !.col = s.col + 1] BY <1>1 DEF MoveForward, Screens
  <2>2. PICK t : t = MoveForward(s) OBVIOUS
  <2>3. t \in Screens /\ t.row = s.row /\ t.col = s.col + 1 /\ t.disp = s.disp
    BY <1>1, <2>1, <2>2 DEF Screens
  <2>4. At(t) = At(s) + 1 BY <2>3 DEF At, Place, Screens
  <2>5. At(t) <= LastPlace /\ At(s) \in Nat /\ LastPlace \in Nat BY <2>3, AtIsPlace
  <2> QED BY <2>2, <2>3, <2>4, <2>5
<1>2. CASE s.col + 1 >= Cols
  <2> DEFINE z == [s EXCEPT !.col = 0]
  <2>1. s.col = Cols - 1 /\ s.row \in 0 .. Rows - 1 BY <1>2 DEF Screens
  <2>2. z \in Screens /\ z.row = s.row /\ z.col = 0 /\ z.disp = s.disp BY DEF Screens
  <2>3. PICK t : t = MoveForward(s) OBVIOUS
  <2>4. t = MoveNextLine(z) BY <1>2, <2>3 DEF MoveForward, Screens
  <2> HIDE DEF z
  <2>5. t \in Screens /\ t.col = 0 BY <2>2, <2>4, NextLineGoesDown
  <2>6. CASE s.row < Rows - 1
    <3>1. t.row = s.row + 1 /\ t.disp = s.disp BY <2>2, <2>4, <2>6, NextLineGoesDown
    <3>2. At(t) = At(s) + 1 BY <2>1, <2>5, <3>1 DEF At, Place
    <3>3. At(t) <= LastPlace /\ At(s) \in Nat /\ LastPlace \in Nat BY <2>5, AtIsPlace
    <3> QED BY <2>3, <2>5, <3>1, <3>2, <3>3
  <2>7. CASE s.row = Rows - 1
    <3>1. t.row = Rows - 1 /\ t.disp = ScrollUp(s.disp) BY <2>2, <2>4, <2>7, NextLineGoesDown
    <3>2. At(t) = (Rows - 1) * Cols BY <2>5, <3>1 DEF At, Place
    <3>3. At(s) = LastPlace BY <2>1, <2>7 DEF At, Place, LastPlace
    <3>4. LastPlace \in Nat BY AtIsPlace
    <3> QED BY <2>3, <2>5, <3>1, <3>2, <3>3, <3>4
  <2> QED BY <2>1, <2>6, <2>7
<1> QED BY <1>1, <1>2 DEF Screens

LEMMA BackIsPlaceBefore ==
  ASSUME NEW s \in Screens
  PROVE  /\ MoveBackword(s) \in Screens /\ MoveBackword(s).disp = s.disp
         /\ CanMoveBack(s) <=> At(s) > 0
         /\ At(s) > 0 => At(MoveBackword(s)) = At(s) - 1
         /\ At(s) = 0 => MoveBackword(s) = s
<1>1. At(s) = s.row * Cols + s.col /\ s.row \in Nat /\ s.col \in Nat /\ At(s) \in Nat
  BY AtIsPlace DEF At, Place, Screens
<1>2. PICK t : t = MoveBackword(s) OBVIOUS
<1>3. CASE s.col > 0
  <2>1. t = [s EXCEPT !.col = s.col - 1] BY <1>2, <1>3 DEF MoveBackword
  <2>2. t \in Screens /\ t.row = s.row /\ t.col = s.col - 1 /\ t.disp = s.disp
    BY <1>3, <2>1 DEF Screens
  <2>3. At(t) = At(s) - 1 BY <1>1, <2>2 DEF At, Place
  <2>4. At(s) > 0 BY <1>1, <1>3
  <2> QED BY <1>2, <1>3, <2>2, <2>3, <2>4, <1>1 DEF CanMoveBack
<1>4. CASE s.col = 0 /\ s.row > 0
  <2>1. t = [s EXCEPT !.row = s.row - 1, !.col = Cols - 1]
    BY <1>2, <1>4 DEF MoveBackword, CanMoveBack
  <2>2. t \in Screens /\ t.row = s.row - 1 /\ t.col = Cols - 1 /\ t.disp = s.disp
    <3>1. PICK r, c : r = s.row - 1 /\ c = Cols - 1 OBVIOUS
    <3>2. r \in 0 .. Rows - 1 /\ c \in 0 .. Cols - 1 BY <1>4, <3>1 DEF Screens
    <3>3. t = [s EXCEPT !.row = r, !.col = c] BY <2>1, <3>1
    <3>4. t \in Screens /\ t.row = r /\ t.col = c /\ t.disp = s.disp BY <3>2, <3>3 DEF Screens
    <3> QED BY <3>1, <3>4
  <2>3. At(t) = At(s) - 1 BY <1>1, <1>4, <2>2 DEF At, Place
  <2>4. At(s) > 0 BY <1>1, <1>4
  <2> QED BY <1>2, <1>4, <2>2, <2>3, <2>4, <1>1 DEF CanMoveBack
<1>5. CASE s.col = 0 /\ s.row = 0
  <2>1. t = s /\ ~ CanMoveBack(s) BY <1>2, <1>5 DEF MoveBackword, CanMoveBack
  <2>2. At(s) = 0 BY <1>1, <1>5
  <2> QED BY <1>2, <2>1, <2>2
<1> QED BY <1>1, <1>3, <1>4, <1>5

(* Writing at the cursor. *)
LEMMA ShowWrites ==
  ASSUME NEW s \in Screens, NEW ch \in Char
  PROVE  LET t == ShowChar(s, ch)
             written == Written(LinesOf(s.disp), s.row, s.col, ch)
         IN  /\ t \in Screens
             /\ At(s) < LastPlace => At(t) = At(s) + 1 /\ LinesOf(t.disp) = written
             /\ At(s) = LastPlace => /\ At(t) = (Rows - 1) * Cols
                                    /\ LinesOf(t.disp) = Append(Tail(written), Blanks)
<1> DEFINE w == [s EXCEPT !.disp[Offset(s)] = ch]
<1>1. OnScreen(s.row, s.col) /\ s.disp \in [Offsets -> Char] BY AtIsPlace
<1>2. Offset(s) = Place(s.row, s.col) BY <1>1 DEF Offset, Place, OnScreen
<1>3. PICK d : d = [s.disp EXCEPT ![Place(s.row, s.col)] = ch] OBVIOUS
<1>4. d \in [Offsets -> Char] /\ LinesOf(d) = Written(LinesOf(s.disp), s.row, s.col, ch)
  <2>1. PICK e, r, c : e = s.disp /\ r = s.row /\ c = s.col OBVIOUS
  <2>2. OnScreen(r, c) /\ e \in [Offsets -> Char] /\ d = [e EXCEPT ![Place(r, c)] = ch]
    BY <1>1, <1>3, <2>1
  <2>3. [e EXCEPT ![Place(r, c)] = ch] \in [Offsets -> Char] BY <2>2, WriteInLine
  <2>4. LinesOf([e EXCEPT ![Place(r, c)] = ch]) = Written(LinesOf(e), r, c, ch)
    BY <2>2, WriteInLine
  <2>5. LinesOf(d) = Written(LinesOf(e), r, c, ch) BY <2>2, <2>4
  <2> QED BY <2>1, <2>2, <2>3, <2>5
<1>5. w \in Screens /\ w.row = s.row /\ w.col = s.col /\ w.disp = d
  BY <1>2, <1>3, <1>4 DEF Screens
<1>6. At(w) = At(s) BY <1>5 DEF At
<1>7. PICK t : t = ShowChar(s, ch) OBVIOUS
<1>8. t = MoveForward(w) BY <1>7 DEF ShowChar
<1> HIDE DEF w
<1>9. t \in Screens BY <1>5, <1>8, ForwardIsNextPlace
<1>10. At(s) < LastPlace => At(t) = At(s) + 1 /\ t.disp = d
  BY <1>5, <1>6, <1>8, ForwardIsNextPlace
<1>11. At(s) = LastPlace => At(t) = (Rows - 1) * Cols /\ t.disp = ScrollUp(d)
  BY <1>5, <1>6, <1>8, ForwardIsNextPlace
<1>12. LinesOf(ScrollUp(d)) = Append(Tail(LinesOf(d)), Blanks) BY <1>4, ScrollUpDropsLine
<1> QED BY <1>4, <1>7, <1>9, <1>10, <1>11, <1>12

-----------------------------------------------------------------------------
(* The types of the variables, and no parameter behind the current one     *)
(* that is left over from an earlier sequence.                             *)
ConsoleType ==
  /\ state \in {"normal", "esc", "square"}
  /\ row \in Int /\ col \in Int /\ old \in Int \X Int
  /\ disp \in [Offsets -> Char]
  /\ param \in [ParamIdx -> Nat] /\ idx \in Nat

NothingLeftOver == state = "square" => \A j \in ParamIdx : j > idx => param[j] = 0

ConsoleInv == ConsoleType /\ NothingLeftOver

(* What the terminal sees of the console. *)
SeenLines == [i \in 1 .. Rows |-> Line(i - 1)]
SeenPos == row * Cols + col

LEMMA Seen ==
  /\ SeenLines = LinesOf(disp) /\ SeenLines' = LinesOf(disp')
  /\ Terminal!Pos = SeenPos
  /\ Terminal!OnScreen <=> OnScreen(row, col)
  /\ OnScreen(row, col) =>
       /\ SeenPos = Place(row, col) /\ SeenPos \in 0 .. LastPlace
       /\ SeenPos \div Cols = row /\ SeenPos % Cols = col
       /\ Terminal!LineStart(SeenPos) = row * Cols
<1>1. SeenLines = LinesOf(disp) /\ SeenLines' = LinesOf(disp') BY DEF SeenLines, Line, LinesOf
<1>2. Terminal!Pos = SeenPos BY DEF Terminal!Pos, SeenPos
<1>3. Terminal!OnScreen <=> OnScreen(row, col) BY DEF Terminal!OnScreen, OnScreen
<1>4. ASSUME OnScreen(row, col)
      PROVE  /\ SeenPos = Place(row, col) /\ SeenPos \in 0 .. LastPlace
             /\ SeenPos \div Cols = row /\ SeenPos % Cols = col
             /\ Terminal!LineStart(SeenPos) = row * Cols
  <2>1. SeenPos = Place(row, col) BY DEF SeenPos, Place
  <2>2. SeenPos \in 0 .. LastPlace
    BY <1>4, <2>1, PlaceInOffsets DEF LastPlace, Offsets
  <2>3. SeenPos \div Cols = row /\ SeenPos % Cols = col BY <1>4, <2>1, PlaceDivides
  <2>4. Terminal!LineStart(SeenPos) = row * Cols
    <3>1. Terminal!LineStart(SeenPos) = SeenPos - col BY <2>3 DEF Terminal!LineStart
    <3>2. PICK m \in Nat : m = row * Cols BY <1>4, PlaceInOffsets
    <3>3. SeenPos = m + col /\ col \in Int BY <1>4, <3>2 DEF SeenPos, OnScreen
    <3> QED BY <3>1, <3>2, <3>3
  <2> QED BY <2>1, <2>2, <2>3, <2>4
<1> QED BY <1>1, <1>2, <1>3, <1>4

(* The last place and the last line, in the words of both. *)
LEMMA LastPlaces ==
  /\ Terminal!LastPos = LastPlace /\ Terminal!BlankLine = Blanks
  /\ Terminal!LineStart(LastPlace) = (Rows - 1) * Cols
<1>1. OnScreen(Rows - 1, Cols - 1) BY DEF OnScreen
<1>2. LastPlace = Place(Rows - 1, Cols - 1) BY DEF LastPlace, Place
<1>3. LastPlace % Cols = Cols - 1 BY <1>1, <1>2, PlaceDivides
<1>4. LastPlace = (Rows - 1) * Cols + Cols - 1 /\ (Rows - 1) * Cols \in Nat
  BY <1>1, <1>2, PlaceInOffsets DEF Place
<1>5. Terminal!LineStart(LastPlace) = (Rows - 1) * Cols BY <1>3, <1>4 DEF Terminal!LineStart
<1> QED BY <1>5 DEF Terminal!LastPos, LastPlace, Terminal!BlankLine, Blanks

(* The numbers of the sequence that is under way. *)
LEMMA NumbersSeen ==
  ASSUME ConsoleInv, state = "square"
  PROVE  /\ Numbers \in Seq(Nat)
         /\ Len(Numbers) = (IF idx < ParamMax THEN idx ELSE ParamMax) + 1
         /\ \A i \in 1 .. Len(Numbers) :
              Numbers[i] = IF i <= ParamMax THEN param[i - 1] ELSE 0
         /\ Terminal!Number(1) = param[0] /\ Terminal!Number(2) = param[1]
         /\ Terminal!Distance = Count
<1> DEFINE n == (IF idx < ParamMax THEN idx ELSE ParamMax) + 1
<1>1. n \in Nat \ {0} /\ n <= ParamMax + 1 BY DEF ConsoleInv, ConsoleType
<1> HIDE DEF n
<1>2. Numbers = [i \in 1 .. n |-> IF i <= ParamMax THEN param[i - 1] ELSE 0]
  BY DEF Numbers, n
<1>3. \A i \in 1 .. n : (IF i <= ParamMax THEN param[i - 1] ELSE 0) \in Nat
  <2>1. \A i \in 1 .. n : i <= ParamMax => i - 1 \in ParamIdx BY <1>1 DEF ParamIdx
  <2> QED BY <2>1 DEF ConsoleInv, ConsoleType
<1>4. /\ Numbers \in Seq(Nat) /\ Len(Numbers) = n
      /\ \A i \in 1 .. n : Numbers[i] = IF i <= ParamMax THEN param[i - 1] ELSE 0
  <2>1. Numbers \in [1 .. n -> Nat] BY <1>2, <1>3
  <2> QED BY <1>1, <1>2, <2>1
<1>5. 0 \in ParamIdx /\ 1 \in ParamIdx /\ ParamMax >= 2 BY DEF ParamIdx
<1>6. Terminal!Number(1) = param[0]
  <2>1. 1 \in 1 .. n BY <1>1
  <2>2. Numbers[1] = param[0] BY <1>4, <1>5, <2>1
  <2>3. 1 <= n BY <2>1
  <2> QED BY <1>4, <2>2, <2>3 DEF Terminal!Number
<1>7. Terminal!Number(2) = param[1]
  <2>1. CASE n >= 2
    <3>1. 2 \in 1 .. n BY <1>1, <2>1
    <3>2. Numbers[2] = param[1] BY <1>4, <1>5, <3>1
    <3> QED BY <1>4, <2>1, <3>2 DEF Terminal!Number
  <2>2. CASE n = 1
    <3>1. idx = 0 BY <2>2, <1>5 DEF n, ConsoleInv, ConsoleType
    <3>2. param[1] = 0 BY <1>5, <3>1 DEF ConsoleInv, NothingLeftOver
    <3>3. ~ (2 <= Len(Numbers)) BY <1>4, <2>2
    <3> QED BY <3>2, <3>3 DEF Terminal!Number
  <2> QED BY <1>1, <2>1, <2>2
<1>8. Terminal!Distance = Count BY <1>6 DEF Terminal!Distance, Count
<1> QED BY <1>4, <1>6, <1>7, <1>8 DEF n

(* Text that leaves the lines ls and the cursor at p. *)
LEMMA TextOnScreen ==
  ASSUME state = "normal", UNCHANGED <<state, old, param, idx>>,
         OnScreen(row', col'), NEW ls, NEW p, LinesOf(disp') = ls, row' * Cols + col' = p
  PROVE  Terminal!Text(ls, p)
<1>1. p = Place(row', col') BY DEF Place
<1>2. p \div Cols = row' /\ p % Cols = col' BY <1>1, PlaceDivides
<1>3. Terminal!PlaceOf(p) = <<row', col'>> BY <1>2 DEF Terminal!PlaceOf
<1>4. SeenLines' = ls BY Seen
<1>5. Numbers' = Numbers BY DEF Numbers
<1> QED BY <1>3, <1>4, <1>5 DEF Terminal!Text, SeenLines

LEMMA TextOffScreen ==
  ASSUME state = "normal", UNCHANGED <<state, old, param, idx>>, ~ OnScreen(row, col), NEW ls, NEW p
  PROVE  Terminal!Text(ls, p)
<1>1. ~ Terminal!OnScreen BY Seen
<1>2. Numbers' = Numbers BY DEF Numbers
<1> QED BY <1>1, <1>2 DEF Terminal!Text

-----------------------------------------------------------------------------
LEMMA TypeInit == Init => ConsoleType
BY DEF Init, ConsoleType, ParamIdx

(* The cursor need not be on the screen for these. *)
AnyScreens == [row : Int, col : Int, disp : [Offsets -> Char]]

LEMMA MovesType ==
  ASSUME NEW s \in AnyScreens
  PROVE  /\ MoveNextLine(s) \in AnyScreens /\ MoveForward(s) \in AnyScreens
         /\ MoveBackword(s) \in AnyScreens
         /\ \A ch \in Char : ShowChar(s, ch) \in AnyScreens
<1>1. ASSUME NEW u \in AnyScreens PROVE MoveNextLine(u) \in AnyScreens
  <2>1. u.disp \in [Offsets -> Char] BY DEF AnyScreens
  <2>2. PICK d : d = ScrollUp(u.disp) OBVIOUS
  <2>3. d \in [Offsets -> Char] BY <2>1, <2>2, ScrollUpDropsLine
  <2> QED BY <2>2, <2>3 DEF AnyScreens, MoveNextLine
<1>2. ASSUME NEW u \in AnyScreens PROVE MoveForward(u) \in AnyScreens
  <2>1. [u EXCEPT !.col = 0] \in AnyScreens /\ [u EXCEPT !.col = @ + 1] \in AnyScreens
    BY DEF AnyScreens
  <2> QED BY <1>1, <2>1 DEF MoveForward
<1>3. MoveBackword(s) \in AnyScreens
  <2>1. [s EXCEPT !.col = @ - 1] \in AnyScreens BY DEF AnyScreens
  <2>2. [s EXCEPT !.row = s.row - 1, !.col = Cols - 1] \in AnyScreens
    <3>1. PICK r, c : r = s.row - 1 /\ c = Cols - 1 OBVIOUS
    <3>2. r \in Int /\ c \in Int BY <3>1 DEF AnyScreens
    <3>3. [s EXCEPT !.row = r, !.col = c] \in AnyScreens BY <3>2 DEF AnyScreens
    <3> QED BY <3>1, <3>3
  <2> QED BY <2>1, <2>2 DEF MoveBackword
<1>4. ASSUME NEW ch \in Char PROVE ShowChar(s, ch) \in AnyScreens
  <2>1. [s EXCEPT !.disp[Offset(s)] = ch] \in AnyScreens BY DEF AnyScreens
  <2> QED BY <1>2, <2>1 DEF ShowChar
<1> QED BY <1>1, <1>2, <1>3, <1>4

LEMMA TypeNext == ConsoleType /\ [Next]_vars => ConsoleType'
<1> SUFFICES ASSUME ConsoleType, [Next]_vars PROVE ConsoleType' OBVIOUS
<1> DEFINE Moved == row' \in Int /\ col' \in Int /\ disp' \in [Offsets -> Char]
           Parsed == /\ state' \in {"normal", "esc", "square"} /\ old' \in Int \X Int
                     /\ param' \in [ParamIdx -> Nat] /\ idx' \in Nat
<1>1. Screen \in AnyScreens BY DEF Screen, AnyScreens, ConsoleType
<1>2. ASSUME NEW t \in AnyScreens, SetScreen(t) PROVE Moved
  BY <1>2 DEF SetScreen, AnyScreens
<1>3. ASSUME NEW t \in AnyScreens, Normal(t) \/ Final(t) PROVE Moved /\ Parsed
  BY <1>2, <1>3 DEF Normal, Final, escVars, ConsoleType
<1>4. Count \in Nat /\ param[0] \in Nat /\ param[1] \in Nat
  BY DEF Count, ParamIdx, ConsoleType
<1>5. ASSUME NEW ch \in Char, Show(ch) PROVE Moved /\ Parsed
  BY <1>1, <1>3, <1>5, MovesType DEF Show
<1>6. ASSUME EraseBackword PROVE Moved /\ Parsed
  <2>1. PICK b, u, t : b = MoveBackword(Screen) /\ u = ShowChar(b, Blank) /\ t = MoveBackword(u)
    OBVIOUS
  <2>2. b \in AnyScreens BY <1>1, <2>1, MovesType
  <2>3. u \in AnyScreens BY <2>1, <2>2, MovesType
  <2>4. t \in AnyScreens BY <2>1, <2>3, MovesType
  <2> QED BY <1>3, <1>6, <2>1, <2>4 DEF EraseBackword
<1>7. ASSUME Backspace PROVE Moved /\ Parsed BY <1>1, <1>3, <1>7, MovesType DEF Backspace
<1>8. ASSUME CarriageReturn \/ LineFeed PROVE Moved /\ Parsed
  <2>1. [Screen EXCEPT !.col = 0] \in AnyScreens BY <1>1 DEF AnyScreens
  <2> QED BY <1>3, <1>8, <2>1, MovesType DEF CarriageReturn, LineFeed
<1>9. ASSUME MoveLeft \/ MoveRight \/ MoveCursor \/ SquareOther PROVE Moved /\ Parsed
  <2>1. PICK n \in Nat : n = Count BY <1>4
  <2>2. ASSUME NEW z \in AnyScreens, NEW k \in Int
        PROVE  [z EXCEPT !.col = k] \in AnyScreens
    BY DEF AnyScreens
  <2>3. ASSUME NEW z \in AnyScreens, NEW j \in Int, NEW k \in Int
        PROVE  [z EXCEPT !.row = j, !.col = k] \in AnyScreens
    BY DEF AnyScreens
  <2>4. Screen.col \in Int BY <1>1 DEF AnyScreens
  <2>5. /\ (IF Screen.col >= Count THEN Screen.col - Count ELSE 0) \in Int
        /\ (IF Screen.col + Count > Cols THEN Cols - 1 ELSE Screen.col + Count) \in Int
    BY <2>1, <2>4
  <2>6. ASSUME MoveLeft PROVE Moved /\ Parsed
    <3>1. PICK k \in Int : k = IF Screen.col >= Count THEN Screen.col - Count ELSE 0 BY <2>5
    <3>2. Final([Screen EXCEPT !.col = k]) BY <2>6, <3>1 DEF MoveLeft
    <3> QED BY <1>1, <1>3, <2>2, <3>2
  <2>7. ASSUME MoveRight PROVE Moved /\ Parsed
    <3>1. PICK k \in Int : k = IF Screen.col + Count > Cols THEN Cols - 1 ELSE Screen.col + Count
      BY <2>5
    <3>2. Final([Screen EXCEPT !.col = k]) BY <2>7, <3>1 DEF MoveRight
    <3> QED BY <1>1, <1>3, <2>2, <3>2
  <2>8. ASSUME MoveCursor PROVE Moved /\ Parsed
    <3>1. PICK j \in Int, k \in Int : j = param[0] - 1 /\ k = param[1] - 1 BY <1>4
    <3>2. Final([Screen EXCEPT !.row = j, !.col = k]) BY <2>8, <3>1 DEF MoveCursor
    <3> QED BY <1>1, <1>3, <2>3, <3>2
  <2> QED BY <1>1, <1>3, <1>9, <2>6, <2>7, <2>8 DEF SquareOther
<1>10. ASSUME EraseInDisplay PROVE Moved /\ Parsed
  <2>1. EraseRows(disp, 0, Rows - 1) \in [Offsets -> Char] BY EraseAllRows DEF ConsoleType
  <2>2. [row |-> 0, col |-> 0, disp |-> EraseRows(disp, 0, Rows - 1)] \in AnyScreens
    BY <2>1 DEF AnyScreens
  <2> QED BY <1>3, <1>10, <2>2 DEF EraseInDisplay
<1>11. ASSUME Escape \/ SaveCursor \/ RestoreCursor \/ SquareBracket \/ EscOther \/ Semicolon
       PROVE  Moved /\ Parsed
  BY <1>11
  DEF Escape, SaveCursor, RestoreCursor, SquareBracket, EscOther, Semicolon, escVars, ConsoleType
<1>12. ASSUME NEW d \in Digit, ParamDigit(d) PROVE Moved /\ Parsed
  <2>1. d \in Nat OBVIOUS
  <2>2. CASE idx < ParamMax
    <3>1. idx \in ParamIdx BY <2>2 DEF ParamIdx, ConsoleType
    <3>2. param[idx] * 10 + d \in Nat BY <2>1, <3>1 DEF ConsoleType
    <3>3. param' = [param EXCEPT ![idx] = param[idx] * 10 + d] /\ idx' = idx
      BY <1>12, <2>2 DEF ParamDigit
    <3>4. param' \in [ParamIdx -> Nat] BY <3>1, <3>2, <3>3 DEF ConsoleType
    <3> QED BY <1>12, <3>3, <3>4 DEF ParamDigit, ConsoleType
  <2>3. CASE ~ (idx < ParamMax)
    BY <1>12, <2>1, <2>3 DEF ParamDigit, ConsoleType
  <2> QED BY <2>2, <2>3
<1>13. ASSUME UNCHANGED vars PROVE Moved /\ Parsed BY <1>13 DEF vars, escVars, ConsoleType
<1> HIDE DEF Moved, Parsed
<1>14. Moved /\ Parsed
  BY <1>5, <1>6, <1>7, <1>8, <1>9, <1>10, <1>11, <1>12, <1>13 DEF Next
<1> QED BY <1>14 DEF ConsoleType, Moved, Parsed

LEMMA NothingLeftOverNext == ConsoleInv /\ [Next]_vars => NothingLeftOver'
<1> SUFFICES ASSUME ConsoleInv, [Next]_vars, state' = "square", NEW j \in ParamIdx, j > idx'
             PROVE  param'[j] = 0
  BY DEF NothingLeftOver, ParamIdx
<1> USE DEF ConsoleInv, ConsoleType
<1>1. ASSUME SquareBracket PROVE param'[j] = 0 BY <1>1 DEF SquareBracket
<1>2. ASSUME Semicolon PROVE param'[j] = 0
  <2>1. j > idx /\ state = "square" /\ param' = param BY <1>2 DEF Semicolon, ParamIdx
  <2> QED BY <2>1 DEF NothingLeftOver
<1>3. ASSUME NEW d \in Digit, ParamDigit(d) PROVE param'[j] = 0
  <2>1. CASE idx < ParamMax
    <3>1. idx' = idx /\ state = "square" BY <1>3, <2>1 DEF ParamDigit
    <3>2. param' = [param EXCEPT ![idx] = param[idx] * 10 + d]
      BY <1>3, <2>1 DEF ParamDigit
    <3>3. j # idx /\ j > idx BY <3>1
    <3>4. param'[j] = param[j] BY <3>2, <3>3
    <3> QED BY <3>1, <3>3, <3>4 DEF NothingLeftOver
  <2>2. CASE ~ (idx < ParamMax)
    <3>1. idx' = idx * 10 + d /\ d \in Nat /\ idx >= ParamMax BY <1>3, <2>2 DEF ParamDigit
    <3>2. idx' >= ParamMax /\ idx' \in Nat BY <3>1
    <3> QED BY <3>2 DEF ParamIdx
  <2> QED BY <2>1, <2>2
<1>4. ASSUME state = "square", param' = param, idx' = idx PROVE param'[j] = 0
  BY <1>4 DEF NothingLeftOver
<1>5. ASSUME UNCHANGED vars PROVE param'[j] = 0 BY <1>4, <1>5 DEF vars, escVars
<1>6. ASSUME \/ \E ch \in Char : Show(ch)
             \/ EraseBackword \/ Backspace \/ CarriageReturn \/ LineFeed \/ Escape
             \/ SaveCursor \/ RestoreCursor \/ EscOther
             \/ MoveLeft \/ MoveRight \/ MoveCursor \/ EraseInDisplay \/ SquareOther
      PROVE  FALSE
  BY <1>6 DEF Show, EraseBackword, Backspace, CarriageReturn, LineFeed, Normal, Escape,
     SaveCursor, RestoreCursor, EscOther, MoveLeft, MoveRight, MoveCursor, EraseInDisplay,
     SquareOther, Final
<1> QED BY <1>1, <1>2, <1>3, <1>5, <1>6 DEF Next

LEMMA InvNext == ConsoleInv /\ [Next]_vars => ConsoleInv'
BY TypeNext, NothingLeftOverNext DEF ConsoleInv

-----------------------------------------------------------------------------
(* Text: each of its actions leaves the lines and the cursor that the      *)
(* terminal says, when the cursor is on the screen.                        *)
LEMMA TextAsTerminal ==
  ASSUME ConsoleInv
  PROVE  /\ \A ch \in Char : Show(ch) => Terminal!Show(ch)
         /\ EraseBackword => Terminal!Delete
         /\ Backspace => Terminal!Backspace
         /\ CarriageReturn => Terminal!CarriageReturn
         /\ LineFeed => Terminal!LineFeed
<1> DEFINE s == Screen
           Kept == state = "normal" /\ UNCHANGED <<state, old, param, idx>>
<1>1. ASSUME NEW t, Normal(t) PROVE Kept BY <1>1 DEF Normal, escVars
<1>2. CASE ~ OnScreen(row, col)
  <2>1. ASSUME Kept, NEW ls, NEW p PROVE Terminal!Text(ls, p) BY <1>2, <2>1, TextOffScreen
  <2>2. ~ Terminal!OnScreen BY <1>2, Seen
  <2>3. ASSUME NEW ch \in Char, Show(ch) PROVE Terminal!Show(ch)
    <3>1. Kept BY <1>1, <2>3 DEF Show
    <3> QED BY <2>1, <3>1 DEF Terminal!Show
  <2>4. ASSUME EraseBackword PROVE Terminal!Delete
    <3>1. Kept BY <1>1, <2>4 DEF EraseBackword
    <3> QED BY <2>1, <2>2, <3>1 DEF Terminal!Delete
  <2>5. ASSUME Backspace PROVE Terminal!Backspace
    <3>1. Kept BY <1>1, <2>5 DEF Backspace
    <3> QED BY <2>1, <3>1 DEF Terminal!Backspace
  <2>6. ASSUME CarriageReturn PROVE Terminal!CarriageReturn
    <3>1. Kept BY <1>1, <2>6 DEF CarriageReturn
    <3> QED BY <2>1, <3>1 DEF Terminal!CarriageReturn
  <2>7. ASSUME LineFeed PROVE Terminal!LineFeed
    <3>1. Kept BY <1>1, <2>7 DEF LineFeed
    <3> QED BY <2>1, <3>1 DEF Terminal!LineFeed
  <2> QED BY <2>3, <2>4, <2>5, <2>6, <2>7
<1>3. CASE OnScreen(row, col)
  <2>1. s \in Screens /\ s.row = row /\ s.col = col /\ s.disp = disp
    BY <1>3 DEF Screen, Screens, OnScreen, ConsoleInv, ConsoleType
  <2>2. /\ At(s) = SeenPos /\ Terminal!Pos = SeenPos /\ Terminal!OnScreen
        /\ SeenPos \in 0 .. LastPlace /\ LastPlace \in Nat
        /\ SeenPos \div Cols = row /\ SeenPos % Cols = col
        /\ Terminal!LineStart(SeenPos) = row * Cols
    BY <1>3, <2>1, Seen, AtIsPlace DEF At, SeenPos, Place
  <2>3. ASSUME NEW t \in Screens, Normal(t)
        PROVE  Kept /\ OnScreen(row', col') /\ row' * Cols + col' = At(t) /\ disp' = t.disp
    BY <1>1, <2>3, AtIsPlace DEF Normal, SetScreen, At, Place
  <2>4. ASSUME NEW t \in Screens, Normal(t), NEW ls, NEW p, LinesOf(t.disp) = ls, At(t) = p
        PROVE  Terminal!Text(ls, p)
    <3>1. Kept /\ OnScreen(row', col') /\ row' * Cols + col' = p /\ disp' = t.disp
      BY <2>3, <2>4
    <3>2. LinesOf(disp') = ls BY <2>4, <3>1
    <3> QED BY <3>1, <3>2, TextOnScreen
  <2>5. SeenLines = LinesOf(disp) BY Seen
  <2> HIDE DEF s
  <2>6. ASSUME NEW ch \in Char, Show(ch) PROVE Terminal!Show(ch)
    <3> DEFINE written == Written(LinesOf(disp), row, col, ch)
    <3>1. PICK t : t = ShowChar(s, ch) OBVIOUS
    <3>2. Normal(t) BY <2>6, <3>1 DEF Show, s
    <3>3. /\ t \in Screens
          /\ At(s) < LastPlace => At(t) = At(s) + 1 /\ LinesOf(t.disp) = written
          /\ At(s) = LastPlace => /\ At(t) = (Rows - 1) * Cols
                                 /\ LinesOf(t.disp) = Append(Tail(written), Blanks)
      BY <2>1, <3>1, ShowWrites
    <3>4. Terminal!With(SeenPos, ch) = written
      BY <2>2, <2>5 DEF Terminal!With, Written, SeenLines
    <3> HIDE DEF written
    <3>5. CASE SeenPos < LastPlace
      <4>1. LinesOf(t.disp) = Terminal!With(SeenPos, ch) /\ At(t) = SeenPos + 1
        BY <2>2, <3>3, <3>4, <3>5
      <4>2. Terminal!Text(Terminal!With(SeenPos, ch), SeenPos + 1) BY <2>4, <3>2, <3>3, <4>1
      <4> QED BY <2>2, <3>5, <4>2, LastPlaces DEF Terminal!Show
    <3>6. CASE SeenPos = LastPlace
      <4>1. /\ LinesOf(t.disp) = Terminal!Scrolled(Terminal!With(SeenPos, ch))
            /\ At(t) = Terminal!LineStart(LastPlace)
        BY <2>2, <3>3, <3>4, <3>6, LastPlaces DEF Terminal!Scrolled
      <4>2. Terminal!Text(Terminal!Scrolled(Terminal!With(SeenPos, ch)),
                          Terminal!LineStart(LastPlace))
        BY <2>4, <3>2, <3>3, <4>1
      <4>3. ~ (SeenPos < LastPlace) BY <2>2, <3>6
      <4> QED BY <2>2, <4>2, <4>3, LastPlaces DEF Terminal!Show
    <3> QED BY <2>2, <3>5, <3>6
  <2>7. ASSUME EraseBackword PROVE Terminal!Delete
    <3>1. PICK b, u, t : b = MoveBackword(s) /\ u = ShowChar(b, Blank) /\ t = MoveBackword(u)
      OBVIOUS
    <3>2. CanMoveBack(s) /\ Normal(t) BY <2>7, <3>1 DEF EraseBackword, s
    <3>3. b \in Screens /\ b.disp = disp /\ At(s) > 0 /\ At(b) = At(s) - 1
      BY <2>1, <3>1, <3>2, BackIsPlaceBefore
    <3>4. At(b) < LastPlace /\ At(s) \in Nat /\ At(b) \in Nat BY <2>2, <3>3
    <3>5. /\ u \in Screens /\ At(u) = At(s)
          /\ LinesOf(u.disp) = Written(LinesOf(disp), b.row, b.col, Blank)
      BY <3>1, <3>3, <3>4, ShowWrites
    <3>6. t \in Screens /\ t.disp = u.disp /\ At(t) = At(s) - 1
      BY <3>1, <3>3, <3>5, BackIsPlaceBefore
    <3>7. (SeenPos - 1) \div Cols = b.row /\ (SeenPos - 1) % Cols = b.col
      BY <2>2, <3>3, AtIsPlace
    <3>8. Terminal!With(SeenPos - 1, Blank) = LinesOf(t.disp)
      BY <2>5, <3>5, <3>6, <3>7 DEF Terminal!With, Written, SeenLines
    <3>9. Terminal!Text(Terminal!With(SeenPos - 1, Blank), SeenPos - 1)
      BY <2>2, <2>4, <3>2, <3>6, <3>8
    <3> QED BY <2>2, <3>3, <3>9 DEF Terminal!Delete
  <2>8. ASSUME Backspace PROVE Terminal!Backspace
    <3>1. PICK t : t = MoveBackword(s) OBVIOUS
    <3>2. Normal(t) BY <2>8, <3>1 DEF Backspace, s
    <3>3. /\ t \in Screens /\ t.disp = disp
          /\ At(s) > 0 => At(t) = At(s) - 1
          /\ At(s) = 0 => t = s
      BY <2>1, <3>1, BackIsPlaceBefore
    <3>4. At(t) = IF SeenPos > 0 THEN SeenPos - 1 ELSE 0 BY <2>2, <3>3
    <3>5. Terminal!Text(SeenLines, IF SeenPos > 0 THEN SeenPos - 1 ELSE 0)
      BY <2>4, <2>5, <3>2, <3>3, <3>4
    <3> QED BY <2>2, <3>5 DEF Terminal!Backspace, SeenLines
  <2>9. ASSUME CarriageReturn PROVE Terminal!CarriageReturn
    <3>1. PICK t : t = [s EXCEPT !.col = 0] OBVIOUS
    <3>2. Normal(t) BY <2>9, <3>1 DEF CarriageReturn, s
    <3>3. t \in Screens /\ t.row = row /\ t.col = 0 /\ t.disp = disp BY <2>1, <3>1 DEF Screens
    <3>4. At(t) = row * Cols
      <4>1. row * Cols \in Nat BY <1>3, PlaceInOffsets
      <4> QED BY <3>3, <4>1 DEF At, Place
    <3>5. Terminal!Text(SeenLines, Terminal!LineStart(SeenPos))
      BY <2>2, <2>4, <2>5, <3>2, <3>3, <3>4
    <3> QED BY <2>2, <3>5 DEF Terminal!CarriageReturn, SeenLines
  <2>10. ASSUME LineFeed PROVE Terminal!LineFeed
    <3>1. PICK z, t : z = [s EXCEPT !.col = 0] /\ t = MoveNextLine(z) OBVIOUS
    <3>2. z \in Screens /\ z.row = row /\ z.col = 0 /\ z.disp = disp BY <2>1, <3>1 DEF Screens
    <3>3. Normal(t) BY <2>10, <3>1 DEF LineFeed, s
    <3>4. t \in Screens /\ t.col = 0 BY <3>1, <3>2, NextLineGoesDown
    <3>5. PICK m \in Nat : m = row * Cols BY <1>3, PlaceInOffsets
    <3>6. Terminal!LineStart(Terminal!LastPos) = (Rows - 1) * Cols /\ Terminal!LastPos = LastPlace
      BY LastPlaces
    <3>7. CASE row < Rows - 1
      <4>1. t.row = row + 1 /\ t.disp = disp BY <3>1, <3>2, <3>7, NextLineGoesDown
      <4>2. At(t) = m + Cols
        <5>1. (row + 1) * Cols = m + Cols BY <1>3, <3>5, PlaceInOffsets
        <5> QED BY <3>4, <4>1, <5>1 DEF At, Place
      <4>3. Terminal!Text(SeenLines, Terminal!LineStart(SeenPos) + Cols)
        BY <2>2, <2>4, <2>5, <3>3, <3>4, <3>5, <4>1, <4>2
      <4>4. SeenPos < (Rows - 1) * Cols
        <5>1. /\ (Rows - 1) * Cols = Rows * Cols - Cols /\ Rows * Cols \in Nat
              /\ m <= Rows * Cols - Cols - Cols
          BY <1>3, <3>5, <3>7, PlaceInOffsets
        <5>2. SeenPos = m + col /\ col \in 0 .. Cols - 1 BY <1>3, <3>5 DEF SeenPos, OnScreen
        <5> QED BY <5>1, <5>2
      <4> QED BY <2>2, <3>6, <4>3, <4>4 DEF Terminal!LineFeed, SeenLines
    <3>8. CASE row = Rows - 1
      <4>1. t.row = row /\ t.disp = ScrollUp(disp) BY <3>1, <3>2, <3>8, NextLineGoesDown
      <4>2. At(t) = (Rows - 1) * Cols BY <3>4, <3>5, <3>8, <4>1 DEF At, Place
      <4>3. LinesOf(t.disp) = Terminal!Scrolled(SeenLines)
        BY <2>5, <4>1, ScrollUpDropsLine, LastPlaces DEF ConsoleInv, ConsoleType, Terminal!Scrolled
      <4>4. Terminal!Text(Terminal!Scrolled(SeenLines), Terminal!LineStart(Terminal!LastPos))
        BY <2>4, <3>3, <3>4, <3>6, <4>2, <4>3
      <4>5. ~ (SeenPos < (Rows - 1) * Cols)
        <5>1. SeenPos = m + col /\ col \in Nat BY <1>3, <3>5 DEF SeenPos, OnScreen
        <5> QED BY <3>5, <3>8, <5>1
      <4> QED BY <2>2, <3>6, <4>4, <4>5 DEF Terminal!LineFeed, SeenLines
    <3> QED BY <1>3, <3>7, <3>8 DEF OnScreen
  <2> QED BY <2>6, <2>7, <2>8, <2>9, <2>10
<1> QED BY <1>2, <1>3

(* Escape sequences: what is seen of their numbers is what decides.        *)
LEMMA SequencesAsTerminal ==
  ASSUME ConsoleInv
  PROVE  /\ Escape => Terminal!Escape
         /\ SaveCursor => Terminal!Save
         /\ RestoreCursor => Terminal!Restore
         /\ EscOther => Terminal!Unknown
         /\ SquareBracket => Terminal!Bracket
         /\ \A d \in Digit : ParamDigit(d) => Terminal!AddDigit(d)
         /\ Semicolon => Terminal!NextNumber
<1>1. disp' = disp => SeenLines' = SeenLines BY DEF SeenLines, Line
<1>2. state # "square" => Numbers = <<>> BY DEF Numbers
<1>3. state' # "square" => Numbers' = <<>> BY DEF Numbers
<1>4. ASSUME Escape PROVE Terminal!Escape
  BY <1>1, <1>2, <1>3, <1>4 DEF Escape, Terminal!Escape, SeenLines
<1>5. ASSUME SaveCursor PROVE Terminal!Save
  BY <1>1, <1>2, <1>3, <1>5 DEF SaveCursor, Terminal!Save, SeenLines
<1>6. ASSUME RestoreCursor PROVE Terminal!Restore
  <2>1. old = <<old[1], old[2]>> BY DEF ConsoleInv, ConsoleType
  <2> QED BY <1>1, <1>2, <1>3, <1>6, <2>1 DEF RestoreCursor, Terminal!Restore, SeenLines
<1>7. ASSUME EscOther PROVE Terminal!Unknown
  BY <1>1, <1>2, <1>3, <1>7 DEF EscOther, Terminal!Unknown, SeenLines, escVars
<1>8. ASSUME SquareBracket PROVE Terminal!Bracket
  <2>1. /\ state = "esc" /\ state' = "square" /\ idx' = 0
        /\ param' = [i \in ParamIdx |-> 0] /\ UNCHANGED <<row, col, old, disp>>
    BY <1>8 DEF SquareBracket
  <2>2. Numbers' = <<0>>
    <3>1. 0 \in ParamIdx /\ ParamMax >= 2 BY DEF ParamIdx
    <3>2. param'[0] = 0 BY <2>1, <3>1
    <3>3. Numbers' = [i \in 1 .. 1 |-> IF i <= ParamMax THEN param'[i - 1] ELSE 0]
      BY <2>1, <3>1 DEF Numbers
    <3>4. \A i \in 1 .. 1 : (IF i <= ParamMax THEN param'[i - 1] ELSE 0) = 0
      BY <3>1, <3>2
    <3>5. Numbers' = [i \in 1 .. 1 |-> 0] BY <3>3, <3>4
    <3> QED BY <3>5
  <2> QED BY <1>1, <2>1, <2>2 DEF Terminal!Bracket, SeenLines
<1>9. ASSUME NEW d \in Digit, ParamDigit(d) PROVE Terminal!AddDigit(d)
  <2>1. /\ state = "square" /\ state' = "square" /\ idx <= ParamMax
        /\ UNCHANGED <<row, col, old, disp>>
    BY <1>9 DEF ParamDigit
  <2>2. /\ Numbers \in Seq(Nat) /\ Len(Numbers) = idx + 1 /\ idx \in Nat /\ d \in Nat
        /\ \A i \in 1 .. idx + 1 : Numbers[i] = IF i <= ParamMax THEN param[i - 1] ELSE 0
    BY <2>1, NumbersSeen DEF ConsoleInv, ConsoleType
  <2>3. Numbers = [i \in 1 .. idx + 1 |-> IF i <= ParamMax THEN param[i - 1] ELSE 0]
    BY <2>1 DEF Numbers, ConsoleInv, ConsoleType
  <2>4. CASE idx < ParamMax
    <3>1. idx' = idx /\ idx \in ParamIdx /\ param' = [param EXCEPT ![idx] = param[idx] * 10 + d]
      BY <1>9, <2>2, <2>4 DEF ParamDigit, ParamIdx
    <3>2. Numbers' = [i \in 1 .. idx + 1 |-> IF i <= ParamMax THEN param'[i - 1] ELSE 0]
      BY <2>1, <2>4, <3>1 DEF Numbers
    <3>3. ASSUME NEW i \in 1 .. idx + 1
          PROVE  (IF i <= ParamMax THEN param'[i - 1] ELSE 0)
                   = IF i = idx + 1 THEN Numbers[idx + 1] * 10 + d ELSE Numbers[i]
      <4>1. i <= ParamMax /\ i - 1 \in ParamIdx BY <2>2, <2>4 DEF ParamIdx
      <4>2. Numbers[i] = param[i - 1] BY <2>2, <4>1
      <4>3. param \in [ParamIdx -> Nat] BY DEF ConsoleInv, ConsoleType
      <4>4. CASE i = idx + 1
        <5>1. i - 1 = idx BY <2>2, <4>4
        <5>2. param'[i - 1] = param[i - 1] * 10 + d BY <3>1, <4>1, <4>3, <5>1
        <5> QED BY <4>1, <4>2, <4>4, <5>2
      <4>5. CASE i # idx + 1
        <5>1. i - 1 # idx BY <2>2, <4>5
        <5>2. param'[i - 1] = param[i - 1] BY <3>1, <4>1, <4>3, <5>1
        <5> QED BY <4>1, <4>2, <4>5, <5>2
      <4> QED BY <4>4, <4>5
    <3>4. Numbers' = [i \in 1 .. idx + 1 |-> IF i = idx + 1 THEN Numbers[idx + 1] * 10 + d
                                                            ELSE Numbers[i]]
      BY <3>2, <3>3
    <3>5. [Numbers EXCEPT ![idx + 1] = Numbers[idx + 1] * 10 + d]
            = [i \in 1 .. idx + 1 |-> IF i = idx + 1 THEN Numbers[idx + 1] * 10 + d
                                                     ELSE Numbers[i]]
      <4>1. DOMAIN Numbers = 1 .. idx + 1 BY <2>3
      <4> QED BY <2>3, <4>1
    <3>6. Len(Numbers) <= ParamMax BY <2>2, <2>4
    <3>7. Numbers' = [Numbers EXCEPT ![Len(Numbers)] = Numbers[Len(Numbers)] * 10 + d]
      BY <2>2, <3>4, <3>5
    <3> QED BY <1>1, <2>1, <3>6, <3>7 DEF Terminal!AddDigit, SeenLines
  <2>5. CASE idx = ParamMax
    <3>1. idx' = idx * 10 + d /\ param' = param BY <1>9, <2>5 DEF ParamDigit
    <3>2. ~ (idx' < ParamMax) BY <2>2, <2>5, <3>1
    <3>3. Numbers' = [i \in 1 .. ParamMax + 1 |-> IF i <= ParamMax THEN param[i - 1] ELSE 0]
      BY <2>1, <3>1, <3>2 DEF Numbers
    <3>4. Numbers' = Numbers BY <2>3, <2>5, <3>3
    <3>5. ~ (Len(Numbers) <= ParamMax) BY <2>2, <2>5
    <3> QED BY <1>1, <2>1, <3>4, <3>5 DEF Terminal!AddDigit, SeenLines
  <2> QED BY <2>1, <2>2, <2>4, <2>5
<1>10. ASSUME Semicolon PROVE Terminal!NextNumber
  <2>1. /\ state = "square" /\ state' = "square" /\ idx < ParamMax /\ idx' = idx + 1
        /\ param' = param /\ UNCHANGED <<row, col, old, disp>>
    BY <1>10 DEF Semicolon
  <2>2. /\ Numbers \in Seq(Nat) /\ Len(Numbers) = idx + 1 /\ idx \in Nat
        /\ \A i \in 1 .. idx + 1 : Numbers[i] = IF i <= ParamMax THEN param[i - 1] ELSE 0
    BY <2>1, NumbersSeen DEF ConsoleInv, ConsoleType
  <2>3. (IF idx' < ParamMax THEN idx' ELSE ParamMax) + 1 = idx + 2 BY <2>1, <2>2
  <2>4. Numbers' = [i \in 1 .. idx + 2 |-> IF i <= ParamMax THEN param[i - 1] ELSE 0]
    BY <2>1, <2>3 DEF Numbers
  <2>5. ASSUME NEW i \in 1 .. idx + 2
        PROVE  (IF i <= ParamMax THEN param[i - 1] ELSE 0) = Append(Numbers, 0)[i]
    <3>1. CASE i = idx + 2
      <4>1. Append(Numbers, 0)[i] = 0 BY <2>2, <3>1
      <4>2. i <= ParamMax => param[i - 1] = 0
        <5> SUFFICES ASSUME i <= ParamMax PROVE param[i - 1] = 0 OBVIOUS
        <5>1. i - 1 \in ParamIdx /\ i - 1 > idx BY <2>2, <3>1 DEF ParamIdx
        <5> QED BY <2>1, <5>1 DEF ConsoleInv, NothingLeftOver
      <4> QED BY <4>1, <4>2
    <3>2. CASE i # idx + 2
      <4>1. i \in 1 .. idx + 1 BY <2>2, <3>2
      <4>2. Append(Numbers, 0)[i] = Numbers[i] BY <2>2, <4>1
      <4> QED BY <2>2, <4>1, <4>2
    <3> QED BY <3>1, <3>2
  <2>6. Append(Numbers, 0) = [i \in 1 .. idx + 2 |-> Append(Numbers, 0)[i]]
    <3>1. Append(Numbers, 0) \in Seq(Nat) /\ Len(Append(Numbers, 0)) = idx + 2 BY <2>2
    <3>2. \A q \in Seq(Nat), n \in Nat : Len(q) = n => q = [i \in 1 .. n |-> q[i]]
      <4> TAKE q \in Seq(Nat), n \in Nat
      <4>1. q = [i \in 1 .. Len(q) |-> q[i]] OBVIOUS
      <4> QED BY <4>1
    <3>3. idx + 2 \in Nat BY <2>2
    <3> QED BY <3>1, <3>2, <3>3
  <2>7. Numbers' = Append(Numbers, 0) BY <2>4, <2>5, <2>6
  <2>8. Len(Numbers) <= ParamMax BY <2>1, <2>2
  <2> QED BY <1>1, <2>1, <2>7, <2>8 DEF Terminal!NextNumber, SeenLines
<1> QED BY <1>4, <1>5, <1>6, <1>7, <1>8, <1>9, <1>10

(* The characters that end a sequence with numbers. *)
LEMMA EndsAsTerminal ==
  ASSUME ConsoleInv
  PROVE  /\ MoveLeft => Terminal!Left
         /\ MoveRight => Terminal!Right
         /\ MoveCursor => Terminal!MoveTo
         /\ EraseInDisplay => Terminal!Clear
         /\ SquareOther => Terminal!OtherEnd
<1>1. ASSUME NEW t, Final(t), NEW ls, NEW r, NEW c,
             t.row = r, t.col = c, LinesOf(t.disp) = ls
      PROVE  Terminal!End(ls, <<r, c>>)
  <2>1. /\ state = "square" /\ state' = "normal" /\ old' = old
        /\ row' = r /\ col' = c /\ disp' = t.disp
    BY <1>1 DEF Final, SetScreen
  <2>2. SeenLines' = ls BY <1>1, <2>1, Seen
  <2>3. Numbers' = <<>> BY <2>1 DEF Numbers
  <2> QED BY <2>1, <2>2, <2>3 DEF Terminal!End, SeenLines
<1>2. SeenLines = LinesOf(disp) BY Seen
<1>3. Screen = [row |-> row, col |-> col, disp |-> disp] BY DEF Screen
<1>4. ASSUME state = "square"
      PROVE  /\ Terminal!Number(1) = param[0] /\ Terminal!Number(2) = param[1]
             /\ Terminal!Distance = Count
  BY <1>4, NumbersSeen
<1>5. Count \in Nat /\ param[0] \in Nat /\ param[1] \in Nat /\ col \in Int /\ row \in Int
  BY DEF Count, ParamIdx, ConsoleInv, ConsoleType
<1>6. ASSUME MoveLeft PROVE Terminal!Left
  <2>1. PICK k : k = IF col >= Count THEN col - Count ELSE 0 OBVIOUS
  <2>2. PICK t : t = [Screen EXCEPT !.col = k] OBVIOUS
  <2>3. Final(t) BY <1>3, <1>6, <2>1, <2>2 DEF MoveLeft
  <2>4. t.row = row /\ t.col = k /\ t.disp = disp BY <1>3, <2>2
  <2>5. state = "square" BY <2>3 DEF Final
  <2>6. k = IF Terminal!Distance > col THEN 0 ELSE col - Terminal!Distance
    BY <1>4, <1>5, <2>1, <2>5
  <2>7. Terminal!End(SeenLines, <<row, k>>) BY <1>1, <1>2, <2>3, <2>4
  <2> QED BY <2>6, <2>7 DEF Terminal!Left, SeenLines
<1>7. ASSUME MoveRight PROVE Terminal!Right
  <2>1. PICK k : k = IF col + Count > Cols THEN Cols - 1 ELSE col + Count OBVIOUS
  <2>2. PICK t : t = [Screen EXCEPT !.col = k] OBVIOUS
  <2>3. Final(t) BY <1>3, <1>7, <2>1, <2>2 DEF MoveRight
  <2>4. t.row = row /\ t.col = k /\ t.disp = disp BY <1>3, <2>2
  <2>5. state = "square" BY <2>3 DEF Final
  <2>6. k = IF col + Terminal!Distance > Cols THEN Cols - 1 ELSE col + Terminal!Distance
    BY <1>4, <2>1, <2>5
  <2>7. Terminal!End(SeenLines, <<row, k>>) BY <1>1, <1>2, <2>3, <2>4
  <2> QED BY <2>6, <2>7 DEF Terminal!Right, SeenLines
<1>8. ASSUME MoveCursor PROVE Terminal!MoveTo
  <2>1. PICK r, c : r = param[0] - 1 /\ c = param[1] - 1 OBVIOUS
  <2>2. PICK t : t = [Screen EXCEPT !.row = r, !.col = c] OBVIOUS
  <2>3. Final(t) BY <1>8, <2>1, <2>2 DEF MoveCursor
  <2>4. t.row = r /\ t.col = c /\ t.disp = disp BY <1>3, <2>2
  <2>5. state = "square" BY <2>3 DEF Final
  <2>6. r = Terminal!Number(1) - 1 /\ c = Terminal!Number(2) - 1 BY <1>4, <2>1, <2>5
  <2>7. Terminal!End(SeenLines, <<r, c>>) BY <1>1, <1>2, <2>3, <2>4
  <2> QED BY <2>6, <2>7 DEF Terminal!MoveTo, SeenLines
<1>9. ASSUME EraseInDisplay PROVE Terminal!Clear
  <2>1. PICK t : t = [row |-> 0, col |-> 0, disp |-> EraseRows(disp, 0, Rows - 1)] OBVIOUS
  <2>2. Final(t) /\ param[0] = 2 BY <1>9, <2>1 DEF EraseInDisplay
  <2>3. state = "square" BY <2>2 DEF Final
  <2>4. LinesOf(t.disp) = [i \in 1 .. Rows |-> Blanks]
    BY <2>1, EraseAllRows DEF ConsoleInv, ConsoleType
  <2>5. Terminal!End([i \in 1 .. Rows |-> Blanks], <<0, 0>>) BY <1>1, <2>1, <2>2, <2>4
  <2> QED BY <1>4, <2>2, <2>3, <2>5, LastPlaces DEF Terminal!Clear
<1>10. ASSUME SquareOther PROVE Terminal!OtherEnd
  <2>1. Final(Screen) BY <1>10 DEF SquareOther
  <2>2. Terminal!End(SeenLines, <<row, col>>) BY <1>1, <1>2, <1>3, <2>1
  <2> QED BY <2>2 DEF Terminal!OtherEnd, SeenLines
<1> QED BY <1>6, <1>7, <1>8, <1>9, <1>10

LEMMA StepAsTerminal ==
  ASSUME ConsoleInv
  PROVE  AsTerminal
BY TextAsTerminal, SequencesAsTerminal, EndsAsTerminal DEF AsTerminal

(* Each character does to a console what a terminal does with that         *)
(* character (ImplementsTerminal), for any number of rows and columns and  *)
(* any characters, digits and parameters: console_write's rows, columns    *)
(* and offsets agree at line ends, in scrolling and after every escape     *)
(* sequence, and no sequence finds a parameter of the one before.          *)
THEOREM ConsoleImplementsTerminal == Spec => ImplementsTerminal
<1>1. Init => Terminal!TermInit
  <2> SUFFICES ASSUME Init PROVE Terminal!TermInit OBVIOUS
  <2>1. OnScreen(row, col) /\ old = <<row, col>> /\ state = "normal" BY DEF Init, OnScreen
  <2>2. Numbers = <<>> BY <2>1 DEF Numbers
  <2> QED BY <2>1, <2>2, Seen DEF Terminal!TermInit
<1>2. Init => ConsoleInv BY TypeInit DEF ConsoleInv, NothingLeftOver, Init
<1>3. ConsoleInv => AsTerminal BY StepAsTerminal
<1>4. AsTerminal /\ [Next]_vars => [Terminal!TermNext]_(Terminal!specVars)
  <2> SUFFICES ASSUME AsTerminal, [Next]_vars PROVE [Terminal!TermNext]_(Terminal!specVars)
    OBVIOUS
  <2>1. ASSUME Next PROVE Terminal!TermNext BY <2>1 DEF AsTerminal, Next, Terminal!TermNext
  <2>2. ASSUME UNCHANGED vars PROVE UNCHANGED Terminal!specVars
    BY <2>2 DEF vars, escVars, Terminal!specVars, Line, Numbers
  <2> QED BY <2>1, <2>2
<1> QED BY <1>1, <1>2, <1>3, <1>4, InvNext, PTL DEF Spec, ImplementsTerminal, Terminal!TermSpec

=============================================================================
