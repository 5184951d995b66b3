----------------------------- MODULE FilesProofs -----------------------------
(***************************************************************************)
(* The open files and the device table for any number of tasks, files,     *)
(* descriptors and devices.  The invariants of Files say what is true of   *)
(* files that are open; what keeps them true while a file is being opened  *)
(* is that the task in sys_open is the only one that has it                *)
(* (OpeningOwnsItsFile): nobody else can dup it, free it or give it a      *)
(* device before sys_open has done so.                                     *)
(***************************************************************************)
EXTENDS Files, FiniteSetTheorems, TLAPS

Location ==
  [pc : {"run", "device", "failed"}, file : File \cup {NoFile}, fd : Fd \cup {NoFd},
   num : Int]

TypeOK ==
  /\ ref \in [File -> Nat]
  /\ devId \in [File -> Dev \cup {NoDev}]
  /\ fds \in [Task -> [Fd -> File \cup {NoFile}]]
  /\ openCount \in [Dev -> Nat]
  /\ minor \in [Dev -> Int]
  /\ loc \in [Task -> Location]
  /\ named \in [File -> Int]

(* A task in sys_open has a file that no other task has, that only the     *)
(* descriptor it has got refers to, and that has no device yet.            *)
OwnsItsFile(t) ==
  LET f == loc[t].file
  IN  /\ f \in File
      /\ devId[f] = NoDev /\ named[f] = loc[t].num
      /\ loc[t].fd = NoFd => At(t, "failed") /\ Refs(f) = {}
      /\ loc[t].fd # NoFd => Refs(f) = {<<t, loc[t].fd>>}
      /\ \A u \in Task \ {t} : loc[u].file # f

OpeningOwnsItsFile ==
  \A t \in Task : (At(t, "run") => loc[t] = Idle) /\ (~ At(t, "run") => OwnsItsFile(t))

(* No task is opening the file. *)
Opened(f) == \A t \in Task : loc[t].file # f

(* A file that is open has a device, which has the terminal that was asked *)
(* for; and the device table has no other numbers than those of terminals. *)
OpenFilesAreBound ==
  /\ \A f \in File : ref[f] > 0 /\ Opened(f) =>
       devId[f] \in Dev /\ minor[devId[f]] = named[f] /\ IsTty(named[f])
  /\ \A d \in Dev : openCount[d] > 0 => IsTty(minor[d])

FilesInv ==
  /\ TypeOK
  /\ OpeningOwnsItsFile
  /\ RefsCounted
  /\ DevicesCounted
  /\ OpenFilesAreBound
USE FilesAssumption

-----------------------------------------------------------------------------
(* A finite set of numbers has a greatest and a least element. *)
LEMMA ExtremesExist ==
  ASSUME NEW S, IsFiniteSet(S), S \subseteq Int, S # {}
  PROVE  /\ \E x \in S : \A y \in S : x >= y
         /\ \E x \in S : \A y \in S : x =< y
<1> DEFINE Has(T) == /\ \E x \in T : \A y \in T : x >= y
                     /\ \E x \in T : \A y \in T : x =< y
           Bad == {T \in SUBSET S : T # {} /\ ~ Has(T)}
<1>1. IsWellFoundedOn(StrictSubsetOrdering(S), SUBSET S)
  BY FS_StrictSubsetOrderingWellFounded, FS_FiniteSubsetsOfFinite
<1>2. SUFFICES ASSUME Bad # {} PROVE FALSE OBVIOUS
<1>3. PICK T \in Bad : \A U \in Bad : <<U, T>> \notin StrictSubsetOrdering(S)
  <2>1. Bad \subseteq SUBSET S OBVIOUS
  <2> HIDE DEF Bad
  <2> QED BY <1>1, <1>2, <2>1, WFMin, Zenon
<1>4. PICK x \in T : TRUE OBVIOUS
<1> DEFINE U == T \ {x}
<1>5. U \in SUBSET S /\ T \in SUBSET S /\ U \subseteq T /\ U # T BY <1>4
<1>6. U \notin Bad BY <1>3, <1>5 DEF StrictSubsetOrdering
<1>7. CASE U = {}
  <2>1. T = {x} /\ x \in Int BY <1>4, <1>5, <1>7
  <2>2. x >= x /\ x =< x BY <2>1
  <2>3. Has(T) BY <2>1, <2>2
  <2> QED BY <2>3
<1>8. CASE U # {}
  <2>1. Has(U) BY <1>5, <1>6, <1>8
  <2>2. \A y \in T : y \in Int /\ (y = x \/ y \in U) BY <1>5
  <2>3. \E z \in T : \A y \in T : z >= y
    <3>1. PICK a \in U : \A y \in U : a >= y BY <2>1
    <3>2. CASE a >= x BY <2>2, <3>1, <3>2
    <3>3. CASE ~ (a >= x)
      <4>1. \A y \in T : x >= y BY <2>2, <3>1, <3>3, <1>4
      <4> QED BY <4>1, <1>4
    <3> QED BY <3>2, <3>3
  <2>4. \E z \in T : \A y \in T : z =< y
    <3>1. PICK a \in U : \A y \in U : a =< y BY <2>1
    <3>2. CASE a =< x BY <2>2, <3>1, <3>2
    <3>3. CASE ~ (a =< x)
      <4>1. \A y \in T : x =< y BY <2>2, <3>1, <3>3, <1>4
      <4> QED BY <4>1, <1>4
    <3> QED BY <3>2, <3>3
  <2> QED BY <2>3, <2>4
<1> QED BY <1>7, <1>8

(* The entry that a search for the first or the last one returns is one of *)
(* those that were searched for.                                           *)
LEMMA ExtremesAreElements ==
  ASSUME NEW S, IsFiniteSet(S), S \subseteq Int, S # {}
  PROVE  Min(S) \in S /\ Max(S) \in S
BY ExtremesExist, Zenon DEF Min, Max

(* The sets of entries that the code searches are finite sets of numbers. *)
LEMMA SearchedSets ==
  /\ FreeFiles # {} => Min(FreeFiles) \in FreeFiles
  /\ \A t \in Task : FreeFds(t) # {} => Min(FreeFds(t)) \in FreeFds(t)
  /\ \A num : OpenDevs(num) # {} => Min(OpenDevs(num)) \in OpenDevs(num)
  /\ FreeDevs # {} => Max(FreeDevs) \in FreeDevs
  /\ LogDev \in Dev
<1>1. FreeFiles \in SUBSET File /\ FreeDevs \in SUBSET Dev BY DEF FreeFiles, FreeDevs
<1>2. \A t \in Task : FreeFds(t) \in SUBSET Fd BY DEF FreeFds
<1>3. \A num : OpenDevs(num) \in SUBSET Dev BY DEF OpenDevs
<1>4. /\ \A S \in SUBSET File : S # {} => Min(S) \in S
      /\ \A S \in SUBSET Fd : S # {} => Min(S) \in S
      /\ \A S \in SUBSET Dev : S # {} => Min(S) \in S /\ Max(S) \in S
  <2>1. ASSUME NEW S, S \in SUBSET File \/ S \in SUBSET Fd \/ S \in SUBSET Dev, S # {}
        PROVE  Min(S) \in S /\ Max(S) \in S
    <3>1. IsFiniteSet(S) BY <2>1, FS_Subset
    <3>2. S \subseteq Int
      <4>1. S \subseteq File \/ S \subseteq Fd \/ S \subseteq Dev BY <2>1, Zenon
      <4>2. File \subseteq Int /\ Fd \subseteq Int /\ Dev \subseteq Int OBVIOUS
      <4> QED BY <4>1, <4>2, Zenon
    <3> QED BY <2>1, <3>1, <3>2, ExtremesAreElements
  <2> QED BY <2>1
<1>5. LogDev \in Dev BY <1>4 DEF LogDev
<1> QED BY <1>1, <1>2, <1>3, <1>4, <1>5

-----------------------------------------------------------------------------
(* The open files that have a device. *)
FilesOf(d) == {f \in File : ref[f] > 0 /\ devId[f] = d}

LEMMA CountedSetsAreFinite ==
  /\ \A f : IsFiniteSet(Refs(f)) /\ IsFiniteSet(Pending(f))
  /\ \A f : Cardinality(Refs(f)) \in Nat /\ Cardinality(Pending(f)) \in Nat
  /\ \A d : IsFiniteSet(FilesOf(d)) /\ Cardinality(FilesOf(d)) \in Nat
<1>1. IsFiniteSet(Task \X Fd) BY FS_Product
<1>2. ASSUME NEW f PROVE IsFiniteSet(Refs(f)) /\ IsFiniteSet(Pending(f))
  <2>1. Refs(f) \in SUBSET (Task \X Fd) BY DEF Refs
  <2>2. Pending(f) \in SUBSET Task BY DEF Pending
  <2> QED BY <1>1, <2>1, <2>2, FS_Subset
<1>3. ASSUME NEW d PROVE IsFiniteSet(FilesOf(d))
  <2>1. FilesOf(d) \in SUBSET File BY DEF FilesOf
  <2> QED BY <2>1, FS_Subset
<1> QED BY <1>2, <1>3, FS_CardinalityType

(* A file has no reference when it is free, and one while it is opened. *)
LEMMA RefOfFile ==
  ASSUME FilesInv, NEW f \in File
  PROVE  /\ ref[f] = 0 => Refs(f) = {} /\ Opened(f)
         /\ ref[f] = 0 \/ ref[f] > 0
         /\ \A t \in Task : loc[t].file = f => ref[f] = 1
         /\ \A t \in Task : \A d \in Fd : fds[t][d] = f => ref[f] > 0
<1>1. /\ IsFiniteSet(Refs(f)) /\ IsFiniteSet(Pending(f))
      /\ Cardinality(Refs(f)) \in Nat /\ Cardinality(Pending(f)) \in Nat
  BY CountedSetsAreFinite
<1>2. ref[f] = Cardinality(Refs(f)) + Cardinality(Pending(f)) /\ ref[f] \in Nat
  BY DEF FilesInv, RefsCounted, TypeOK
<1>3. ASSUME NEW t \in Task, loc[t].file = f PROVE ref[f] = 1
  <2>0. f # NoFile BY DEF NoFile
  <2>1. ~ At(t, "run") BY <1>3, <2>0 DEF FilesInv, OpeningOwnsItsFile, Idle
  <2>2. OwnsItsFile(t) BY <2>1 DEF FilesInv, OpeningOwnsItsFile
  <2>3. CASE loc[t].fd = NoFd
    <3>1. Pending(f) = {t} BY <1>3, <2>2, <2>3 DEF Pending, OwnsItsFile
    <3>2. Refs(f) = {} BY <1>3, <2>2, <2>3 DEF OwnsItsFile
    <3>3. Cardinality(Refs(f)) = 0 /\ Cardinality(Pending(f)) = 1
      BY <3>1, <3>2, FS_EmptySet, FS_Singleton
    <3> QED BY <3>3, <1>2
  <2>4. CASE loc[t].fd # NoFd
    <3>1. Pending(f) = {} BY <1>3, <2>2, <2>4 DEF Pending, OwnsItsFile
    <3>2. Refs(f) = {<<t, loc[t].fd>>} BY <1>3, <2>2, <2>4 DEF OwnsItsFile
    <3>3. Cardinality(Refs(f)) = 1 /\ Cardinality(Pending(f)) = 0
      BY <3>1, <3>2, FS_EmptySet, FS_Singleton
    <3> QED BY <3>3, <1>2
  <2> QED BY <2>3, <2>4
<1>4. ref[f] = 0 => Refs(f) = {}
  <2>1. ref[f] = 0 => Cardinality(Refs(f)) = 0 BY <1>1, <1>2
  <2> QED BY <2>1, <1>1, FS_EmptySet
<1>5. ref[f] = 0 => Opened(f) BY <1>3 DEF Opened
<1>6. ASSUME NEW t \in Task, NEW d \in Fd, fds[t][d] = f PROVE ref[f] > 0
  <2>1. <<t, d>> \in Refs(f) BY <1>6 DEF Refs
  <2>2. ref[f] # 0 BY <2>1, <1>4
  <2> QED BY <2>2, <1>2
<1>7. ref[f] = 0 \/ ref[f] > 0 BY <1>2
<1> QED BY <1>3, <1>4, <1>5, <1>6, <1>7

-----------------------------------------------------------------------------
(* What a step of task t has to leave alone so that the other tasks in     *)
(* sys_open keep their files.                                              *)
LEMMA OthersKeepTheirFiles ==
  ASSUME FilesInv, TypeOK', NEW t \in Task, NEW l \in Location,
         loc' = [loc EXCEPT ![t] = l],
         \A g \in File : (\E u \in Task \ {t} : loc[u].file = g) =>
           /\ devId'[g] = devId[g] /\ named'[g] = named[g] /\ l.file # g
           /\ Refs(g)' = Refs(g)
  PROVE  \A u \in Task \ {t} :
           (At(u, "run")' => loc'[u] = Idle) /\ (~ At(u, "run")' => OwnsItsFile(u)')
<1> SUFFICES ASSUME NEW u \in Task \ {t}
             PROVE  (At(u, "run")' => loc'[u] = Idle) /\ (~ At(u, "run")' => OwnsItsFile(u)')
  OBVIOUS
<1>1. /\ loc'[u] = loc[u] /\ loc'[t] = l
      /\ \A v \in Task \ {t} : loc'[v] = loc[v]
  BY DEF FilesInv, TypeOK
<1>2. (At(u, "run")' <=> At(u, "run")) BY <1>1 DEF At
<1>3. At(u, "run") => loc'[u] = Idle BY <1>1 DEF FilesInv, OpeningOwnsItsFile
<1>4. ASSUME ~ At(u, "run") PROVE OwnsItsFile(u)'
  <2>1. OwnsItsFile(u) BY <1>4 DEF FilesInv, OpeningOwnsItsFile
  <2> DEFINE f == loc[u].file
  <2>2. f \in File /\ f = loc'[u].file BY <2>1, <1>1 DEF OwnsItsFile
  <2>3. devId'[f] = devId[f] /\ named'[f] = named[f] /\ l.file # f /\ Refs(f)' = Refs(f)
    BY <2>2
  <2>4. \A v \in Task \ {u} : loc'[v].file # f BY <2>1, <2>3, <1>1 DEF OwnsItsFile
  <2>5. loc'[u].fd = NoFd => At(u, "failed")' /\ Refs(f)' = {}
    BY <1>1, <2>1, <2>3 DEF OwnsItsFile, At
  <2>6. loc'[u].fd # NoFd => Refs(f)' = {<<u, loc'[u].fd>>}
    BY <1>1, <2>1, <2>3 DEF OwnsItsFile
  <2>7. devId'[f] = NoDev /\ named'[f] = loc'[u].num BY <1>1, <2>1, <2>3 DEF OwnsItsFile
  <2> QED BY <2>2, <2>4, <2>5, <2>6, <2>7 DEF OwnsItsFile
<1> QED BY <1>2, <1>3, <1>4

(* A free descriptor gets a file. *)
LEMMA RefsOfNewFd ==
  ASSUME TypeOK, NEW t \in Task, NEW d \in FreeFds(t), NEW f \in File,
         fds' = [fds EXCEPT ![t][d] = f]
  PROVE  /\ fds' \in [Task -> [Fd -> File \cup {NoFile}]]
         /\ <<t, d>> \notin Refs(f)
         /\ Refs(f)' = Refs(f) \cup {<<t, d>>}
         /\ \A g \in File \ {f} : Refs(g)' = Refs(g)
<1>1. d \in Fd /\ fds[t][d] = NoFile /\ \A g \in File : g # NoFile
  BY DEF FreeFds, NoFile
<1>2. fds \in [Task -> [Fd -> File \cup {NoFile}]] BY DEF TypeOK
<1>3. fds' \in [Task -> [Fd -> File \cup {NoFile}]] BY <1>1, <1>2
<1>4. \A u \in Task, e \in Fd :
        fds'[u][e] = IF u = t /\ e = d THEN f ELSE fds[u][e]
  BY <1>1, <1>2
<1>5. \A p \in Task \X Fd : p[1] \in Task /\ p[2] \in Fd /\ p = <<p[1], p[2]>> OBVIOUS
<1>6. <<t, d>> \notin Refs(f) BY <1>1 DEF Refs
<1>7. Refs(f)' = Refs(f) \cup {<<t, d>>} BY <1>1, <1>4, <1>5 DEF Refs
<1>8. \A g \in File \ {f} : Refs(g)' = Refs(g) BY <1>1, <1>4, <1>5 DEF Refs
<1> QED BY <1>3, <1>6, <1>7, <1>8

(* A descriptor is given back. *)
LEMMA RefsOfFreedFd ==
  ASSUME TypeOK, NEW t \in Task, NEW d \in Fd, NEW f \in File, fds[t][d] = f,
         fds' = [fds EXCEPT ![t][d] = NoFile]
  PROVE  /\ fds' \in [Task -> [Fd -> File \cup {NoFile}]]
         /\ Refs(f)' = Refs(f) \ {<<t, d>>}
         /\ \A g \in File \ {f} : Refs(g)' = Refs(g)
<1>1. \A g \in File : g # NoFile BY DEF NoFile
<1>2. fds \in [Task -> [Fd -> File \cup {NoFile}]] BY DEF TypeOK
<1>3. fds' \in [Task -> [Fd -> File \cup {NoFile}]] BY <1>1, <1>2
<1>4. \A u \in Task, e \in Fd :
        fds'[u][e] = IF u = t /\ e = d THEN NoFile ELSE fds[u][e]
  BY <1>1, <1>2
<1>5. \A p \in Task \X Fd : p[1] \in Task /\ p[2] \in Fd /\ p = <<p[1], p[2]>> OBVIOUS
<1>7. Refs(f)' = Refs(f) \ {<<t, d>>} BY <1>1, <1>4, <1>5 DEF Refs
<1>8. \A g \in File \ {f} : Refs(g)' = Refs(g) BY <1>1, <1>4, <1>5 DEF Refs
<1> QED BY <1>3, <1>7, <1>8

(* Where a task is decides only whether the file it opens is pending. *)
LEMMA PendingOfStep ==
  ASSUME TypeOK, NEW t \in Task, NEW l \in Location, loc' = [loc EXCEPT ![t] = l],
         NEW f \in File
  PROVE  /\ loc' \in [Task -> Location]
         /\ Pending(f)' = (Pending(f) \ {t})
                           \cup (IF l.file = f /\ l.fd = NoFd THEN {t} ELSE {})
<1>1. loc \in [Task -> Location] BY DEF TypeOK
<1>2. loc'[t] = l /\ \A u \in Task \ {t} : loc'[u] = loc[u] BY <1>1
<1> QED BY <1>1, <1>2 DEF Pending

(* The device table and the files of each device are left alone. *)
LEMMA DevicesUnchanged ==
  ASSUME DevicesCounted, UNCHANGED openCount,
         \A d \in Dev : FilesOf(d)' = FilesOf(d),
         \A d \in Dev : openCount[d] > 0 => minor'[d] = minor[d]
  PROVE  DevicesCounted'
<1>1. \A d \in Dev : openCount'[d] = (IF d = LogDev THEN 1 ELSE 0) + Cardinality(FilesOf(d)')
  BY DEF DevicesCounted, FilesOf
<1>2. \A d, e \in Dev :
        openCount'[d] > 0 /\ openCount'[e] > 0 /\ minor'[d] = minor'[e] => d = e
  BY DEF DevicesCounted
<1> QED BY <1>1, <1>2 DEF DevicesCounted, FilesOf

-----------------------------------------------------------------------------
(* sys_open takes a free file and, when there is one, a free descriptor. *)
LEMMA OpenFileKeepsInv ==
  ASSUME FilesInv, NEW t \in Task, NEW num \in Num \cup {NoNum}, OpenFile(t, num)
  PROVE  FilesInv'
<1>1. PICK f \in FreeFiles, d \in Fd \cup {NoFd} :
        /\ d # NoFd => d \in FreeFds(t)
        /\ ref' = [ref EXCEPT ![f] = 1]
        /\ devId' = [devId EXCEPT ![f] = NoDev]
        /\ fds' = IF d = NoFd THEN fds ELSE [fds EXCEPT ![t][d] = f]
        /\ loc' = [loc EXCEPT ![t] =
             [pc |-> IF d = NoFd \/ num = NoNum THEN "failed" ELSE "device",
              file |-> f, fd |-> d, num |-> num]]
        /\ named' = [named EXCEPT ![f] = num]
  <2> DEFINE e == IF FreeFds(t) = {} THEN NoFd ELSE Min(FreeFds(t))
  <2>1. Min(FreeFiles) \in FreeFiles BY SearchedSets DEF OpenFile
  <2>2. e \in Fd \cup {NoFd} /\ (e # NoFd => e \in FreeFds(t))
    BY SearchedSets DEF FreeFds
  <2> QED BY <2>1, <2>2 DEF OpenFile
<1> DEFINE l == [pc |-> IF d = NoFd \/ num = NoNum THEN "failed" ELSE "device",
                 file |-> f, fd |-> d, num |-> num]
<1>0. At(t, "run") /\ UNCHANGED <<openCount, minor>> /\ loc' = [loc EXCEPT ![t] = l]
  BY <1>1 DEF OpenFile
<1>2. f \in File /\ ref[f] = 0 BY DEF FreeFiles
<1>3. NoFd \notin Fd /\ NoFile \notin File /\ NoDev \notin Dev BY DEF NoFd, NoFile, NoDev
<1>4. d # NoFd => d \in FreeFds(t) /\ d \in Fd BY <1>1 DEF FreeFds
<1>5. l \in Location
  <2>1. num \in Int BY DEF NoNum
  <2> QED BY <2>1, <1>2, <1>4 DEF Location
<1>6. Refs(f) = {} /\ Opened(f) BY <1>2, RefOfFile
<1>7. /\ fds' \in [Task -> [Fd -> File \cup {NoFile}]]
      /\ Refs(f)' = IF d = NoFd THEN {} ELSE {<<t, d>>}
      /\ \A g \in File \ {f} : Refs(g)' = Refs(g)
  <2>1. CASE d = NoFd BY <2>1, <1>0, <1>1, <1>6 DEF FilesInv, TypeOK, Refs
  <2>2. CASE d # NoFd
    <3>1. fds' = [fds EXCEPT ![t][d] = f] BY <1>0, <1>1, <2>2
    <3>2. /\ fds' \in [Task -> [Fd -> File \cup {NoFile}]]
          /\ Refs(f)' = Refs(f) \cup {<<t, d>>}
          /\ \A g \in File \ {f} : Refs(g)' = Refs(g)
      BY <3>1, <2>2, <1>2, <1>4, RefsOfNewFd DEF FilesInv
    <3> QED BY <3>2, <2>2, <1>6
  <2> QED BY <2>1, <2>2
<1> HIDE DEF l
<1>8. \A g \in File :
        Pending(g)' = (Pending(g) \ {t}) \cup (IF l.file = g /\ l.fd = NoFd THEN {t} ELSE {})
  BY <1>0, <1>1, <1>5, PendingOfStep DEF FilesInv
<1>9. loc[t] = Idle BY <1>0, <1>1 DEF FilesInv, OpeningOwnsItsFile
<1>10. TypeOK'
  <2>1. num \in Int BY DEF NoNum
  <2> QED BY <2>1, <1>0, <1>1, <1>2, <1>5, <1>7 DEF FilesInv, TypeOK
<1>11. l.file = f /\ l.fd = d /\ l.num = num /\ (l.pc = "failed" \/ l.pc = "device")
       /\ (d = NoFd => l.pc = "failed")
  BY DEF l
<1>12. loc'[t] = l BY <1>0, <1>1 DEF FilesInv, TypeOK
<1>13. OpeningOwnsItsFile'
  <2>1. \A g \in File : (\E u \in Task \ {t} : loc[u].file = g) =>
          /\ devId'[g] = devId[g] /\ named'[g] = named[g] /\ l.file # g
          /\ Refs(g)' = Refs(g)
    <3>1. \A g \in File : (\E u \in Task \ {t} : loc[u].file = g) => g # f
      BY <1>6 DEF Opened
    <3> QED BY <3>1, <1>0, <1>1, <1>7, <1>11 DEF FilesInv, TypeOK
  <2>2. \A u \in Task \ {t} :
          (At(u, "run")' => loc'[u] = Idle) /\ (~ At(u, "run")' => OwnsItsFile(u)')
    BY <2>1, <1>0, <1>1, <1>5, <1>10, OthersKeepTheirFiles
  <2>3. ~ At(t, "run")' BY <1>11, <1>12 DEF At
  <2>4. OwnsItsFile(t)'
    <3>1. devId'[f] = NoDev /\ named'[f] = num BY <1>0, <1>1, <1>2 DEF FilesInv, TypeOK
    <3>2. \A u \in Task \ {t} : loc'[u].file # f
      BY <1>0, <1>1, <1>6 DEF Opened, FilesInv, TypeOK
    <3> QED BY <3>1, <3>2, <1>2, <1>7, <1>11, <1>12 DEF OwnsItsFile, At
  <2> QED BY <2>2, <2>3, <2>4 DEF OpeningOwnsItsFile
<1>14. RefsCounted'
  <2>1. ASSUME NEW g \in File
        PROVE  ref'[g] = Cardinality(Refs(g)') + Cardinality(Pending(g)')
    <3>1. CASE g # f
      <4>1. t \notin Pending(g) BY <1>3, <1>9 DEF Pending, Idle
      <4>2. Pending(g)' = Pending(g) BY <4>1, <3>1, <1>8, <1>11
      <4>3. Refs(g)' = Refs(g) BY <3>1, <1>7
      <4>4. ref'[g] = ref[g] BY <3>1, <1>0, <1>1 DEF FilesInv, TypeOK
      <4> QED BY <4>2, <4>3, <4>4 DEF FilesInv, RefsCounted
    <3>2. CASE g = f
      <4>1. Pending(f) = {} BY <1>6 DEF Pending, Opened
      <4>2. ref'[f] = 1 BY <1>0, <1>1, <1>2 DEF FilesInv, TypeOK
      <4>3. CASE d = NoFd
        <5>1. Refs(f)' = {} /\ Pending(f)' = {t} BY <4>1, <4>3, <1>2, <1>7, <1>8, <1>11
        <5>2. Cardinality(Refs(f)') = 0 /\ Cardinality(Pending(f)') = 1
          BY <5>1, FS_EmptySet, FS_Singleton
        <5> QED BY <5>2, <4>2, <3>2
      <4>4. CASE d # NoFd
        <5>1. Refs(f)' = {<<t, d>>} /\ Pending(f)' = {}
          BY <4>1, <4>4, <1>2, <1>7, <1>8, <1>11
        <5>2. Cardinality(Refs(f)') = 1 /\ Cardinality(Pending(f)') = 0
          BY <5>1, FS_EmptySet, FS_Singleton
        <5> QED BY <5>2, <4>2, <3>2
      <4> QED BY <4>3, <4>4
    <3> QED BY <3>1, <3>2
  <2> QED BY <2>1 DEF RefsCounted
<1>15. DevicesCounted'
  <2>1. ASSUME NEW e \in Dev PROVE FilesOf(e)' = FilesOf(e)
    <3>1. f \notin FilesOf(e) BY <1>2 DEF FilesOf
    <3>2. devId'[f] # e BY <1>0, <1>1, <1>2, <1>3 DEF FilesInv, TypeOK
    <3>3. \A g \in File \ {f} : ref'[g] = ref[g] /\ devId'[g] = devId[g]
      BY <1>0, <1>1 DEF FilesInv, TypeOK
    <3> QED BY <3>1, <3>2, <3>3 DEF FilesOf
  <2> QED BY <2>1, <1>0, <1>1, DevicesUnchanged DEF FilesInv
<1>16. OpenFilesAreBound'
  <2>1. \A e \in Dev : openCount'[e] > 0 => IsTty(minor'[e])
    BY <1>0, <1>1 DEF FilesInv, OpenFilesAreBound
  <2>2. ASSUME NEW g \in File, ref'[g] > 0, Opened(g)'
        PROVE  devId'[g] \in Dev /\ minor'[devId'[g]] = named'[g] /\ IsTty(named'[g])
    <3>1. g # f BY <2>2, <1>11, <1>12 DEF Opened
    <3>2. ref'[g] = ref[g] /\ devId'[g] = devId[g] /\ named'[g] = named[g]
      BY <3>1, <1>0, <1>1 DEF FilesInv, TypeOK
    <3>3. Opened(g)
      BY <2>2, <1>0, <1>1, <1>3, <1>9 DEF Opened, Idle, FilesInv, TypeOK
    <3> QED BY <2>2, <3>2, <3>3, <1>0, <1>1 DEF FilesInv, OpenFilesAreBound
  <2> QED BY <2>1, <2>2 DEF OpenFilesAreBound, IsTty
<1> QED BY <1>10, <1>13, <1>14, <1>15, <1>16 DEF FilesInv

-----------------------------------------------------------------------------
(* The device of an open file is open. *)
LEMMA DeviceOfFileIsOpen ==
  ASSUME FilesInv, NEW f \in File, ref[f] > 0, devId[f] \in Dev
  PROVE  openCount[devId[f]] > 0
<1> DEFINE d == devId[f]
<1>1. f \in FilesOf(d) BY DEF FilesOf
<1>2. IsFiniteSet(FilesOf(d)) /\ Cardinality(FilesOf(d)) \in Nat BY CountedSetsAreFinite
<1>3. Cardinality(FilesOf(d)) # 0 BY <1>1, <1>2, FS_EmptySet
<1>4. openCount[d] = (IF d = LogDev THEN 1 ELSE 0) + Cardinality(FilesOf(d))
  BY DEF FilesInv, DevicesCounted, FilesOf
<1> QED BY <1>2, <1>3, <1>4

LEMMA IdleIsALocation == Idle \in Location
BY DEF Idle, Location, NoNum

(* A task that leaves sys_open with its file f, or without it. *)
LEMMA LeaveKeepsOwners ==
  ASSUME FilesInv, TypeOK', NEW t \in Task, NEW f \in File,
         ~ At(t, "run"), loc[t].file = f, loc' = [loc EXCEPT ![t] = Idle], named' = named,
         \A g \in File \ {f} : devId'[g] = devId[g] /\ Refs(g)' = Refs(g)
  PROVE  OpeningOwnsItsFile'
<1>1. \A g \in File : (\E u \in Task \ {t} : loc[u].file = g) =>
        /\ devId'[g] = devId[g] /\ named'[g] = named[g] /\ Idle.file # g
        /\ Refs(g)' = Refs(g)
  <2>1. \A u \in Task \ {t} : loc[u].file # f
    BY DEF FilesInv, OpeningOwnsItsFile, OwnsItsFile
  <2>2. \A g \in File : (\E u \in Task \ {t} : loc[u].file = g) => g \in File \ {f}
    BY <2>1
  <2>3. \A g \in File : Idle.file # g BY DEF Idle, NoFile
  <2> QED BY <2>2, <2>3
<1>2. \A u \in Task \ {t} :
        (At(u, "run")' => loc'[u] = Idle) /\ (~ At(u, "run")' => OwnsItsFile(u)')
  BY <1>1, IdleIsALocation, OthersKeepTheirFiles
<1>3. loc'[t] = Idle BY DEF FilesInv, TypeOK
<1>4. At(t, "run")' BY <1>3 DEF At, Idle
<1> QED BY <1>2, <1>3, <1>4 DEF OpeningOwnsItsFile

(* A task in sys_open gives its file a device that has the number it wants. *)
LEMMA BindKeepsInv ==
  ASSUME FilesInv, NEW t \in Task, NEW f \in File, NEW d \in Dev,
         At(t, "device"), loc[t].file = f,
         ref' = [ref EXCEPT ![f] = 1],
         devId' = [devId EXCEPT ![f] = d],
         openCount' = [openCount EXCEPT ![d] = @ + 1],
         minor' \in [Dev -> Int],
         loc' = [loc EXCEPT ![t] = Idle],
         UNCHANGED <<fds, named>>,
         minor'[d] = loc[t].num, IsTty(loc[t].num),
         \A e \in Dev : openCount[e] > 0 =>
           minor'[e] = minor[e] /\ (minor[e] = loc[t].num => e = d)
  PROVE  FilesInv'
<1>1. /\ ~ At(t, "run") /\ loc[t].fd # NoFd
      /\ devId[f] = NoDev /\ named[f] = loc[t].num
      /\ \A u \in Task \ {t} : loc[u].file # f
      /\ ref[f] = 1
  <2>1. ~ At(t, "run") /\ ~ At(t, "failed") BY DEF At
  <2> QED BY <2>1, RefOfFile DEF FilesInv, OpeningOwnsItsFile, OwnsItsFile
<1>2. ref' = ref BY <1>1 DEF FilesInv, TypeOK
<1>3. TypeOK'
  <2>1. loc' \in [Task -> Location] BY IdleIsALocation DEF FilesInv, TypeOK
  <2>2. openCount' \in [Dev -> Nat] BY DEF FilesInv, TypeOK
  <2>3. devId' \in [File -> Dev \cup {NoDev}] BY DEF FilesInv, TypeOK
  <2> QED BY <1>2, <2>1, <2>2, <2>3 DEF FilesInv, TypeOK
<1>4. \A g : Refs(g)' = Refs(g) BY DEF Refs
<1>5. \A g \in File \ {f} : devId'[g] = devId[g] BY DEF FilesInv, TypeOK
<1>6. devId'[f] = d /\ NoDev \notin Dev BY DEF FilesInv, TypeOK, NoDev
<1>7. OpeningOwnsItsFile' BY <1>1, <1>3, <1>4, <1>5, LeaveKeepsOwners
<1>8. RefsCounted'
  <2>1. ASSUME NEW g \in File PROVE Pending(g)' = Pending(g)
    <3>1. Pending(g)' = (Pending(g) \ {t})
                        \cup (IF Idle.file = g /\ Idle.fd = NoFd THEN {t} ELSE {})
      BY IdleIsALocation, PendingOfStep DEF FilesInv
    <3>2. Idle.file # g BY DEF Idle, NoFile
    <3>3. t \notin Pending(g) BY <1>1 DEF Pending
    <3> QED BY <3>1, <3>2, <3>3
  <2> QED BY <2>1, <1>2, <1>4 DEF FilesInv, RefsCounted
<1>9. DevicesCounted'
  <2>1. \A e \in Dev \ {d} : FilesOf(e)' = FilesOf(e)
    BY <1>1, <1>2, <1>5, <1>6 DEF FilesOf
  <2>2. FilesOf(d)' = FilesOf(d) \cup {f} /\ f \notin FilesOf(d)
    BY <1>1, <1>2, <1>5, <1>6 DEF FilesOf
  <2>3. Cardinality(FilesOf(d)') = Cardinality(FilesOf(d)) + 1
    BY <2>2, CountedSetsAreFinite, FS_AddElement
  <2>4. \A e \in Dev :
          openCount[e] = (IF e = LogDev THEN 1 ELSE 0) + Cardinality(FilesOf(e))
    BY DEF FilesInv, DevicesCounted, FilesOf
  <2>5. /\ openCount'[d] = openCount[d] + 1
        /\ \A e \in Dev \ {d} : openCount'[e] = openCount[e]
    BY DEF FilesInv, TypeOK
  <2>6. \A e \in Dev : Cardinality(FilesOf(e)) \in Nat BY CountedSetsAreFinite
  <2>7. \A e \in Dev :
          openCount'[e] = (IF e = LogDev THEN 1 ELSE 0) + Cardinality(FilesOf(e)')
    <3>1. openCount'[d] = (IF d = LogDev THEN 1 ELSE 0) + Cardinality(FilesOf(d)')
      BY <2>3, <2>4, <2>5, <2>6
    <3> QED BY <3>1, <2>1, <2>4, <2>5
  <2>8. \A e, c \in Dev :
          openCount'[e] > 0 /\ openCount'[c] > 0 /\ minor'[e] = minor'[c] => e = c
    BY <2>5 DEF FilesInv, DevicesCounted
  <2> QED BY <2>7, <2>8 DEF DevicesCounted, FilesOf
<1>10. OpenFilesAreBound'
  <2>1. \A e \in Dev : openCount'[e] > 0 => IsTty(minor'[e])
    BY DEF FilesInv, TypeOK, OpenFilesAreBound
  <2>2. ASSUME NEW g \in File, ref'[g] > 0, Opened(g)'
        PROVE  devId'[g] \in Dev /\ minor'[devId'[g]] = named'[g] /\ IsTty(named'[g])
    <3>1. CASE g = f BY <3>1, <1>1, <1>6
    <3>2. CASE g # f
      <4>1. ref[g] > 0 /\ devId'[g] = devId[g] /\ named'[g] = named[g]
        BY <2>2, <3>2, <1>2, <1>5
      <4>2. Opened(g) BY <2>2, <3>2 DEF Opened, FilesInv, TypeOK
      <4>3. devId[g] \in Dev /\ minor[devId[g]] = named[g] /\ IsTty(named[g])
        BY <4>1, <4>2 DEF FilesInv, OpenFilesAreBound
      <4>4. openCount[devId[g]] > 0 BY <4>1, <4>3, DeviceOfFileIsOpen
      <4> QED BY <4>1, <4>3, <4>4
    <3> QED BY <3>1, <3>2
  <2> QED BY <2>1, <2>2 DEF OpenFilesAreBound, IsTty
<1> QED BY <1>3, <1>7, <1>8, <1>9, <1>10 DEF FilesInv

(* dev_open finds the device open. *)
LEMMA OpenAgainKeepsInv ==
  ASSUME FilesInv, NEW t \in Task, OpenAgain(t)
  PROVE  FilesInv'
<1>1. PICK d \in OpenDevs(loc[t].num) :
        /\ openCount' = [openCount EXCEPT ![d] = @ + 1]
        /\ devId' = [devId EXCEPT ![loc[t].file] = d]
  BY SearchedSets DEF OpenAgain
<1>2. d \in Dev /\ openCount[d] > 0 /\ minor[d] = loc[t].num BY DEF OpenDevs
<1>3. PICK f \in File : loc[t].file = f
  <2>1. ~ At(t, "run") BY DEF OpenAgain, At
  <2> QED BY <2>1 DEF FilesInv, OpeningOwnsItsFile, OwnsItsFile
<1>4. /\ At(t, "device") /\ ref' = [ref EXCEPT ![f] = 1]
      /\ devId' = [devId EXCEPT ![f] = d]
      /\ loc' = [loc EXCEPT ![t] = Idle] /\ UNCHANGED <<fds, minor, named>>
  BY <1>1, <1>3 DEF OpenAgain
<1>5. IsTty(loc[t].num) BY <1>2 DEF FilesInv, OpenFilesAreBound
<1>6. \A e \in Dev : openCount[e] > 0 =>
        minor'[e] = minor[e] /\ (minor[e] = loc[t].num => e = d)
  BY <1>2, <1>4 DEF FilesInv, DevicesCounted
<1>7. minor' \in [Dev -> Int] /\ minor'[d] = loc[t].num
  BY <1>2, <1>4 DEF FilesInv, TypeOK
<1> QED BY <1>1, <1>2, <1>3, <1>4, <1>5, <1>6, <1>7, BindKeepsInv

(* dev_open binds a free entry, or fails and leaves the file to be freed. *)
LEMMA OpenDeviceKeepsInv ==
  ASSUME FilesInv, NEW t \in Task, OpenDevice(t)
  PROVE  FilesInv'
<1>1. PICK f \in File : loc[t].file = f
  <2>1. ~ At(t, "run") BY DEF OpenDevice, At
  <2> QED BY <2>1 DEF FilesInv, OpeningOwnsItsFile, OwnsItsFile
<1>2. loc[t].num \in Int BY DEF FilesInv, TypeOK, Location
<1>3. CASE FreeDevs # {} /\ IsTty(loc[t].num)
  <2>1. PICK d \in FreeDevs :
          /\ minor' = [minor EXCEPT ![d] = loc[t].num]
          /\ openCount' = [openCount EXCEPT ![d] = 1]
          /\ devId' = [devId EXCEPT ![loc[t].file] = d]
    BY <1>3, SearchedSets DEF OpenDevice
  <2>2. d \in Dev /\ openCount[d] = 0 BY DEF FreeDevs
  <2>3. /\ At(t, "device") /\ ref' = [ref EXCEPT ![f] = 1]
        /\ devId' = [devId EXCEPT ![f] = d]
        /\ loc' = [loc EXCEPT ![t] = Idle] /\ UNCHANGED <<fds, named>>
        /\ OpenDevs(loc[t].num) = {}
    BY <1>1, <1>3, <2>1 DEF OpenDevice
  <2>4. minor' \in [Dev -> Int] /\ minor'[d] = loc[t].num
    BY <1>2, <2>1, <2>2 DEF FilesInv, TypeOK
  <2>5. \A e \in Dev : openCount[e] > 0 =>
          minor'[e] = minor[e] /\ (minor[e] = loc[t].num => e = d)
    <3>1. \A e \in Dev : openCount[e] > 0 => e # d /\ minor[e] # loc[t].num
      BY <2>2, <2>3 DEF OpenDevs
    <3> QED BY <3>1, <2>1 DEF FilesInv, TypeOK
  <2>6. openCount' = [openCount EXCEPT ![d] = @ + 1]
    BY <2>1, <2>2 DEF FilesInv, TypeOK
  <2> QED BY <1>1, <1>3, <2>2, <2>3, <2>4, <2>5, <2>6, BindKeepsInv
<1>4. CASE ~ (FreeDevs # {} /\ IsTty(loc[t].num))
  <2> DEFINE l == [loc[t] EXCEPT !.pc = "failed"]
  <2>1. /\ At(t, "device") /\ loc' = [loc EXCEPT ![t].pc = "failed"]
        /\ UNCHANGED <<openCount, devId, ref, fds, named>>
        /\ minor' \in [Dev -> Int]
        /\ \A e \in Dev : openCount[e] > 0 => minor'[e] = minor[e]
    <3>1. CASE FreeDevs = {}
      BY <1>4, <3>1 DEF OpenDevice, FilesInv, TypeOK
    <3>2. CASE FreeDevs # {}
      <4>1. PICK d \in FreeDevs : minor' = [minor EXCEPT ![d] = loc[t].num]
        BY <3>2, SearchedSets DEF OpenDevice
      <4>2. d \in Dev /\ openCount[d] = 0 BY DEF FreeDevs
      <4>3. minor' \in [Dev -> Int] BY <1>2, <4>1 DEF FilesInv, TypeOK
      <4>4. \A e \in Dev : openCount[e] > 0 => minor'[e] = minor[e]
        BY <4>1, <4>2 DEF FilesInv, TypeOK
      <4> QED BY <4>3, <4>4, <1>4, <3>2 DEF OpenDevice
    <3> QED BY <3>1, <3>2
  <2>2. PICK k \in Location : k = loc[t] BY DEF FilesInv, TypeOK
  <2>3. PICK m \in Location :
          /\ m.pc = "failed" /\ m.file = f /\ m.fd = k.fd /\ m.num = k.num
          /\ loc' = [loc EXCEPT ![t] = m]
    <3>1. loc' = [loc EXCEPT ![t] = [k EXCEPT !.pc = "failed"]] BY <2>1, <2>2
    <3>2. [k EXCEPT !.pc = "failed"] \in Location BY DEF Location
    <3>3. k.file = f BY <1>1, <2>2
    <3> QED BY <3>1, <3>2, <3>3 DEF Location
  <2>4. OwnsItsFile(t) /\ k.fd # NoFd
    <3>1. ~ At(t, "run") /\ ~ At(t, "failed") BY <2>1 DEF At
    <3> QED BY <2>2, <3>1 DEF FilesInv, OpeningOwnsItsFile, OwnsItsFile
  <2>5. \A g : Refs(g)' = Refs(g) BY <2>1 DEF Refs
  <2>6. TypeOK' BY <2>1, <2>3 DEF FilesInv, TypeOK
  <2>7. loc'[t] = m /\ \A u \in Task \ {t} : loc'[u] = loc[u] BY <2>3 DEF FilesInv, TypeOK
  <2>8. OpeningOwnsItsFile'
    <3>1. \A g \in File : (\E u \in Task \ {t} : loc[u].file = g) => m.file # g
      BY <1>1, <2>3, <2>4 DEF OwnsItsFile
    <3>2. \A u \in Task \ {t} :
            (At(u, "run")' => loc'[u] = Idle) /\ (~ At(u, "run")' => OwnsItsFile(u)')
      BY <3>1, <2>1, <2>3, <2>5, <2>6, OthersKeepTheirFiles
    <3>3. ~ At(t, "run")' BY <2>3, <2>7 DEF At
    <3>4. OwnsItsFile(t)'
      BY <1>1, <2>1, <2>2, <2>3, <2>4, <2>5, <2>7 DEF OwnsItsFile
    <3> QED BY <3>2, <3>3, <3>4 DEF OpeningOwnsItsFile
  <2>9. RefsCounted'
    <3>1. \A g \in File : Pending(g)' = Pending(g)
      BY <1>1, <2>2, <2>3, <2>4, <2>7 DEF Pending
    <3> QED BY <3>1, <2>1, <2>5 DEF FilesInv, RefsCounted
  <2>10. DevicesCounted'
    <3>1. \A d \in Dev : FilesOf(d)' = FilesOf(d) BY <2>1 DEF FilesOf
    <3> QED BY <3>1, <2>1, DevicesUnchanged DEF FilesInv
  <2>11. OpenFilesAreBound'
    <3>1. \A g \in File : Opened(g)' => Opened(g)
      BY <1>1, <2>3, <2>7 DEF Opened
    <3>2. \A g \in File : ref[g] > 0 /\ devId[g] \in Dev => minor'[devId[g]] = minor[devId[g]]
      BY <2>1, DeviceOfFileIsOpen
    <3>3. ASSUME NEW g \in File, ref'[g] > 0, Opened(g)'
          PROVE  devId'[g] \in Dev /\ minor'[devId'[g]] = named'[g] /\ IsTty(named'[g])
      <4>1. ref[g] > 0 /\ Opened(g) BY <3>1, <3>3, <2>1
      <4>2. devId[g] \in Dev /\ minor[devId[g]] = named[g] /\ IsTty(named[g])
        BY <4>1 DEF FilesInv, OpenFilesAreBound
      <4> QED BY <4>1, <4>2, <3>2, <2>1
    <3>4. \A d \in Dev : openCount'[d] > 0 => IsTty(minor'[d])
      BY <2>1 DEF FilesInv, OpenFilesAreBound
    <3> QED BY <3>3, <3>4 DEF OpenFilesAreBound, IsTty
  <2> QED BY <2>6, <2>8, <2>9, <2>10, <2>11 DEF FilesInv
<1> QED BY <1>3, <1>4

(* sys_open fails: the file is free again, and nothing refers to it. *)
LEMMA OpenFailedKeepsInv ==
  ASSUME FilesInv, NEW t \in Task, OpenFailed(t)
  PROVE  FilesInv'
<1>1. PICK l \in Location : l = loc[t] BY DEF FilesInv, TypeOK
<1>2. ~ At(t, "run") BY DEF OpenFailed, At
<1>3. OwnsItsFile(t) BY <1>2 DEF FilesInv, OpeningOwnsItsFile
<1>4. PICK f \in File : f = l.file BY <1>1, <1>3 DEF OwnsItsFile
<1>5. /\ devId[f] = NoDev /\ ref[f] = 1 /\ loc[t].file = f
      /\ \A u \in Task \ {t} : loc[u].file # f
  BY <1>1, <1>3, <1>4, RefOfFile DEF OwnsItsFile
<1>6. /\ ref' = [ref EXCEPT ![f] = IF @ > 0 THEN @ - 1 ELSE 0]
      /\ fds' = IF l.fd = NoFd THEN fds ELSE [fds EXCEPT ![t][l.fd] = NoFile]
      /\ loc' = [loc EXCEPT ![t] = Idle]
      /\ UNCHANGED <<devId, openCount, minor, named>>
  BY <1>1, <1>4 DEF OpenFailed
<1>7. ref' \in [File -> Nat] /\ ref'[f] = 0 /\ \A g \in File \ {f} : ref'[g] = ref[g]
  BY <1>5, <1>6 DEF FilesInv, TypeOK
<1>8. /\ fds' \in [Task -> [Fd -> File \cup {NoFile}]]
      /\ Refs(f)' = {}
      /\ \A g \in File \ {f} : Refs(g)' = Refs(g)
  <2>1. CASE l.fd = NoFd
    BY <2>1, <1>1, <1>3, <1>4, <1>6 DEF FilesInv, TypeOK, Refs, OwnsItsFile
  <2>2. CASE l.fd # NoFd
    <3>1. Refs(f) = {<<t, l.fd>>} /\ l.fd \in Fd
      BY <2>2, <1>1, <1>3, <1>4 DEF OwnsItsFile, Location
    <3>2. fds[t][l.fd] = f
      <4>1. <<t, l.fd>> \in Refs(f) BY <3>1
      <4> QED BY <4>1 DEF Refs
    <3>3. fds' = [fds EXCEPT ![t][l.fd] = NoFile] BY <2>2, <1>6
    <3>4. /\ fds' \in [Task -> [Fd -> File \cup {NoFile}]]
          /\ Refs(f)' = Refs(f) \ {<<t, l.fd>>}
          /\ \A g \in File \ {f} : Refs(g)' = Refs(g)
      BY <3>1, <3>2, <3>3, RefsOfFreedFd DEF FilesInv
    <3> QED BY <3>1, <3>4
  <2> QED BY <2>1, <2>2
<1>9. TypeOK'
  <2>1. loc' \in [Task -> Location] BY <1>6, IdleIsALocation DEF FilesInv, TypeOK
  <2> QED BY <2>1, <1>6, <1>7, <1>8 DEF FilesInv, TypeOK
<1>10. OpeningOwnsItsFile' BY <1>2, <1>5, <1>6, <1>8, <1>9, LeaveKeepsOwners
<1>11. ASSUME NEW g \in File
       PROVE  Pending(g)' = IF g = f THEN {} ELSE Pending(g)
  <2>1. Pending(g)' = (Pending(g) \ {t})
                      \cup (IF Idle.file = g /\ Idle.fd = NoFd THEN {t} ELSE {})
    BY <1>6, IdleIsALocation, PendingOfStep DEF FilesInv
  <2>2. Idle.file # g BY DEF Idle, NoFile
  <2>3. Pending(f) \subseteq {t} BY <1>5 DEF Pending
  <2>4. g # f => t \notin Pending(g) BY <1>5 DEF Pending
  <2> QED BY <2>1, <2>2, <2>3, <2>4
<1>12. RefsCounted'
  <2>1. ASSUME NEW g \in File
        PROVE  ref'[g] = Cardinality(Refs(g)') + Cardinality(Pending(g)')
    <3>1. CASE g = f
      <4>1. Cardinality(Refs(f)') = 0 /\ Cardinality(Pending(f)') = 0
        BY <1>8, <1>11, FS_EmptySet
      <4> QED BY <4>1, <3>1, <1>7
    <3>2. CASE g # f BY <3>2, <1>7, <1>8, <1>11 DEF FilesInv, RefsCounted
    <3> QED BY <3>1, <3>2
  <2> QED BY <2>1 DEF RefsCounted
<1>13. DevicesCounted'
  <2>1. NoDev \notin Dev BY DEF NoDev
  <2>2. \A d \in Dev : FilesOf(d)' = FilesOf(d)
    BY <2>1, <1>5, <1>6, <1>7 DEF FilesOf
  <2> QED BY <2>2, <1>6, DevicesUnchanged DEF FilesInv
<1>14. OpenFilesAreBound'
  <2>1. \A g \in File : Opened(g)' /\ g # f => Opened(g)
    BY <1>5, <1>6 DEF Opened, FilesInv, TypeOK
  <2>2. ASSUME NEW g \in File, ref'[g] > 0, Opened(g)'
        PROVE  devId'[g] \in Dev /\ minor'[devId'[g]] = named'[g] /\ IsTty(named'[g])
    <3>1. g # f BY <2>2, <1>7
    <3> QED BY <3>1, <2>1, <2>2, <1>6, <1>7 DEF FilesInv, OpenFilesAreBound
  <2>3. \A d \in Dev : openCount'[d] > 0 => IsTty(minor'[d])
    BY <1>6 DEF FilesInv, OpenFilesAreBound
  <2> QED BY <2>2, <2>3 DEF OpenFilesAreBound, IsTty
<1> QED BY <1>9, <1>10, <1>12, <1>13, <1>14 DEF FilesInv

(* sys_dup: the file is open and its task is not in sys_open. *)
LEMMA DupKeepsInv ==
  ASSUME FilesInv, NEW t \in Task, NEW c \in Fd, Dup(t, c)
  PROVE  FilesInv'
<1>1. PICK f \in File : f = fds[t][c]
  <2>1. fds[t][c] \in File \cup {NoFile} BY DEF FilesInv, TypeOK
  <2> QED BY <2>1 DEF Dup
<1>2. PICK d \in FreeFds(t) : fds' = [fds EXCEPT ![t][d] = f]
  BY <1>1, SearchedSets DEF Dup
<1>3. /\ At(t, "run") /\ ref' = [ref EXCEPT ![f] = @ + 1]
      /\ UNCHANGED <<devId, openCount, minor, loc, named>>
  BY <1>1 DEF Dup
<1>4. ref[f] > 0 BY <1>1, RefOfFile
<1>5. /\ ref' \in [File -> Nat] /\ ref'[f] = ref[f] + 1
      /\ \A g \in File \ {f} : ref'[g] = ref[g]
  BY <1>3 DEF FilesInv, TypeOK
<1>6. /\ fds' \in [Task -> [Fd -> File \cup {NoFile}]]
      /\ <<t, d>> \notin Refs(f)
      /\ Refs(f)' = Refs(f) \cup {<<t, d>>}
      /\ \A g \in File \ {f} : Refs(g)' = Refs(g)
  BY <1>2, RefsOfNewFd DEF FilesInv
<1>7. TypeOK' BY <1>3, <1>5, <1>6 DEF FilesInv, TypeOK
<1>8. Opened(f)
  <2>1. <<t, c>> \in Refs(f) BY <1>1 DEF Refs
  <2>2. ASSUME NEW u \in Task, loc[u].file = f PROVE FALSE
    <3>1. ~ At(u, "run") BY <2>2 DEF FilesInv, OpeningOwnsItsFile, Idle, NoFile
    <3>2. u # t BY <3>1, <1>3
    <3>3. Refs(f) = {} \/ Refs(f) = {<<u, loc[u].fd>>}
      BY <2>2, <3>1 DEF FilesInv, OpeningOwnsItsFile, OwnsItsFile
    <3> QED BY <2>1, <3>2, <3>3
  <2> QED BY <2>2 DEF Opened
<1>9. OpeningOwnsItsFile'
  <2>1. ASSUME NEW u \in Task
        PROVE  (At(u, "run")' => loc'[u] = Idle) /\ (~ At(u, "run")' => OwnsItsFile(u)')
    <3>1. At(u, "run")' = At(u, "run") /\ At(u, "failed")' = At(u, "failed")
      BY <1>3 DEF At
    <3>2. loc[u].file # f BY <1>8 DEF Opened
    <3>3. ~ At(u, "run") => loc[u].file \in File /\ Refs(loc[u].file)' = Refs(loc[u].file)
      BY <3>2, <1>3, <1>6 DEF FilesInv, OpeningOwnsItsFile, OwnsItsFile
    <3> QED BY <3>1, <3>3, <1>3 DEF FilesInv, OpeningOwnsItsFile, OwnsItsFile
  <2> QED BY <2>1 DEF OpeningOwnsItsFile
<1>10. RefsCounted'
  <2>1. \A g \in File : Pending(g)' = Pending(g) BY <1>3 DEF Pending
  <2>2. Cardinality(Refs(f)') = Cardinality(Refs(f)) + 1
    BY <1>6, CountedSetsAreFinite, FS_AddElement
  <2>3. Cardinality(Refs(f)) \in Nat /\ Cardinality(Pending(f)) \in Nat
    BY CountedSetsAreFinite
  <2>4. ref'[f] = Cardinality(Refs(f)') + Cardinality(Pending(f)')
    BY <2>1, <2>2, <2>3, <1>5 DEF FilesInv, RefsCounted
  <2> QED BY <2>1, <2>4, <1>5, <1>6 DEF FilesInv, RefsCounted
<1>11. DevicesCounted'
  <2>1. \A e \in Dev : FilesOf(e)' = FilesOf(e)
    BY <1>3, <1>4, <1>5 DEF FilesOf, FilesInv, TypeOK
  <2> QED BY <2>1, <1>3, DevicesUnchanged DEF FilesInv
<1>12. OpenFilesAreBound'
  <2>1. \A g \in File : (ref'[g] > 0 => ref[g] > 0) /\ (Opened(g)' <=> Opened(g))
    BY <1>3, <1>4, <1>5 DEF Opened
  <2> QED BY <2>1, <1>3 DEF FilesInv, OpenFilesAreBound, IsTty
<1> QED BY <1>7, <1>9, <1>10, <1>11, <1>12 DEF FilesInv

-----------------------------------------------------------------------------
(* At the start nothing is open but the device of the log. *)
LEMMA InitHasInv ==
  ASSUME Init
  PROVE  FilesInv
<1>1. NoFile \notin File /\ NoDev \notin Dev BY DEF NoFile, NoDev
<1>2. TypeOK BY IdleIsALocation DEF Init, TypeOK, NoNum
<1>3. \A t \in Task : loc[t] = Idle /\ At(t, "run") BY DEF Init, At, Idle
<1>4. OpeningOwnsItsFile BY <1>3 DEF OpeningOwnsItsFile
<1>5. RefsCounted
  <2>1. ASSUME NEW f \in File PROVE ref[f] = Cardinality(Refs(f)) + Cardinality(Pending(f))
    <3>1. Refs(f) = {} BY <1>1 DEF Refs, Init
    <3>2. Pending(f) = {} BY <1>1, <1>3 DEF Pending, Idle
    <3> QED BY <3>1, <3>2, FS_EmptySet DEF Init
  <2> QED BY <2>1 DEF RefsCounted
<1>6. DevicesCounted
  <2>1. ASSUME NEW d \in Dev
        PROVE  openCount[d] = (IF d = LogDev THEN 1 ELSE 0) + Cardinality(FilesOf(d))
    <3>1. FilesOf(d) = {} BY DEF FilesOf, Init
    <3>2. Cardinality(FilesOf(d)) = 0 BY <3>1, FS_EmptySet
    <3> QED BY <3>2 DEF Init
  <2>2. \A d, e \in Dev : openCount[d] > 0 /\ openCount[e] > 0 => d = e BY DEF Init
  <2> QED BY <2>1, <2>2 DEF DevicesCounted, FilesOf
<1>7. OpenFilesAreBound BY DEF OpenFilesAreBound, Init, IsTty
<1> QED BY <1>2, <1>4, <1>5, <1>6, <1>7 DEF FilesInv

(* The invariant of the open files and the devices holds in all states. *)
THEOREM FilesInvHolds == Spec => []FilesInv
<1>1. Init => FilesInv BY InitHasInv
<1>2. FilesInv /\ [Next]_vars => FilesInv'
  <2> SUFFICES ASSUME FilesInv, [Next]_vars PROVE FilesInv' OBVIOUS
  <2>1. ASSUME NEW t \in Task, NEW num \in Num \cup {NoNum}, OpenFile(t, num)
        PROVE  FilesInv'
    BY <2>1, OpenFileKeepsInv
  <2>2. ASSUME NEW t \in Task, OpenAgain(t) PROVE FilesInv' BY <2>2, OpenAgainKeepsInv
  <2>3. ASSUME NEW t \in Task, OpenDevice(t) PROVE FilesInv' BY <2>3, OpenDeviceKeepsInv
  <2>4. ASSUME NEW t \in Task, OpenFailed(t) PROVE FilesInv' BY <2>4, OpenFailedKeepsInv
  <2>5. ASSUME NEW t \in Task, NEW d \in Fd, Dup(t, d) PROVE FilesInv' BY <2>5, DupKeepsInv
  <2>6. CASE UNCHANGED vars
    <3>1. TypeOK' /\ RefsCounted' /\ DevicesCounted'
      BY <2>6 DEF vars, FilesInv, TypeOK, RefsCounted, DevicesCounted, Refs, Pending
    <3>2. OpeningOwnsItsFile'
      BY <2>6 DEF vars, FilesInv, OpeningOwnsItsFile, OwnsItsFile, Refs, At
    <3>3. OpenFilesAreBound'
      BY <2>6 DEF vars, FilesInv, OpenFilesAreBound, Opened, IsTty
    <3> QED BY <3>1, <3>2, <3>3 DEF FilesInv
  <2> QED BY <2>1, <2>2, <2>3, <2>4, <2>5, <2>6 DEF Next
<1> QED BY <1>1, <1>2, PTL DEF Spec

(* Every file counts the descriptors that refer to it, and the open that   *)
(* has not got one, through all interleavings of open and dup (fs/fs.c).   *)
THEOREM RefsAlwaysCounted == Spec => []RefsCounted
<1>1. FilesInv => RefsCounted BY DEF FilesInv
<1> QED BY <1>1, FilesInvHolds, PTL

(* Every device counts the open files that have it, the one of the log     *)
(* besides, and no terminal has two devices (dev_open, dev/dev.c).         *)
THEOREM DevicesAlwaysCounted == Spec => []DevicesCounted
<1>1. FilesInv => DevicesCounted BY DEF FilesInv
<1> QED BY <1>1, FilesInvHolds, PTL

(* A descriptor of a task that is not in sys_open has a file that nobody   *)
(* is opening: it is bound, to a device that is counted as open.           *)
LEMMA UsableFilesAreBound ==
  ASSUME FilesInv, NEW t \in Task, NEW d \in Fd, At(t, "run"), fds[t][d] # NoFile
  PROVE  LET f == fds[t][d]
         IN  /\ devId[f] \in Dev /\ openCount[devId[f]] > 0
             /\ minor[devId[f]] = named[f] /\ IsTty(named[f])
<1>0. PICK f \in File : fds[t][d] = f
  <2>1. fds[t][d] \in File \cup {NoFile} BY DEF FilesInv, TypeOK
  <2> QED BY <2>1
<1>1. ref[f] > 0 BY <1>0, RefOfFile
<1>2. ASSUME NEW u \in Task, loc[u].file = f PROVE FALSE
  <2>1. ~ At(u, "run") BY <1>2 DEF FilesInv, OpeningOwnsItsFile, Idle, NoFile
  <2>2. <<t, d>> \in Refs(f) BY <1>0 DEF Refs
  <2>3. Refs(f) = {} \/ Refs(f) = {<<u, loc[u].fd>>}
    BY <1>2, <2>1 DEF FilesInv, OpeningOwnsItsFile, OwnsItsFile
  <2> QED BY <2>1, <2>2, <2>3
<1>3. Opened(f) BY <1>2 DEF Opened
<1>4. devId[f] \in Dev /\ minor[devId[f]] = named[f] /\ IsTty(named[f])
  BY <1>1, <1>3 DEF FilesInv, OpenFilesAreBound
<1>5. openCount[devId[f]] > 0 BY <1>1, <1>4, DeviceOfFileIsOpen
<1> QED BY <1>0, <1>4, <1>5

(* sys_write gets to the terminal that its descriptor was opened for and   *)
(* sys_read to that of descriptor 0, through the three tables that other   *)
(* tasks change at the same time (fs/fs.c, core/task.c, dev/dev.c).        *)
THEOREM DescriptorReachesItsTerminal == Spec => []ReachesItsTerminal
<1>1. FilesInv => ReachesItsTerminal
  <2> SUFFICES ASSUME FilesInv, NEW t \in Task, NEW d \in Fd, At(t, "run")
               PROVE  /\ fds[t][d] # NoFile =>
                           /\ WriteTty(t, d) = named[fds[t][d]]
                           /\ IsTty(WriteTty(t, d))
                      /\ ReadTty(t, d) = IF TaskFile(t, 0) = NoFile
                                         THEN NoTty ELSE named[TaskFile(t, 0)]
    BY DEF ReachesItsTerminal
  <2>1. ASSUME NEW e \in Fd, fds[t][e] # NoFile
        PROVE  WriteTty(t, e) = named[fds[t][e]] /\ IsTty(WriteTty(t, e))
    <3>1. TaskFile(t, e) = fds[t][e] BY DEF TaskFile
    <3>2. DevTty(devId[fds[t][e]]) = named[fds[t][e]] /\ IsTty(named[fds[t][e]])
      BY <2>1, UsableFilesAreBound DEF DevTty, GetTty
    <3> QED BY <2>1, <3>1, <3>2 DEF WriteTty
  <2>2. ReadTty(t, d) = IF TaskFile(t, 0) = NoFile THEN NoTty ELSE named[TaskFile(t, 0)]
    <3>1. CASE TaskFile(t, 0) = NoFile BY <3>1 DEF ReadTty, WriteTty
    <3>2. CASE TaskFile(t, 0) # NoFile
      <4>1. 0 \in Fd /\ TaskFile(t, 0) = fds[t][0] BY <3>2 DEF TaskFile
      <4>2. WriteTty(t, 0) = named[TaskFile(t, 0)] BY <2>1, <3>2, <4>1
      <4> QED BY <3>2, <4>2 DEF ReadTty
    <3> QED BY <3>1, <3>2
  <2> QED BY <2>1, <2>2
<1> QED BY <1>1, FilesInvHolds, PTL

=============================================================================
