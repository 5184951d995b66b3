-------------------------------- MODULE Boot --------------------------------
(***************************************************************************)
(* From the memory map of the BIOS to the address space of the kernel: the *)
(* loader asks for the map (detect_memory), memory_init sets up the bitmap *)
(* of free pages behind it, and create_kernel_table maps the kernel and    *)
(* all memory it may hand out to themselves, with page tables taken from   *)
(* that bitmap.  Nothing runs concurrently yet; what can go wrong is that  *)
(* the three do not agree.                                                 *)
(*                                                                         *)
(* The state it leaves is where the other modules begin.  Addresses are in *)
(* units of which a page has PageSize.  What is written to a page that is  *)
(* no memory is not followed: see TablesHold.                              *)
(***************************************************************************)
EXTENDS Integers, Sequences, FiniteSetsExt

CONSTANTS
  Machine,      \* what BIOSes answer: entries of start, size, usable (type 1),
                \* ignored (by its ACPI bit), and whether the last is marked so
  RegionMax,    \* BOOT_RAM_REGION_MAX
  PageSize,     \* MEM_PAGE_SIZE
  Wrap,         \* 2^32: sizes are kept in 32 bits
  EntryCnt,     \* entries of a page table
  TextStart, TextEnd, DataStart, KernelEnd,     \* s_text, e_text, s_data, mem_free_start
  EbdaStart, DispStart, DispEnd, ExtStart, ExtEnd

ASSUME BootAssumption ==
  /\ {RegionMax, PageSize, EntryCnt, Wrap} \subseteq Nat \ {0}
  /\ {TextStart, TextEnd, DataStart, KernelEnd, EbdaStart, DispStart, DispEnd,
      ExtStart, ExtEnd} \subseteq Nat
  /\ \A a \in {TextStart, DataStart, EbdaStart, DispStart, ExtStart, ExtEnd} : a % PageSize = 0
  /\ 0 < TextStart /\ TextStart < TextEnd /\ TextEnd <= DataStart /\ DataStart < KernelEnd
  /\ KernelEnd < EbdaStart /\ EbdaStart < DispStart
  /\ DispStart < DispEnd /\ DispEnd <= ExtStart /\ ExtStart < ExtEnd

VARIABLES
  machine,      \* the machine; never changes
  pc,           \* "detect", "init", "map", "on" with paging, "halt" in pannic
  calls,        \* i of detect_memory: calls of the BIOS so far
  contID,       \* the entry that the BIOS would tell next, from 1
  regions,      \* boot_info.ram_region_cfg
  frameCnt,     \* bit_count of the bitmap
  used,         \* pages whose bit is set, by number from ExtStart on
  tables,       \* kernel_page_dir: entry number -> page of its table
  mapped,       \* virtual page -> physical page and permission, where present
  area,         \* the area of kernel_map that is being mapped
  page          \* the page of it that comes next

bootVars == <<machine, pc, calls, contID, regions, frameCnt, used, tables, mapped, area, page>>

Up2(a) == (a + PageSize - 1) \div PageSize
Down2(a) == a \div PageSize

(* The first n of some sizes, added up. *)
SumOf(size, n) ==
  LET sum[i \in 0 .. n] == IF i = 0 THEN 0 ELSE sum[i - 1] + size[i]
  IN  sum[n]

(* kernel_map of create_kernel_table. *)
KernelMap ==
  << [start |-> 0, end |-> TextStart, write |-> TRUE],
     [start |-> TextStart, end |-> TextEnd, write |-> FALSE],
     [start |-> DataStart, end |-> EbdaStart, write |-> TRUE],
     [start |-> DispStart, end |-> DispEnd, write |-> TRUE],
     [start |-> ExtStart, end |-> ExtEnd, write |-> TRUE] >>

-----------------------------------------------------------------------------
Entry == [start : Nat, size : Nat, usable : BOOLEAN, ignored : BOOLEAN]

(* A BIOS may tell anything, in any order. *)
ASSUME MachineAssumption ==
  \A m \in Machine : m.map \in Seq(Entry) /\ m.marked \in BOOLEAN

-----------------------------------------------------------------------------
Init ==
  /\ machine \in Machine
  /\ pc = "detect"
  /\ calls = 0 /\ contID = 1 /\ regions = <<>>
  /\ frameCnt = 0 /\ used = {}
  /\ tables = <<>> /\ mapped = <<>>
  /\ area = 1 /\ page = 0

-----------------------------------------------------------------------------
(* A bug: the type of an entry is not looked at. *)
RegionsAnyType(entry) == Append(regions, entry)

(* The loader keeps the lower half of a size. *)
RegionsWith(entry) ==
  IF entry.usable THEN Append(regions, [entry EXCEPT !.size = @ % Wrap]) ELSE regions

(* One call of the BIOS in detect_memory.  Behind the last entry a BIOS    *)
(* that has not marked it fails.  After the last one it would begin again, *)
(* and does if that one is ignored: the code then does not look for the    *)
(* mark.                                                                   *)
AskBios ==
  /\ pc = "detect" /\ calls < RegionMax /\ contID <= Len(machine.map)
  /\ LET entry == machine.map[contID]
         last == contID = Len(machine.map) /\ machine.marked
     IN  /\ contID' = IF last THEN 1 ELSE contID + 1
         /\ regions' = IF entry.ignored THEN regions ELSE RegionsWith(entry)
         /\ pc' = IF last /\ ~ entry.ignored THEN "init" ELSE "detect"
  /\ calls' = calls + 1
  /\ UNCHANGED <<machine, frameCnt, used, tables, mapped, area, page>>

EndOfMap ==
  /\ pc = "detect" /\ (calls = RegionMax \/ contID > Len(machine.map))
  /\ pc' = "init"
  /\ UNCHANGED <<machine, calls, contID, regions, frameCnt, used, tables, mapped, area, page>>

TotalMemSize == SumOf([i \in DOMAIN regions |-> regions[i].size], Len(regions)) % Wrap

(* memory_init: what is counted as free memory from ExtStart on is all     *)
(* memory less that much.  The bitmap comes to lie behind the kernel.      *)
MemoryInit ==
  /\ pc = "init"
  /\ frameCnt' = Down2((TotalMemSize - ExtStart) % Wrap)
  /\ pc' = IF KernelEnd + (frameCnt' + 7) \div 8 < EbdaStart THEN "map" ELSE "halt"
  /\ UNCHANGED <<machine, calls, contID, regions, used, tables, mapped, area, page>>

Free == {f \in 0 .. frameCnt - 1 : f \notin used}
PageOf(frame) == Down2(ExtStart) + frame

NextArea == area' = area + 1 /\ page' = IF area = Len(KernelMap) THEN 0
                                        ELSE Down2(KernelMap[area + 1].start)

(* One page of memory_create_map, with find_pte: a table that is missing   *)
(* is allocated.  When there is none, the rest of the area is left out,    *)
(* and create_kernel_table goes on.                                        *)
MapPage ==
  LET a == KernelMap[area]
      i == page \div EntryCnt
      frame == Min(Free)
  IN  /\ pc = "map" /\ area <= Len(KernelMap)
      /\ IF page >= Up2(a.end) THEN NextArea /\ UNCHANGED <<pc, used, tables, mapped>>
         ELSE IF i \notin DOMAIN tables /\ Free = {}
         THEN NextArea /\ UNCHANGED <<pc, used, tables, mapped>>
         ELSE IF page \in DOMAIN mapped
         THEN pc' = "halt" /\ UNCHANGED <<used, tables, mapped, area, page>>
         ELSE /\ IF i \in DOMAIN tables THEN UNCHANGED <<used, tables>>
                 ELSE /\ used' = used \cup {frame}
                      /\ tables' = [j \in DOMAIN tables \cup {i} |->
                                      IF j = i THEN PageOf(frame) ELSE tables[j]]
              /\ mapped' = [v \in DOMAIN mapped \cup {page} |->
                              IF v = page THEN [to |-> page, write |-> a.write] ELSE mapped[v]]
              /\ page' = page + 1
              /\ UNCHANGED <<pc, area>>
      /\ UNCHANGED <<machine, calls, contID, regions, frameCnt>>

(* mmu_set_page_dir *)
PagingOn ==
  /\ pc = "map" /\ area > Len(KernelMap)
  /\ pc' = "on"
  /\ UNCHANGED <<machine, calls, contID, regions, frameCnt, used, tables, mapped, area, page>>

Next == AskBios \/ EndOfMap \/ MemoryInit \/ MapPage \/ PagingOn

Spec == Init /\ [][Next]_bootVars

-----------------------------------------------------------------------------
(* The entries of the page directory that the kernel fills. *)
TableOf(a) == {p \div EntryCnt : p \in Down2(KernelMap[a].start) .. Up2(KernelMap[a].end) - 1}
Needed == UNION {TableOf(a) : a \in DOMAIN KernelMap}

(* A page lies in memory that programs may use, whatever the loader saw.   *)
IsRam(p) ==
  \E i \in DOMAIN machine.map :
    LET r == machine.map[i]
    IN  r.usable /\ r.start <= p * PageSize /\ (p + 1) * PageSize <= r.start + r.size

(* There is a page for each table, and it is memory. *)
TablesHold ==
  Cardinality(Needed) <= frameCnt /\ \A i \in DOMAIN tables : IsRam(tables[i])

(* The sizes that a loader hears of that asks RegionMax times. *)
Heard(m) ==
  [i \in DOMAIN m.map |->
     IF m.map[i].usable /\ ~ m.map[i].ignored THEN m.map[i].size % Wrap ELSE 0]
Told(m) == SumOf(Heard(m), IF Len(m.map) < RegionMax THEN Len(m.map) ELSE RegionMax)

(* One piece of memory reaches from ExtStart, or below it, to where all    *)
(* that the loader hears of would end if it were one piece from 0 on: the  *)
(* kernel knows sizes only, and a hole below makes the sum smaller.  A     *)
(* BIOS that marks the last entry does not have it ignored.                *)
OnePiece(m) ==
  /\ \E i \in DOMAIN m.map :
       m.map[i].usable /\ m.map[i].start <= ExtStart /\ Told(m) <= m.map[i].start + m.map[i].size
  /\ ExtStart <= Told(m) /\ Told(m) < Wrap
  /\ ~ (m.marked /\ m.map[Len(m.map)].ignored)

Reached(p) == p \in DOMAIN mapped /\ mapped[p].to = p

(* What the kernel can rely on when paging begins, on any machine.  It is  *)
(* stopped by nothing but a bitmap too long for its place: no page is      *)
(* mapped twice.  The tables are pages of the bitmap, each one a page of   *)
(* its own.  If these hold what is written to them, then of the pages of   *)
(* the bitmap the kernel reaches, and can write, those that begin below    *)
(* ExtEnd and no others, and it reaches its own, with its code protected.  *)
(* If the memory is in one piece, all of the bitmap's pages are memory.    *)
PagesUsable ==
  /\ pc = "halt" => KernelEnd + (frameCnt + 7) \div 8 >= EbdaStart
  /\ pc = "on" =>
       /\ {tables[i] : i \in DOMAIN tables} = {PageOf(f) : f \in used}
       /\ used \subseteq 0 .. frameCnt - 1 /\ Cardinality(used) = Cardinality(DOMAIN tables)
  /\ pc = "on" /\ TablesHold =>
       /\ \A f \in 0 .. frameCnt - 1 :
            /\ Reached(PageOf(f)) <=> PageOf(f) < Down2(ExtEnd)
            /\ Reached(PageOf(f)) => mapped[PageOf(f)].write
       /\ \A p \in 0 .. Down2(EbdaStart) - 1 :
            /\ Reached(p) \/ (p >= Up2(TextEnd) /\ p < Down2(DataStart))
            /\ Reached(p) => (mapped[p].write <=> p \notin Down2(TextStart) .. Up2(TextEnd) - 1)
  /\ pc = "on" /\ OnePiece(machine) => \A f \in 0 .. frameCnt - 1 : IsRam(PageOf(f))

=============================================================================
