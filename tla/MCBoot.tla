------------------------------- MODULE MCBoot -------------------------------
(* Machines with memory below the EBDA and from ExtStart on: less than the *)
(* page tables need, up to ExtEnd, behind it, more than the bitmap's place *)
(* has bits for, and more than Wrap.  Some have a hole behind ExtStart.    *)
(* Between and behind these there are reserved areas, entries to ignore,   *)
(* or more entries than the loader asks for.                               *)
EXTENDS Boot

Region(start, size, usable, ignored) ==
  [start |-> start, size |-> size, usable |-> usable, ignored |-> ignored]

Ram(start, size) == Region(start, size, TRUE, FALSE)
Reserved(start, size) == Region(start, size, FALSE, FALSE)

LowSize == {13, 15, 16}
ExtSize == {4, 10, 20, 21, 24, 27, 28, 33, 38, 60, 90, 138, 150}

Maps ==
  UNION { LET ram == <<Ram(0, low), Ram(ExtStart, ext)>>
              hole == <<Reserved(low, ExtStart - low)>>
              behind == <<Reserved(ExtStart + ext, 4)>>
          IN  { ram,
                ram \o behind,
                <<ram[1]>> \o hole \o <<ram[2]>> \o behind,
                <<ram[2], ram[1]>>,
                <<ram[1], Region(low, 3, TRUE, TRUE), ram[2]>>,
                Append(ram, Region(ExtStart + ext, 4, TRUE, TRUE)),
                Append(ram, Ram(ExtStart + ext + 6, 14)),
                ram \o behind \o behind \o hole \o behind }
          : low \in LowSize, ext \in ExtSize }

(* A PC of 128 MB: its memory ends behind ExtEnd, and the sum of its sizes *)
(* does, too, although a part of it lies below the EBDA.                   *)
UsualPC ==
  [map |-> <<Ram(0, 15), Reserved(15, 5), Ram(ExtStart, 35), Reserved(55, 1)>>,
   marked |-> TRUE]

Machines == [map : Maps, marked : BOOLEAN] \cup {UsualPC}

=============================================================================
