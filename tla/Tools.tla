-------------------------------- MODULE Tools --------------------------------
(***************************************************************************)
(* The tools of the kernel that its other parts build on, each by itself:  *)
(* lists with their pointers, formats, and names.  A behaviour uses one.   *)
(***************************************************************************)
EXTENDS LinkedList, Klib

VARIABLE tool   \* the tool; never changes

toolVars == <<tool, vars, formatVars, nameVars>>

ToolsInit == tool \in {"list", "format", "name"} /\ Init /\ KlibInit

ToolsNext ==
  /\ \/ tool = "list" /\ Next /\ UNCHANGED <<formatVars, nameVars>>
     \/ tool = "format" /\ KernelVsprintf /\ UNCHANGED vars
     \/ tool = "name" /\ NameTask /\ UNCHANGED vars
  /\ UNCHANGED tool

ToolsSpec == ToolsInit /\ [][ToolsNext]_toolVars

=============================================================================
