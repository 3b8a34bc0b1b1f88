------------------------------ MODULE MC_PMMLoops ------------------------------
(***************************************************************************)
(* A small instance of PMMLoops, with maps whose free frames lie in        *)
(* several runs.                                                           *)
(***************************************************************************)
EXTENDS PMMLoops

CONSTANT vmm, heap

MCClients == {vmm, heap}

Memory(start, pages) == [type |-> "EfiConventionalMemory", start |-> start, pages |-> pages]

MCMaps ==
  { << Memory(0, 3), Memory(4, 3) >>,
    << Memory(1, 2), Memory(3, 3) >>,
    << Memory(0, 4) >> }
===============================================================================
