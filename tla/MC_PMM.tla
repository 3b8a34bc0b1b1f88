-------------------------------- MODULE MC_PMM --------------------------------
(***************************************************************************)
(* A small instance of PMM: four bits of bitmap per frame, so that a map   *)
(* of five to eight frames needs two frames of bitmap.                     *)
(***************************************************************************)
EXTENDS PMM

CONSTANTS vmm, heap

MCClients == {vmm, heap}

Memory(start, pages) == [type |-> "EfiConventionalMemory", start |-> start, pages |-> pages]
Loader(start, pages) == [type |-> "EfiLoaderData", start |-> start, pages |-> pages]

MCMaps ==
  { << Memory(0, 2), Loader(2, 1), Memory(3, 4) >>,    \* conventional memory from 0 on
    << Memory(5, 3), Memory(1, 3), Loader(0, 1) >>,    \* not sorted, a hole at 4
    << Memory(1, 1), Memory(2, 4) >>,                  \* the first is too small for the bitmap
    << Loader(0, 1), Memory(1, 3), Loader(4, 3) >>,    \* the loader ends above it
    << Memory(0, 6) >>,                                \* only frame 0 could begin the bitmap
    << Memory(1, 1), Memory(3, 1), Memory(5, 1) >>,    \* too scattered for the bitmap
    << Memory(1, 2), Memory(4, 1), Memory(6, 1) >>,    \* no two free frames together
    << Loader(0, 2) >> }                               \* no conventional memory
===============================================================================
