-------------------------------- MODULE MC_VMM --------------------------------
(***************************************************************************)
(* Small instances of VMM: three levels of tables with four entries, 16    *)
(* frames of memory, the direct map at page 32 and a heap at page 16.      *)
(***************************************************************************)
EXTENDS VMM

MCBootInfos ==
  { << [start |-> 8, pages |-> 8], [start |-> 0, pages |-> 8] >>,
    << [start |-> 0, pages |-> 16], [start |-> 14, pages |-> 2] >> }  \* the last overlaps

\* The second range meets the first half way, and needs two tables of pages.
MCRanges == { [virt |-> 17, phys |-> 5, count |-> 2],
              [virt |-> 16, phys |-> 9, count |-> 5] }

\* The tables that init builds take 9 frames.
AmplePool   == 1 .. 14
ScarcePool  == 3 .. 9
ScarcePools == {ScarcePool}
MCPools     == {AmplePool, ScarcePool, {}}
===============================================================================
