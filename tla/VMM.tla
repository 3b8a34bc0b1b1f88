---------------------------------- MODULE VMM ----------------------------------
(***************************************************************************)
(* The virtual memory manager, kernel/mm/vmm.cpp: page tables of several   *)
(* levels, each in a frame taken from the PMM, walked by software for each *)
(* page of a call and by the CPU, which keeps what it found in the TLB.    *)
(*                                                                         *)
(* Pages and frames are numbers, an address divided by FRAME_SIZE.  One    *)
(* step is one call of next_table, one access to a leaf entry, or one      *)
(* invlpg.  Calls do not overlap.  The flags of an entry other than        *)
(* Present are left out.                                                   *)
(***************************************************************************)
EXTENDS Integers, Sequences, FiniteSets

CONSTANTS
  LEVELS,      \* table levels, 4 in the code; level 0 maps pages
  FANOUT,      \* entries in a table, 512 in the code
  HHDM,        \* the page at which the direct map of all frames begins
  BootInfos,   \* the ranges of memory map and framebuffer the loader may give
  Pools,       \* the sets of free frames PMM may have when VMM::init is called
  Ranges,      \* the ranges, [virt, phys, count], that callers map and unmap
  Watched      \* the pages whose TLB entries are followed

ASSUME VMMAssumption ==
  /\ LEVELS \in Nat \ {0} /\ FANOUT \in Nat \ {0}
  /\ HHDM \in Nat \ {0}
  /\ \A p \in Pools : p \subseteq Nat \ {0}
  /\ \A b \in BootInfos : b \in Seq([start : Nat, pages : Nat])
  /\ \A r \in Ranges : r \in [virt : Nat, phys : Nat, count : Nat]

NONE   == 0    \* no frame: what PMM answers on failure, and pml4Phys before init
ABSENT == -1   \* an entry without the Present flag; frame 0 can be mapped

VARIABLES
  ranges,      \* the ranges VMM::init maps
  boot,        \* how many calls of map_range VMM::init has made or skipped
  pml4Phys,
  physOffset,  \* 0, then HHDM once VMM::init is done
  tables,      \* tables[f]: the entries of the table in frame f; or ABSENT
  pool,        \* the free frames of the PMM
  pc,
  call,        \* the call of map_range or unmap_range that runs
  i,           \* how many of its pages are done
  level, table,\* where the walk for the current page is
  tlb          \* a translation the CPU may have cached, or {}

walkVars == <<pc, call, i, level, table>>
vars == <<ranges, boot, pml4Phys, physOffset, tables, pool, walkVars, tlb>>
-------------------------------------------------------------------------------
\* What is left of the page number v when its indices below level l are shifted
\* out, and VMM::index, the lowest digit of it.
Above(v) ==
  LET at[l \in 0 .. LEVELS] == IF l = 0 THEN v ELSE at[l - 1] \div FANOUT
  IN  at

Index(v, l) == Above(v)[l] % FANOUT

\* What memset leaves in a new table, and what was there before it.
EmptyTableStale == [x \in 0 .. FANOUT - 1 |-> IF pml4Phys = NONE THEN ABSENT ELSE pml4Phys]
EmptyTable      == [x \in 0 .. FANOUT - 1 |-> ABSENT]

\* The table of level l that the walk for page v reaches, and what it finds at
\* level 0: what the software and the CPU see of the tables.
TableAt(v, l) ==
  LET at[k \in 0 .. LEVELS - 1] ==
        IF k = LEVELS - 1 THEN pml4Phys
        ELSE LET above == at[k + 1]
             IN  IF above \in {NONE, ABSENT} THEN ABSENT ELSE tables[above][Index(v, k + 1)]
  IN  at[l]

Translate(v) ==
  LET leaf == TableAt(v, 0)
  IN  IF leaf \in {NONE, ABSENT} THEN ABSENT ELSE tables[leaf][Index(v, 0)]
Mapped(v) == Translate(v) # ABSENT
-------------------------------------------------------------------------------
NoCall == [op |-> "none", virt |-> 0, phys |-> 0, count |-> 0]

Init ==
  /\ ranges \in BootInfos /\ pool \in Pools
  /\ boot = 0 /\ pml4Phys = NONE /\ physOffset = 0
  /\ tables = [f \in {} |-> EmptyTable]
  /\ pc = "reset" /\ call = NoCall /\ i = 0 /\ level = 0 /\ table = NONE
  /\ tlb = {}

\* PMM::alloc_frame answers the lowest free frame, PMM.tla shows.
Lowest(S) == CHOOSE f \in S : \A g \in S : f <= g

\* What the walk does next: begin the page with number `page` of call c, or
\* return.  VMM::init goes on to its next range.
Continue(c, page) ==
  IF page = c.count
    THEN /\ pc' = IF physOffset = 0 THEN "boot" ELSE "idle"
         /\ call' = NoCall /\ i' = 0 /\ level' = 0 /\ table' = NONE
    ELSE /\ pc' = "walk" /\ call' = c /\ i' = page
         /\ level' = LEVELS - 1 /\ table' = pml4Phys

\* map_range takes back the pages before the one it failed on.
RollBackNone(n) == 0
RollBack(n)     == n
MapFails == Continue([call EXCEPT !.op = "undo", !.count = RollBack(i)], 0)

Page == call.virt + i

\* Software reaches a frame at physOffset: with the loader's page tables, in
\* which every frame is at its own address, until init has loaded its own.
Reachable(f) == physOffset = 0 \/ Translate(physOffset + f) = f
-------------------------------------------------------------------------------
\* VMM::init: the root table, then map_both for each range, then cr3.
InitRoot ==
  /\ pc = "reset"
  /\ IF pool = {} THEN pc' = "panic" /\ UNCHANGED <<pml4Phys, tables, pool>>
     ELSE /\ pc' = "boot"
          /\ pml4Phys' = Lowest(pool)
          /\ tables' = [f \in {pml4Phys'} |-> EmptyTable]
          /\ pool' = pool \ {pml4Phys'}
  /\ UNCHANGED <<ranges, boot, physOffset, call, i, level, table, tlb>>

\* The two calls of map_both for a range: where it is, unless that is 0, and
\* in the direct map.  Whether they succeed does not matter to it.
MapBothSkips(r, half) ==
  [op |-> "map", virt |-> half * HHDM + r.start, phys |-> r.start,
   count |-> IF r.start = 0 THEN 0 ELSE r.pages]
MapBoth(r, half) ==
  IF half = 0
    THEN [op |-> "map", virt |-> r.start, phys |-> r.start,
          count |-> IF r.start = 0 THEN 0 ELSE r.pages]
    ELSE [op |-> "map", virt |-> HHDM + r.start, phys |-> r.start, count |-> r.pages]

\* Requested by init or by callers: all that may ever become mapped.
Requests ==
  {[virt |-> r.virt, phys |-> r.phys, count |-> r.count] : r \in Ranges} \cup
  {[virt |-> m.virt, phys |-> m.phys, count |-> m.count] :
     m \in UNION {{MapBoth(b[k], half) : k \in DOMAIN b, half \in 0 .. 1} : b \in BootInfos}}

\* Addresses are canonical: no two pages that are asked for differ only in bits
\* above those that a walk looks at.
VirtualPages == {v \in Nat : Above(v)[LEVELS] = 0}

ASSUME Canonical ==
  /\ \A r \in Requests : \A k \in 0 .. r.count - 1 : r.virt + k \in VirtualPages
  /\ Watched \subseteq VirtualPages

\* The calls of map_range that init makes, in order.
BootCall(b, n) == MapBoth(b[n \div 2 + 1], n % 2)

InitRange ==
  /\ pc = "boot" /\ boot < 2 * Len(ranges)
  /\ boot' = boot + 1
  /\ Continue(BootCall(ranges, boot), 0)
  /\ UNCHANGED <<ranges, pml4Phys, physOffset, tables, pool, tlb>>

InitLoads ==
  /\ pc = "boot" /\ boot = 2 * Len(ranges)
  /\ physOffset' = HHDM /\ pc' = "idle"
  /\ UNCHANGED <<ranges, boot, pml4Phys, tables, pool, call, i, level, table, tlb>>

\* A caller's map, map_range, unmap or unmap_range.
Call ==
  /\ pc = "idle"
  /\ \E op \in {"map", "unmap"}, r \in Ranges :
       /\ r.count > 0
       /\ Continue([op |-> op, virt |-> r.virt, phys |-> r.phys, count |-> r.count], 0)
  /\ UNCHANGED <<ranges, boot, pml4Phys, physOffset, tables, pool, tlb>>

\* Between calls the rest of the kernel takes frames, and gives back all it has.
OthersAlloc ==
  /\ pc = "idle" /\ pool # {}
  /\ pool' = pool \ {Lowest(pool)}
  /\ UNCHANGED <<ranges, boot, pml4Phys, physOffset, tables, walkVars, tlb>>

OthersFree ==
  /\ pc = "idle"
  /\ \E p \in Pools : DOMAIN tables \cup pool \subseteq p /\ pool' = p \ DOMAIN tables
  /\ UNCHANGED <<ranges, boot, pml4Phys, physOffset, tables, walkVars, tlb>>
-------------------------------------------------------------------------------
Entry == tables[table][Index(Page, level)]

Walking(l) == pc = "walk" /\ level = l /\ Reachable(table)

\* next_table finds the table below.
Descend ==
  /\ \E l \in 1 .. LEVELS - 1 : Walking(l)
  /\ Entry # ABSENT
  /\ table' = Entry /\ level' = level - 1
  /\ UNCHANGED <<ranges, boot, pml4Phys, physOffset, tables, pool, pc, call, i, tlb>>

\* next_table makes it: takes a frame, clears it, and enters it.
Link(f) == [tables EXCEPT ![table][Index(Page, level)] = f]

NewTable ==
  /\ \E l \in 1 .. LEVELS - 1 : Walking(l)
  /\ Entry = ABSENT /\ call.op = "map" /\ pool # {}
  /\ LET f == Lowest(pool)
     IN  /\ Reachable(f)
         /\ pool' = pool \ {f}
         /\ tables' = [t \in DOMAIN tables \cup {f} |->
                         IF t = f THEN EmptyTable ELSE Link(f)[t]]
         /\ table' = f /\ level' = level - 1
  /\ UNCHANGED <<ranges, boot, pml4Phys, physOffset, pc, call, i, tlb>>

\* It cannot: map fails.
NoTable ==
  /\ \E l \in 1 .. LEVELS - 1 : Walking(l)
  /\ Entry = ABSENT /\ call.op = "map" /\ pool = {}
  /\ MapFails
  /\ UNCHANGED <<ranges, boot, pml4Phys, physOffset, tables, pool, tlb>>

\* unmap has nothing to do for a page without a table.
UnmapSkips ==
  /\ \E l \in 1 .. LEVELS - 1 : Walking(l)
  /\ Entry = ABSENT /\ call.op # "map"
  /\ Continue(call, i + 1)
  /\ UNCHANGED <<ranges, boot, pml4Phys, physOffset, tables, pool, tlb>>

MapWrites ==
  /\ Walking(0) /\ call.op = "map" /\ Entry = ABSENT
  /\ tables' = Link(call.phys + i)
  /\ Continue(call, i + 1)
  /\ UNCHANGED <<ranges, boot, pml4Phys, physOffset, pool, tlb>>

MapRefused ==
  /\ Walking(0) /\ call.op = "map" /\ Entry # ABSENT
  /\ MapFails
  /\ UNCHANGED <<ranges, boot, pml4Phys, physOffset, tables, pool, tlb>>

\* unmap clears the entry, present or not, and then executes invlpg.
UnmapClears ==
  /\ Walking(0) /\ call.op # "map"
  /\ tables' = Link(ABSENT)
  /\ pc' = "invlpg"
  /\ UNCHANGED <<ranges, boot, pml4Phys, physOffset, pool, call, i, level, table, tlb>>

FlushedNone(v) == {}
Flushed(v)     == {v}

Invlpg ==
  /\ pc = "invlpg"
  /\ tlb' = {t \in tlb : t[1] \notin Flushed(Page)}
  /\ Continue(call, i + 1)
  /\ UNCHANGED <<ranges, boot, pml4Phys, physOffset, tables, pool>>

\* An access to a table, or to the frame for a new one, that is not mapped.
Faults ==
  /\ pc = "walk"
  /\ \/ ~Reachable(table)
     \/ /\ level > 0 /\ Entry = ABSENT /\ call.op = "map" /\ pool # {}
        /\ ~Reachable(Lowest(pool))
  /\ pc' = "fault"
  /\ UNCHANGED <<ranges, boot, pml4Phys, physOffset, tables, pool, call, i, level, table, tlb>>

Halted == pc \in {"panic", "fault"} /\ UNCHANGED vars

\* The CPU caches a translation it finds in its tables, and drops it, whenever
\* it likes.  One cached translation stands for any: they do not interact.
TlbFill ==
  /\ physOffset # 0 /\ tlb = {}
  /\ \E v \in Watched : Mapped(v) /\ tlb' = {<<v, Translate(v)>>}
  /\ UNCHANGED <<ranges, boot, pml4Phys, physOffset, tables, pool, walkVars>>

TlbEvict ==
  /\ tlb # {} /\ tlb' = {}
  /\ UNCHANGED <<ranges, boot, pml4Phys, physOffset, tables, pool, walkVars>>

Walk == Descend \/ NewTable \/ NoTable \/ UnmapSkips \/ MapWrites \/ MapRefused
        \/ UnmapClears \/ Invlpg \/ Faults

Next == InitRoot \/ InitRange \/ InitLoads \/ Call \/ OthersAlloc \/ OthersFree
        \/ Walk \/ Halted \/ TlbFill \/ TlbEvict

Spec == Init /\ [][Next]_vars
-------------------------------------------------------------------------------
\* The tables of each level, found from the root.
TablesOf ==
  LET of[l \in 0 .. LEVELS - 1] ==
        IF l = LEVELS - 1 THEN {pml4Phys}
        ELSE {tables[t][x] : t \in of[l + 1], x \in 0 .. FANOUT - 1} \ {ABSENT}
  IN  of

\* The same with their places, counted in tables of the level; at level -1 pages.
Reached ==
  LET at[l \in -1 .. LEVELS - 1] ==
        IF l = LEVELS - 1 THEN {<<0, pml4Phys>>} \ {<<0, NONE>>}
        ELSE {e \in {<<FANOUT * t[1] + x, tables[t[2]][x]>> :
                       t \in at[l + 1], x \in 0 .. FANOUT - 1} : e[2] # ABSENT}
  IN  at

TypeOK ==
  /\ boot \in 0 .. 2 * Len(ranges)
  /\ physOffset \in {0, HHDM}
  /\ \A f \in DOMAIN tables : tables[f] \in [0 .. FANOUT - 1 -> Nat \cup {ABSENT}]
  /\ pool \subseteq Nat \ {NONE}
  /\ pc \in {"reset", "boot", "idle", "walk", "invlpg", "panic", "fault"}
  /\ pc = "walk" => table \in DOMAIN tables /\ level \in 0 .. LEVELS - 1
  /\ i \in 0 .. call.count

\* The tables form a tree: each hangs at one entry of one table of the level
\* above, none is lost, none shared, and none is a free frame.  So what is
\* written for one page is never seen at another.
Tree ==
  pml4Phys # NONE =>
    /\ UNION {TablesOf[l] : l \in 0 .. LEVELS - 1} = DOMAIN tables
    /\ DOMAIN tables \cap pool = {}
    /\ \A l, m \in 0 .. LEVELS - 1 : l # m => TablesOf[l] \cap TablesOf[m] = {}
    /\ \A l \in 1 .. LEVELS - 1 : \A s, t \in TablesOf[l], x, y \in 0 .. FANOUT - 1 :
         tables[s][x] = tables[t][y] /\ tables[s][x] # ABSENT => s = t /\ x = y

\* The CPU uses no translation that the tables no longer hold, except for the
\* page whose invlpg comes next.
Coherent ==
  \A t \in tlb : Translate(t[1]) = t[2] \/ (pc = "invlpg" /\ t[1] = Page)

\* phys_to_virt gives access to a frame: once init is done, every table and
\* every frame that may become one is in the direct map.
GivesAccess == physOffset # 0 => \A f \in DOMAIN tables \cup pool : Reachable(f)

\* The tables that init needs if it maps all it asks for: the root, and for each
\* page one at each level, in the page's place.
Pages(c)     == c.virt .. c.virt + c.count - 1
InitPages(b) == UNION {Pages(BootCall(b, n)) : n \in 0 .. 2 * Len(b) - 1}
Needed(b) ==
  {<<LEVELS - 1, 0>>} \cup
  {<<l, Above(v)[l + 1]>> : l \in 0 .. LEVELS - 1, v \in InitPages(b)}

\* No call of init asks for a page of range k's direct map before the one that maps it:
\* a range that meets an earlier one is taken back in part.
Alone(b, k) ==
  \A n \in 0 .. 2 * k - 2 : Pages(BootCall(b, n)) \cap Pages(BootCall(b, 2 * k - 1)) = {}

\* There is enough memory for init's tables, all of it is in ranges that init can map,
\* and callers leave the direct map alone.
Ample ==
  \A p \in Pools : pml4Phys \in p =>
    /\ IsFiniteSet(p) /\ Cardinality(Needed(ranges)) <= Cardinality(p)
    /\ \A f \in p : \E k \in DOMAIN ranges :
         f - ranges[k].start \in 0 .. ranges[k].pages - 1 /\ Alone(ranges, k)
    /\ \A r \in Ranges : \A v \in Pages(r) : v - HHDM \notin p

\* phys_to_virt gives access to every frame if VMM::init had enough of them, and no
\* walk meets a table that is not mapped.
AmpleGivesAccess == Ample => GivesAccess /\ pc # "fault"

\* Pages that an unfinished map_range has mapped, or will still take back.
InFlight == CASE call.op = "map"  -> call.virt .. call.virt + i - 1
              [] call.op = "undo" -> call.virt .. call.virt + call.count - 1
              [] OTHER            -> {}

\* map_range maps a whole range or nothing, and unmaps nothing of another's,
\* wherever it fails and whatever tables it leaves behind.
Visible == [v \in {e[1] : e \in Reached[-1]} \ InFlight |-> Translate(v)]
Abstract == INSTANCE AddressSpace WITH space <- Visible
ImplementsAddressSpace == Abstract!Spec

\* The tables are in order at every step: well typed, and a tree in frames of
\* their own, also when frames ran out half way.
TablesInv == TypeOK /\ Tree
===============================================================================
