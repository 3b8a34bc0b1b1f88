-------------------------------- MODULE Boot --------------------------------
(***************************************************************************)
(* The kernel's way up, kernel/entry.cpp: _start calls PMM::init,          *)
(* VMM::init and HeapAlloc and makes the console, all of which live on the *)
(* frames of one manager.  PMM is the frame manager itself, its calls are  *)
(* the steps here; of VMM and heap it is the demand for frames that counts *)
(* and what they do when it is refused.                                    *)
(***************************************************************************)
EXTENDS PMM

CONSTANTS
    vmm, heap,          \* the two clients
    MaxTarget,          \* the size HeapAlloc tries first: 256 frames
    HEAP_MAX_PAGES,
    PagesPerTable,      \* entries of a lowest page table: 512
    UpperTables,        \* tables above the lowest that the heap's range needs: two
    BootTables,         \* bound: tables that the memory map needs
    ScreenPages         \* pages that the framebuffers of machines have

\* a number without odd divisors but 1
PowerOfTwo(n) == \A d \in 1..n : n % d = 0 => d = 1 \/ d % 2 = 0

ASSUME BootAssumption ==
    /\ Clients = {vmm, heap} /\ vmm # heap
    /\ MaxTarget \in Nat \ {0, 1} /\ PowerOfTwo(MaxTarget)
    /\ {HEAP_MAX_PAGES, PagesPerTable} \subseteq Nat \ {0}
    /\ {UpperTables, BootTables} \subseteq Nat
    /\ ScreenPages \subseteq Nat \ {0}
    /\ 1..MaxTarget \cup ScreenPages \cup {n + 1 : n \in ScreenPages} \subseteq Counts

VARIABLES
    stage,
    ShadowPages,    \* pages of the framebuffer, and so of its second copy
    room,           \* what its last page has room for
    demand,         \* tables still to be asked for in this stage
    targetSize, HeapInitSize,
    base, size,     \* the frames being mapped for the heap
    left            \* history: the free frames when HeapAlloc was called

boot == <<stage, ShadowPages, room, demand, targetSize, HeapInitSize, base, size, left>>

(***************************************************************************)
(* A framebuffer need not end with a page.  Its last page may have no room *)
(* for anything else, for the header of a block, for the objects that come *)
(* before the copy in the heap's first block too (Framebuffer, Console,    *)
(* framebuffer_t), and for the one that comes after it (Framebuffer).      *)
(***************************************************************************)
Rooms == 0..3
Header == 1
Before == 2
After == 3

BootInit ==
    /\ Init
    /\ stage = "pmm" /\ ShadowPages \in ScreenPages /\ room \in Rooms /\ demand = 0
    /\ targetSize = MaxTarget /\ HeapInitSize = 0
    /\ base = 0 /\ size = 0 /\ left = {}

Goto(next) == stage' = next /\ UNCHANGED <<ShadowPages, room>>

InitPmm ==
    /\ stage = "pmm" /\ PmmInit
    /\ Goto(IF phase' = "ready" THEN "root" ELSE "panic")
    /\ UNCHANGED <<demand, targetSize, HeapInitSize, base, size, left>>

\* the root table, and ASSERT(pml4Phys != 0); what the memory map then needs
\* in tables depends on the machine
Root ==
    /\ stage = "root"
    /\ \/ AllocFrames(vmm, 1) /\ Goto("tables") /\ demand' \in 0..BootTables
       \/ AllocFails(1)       /\ Goto("panic")  /\ UNCHANGED demand
    /\ UNCHANGED <<targetSize, HeapInitSize, base, size, left>>

\* the other tables; map_both goes on without those it does not get
Tables ==
    /\ stage = "tables" /\ demand > 0 /\ demand' = demand - 1
    /\ AllocFrames(vmm, 1) \/ AllocFails(1)
    /\ UNCHANGED <<stage, ShadowPages, room, targetSize, HeapInitSize, base, size, left>>

VmmReady ==
    /\ stage = "tables" /\ demand = 0
    /\ Goto("choose") /\ left' = Free
    /\ UNCHANGED <<vars, demand, targetSize, HeapInitSize, base, size>>

NoBreak == FALSE
Break == targetSize = 1

TooFewOrEqual == freeFrames <= targetSize
TooFew == freeFrames < targetSize

\* one round of HeapAlloc's loop, and the PANIC behind it
Choose ==
    /\ stage = "choose"
    /\ \/ Break /\ Goto("panic") /\ UNCHANGED <<targetSize, HeapInitSize>>
       \/ /\ ~Break /\ TooFew
          /\ targetSize' = targetSize \div 2
          /\ UNCHANGED <<stage, ShadowPages, room, HeapInitSize>>
       \/ /\ ~Break /\ ~TooFew
          /\ HeapInitSize' = targetSize
          /\ Goto(IF HeapInitSize' = 0 THEN "choose" ELSE "heap")
          /\ UNCHANGED targetSize
    /\ UNCHANGED <<vars, demand, base, size, left>>

\* Heap::init and grow: a run of frames, its tables, and the frames given back
\* when a table is refused.
Pages(n) == IF n > HEAP_MAX_PAGES THEN HEAP_MAX_PAGES ELSE n

\* The heap's range begins with a table of each level of its own: map_range asks
\* for the lowest ones as it comes to them, n pages behind the first `mapped`.
TablesOf(pages) == {p \div PagesPerTable : p \in pages}
NewTables(mapped, n) ==
    Cardinality(TablesOf(mapped..mapped + n - 1) \ TablesOf(0..mapped - 1))
HeapTables(n) == UpperTables + NewTables(0, n)

HeapFrames ==
    /\ stage = "heap"
    /\ \/ /\ AllocFrames(heap, Pages(HeapInitSize)) /\ Goto("map heap")
          /\ base' = answer'.first /\ size' = Pages(HeapInitSize)
          /\ demand' = HeapTables(Pages(HeapInitSize))
       \/ /\ AllocFails(Pages(HeapInitSize)) /\ Goto("panic")
          /\ UNCHANGED <<demand, base, size>>
    /\ UNCHANGED <<targetSize, HeapInitSize, left>>

Mapping == stage \in {"map heap", "map shadow"}

TableForHeap ==
    /\ Mapping /\ demand > 0 /\ demand' = demand - 1
    /\ AllocFrames(vmm, 1)
    /\ UNCHANGED <<stage, ShadowPages, room, targetSize, HeapInitSize, base, size, left>>

KeepsFrames(first, n) == UNCHANGED vars
GivesBack(first, n) == FreeFrames(heap, first, n)

NoTable ==
    /\ Mapping /\ demand > 0
    /\ freeFrames < 1 \/ Runs(totalFrames, used, 1) = {}
    /\ GivesBack(base, size)
    /\ Goto("panic")
    /\ UNCHANGED <<demand, targetSize, HeapInitSize, base, size, left>>

HeapReady ==
    /\ stage = "map heap" /\ demand = 0 /\ Goto("shadow")
    /\ UNCHANGED <<vars, demand, targetSize, HeapInitSize, base, size, left>>

(***************************************************************************)
(* Console's constructor clones the framebuffer.  If copy and objects fit  *)
(* the heap's first block, it does not grow; if only the object that comes *)
(* last does not, it grows for that, by a page; and if the copy does not,  *)
(* by the copy's pages and one more if its header needs it.                *)
(***************************************************************************)
WithRoomFor(what) == ShadowPages + (IF room >= what THEN 0 ELSE 1)
InFirstBlock(what) == WithRoomFor(what) <= Pages(HeapInitSize)

Growth ==
    IF InFirstBlock(After) THEN 0
    ELSE IF InFirstBlock(Before) THEN 1
    ELSE WithRoomFor(Header)

\* grow, and the ASSERTs of clone and of operator new
Shadow ==
    /\ stage = "shadow"
    /\ \/ /\ Growth = 0 /\ Goto("runs")
          /\ UNCHANGED <<vars, demand, base, size>>
       \/ /\ Growth > 0 /\ size + Growth > HEAP_MAX_PAGES /\ Goto("panic")
          /\ UNCHANGED <<vars, demand, base, size>>
       \/ /\ Growth > 0 /\ size + Growth <= HEAP_MAX_PAGES
          /\ \/ /\ AllocFrames(heap, Growth) /\ Goto("map shadow")
                /\ base' = answer'.first /\ size' = Growth
                /\ demand' = NewTables(size, Growth)
             \/ /\ AllocFails(Growth) /\ Goto("panic")
                /\ UNCHANGED <<demand, base, size>>
    /\ UNCHANGED <<targetSize, HeapInitSize, left>>

ShadowReady ==
    /\ stage = "map shadow" /\ demand = 0 /\ Goto("runs")
    /\ UNCHANGED <<vars, demand, targetSize, HeapInitSize, base, size, left>>

Steps ==
    \/ InitPmm \/ Root \/ Tables \/ VmmReady \/ Choose
    \/ HeapFrames \/ TableForHeap \/ NoTable \/ HeapReady \/ Shadow \/ ShadowReady

BootSpec == BootInit /\ [][Steps]_<<vars, boot>> /\ WF_<<vars, boot>>(Steps)

-----------------------------------------------------------------------------
BootTypeOK ==
    /\ ShadowPages \in ScreenPages /\ room \in Rooms
    /\ stage \in {"pmm", "root", "tables", "choose", "heap", "map heap", "shadow",
                  "map shadow", "runs", "panic"}
    /\ demand \in Nat
    /\ targetSize \in 1..MaxTarget /\ HeapInitSize \in 0..MaxTarget
    /\ base \in {0} \cup Frames /\ size \in Nat /\ left \subseteq Frames

\* the size that HeapAlloc settles for with this many free frames
Sizes == {t \in 2..MaxTarget : PowerOfTwo(t)}
Target(count) ==
    CHOOSE t \in {0} \cup Sizes :
        t <= count /\ \A u \in Sizes : u <= count => u <= t

\* The kernel gets its heap exactly when, of the frames VMM::init left, some run
\* is as long as the largest power of two the count allows, and enough are left
\* beside it for the heap's tables: a shorter run is not tried, nor a smaller
\* heap that would leave frames for tables.
HeapIffEnough ==
    LET n == Target(Cardinality(left))
        enough == /\ n > 0 /\ Cardinality(left) >= Pages(n) + HeapTables(Pages(n))
                  /\ \E f \in left : Run(f, Pages(n)) \subseteq left
    IN /\ stage \in {"shadow", "map shadow", "runs"} => enough
       /\ stage = "panic" /\ held[heap] = {} /\ left # {} => ~enough

\* The heap owns exactly the frames that are mapped for it: those of a mapping
\* that failed, be it at the first table or after some, are back with the manager
\* before the kernel gives up.
HeapBacked ==
    /\ stage \in {"map heap", "shadow"} => held[heap] = Run(base, size)
    /\ stage \in {"map shadow", "runs"} =>
          /\ Cardinality(held[heap]) = Pages(HeapInitSize) + Growth
          /\ Run(base, size) \subseteq held[heap]
    /\ stage = "panic" => Cardinality(held[heap]) \in {0, Pages(HeapInitSize)}

\* No choice of sizes and no refusal keeps the kernel from running or giving up.
ComesUpOrPanics == <>(stage \in {"runs", "panic"})

\* The kernel's way up is well typed, and the heap owns what is mapped for it.
BootInv == BootTypeOK /\ HeapBacked
=============================================================================
