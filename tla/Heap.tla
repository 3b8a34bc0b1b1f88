--------------------------------- MODULE Heap ---------------------------------
(***************************************************************************)
(* The kernel heap, kernel/mm/heap.cpp: first fit over a linked list of    *)
(* blocks, each with its header in front of its data, in one region of     *)
(* virtual memory that grows by whole frames.                              *)
(*                                                                         *)
(* One step is one iteration of a loop, or the straight code between two   *)
(* loops.  Calls do not overlap.  The frames and page tables below are the *)
(* environment: each request to them succeeds or fails.                    *)
(***************************************************************************)
EXTENDS Integers

CONSTANTS
  META_SIZE,    \* sizeof(blockmeta_t)
  ALIGN,        \* requests are rounded up to it; 16 in the code
  FRAME_SIZE,
  HEAP_MAX,
  SIZE_MOD,     \* size_t counts modulo this
  HeapStart,
  BootPages,    \* the sizes, in frames, that the boot may give Heap::init
  Sizes,        \* the sizes callers ask for
  Counts        \* the counts callers of calloc ask for

ASSUME SizesAssumption ==
  /\ META_SIZE \in Nat \ {0} /\ ALIGN \in Nat \ {0} /\ FRAME_SIZE \in Nat
  /\ META_SIZE < FRAME_SIZE
  /\ HEAP_MAX \in Nat /\ SIZE_MOD \in Nat
  /\ HeapStart \in Nat \ {0}
  /\ HeapStart + HEAP_MAX + FRAME_SIZE + META_SIZE + ALIGN < SIZE_MOD
ASSUME InputsAssumption ==
  BootPages \subseteq Nat /\ Sizes \subseteq Nat /\ Counts \subseteq Nat

NULL == 0

VARIABLES
  meta,     \* meta[b]: the header at address b, for the blocks of the list
  HeapEnd,
  frames,   \* how many frames the heap holds
  pc,       \* where the running call is; "idle" when none runs
  call,     \* its operation, the bytes wanted, the size scanned for, realloc's ptr
  cursor,   \* the block its loop looks at
  live,     \* live[p]: the bytes asked for, for each pointer p in use
  denied    \* the running call has been refused frames or page tables

vars == <<meta, HeapEnd, frames, pc, call, cursor, live, denied>>
------------------------------------------------------------------------------
AlignUp(n, a) == ((n + a - 1) \div a) * a

Ptr(b)   == b + META_SIZE
Block(p) == p - META_SIZE

\* The frames a request of `bytes` makes the heap grow by, and whether the
\* region may become that large.
PagesDown(bytes) == bytes \div FRAME_SIZE
PagesBeyond(bytes) == bytes \div FRAME_SIZE + 1
Pages(bytes)     == AlignUp(bytes, FRAME_SIZE) \div FRAME_SIZE
TooBig(pages) == HeapEnd + pages * FRAME_SIZE > HeapStart + HEAP_MAX

FitsUsed(b, n) == meta[b].size >= n
Fits(b, n)     == meta[b].free /\ meta[b].size >= n

\* split_block, for a block b that is about to hold n bytes: what is left
\* becomes a block of its own if a header and ALIGN bytes fit in it.
SplitNever(m, b, n) == m
SplitNoHeader(m, b, n) ==
  LET rest == b + META_SIZE + n
  IN  IF m[b].size < n + META_SIZE + ALIGN THEN m
      ELSE [a \in DOMAIN m \cup {rest} |->
              CASE a = b    -> [m[b] EXCEPT !.size = n, !.next = rest]
                [] a = rest -> [size |-> m[b].size - n, next |-> m[b].next, free |-> TRUE]
                [] OTHER    -> m[a]]
Split(m, b, n) ==
  LET rest == b + META_SIZE + n
  IN  IF m[b].size < n + META_SIZE + ALIGN THEN m
      ELSE [a \in DOMAIN m \cup {rest} |->
              CASE a = b    -> [m[b] EXCEPT !.size = n, !.next = rest]
                [] a = rest -> [size |-> m[b].size - n - META_SIZE,
                                next |-> m[b].next, free |-> TRUE]
                [] OTHER    -> m[a]]

\* The block after b becomes data of b.
Merge(m, b) ==
  LET gone == m[m[b].next]
  IN  [a \in DOMAIN m \ {m[b].next} |->
         IF a = b THEN [m[b] EXCEPT !.size = @ + META_SIZE + gone.size, !.next = gone.next]
                  ELSE m[a]]

\* The end of grow: a free block at `at` goes to the end of the list.
Append(m, at, size) ==
  [a \in DOMAIN m \cup {at} |->
     IF a = at THEN [size |-> size, next |-> NULL, free |-> TRUE]
     ELSE IF m[a].next = NULL THEN [m[a] EXCEPT !.next = at] ELSE m[a]]
------------------------------------------------------------------------------
NoCall == [op |-> "none", bytes |-> 0, size |-> 0, old |-> NULL]

Init ==
  /\ meta = [b \in {} |-> 0]
  /\ HeapEnd = HeapStart /\ frames = 0
  /\ pc = "boot" /\ call = NoCall /\ cursor = NULL
  /\ live = [p \in {} |-> 0]
  /\ denied = FALSE

\* Heap::init maps the first frames and makes one free block of them.
HeapInit ==
  /\ pc = "boot"
  /\ \E asked \in BootPages :
       LET max   == HEAP_MAX \div FRAME_SIZE
           pages == IF asked > max THEN max ELSE asked
       IN  /\ pages # 0
           /\ frames' = pages
           /\ HeapEnd' = HeapStart + pages * FRAME_SIZE
           /\ meta' = [b \in {HeapStart} |->
                         [size |-> HeapEnd' - HeapStart - META_SIZE,
                          next |-> NULL, free |-> TRUE]]
  /\ pc' = "idle"
  /\ UNCHANGED <<call, cursor, live, denied>>

\* No frames (ASSERT), or no room for page tables (frames returned, PANIC).
HeapInitPanics ==
  /\ pc = "boot" /\ pc' = "panic"
  /\ UNCHANGED <<meta, HeapEnd, frames, call, cursor, live, denied>>

Return == pc' = "idle" /\ call' = NoCall /\ cursor' = NULL

\* alloc returns nullptr: operator new asserts that it does not, calloc and
\* realloc hand it on, and realloc leaves the old block as it is.
ReturnNull(op) ==
  IF op = "new" THEN pc' = "panic" /\ call' = NoCall /\ cursor' = NULL ELSE Return

\* The entry of alloc for n bytes, itself or on behalf of one of its callers,
\* who is after `bytes` bytes.
Enter(op, bytes, n, old) ==
  /\ IF n = 0 \/ n > HEAP_MAX THEN ReturnNull(op)
     ELSE /\ pc' = "scan" /\ cursor' = HeapStart
          /\ call' = [op |-> op, bytes |-> bytes, size |-> AlignUp(n, ALIGN), old |-> old]
  /\ denied' = FALSE
  /\ UNCHANGED <<meta, HeapEnd, frames, live>>

Alloc == pc = "idle" /\ \E op \in {"alloc", "new"}, n \in Sizes : Enter(op, n, n, NULL)

CallocRefuses(count, size) == size # 0 /\ count > HEAP_MAX \div size

Calloc ==
  /\ pc = "idle"
  /\ \E count \in Counts, size \in Sizes :
       /\ ~CallocRefuses(count, size)
       /\ Enter("calloc", count * size, (count * size) % SIZE_MOD, NULL)

Realloc == pc = "idle" /\ \E p \in DOMAIN live, n \in Sizes : Enter("realloc", n, n, p)

\* alloc's first-fit search.
ScanSkip ==
  /\ pc = "scan" /\ cursor # NULL
  /\ ~Fits(cursor, call.size)
  /\ cursor' = meta[cursor].next
  /\ UNCHANGED <<meta, HeapEnd, frames, pc, call, live, denied>>

ScanTake ==
  /\ pc = "scan" /\ cursor # NULL
  /\ Fits(cursor, call.size)
  /\ LET m == Split(meta, cursor, call.size)
         p == Ptr(cursor)
     IN  /\ meta' = [m EXCEPT ![cursor].free = FALSE]
         /\ live' = [q \in DOMAIN live \cup {p} |-> IF q = p THEN call.bytes ELSE live[q]]
  /\ IF call.op = "realloc" THEN pc' = "copy" /\ UNCHANGED <<call, cursor>> ELSE Return
  /\ UNCHANGED <<HeapEnd, frames, denied>>

\* grow, when the search found nothing.
Grown == Pages(call.size + META_SIZE)

ScanEnds == pc = "scan" /\ cursor = NULL

GrowTooBig ==
  /\ ScanEnds /\ TooBig(Grown)
  /\ ReturnNull(call.op)
  /\ UNCHANGED <<meta, HeapEnd, frames, live, denied>>

\* PMM has no such run of frames.
NoFrames ==
  /\ ScanEnds /\ ~TooBig(Grown)
  /\ denied' = TRUE
  /\ ReturnNull(call.op)
  /\ UNCHANGED <<meta, HeapEnd, frames, live>>

GrowFrames ==
  /\ ScanEnds /\ ~TooBig(Grown)
  /\ frames' = frames + Grown
  /\ pc' = "map"
  /\ UNCHANGED <<meta, HeapEnd, call, cursor, live, denied>>

FramesBack(pages) == pages

MapFails ==
  /\ pc = "map"
  /\ frames' = frames - FramesBack(Grown)
  /\ denied' = TRUE
  /\ ReturnNull(call.op)
  /\ UNCHANGED <<meta, HeapEnd, live>>

MapDone ==
  /\ pc = "map"
  /\ meta' = Append(meta, HeapEnd, Grown * FRAME_SIZE - META_SIZE)
  /\ HeapEnd' = HeapEnd + Grown * FRAME_SIZE
  /\ pc' = "scan" /\ cursor' = HeapStart     \* alloc calls itself
  /\ UNCHANGED <<frames, call, live, denied>>

\* Mem::memcpy of realloc: as many bytes as the OLD block holds, to the new one.
\* More than the new one holds overwrite the headers behind it.
CopyOverruns ==
  /\ pc = "copy"
  /\ meta[Block(call.old)].size > meta[cursor].size
  /\ pc' = "corrupt"
  /\ UNCHANGED <<meta, HeapEnd, frames, call, cursor, live, denied>>

\* free marks the block and goes over the list once to merge free neighbours.
Release(p) ==
  /\ meta' = [meta EXCEPT ![Block(p)].free = TRUE]
  /\ live' = [q \in DOMAIN live \ {p} |-> live[q]]
  /\ pc' = "cleanup" /\ cursor' = HeapStart
  /\ UNCHANGED <<HeapEnd, frames, call, denied>>

Copy ==
  /\ pc = "copy"
  /\ meta[Block(call.old)].size <= meta[cursor].size
  /\ Release(call.old)

Free == pc = "idle" /\ \E p \in DOMAIN live : Release(p)

BothFree(b) == meta[b].free /\ meta[meta[b].next].free

\* The condition the loop ends on, and the block it looks at after a merge.
Last(b)           == b # NULL => meta[b].next = NULL
AfterMergeNext(b) == meta[meta[b].next].next
AfterMerge(b)     == b

CleanupMerge ==
  /\ pc = "cleanup" /\ ~Last(cursor)
  /\ BothFree(cursor)
  /\ meta' = Merge(meta, cursor)
  /\ cursor' = AfterMerge(cursor)
  /\ UNCHANGED <<HeapEnd, frames, pc, call, live, denied>>

CleanupAdvance ==
  /\ pc = "cleanup" /\ ~Last(cursor)
  /\ ~BothFree(cursor)
  /\ cursor' = meta[cursor].next
  /\ UNCHANGED <<meta, HeapEnd, frames, pc, call, live, denied>>

CleanupEnds ==
  /\ pc = "cleanup" /\ Last(cursor)
  /\ Return
  /\ UNCHANGED <<meta, HeapEnd, frames, live, denied>>

Halted == pc \in {"panic", "corrupt"} /\ UNCHANGED vars

\* The steps of a running call; the kernel's only thread goes on with them.
Work ==
  \/ ScanSkip \/ ScanTake \/ GrowTooBig \/ NoFrames \/ GrowFrames \/ MapFails
  \/ MapDone \/ Copy \/ CopyOverruns \/ CleanupMerge \/ CleanupAdvance \/ CleanupEnds

Next == HeapInit \/ HeapInitPanics \/ Alloc \/ Calloc \/ Realloc \/ Free \/ Work \/ Halted

Spec     == Init /\ [][Next]_vars
FairSpec == Spec /\ WF_vars(Work)
------------------------------------------------------------------------------
Blocks   == DOMAIN meta
After(b) == b + META_SIZE + meta[b].size

\* The type invariant: the list is closed, and so is each pointer into it.
TypeOK ==
  /\ Blocks \subseteq Nat \ {NULL}
  /\ \A b \in Blocks : /\ meta[b].size \in Nat /\ meta[b].free \in BOOLEAN
                       /\ meta[b].next \in Blocks \cup {NULL}
  /\ HeapEnd \in Nat /\ frames \in Nat
  /\ pc \in {"boot", "idle", "scan", "map", "copy", "cleanup", "panic", "corrupt"}
  /\ cursor \in Blocks \cup {NULL}
  /\ pc = "copy" => cursor # NULL /\ call.old \in DOMAIN live
  /\ \A p \in DOMAIN live : Block(p) \in Blocks /\ live[p] \in Nat
  /\ denied \in BOOLEAN

\* The blocks follow each other without gap or overlap from HeapStart to
\* HeapEnd, in the order of the list, through splits, merges and growth.
Tiling ==
  Blocks # {} /\ pc # "corrupt" =>
    /\ HeapStart \in Blocks
    /\ \A b \in Blocks :
         /\ After(b) = IF meta[b].next = NULL THEN HeapEnd ELSE meta[b].next
         /\ \A c \in Blocks : b < c => After(b) <= c

\* The blocks in use are the ones some caller has a pointer to.  Each holds
\* the bytes that caller is after and wastes less than split_block would have
\* cut off.
LiveBlocks ==
  pc # "corrupt" =>
    /\ DOMAIN live = {Ptr(b) : b \in {a \in Blocks : ~meta[a].free}}
    /\ \A p \in DOMAIN live :
         /\ live[p] <= meta[Block(p)].size
         /\ meta[Block(p)].size < AlignUp(live[p], ALIGN) + META_SIZE + ALIGN

\* The heap holds exactly the frames its region is made of, also after a grow
\* that found frames but could not map them, and it never outgrows HEAP_MAX.
FramesBacked ==
  /\ frames * FRAME_SIZE = HeapEnd - HeapStart + IF pc = "map" THEN Grown * FRAME_SIZE ELSE 0
  /\ HeapEnd - HeapStart <= HEAP_MAX

\* realloc copies as many bytes as the old block has, which is up to
\* META_SIZE + ALIGN - 1 more than its owner asked for; that overruns the new
\* block when less is asked for, and also when little more is.  A realloc that
\* asks for META_SIZE + ALIGN bytes more, both counts rounded up, never does.
OverrunsWhenClose ==
  pc = "corrupt" =>
    AlignUp(call.bytes, ALIGN) < AlignUp(live[call.old], ALIGN) + META_SIZE + ALIGN

\* After free has returned no two neighbours are free: one pass of the cleanup
\* merges any number of them, also those that earlier growth left behind.
Coalesced ==
  [][pc = "cleanup" /\ pc' # "cleanup" =>
       \A b \in Blocks : Last(b) \/ ~BothFree(b)]_vars

\* A call that has searched the heap gives up only when no block fits, and then only
\* when it has been refused frames or page tables, or when HEAP_MAX leaves no room for
\* any number of frames in which the block it needs has a place; and once it has grown
\* the heap it finds a block that fits.
GivesUpLate ==
  [][/\ pc = "scan" /\ pc' \in {"map", "idle", "panic"} /\ live' = live =>
          \A b \in Blocks : ~Fits(b, call.size)
     /\ pc \in {"scan", "map"} /\ pc' \in {"idle", "panic"} /\ live' = live /\ ~denied' =>
          \A pages \in 0..HEAP_MAX :
             pages * FRAME_SIZE >= META_SIZE + call.size =>
                HeapEnd + pages * FRAME_SIZE > HeapStart + HEAP_MAX
     /\ pc = "map" /\ pc' = "scan" =>
          \E b \in Blocks' : meta'[b].free /\ meta'[b].size >= call.size]_vars

\* Objects stay where they are, apart from each other and inside the region,
\* until their owner frees or reallocates them.
Objects == INSTANCE HeapObjects WITH
             START <- HeapStart, LIMIT <- HeapStart + HEAP_MAX,
             end <- HeapEnd, objects <- live
ImplementsObjects == Objects!Spec

\* Every call returns, or ends the kernel: no loop goes on for ever.
CallReturns ==
  pc \in {"scan", "map", "copy", "cleanup"} ~> pc \in {"idle", "panic", "corrupt"}

\* The heap is in order, in the midst of every call: well typed, its region tiled
\* by its blocks, objects in blocks of their own, and every frame accounted for.
HeapInv == TypeOK /\ Tiling /\ LiveBlocks /\ FramesBacked
==============================================================================
