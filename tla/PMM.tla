--------------------------------- MODULE PMM ---------------------------------
(***************************************************************************)
(* The physical memory manager, kernel/mm/pmm.cpp: one bit per frame,      *)
(* kept in a bitmap that itself occupies frames of the memory it manages,  *)
(* and a count of the free frames kept beside it.                          *)
(*                                                                         *)
(* Addresses are frame indices.  One action is one call of the interface   *)
(* of pmm.h; calls do not overlap, the kernel has one CPU and no interrupt *)
(* handler allocates.                                                      *)
(***************************************************************************)
EXTENDS FrameRuns, Sequences, FiniteSets

CONSTANTS
  MemoryMaps,       \* the memory maps the firmware may hand over
  BITS_PER_FRAME,   \* bits in one frame of bitmap: 8 * FRAME_SIZE
  Clients,          \* who calls the manager: the VMM and the heap
  Counts            \* the frame counts they ask for

Span(d) == Run(d.start, d.pages)

\* The firmware guarantees that descriptors do not overlap.
ASSUME MapAssumption ==
  \A m \in MemoryMaps :
    /\ m \in Seq([type : STRING, start : Nat, pages : Nat])
    /\ \A i, j \in DOMAIN m : i # j => Span(m[i]) \cap Span(m[j]) = {}
ASSUME BitsAssumption == BITS_PER_FRAME \in Nat \ {0}
ASSUME CountsAssumption == Counts \subseteq Nat

VARIABLES
  mmap,         \* bootInfo->mmap
  phase,        \* "reset", then "ready" or "panic" once init has run
  bitmap,       \* the first frame of the bitmap, 0 for nullptr
  totalFrames,  \* the frames the bitmap covers
  used,         \* the frames below totalFrames whose bit is set
  freeFrames,   \* the free-frame counter
  answer,       \* what the last alloc_frames was asked, and its answer
  held          \* held[c]: what client c was given and has not returned

vars == <<mmap, phase, bitmap, totalFrames, used, freeFrames, answer, held>>
------------------------------------------------------------------------------
\* The descriptors whose type is in AllocatableMemoryTypes.
Conventional(m) == {i \in DOMAIN m : m[i].type = "EfiConventionalMemory"}

End(d) == d.start + d.pages

\* Frames the bitmap of `total` frames needs, rounded up.
BitmapFramesDown(total) == total \div BITS_PER_FRAME
BitmapFrames(total) == (total + BITS_PER_FRAME - 1) \div BITS_PER_FRAME

\* The descriptors that can hold the bitmap: the first in map order does.
\* A bitmap at frame 0 could not be told from nullptr.
BitmapHomes(m, total) ==
  {i \in Conventional(m) : /\ m[i].start # 0
                           /\ m[i].pages >= BitmapFrames(total)}

\* The bits a call of reserve sets, for each of which it drops the counter;
\* none if the range is not inside the bitmap.
NewlySetAlways(total, u, first, count) ==
  IF InRange(total, first, count) THEN Run(first, count) ELSE {}
NewlySetButLast(total, u, first, count) ==
  IF InRange(total, first, count) THEN Run(first, count - 1) \ u ELSE {}
NewlySet(total, u, first, count) ==
  IF InRange(total, first, count) THEN Run(first, count) \ u ELSE {}

\* The bits free_frames clears: free_frame skips frame 0 and free frames.
ClearedTwice(first, count) ==
  IF InRange(totalFrames, first, count) /\ freeFrames # totalFrames
    THEN Run(first, count) \ {0} ELSE {}
Cleared(first, count) ==
  IF InRange(totalFrames, first, count) /\ freeFrames # totalFrames
    THEN (Run(first, count) \cap used) \ {0} ELSE {}

Frames == 0 .. totalFrames - 1
Free   == Frames \ used
------------------------------------------------------------------------------
Init ==
  /\ mmap \in MemoryMaps
  /\ phase = "reset"
  /\ bitmap = 0 /\ totalFrames = 0 /\ used = {} /\ freeFrames = 0
  /\ answer = [count |-> 0, first |-> 0]
  /\ held = [c \in Clients |-> {}]

\* The bitmap after init has cleared the bits of the conventional memory, and
\* the counter after it was incremented once per descriptor and frame.
BootUsed(total) == (0 .. total - 1) \ UNION {Span(mmap[i]) : i \in Conventional(mmap)}
BootCount == Cardinality(UNION {{i} \X Span(mmap[i]) : i \in Conventional(mmap)})

\* PMM::init finds the end of the highest conventional descriptor, places the
\* bitmap, marks all frames used, clears the conventional ones, and reserves
\* the bitmap and frame 0.  With no place for the bitmap the ASSERT panics.
InitPanics ==
  /\ BitmapHomes(mmap, totalFrames') = {}
  /\ phase' = "panic"
  /\ UNCHANGED <<bitmap, used, freeFrames>>

InitPlaces ==
  \E i \in BitmapHomes(mmap, totalFrames') :
    LET total  == totalFrames'
        u0     == BootUsed(total)
        forMap == NewlySet(total, u0, mmap[i].start, BitmapFrames(total))
        forNil == NewlySet(total, u0 \cup forMap, 0, 1)
    IN  /\ \A j \in BitmapHomes(mmap, total) : i <= j
        /\ phase' = "ready"
        /\ bitmap' = mmap[i].start
        /\ used' = u0 \cup forMap \cup forNil
        /\ freeFrames' = BootCount - Cardinality(forMap) - Cardinality(forNil)

PmmInit ==
  /\ phase = "reset"
  /\ totalFrames' \in {0} \cup {End(mmap[i]) : i \in Conventional(mmap)}
  /\ \A i \in Conventional(mmap) : End(mmap[i]) <= totalFrames'
  /\ InitPanics \/ InitPlaces
  /\ UNCHANGED <<mmap, answer, held>>

\* alloc_frames (and alloc_frame, its count = 1) gives the first run that is
\* long enough.  PMMLoops shows that its loop finds exactly that run.
AllocFrames(c, n) ==
  /\ phase = "ready"
  /\ n # 0 /\ n <= freeFrames
  /\ \E first \in Runs(totalFrames, used, n) :
       LET taken == NewlySet(totalFrames, used, first, n)
       IN  /\ \A g \in Runs(totalFrames, used, n) : first <= g
           /\ used' = used \cup taken
           /\ freeFrames' = freeFrames - Cardinality(taken)
           /\ answer' = [count |-> n, first |-> first]
           /\ held' = [held EXCEPT ![c] = @ \cup Run(first, n)]
  /\ UNCHANGED <<mmap, phase, bitmap, totalFrames>>

AllocFails(n) ==
  /\ phase = "ready"
  /\ n = 0 \/ n > freeFrames \/ Runs(totalFrames, used, n) = {}
  /\ answer' = [count |-> n, first |-> 0]
  /\ UNCHANGED <<mmap, phase, bitmap, totalFrames, used, freeFrames, held>>

\* free_frames (and free_frame, its count = 1).  A client may name its own
\* frames, frames already free, frame 0 and frames that do not exist, but
\* not a frame of someone else.
FreeFrames(c, first, n) ==
  /\ phase = "ready"
  /\ Run(first, n) \cap Frames \subseteq held[c] \cup Free \cup {0}
  /\ used' = used \ Cleared(first, n)
  /\ freeFrames' = freeFrames + Cardinality(Cleared(first, n))
  /\ held' = [held EXCEPT ![c] = @ \ Cleared(first, n)]
  /\ UNCHANGED <<mmap, phase, bitmap, totalFrames, answer>>

\* reserve, as a call of a client: the frames that were free become its own.
ReserveFrames(c, first, n) ==
  LET taken == NewlySet(totalFrames, used, first, n)
  IN  /\ phase = "ready"
      /\ used' = used \cup taken
      /\ freeFrames' = freeFrames - Cardinality(taken)
      /\ held' = [held EXCEPT ![c] = @ \cup (taken \ used)]
      /\ UNCHANGED <<mmap, phase, bitmap, totalFrames, answer>>

ClientCall(c) ==
  \E n \in Counts :
    \/ AllocFrames(c, n)
    \/ AllocFails(n)
    \/ \E first \in 0 .. totalFrames :
         FreeFrames(c, first, n) \/ ReserveFrames(c, first, n)

\* After a panic the machine is halted.
Halted == phase = "panic" /\ UNCHANGED vars

Next == PmmInit \/ (\E c \in Clients : ClientCall(c)) \/ Halted

Spec == Init /\ [][Next]_vars
------------------------------------------------------------------------------
\* The frames of the bitmap: those that hold the bit of a frame.
Bitmap == {bitmap + f \div BITS_PER_FRAME : f \in Frames}
Kept   == {0} \cup Bitmap

\* The type invariant: among the types, the counter stays within the frames
\* there are, whatever mix of allocations and repeated frees came before.
TypeOK ==
  /\ mmap \in MemoryMaps
  /\ phase \in {"reset", "ready", "panic"}
  /\ bitmap \in Nat /\ totalFrames \in Nat
  /\ used \subseteq Frames
  /\ freeFrames \in 0 .. totalFrames
  /\ answer \in [count : Counts \cup {0}, first : Nat]
  /\ held \in [Clients -> SUBSET Frames]

\* The counter that alloc_frames trusts to refuse a request early is the number
\* of clear bits in the bitmap, through init, reserve, alloc and free.
CounterExact == phase = "ready" => freeFrames = Cardinality(Free)

\* Every frame is accounted for by exactly one of: the free frames, the
\* frames kept back (frame 0, whose address means failure, and the bitmap
\* itself), the frames of one client, and the frames that are no conventional
\* memory.  So no frame is handed out twice, the bitmap is never handed out,
\* and none is lost.
Accounted ==
  phase = "ready" =>
    LET memory == UNION {Span(mmap[i]) : i \in Conventional(mmap)}
    IN  /\ Free \cap Kept = {}
        /\ \A c \in Clients : held[c] \cap (Free \cup Kept) = {}
        /\ \A c, d \in Clients : c # d => held[c] \cap held[d] = {}
        /\ memory \subseteq Free \cup Kept \cup UNION {held[c] : c \in Clients}
        /\ Free \cup UNION {held[c] : c \in Clients} \subseteq memory

\* alloc_frames answers 0 only when no run of the asked length is free, so the
\* early refusal by the counter is never wrong; and any other answer is a run
\* that was free.
AllocAnswer ==
  [][answer' # answer =>
       IF answer'.first = 0
         THEN answer'.count # 0 =>
                ~\E f \in Free : Run(f, answer'.count) \subseteq Free
         ELSE Run(answer'.first, answer'.count) \subseteq Free]_vars

\* Every call of the manager is one step of the abstract allocator, in which the
\* frames of a client change only when that client asks.
Abstract == INSTANCE FrameAllocator WITH
              pool  <- IF phase = "ready" THEN Free ELSE {},
              owned <- held
ImplementsAllocator == Abstract!Spec
==============================================================================
