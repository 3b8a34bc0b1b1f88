------------------------------- MODULE PMMLoops -------------------------------
(***************************************************************************)
(* The loops inside the calls of PMM, one step per iteration: the scan of  *)
(* alloc_frames and the bit by bit work of reserve and of free_frames.     *)
(* They implement the calls of PMM, which happen in one step: a call takes *)
(* effect at the step that fixes which frames it is about.                 *)
(***************************************************************************)
EXTENDS PMM

VARIABLES
  pc,    \* "idle", "scan", "reserve" or "free"
  call,  \* the frames the call is about; while scanning only their number
  i,     \* the loop variable: `frame` of the scan, i of the other loops
  run    \* the free frames that end just before frame i

loopVars == <<vars, pc, call, i, run>>
------------------------------------------------------------------------------
NoCall == [first |-> 0, count |-> 0, client |-> "none"]

LoopInit ==
  /\ Init
  /\ pc = "idle" /\ call = NoCall /\ i = 0 /\ run = 0

Boot ==
  /\ PmmInit
  /\ UNCHANGED <<pc, call, i, run>>

\* The locals of a call are gone once it returns.
Return == pc' = "idle" /\ call' = NoCall /\ i' = 0 /\ run' = 0

\* Entry of a loop over `count` frames from `first`, for client c, or the
\* return that the bounds check at the head of reserve and free_frames makes.
Enter(loop, c, first, count) ==
  IF InRange(totalFrames, first, count)
    THEN /\ pc' = loop /\ i' = 0 /\ run' = 0
         /\ call' = [first |-> first, count |-> count, client |-> c]
    ELSE Return

Idle == phase = "ready" /\ pc = "idle"

AllocRefuses(n) ==
  /\ Idle
  /\ n = 0 \/ n > freeFrames
  /\ answer' = [count |-> n, first |-> 0]
  /\ Return
  /\ UNCHANGED <<mmap, phase, bitmap, totalFrames, used, freeFrames, held>>

AllocScans(c, n) ==
  /\ Idle
  /\ n # 0 /\ n <= freeFrames
  /\ pc' = "scan" /\ i' = 0 /\ run' = 0
  /\ call' = [first |-> 0, count |-> n, client |-> c]
  /\ UNCHANGED vars

RunAfterKeeps(frame) == IF frame \in used THEN run ELSE run + 1
RunAfter(frame)      == IF frame \in used THEN 0 ELSE run + 1

FirstOfRunLate(frame, count) == frame - count
FirstOfRun(frame, count)     == frame + 1 - count

ScanShort ==
  /\ pc = "scan" /\ i < totalFrames
  /\ RunAfter(i) < call.count
  /\ run' = RunAfter(i) /\ i' = i + 1
  /\ UNCHANGED <<vars, pc, call>>

ScanFinds ==
  /\ pc = "scan" /\ i < totalFrames
  /\ RunAfter(i) >= call.count
  /\ LET first == FirstOfRun(i, call.count)
         c     == call.client
     IN  /\ Enter("reserve", c, first, call.count)
         /\ answer' = [count |-> call.count, first |-> first]
         /\ held' = [held EXCEPT ![c] = @ \cup Run(first, call.count)]
  /\ UNCHANGED <<mmap, phase, bitmap, totalFrames, used, freeFrames>>

ScanEnds ==
  /\ pc = "scan" /\ i = totalFrames
  /\ answer' = [count |-> call.count, first |-> 0]
  /\ Return
  /\ UNCHANGED <<mmap, phase, bitmap, totalFrames, used, freeFrames, held>>

ReserveCall(c, first, n) ==
  /\ Idle
  /\ Enter("reserve", c, first, n)
  /\ held' = [held EXCEPT ![c] = @ \cup NewlySet(totalFrames, used, first, n)]
  /\ UNCHANGED <<mmap, phase, bitmap, totalFrames, used, freeFrames, answer>>

ReserveStep ==
  /\ pc = "reserve" /\ i < call.count
  /\ LET f == call.first + i
     IN  /\ used' = used \cup {f}
         /\ freeFrames' = IF f \in used THEN freeFrames ELSE freeFrames - 1
  /\ i' = i + 1
  /\ UNCHANGED <<mmap, phase, bitmap, totalFrames, answer, held, pc, call, run>>

FreeCall(c, first, n) ==
  /\ Idle
  /\ Run(first, n) \cap Frames \subseteq held[c] \cup Free \cup {0}
  /\ Enter("free", c, first, n)
  /\ held' = [held EXCEPT ![c] = @ \ Cleared(first, n)]
  /\ UNCHANGED <<mmap, phase, bitmap, totalFrames, used, freeFrames, answer>>

\* free_frame, which free_frames calls for each frame.
Skipped(f) == \/ freeFrames = totalFrames
              \/ f = 0 \/ f >= totalFrames
              \/ f \notin used

FreeStep ==
  /\ pc = "free" /\ i < call.count
  /\ LET f == call.first + i
     IN  IF Skipped(f)
           THEN UNCHANGED <<used, freeFrames>>
           ELSE used' = used \ {f} /\ freeFrames' = freeFrames + 1
  /\ i' = i + 1
  /\ UNCHANGED <<mmap, phase, bitmap, totalFrames, answer, held, pc, call, run>>

LoopEnds ==
  /\ pc \in {"reserve", "free"} /\ i = call.count
  /\ Return
  /\ UNCHANGED vars

LoopHalted == phase = "panic" /\ UNCHANGED loopVars

LoopNext ==
  \/ Boot
  \/ \E c \in Clients, n \in Counts :
       \/ AllocRefuses(n) \/ AllocScans(c, n)
       \/ \E first \in 0 .. totalFrames : ReserveCall(c, first, n) \/ FreeCall(c, first, n)
  \/ ScanShort \/ ScanFinds \/ ScanEnds
  \/ ReserveStep \/ FreeStep \/ LoopEnds
  \/ LoopHalted

LoopSpec == LoopInit /\ [][LoopNext]_loopVars
------------------------------------------------------------------------------
\* The scan of alloc_frames knows what it has passed: every run of the asked
\* length that is free ends at or after the frame it looks at, and `run` is how
\* many frames just before that one are free.
ScanInv ==
  pc = "scan" =>
    /\ i \in 0 .. totalFrames /\ run \in 0 .. i
    /\ run < call.count
    /\ Run(i - run, run) \cap used = {}
    /\ i - run > 0 => i - run - 1 \in used
    /\ \A first \in Runs(totalFrames, used, call.count) : i < first + call.count

\* What the rest of the loop will still do to the bitmap and the counter.
Rest == Run(call.first + i, call.count - i)

ToSet   == IF pc = "reserve" THEN Rest \ used ELSE {}
ToClear == IF pc = "free" THEN (Rest \cap used) \ {0} ELSE {}

\* Seen from outside, each call of the manager is one step of PMM: alloc_frames
\* takes the first run that is long enough, and no caller can see a
\* half-reserved or half-freed range.
Atomic == INSTANCE PMM WITH
            used       <- (used \cup ToSet) \ ToClear,
            freeFrames <- freeFrames - Cardinality(ToSet) + Cardinality(ToClear)
ImplementsPMM == Atomic!Spec
==============================================================================
