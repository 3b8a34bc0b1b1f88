------------------------------- MODULE PMMProofs -------------------------------
(***************************************************************************)
(* Proofs about the frame manager, for every memory map, every bitmap size *)
(* and every set of clients.  First PMM, call by call: the typing, the     *)
(* exactness of the free-frame counter, and that no frame is lost or given *)
(* twice.  Then PMMLoops: the scan of alloc_frames finds the first run     *)
(* that is long enough, and each call, loops and all, is one step of PMM.  *)
(***************************************************************************)
EXTENDS PMMLoops, TLAPS, FiniteSetTheorems

\* The frames the boot hands to the manager, and how often init counts one.
Memory  == UNION {Span(mmap[m]) : m \in Conventional(mmap)}
Counted == UNION {{m} \X Span(mmap[m]) : m \in Conventional(mmap)}

(***************************************************************************)
(* Until init has run there are no frames and nobody holds any.            *)
(***************************************************************************)
Unbooted ==
  phase # "ready" =>
    used = {} /\ freeFrames = 0 /\ held = [c \in Clients |-> {}]

(***************************************************************************)
(* The inductive invariant.  Accounted keeps frame 0 and the bitmap out of *)
(* the clients' hands, which is why nothing they free is lost again.       *)
(***************************************************************************)
IInv == TypeOK /\ Unbooted /\ CounterExact /\ Accounted

-------------------------------------------------------------------------------
\* The frames of a bitmap, or of any initial interval, are finitely many.
LEMMA FreeFinite ==
  ASSUME NEW n \in Nat, NEW S \in SUBSET (0 .. n - 1)
  PROVE  IsFiniteSet(S) /\ Cardinality(S) \in 0 .. n
<1>1. IsFiniteSet(0 .. n - 1) /\ Cardinality(0 .. n - 1) = n
  BY FS_Interval
<1>2. IsFiniteSet(S) /\ Cardinality(S) <= n
  BY <1>1, FS_Subset
<1> QED BY <1>2, FS_CardinalityType

\* Taking a subset out of a finite set lowers its cardinality by as much.
LEMMA TakeOut ==
  ASSUME NEW S, IsFiniteSet(S), NEW T \in SUBSET S
  PROVE  /\ IsFiniteSet(S \ T)
         /\ Cardinality(S \ T) = Cardinality(S) - Cardinality(T)
<1>1. S \cap T = T
  OBVIOUS
<1> QED BY <1>1, FS_Difference

\* Adding as many new elements raises it by as much.
LEMMA PutBack ==
  ASSUME NEW S, IsFiniteSet(S), NEW T, IsFiniteSet(T), S \cap T = {}
  PROVE  /\ IsFiniteSet(S \cup T)
         /\ Cardinality(S \cup T) = Cardinality(S) + Cardinality(T)
<1>1. Cardinality(S) \in Nat /\ Cardinality(T) \in Nat
  BY FS_CardinalityType
<1>2. Cardinality(S \cap T) = 0
  BY FS_EmptySet
<1>3. /\ IsFiniteSet(S \cup T)
      /\ Cardinality(S \cup T) = Cardinality(S) + Cardinality(T) - Cardinality(S \cap T)
  BY FS_Union
<1> QED BY <1>1, <1>2, <1>3

\* Rounding up to whole frames of bitmap leaves a bit for every frame, and no
\* frame of bitmap without a bit in use.
LEMMA RoundUp ==
  ASSUME NEW T \in Nat
  PROVE  /\ BitmapFrames(T) \in Nat
         /\ T <= BitmapFrames(T) * BITS_PER_FRAME
         /\ (BitmapFrames(T) - 1) * BITS_PER_FRAME < T
         /\ T > 0 => BitmapFrames(T) > 0
<1> DEFINE B == BITS_PER_FRAME
           q == (T + B - 1) \div B
<1>1. B \in Nat /\ B > 0
  BY BitsAssumption
<1>2. T + B - 1 \in Nat
  BY <1>1
<1>3. q \in Int /\ B * q <= T + B - 1 /\ T + B - 1 < B * q + B
  BY <1>1, <1>2
<1> HIDE DEF B, q
<1>4. q >= 0
  <2> SUFFICES ASSUME q <= -1 PROVE FALSE
    BY <1>3
  <2>1. B * q <= B * (-1)
    BY <1>1, <1>3
  <2> QED BY <2>1, <1>1, <1>2, <1>3
<1>5. T <= q * B
  BY <1>1, <1>3
<1>6. (q - 1) * B < T
  <2>1. (q - 1) * B = B * q - B
    BY <1>1, <1>3
  <2> QED BY <2>1, <1>1, <1>3
<1>7. ASSUME T > 0 PROVE q > 0
  <2>1. q # 0
    BY <1>1, <1>5, <1>7
  <2> QED BY <2>1, <1>3, <1>4
<1> QED BY <1>3, <1>4, <1>5, <1>6, <1>7 DEF BitmapFrames, B, q

\* So the frames that hold a bit are exactly the ones init sets aside.
LEMMA BitmapIsRun ==
  ASSUME NEW b \in Nat, NEW T \in Nat
  PROVE  {b + f \div BITS_PER_FRAME : f \in 0 .. T - 1} = Run(b, BitmapFrames(T))
<1> DEFINE B == BITS_PER_FRAME
           N == BitmapFrames(T)
<1>1. B \in Nat /\ B > 0
  BY BitsAssumption
<1>2. N \in Nat /\ T <= N * B /\ (N - 1) * B < T
  BY RoundUp
<1>3. ASSUME NEW f \in 0 .. T - 1
      PROVE  f \div B \in 0 .. N - 1
  <2> DEFINE q == f \div B
  <2>1. q \in Int /\ B * q <= f /\ f < B * q + B
    BY <1>1
  <2> HIDE DEF B, N, q
  <2>2. q >= 0
    <3> SUFFICES ASSUME q <= -1 PROVE FALSE
      BY <2>1
    <3>1. B * q <= B * (-1)
      BY <1>1, <2>1
    <3> QED BY <3>1, <1>1, <2>1
  <2>3. q < N
    <3> SUFFICES ASSUME q >= N PROVE FALSE
      BY <1>2, <2>1
    <3>1. B * N <= B * q
      BY <1>1, <1>2, <2>1
    <3>2. B * N = N * B
      BY <1>1, <1>2
    <3> QED BY <3>1, <3>2, <1>1, <1>2, <2>1
  <2> QED BY <2>1, <2>2, <2>3, <1>2 DEF q
<1>4. ASSUME NEW q \in 0 .. N - 1
      PROVE  q * B \in 0 .. T - 1 /\ (q * B) \div B = q
  <2> HIDE DEF B, N
  <2>1. q \in Int /\ q >= 0 /\ q <= N - 1
    BY <1>2
  <2>2. q * B <= (N - 1) * B /\ q * B >= 0
    BY <2>1, <1>1, <1>2
  <2>3. (q * B) \div B = q
    BY <2>1, <1>1
  <2> QED BY <2>1, <2>2, <2>3, <1>1, <1>2
<1> HIDE DEF N
<1>5. {b + f \div B : f \in 0 .. T - 1} = b .. b + N - 1
  <2>1. ASSUME NEW f \in 0 .. T - 1 PROVE b + f \div B \in b .. b + N - 1
    BY <1>2, <1>3
  <2>2. ASSUME NEW g \in b .. b + N - 1
        PROVE  \E f \in 0 .. T - 1 : g = b + f \div B
    <3>1. g - b \in 0 .. N - 1
      BY <1>2
    <3>2. (g - b) * B \in 0 .. T - 1 /\ ((g - b) * B) \div B = g - b
      BY <3>1, <1>4
    <3>3. g = b + ((g - b) * B) \div B
      BY <3>2
    <3> QED BY <3>2, <3>3
  <2> QED BY <2>1, <2>2
<1> QED BY <1>5 DEF Run, N, B
-------------------------------------------------------------------------------
\* The descriptors are records of two numbers, and do not overlap.
LEMMA Descriptors ==
  ASSUME TypeOK
  PROVE  /\ \A m \in Conventional(mmap) :
              mmap[m].start \in Nat /\ mmap[m].pages \in Nat
         /\ \A m, j \in Conventional(mmap) :
              m # j => Span(mmap[m]) \cap Span(mmap[j]) = {}
<1> DEFINE Descriptor == [type : STRING, start : Nat, pages : Nat]
<1>1. mmap \in Seq(Descriptor)
  BY MapAssumption DEF TypeOK
<1>2. \A m \in DOMAIN mmap : mmap[m] \in Descriptor
  <2> HIDE DEF Descriptor
  <2> QED BY <1>1
<1> QED BY <1>2, MapAssumption DEF TypeOK, Conventional

\* Init increments the counter once for each frame of conventional memory,
\* because no frame is in two descriptors.
LEMMA BootCounts ==
  ASSUME TypeOK, NEW total \in Nat,
         \A m \in Conventional(mmap) : End(mmap[m]) <= total
  PROVE  /\ Memory \subseteq 0 .. total - 1
         /\ BootCount = Cardinality(Memory)
<1>1. Memory \subseteq 0 .. total - 1
  BY Descriptors DEF Memory, Span, Run, End
<1>2. IsFiniteSet(Memory)
  BY <1>1, FreeFinite
<1> DEFINE frame == [p \in Counted |-> p[2]]
<1>3. frame \in Injection(Counted, Memory)
  <2>1. frame \in [Counted -> Memory]
    BY DEF Counted, Memory
  <2>2. ASSUME NEW p \in Counted, NEW q \in Counted, p[2] = q[2]
        PROVE  p = q
    <3>1. PICK m \in Conventional(mmap) : p \in {m} \X Span(mmap[m])
      BY DEF Counted
    <3>2. PICK j \in Conventional(mmap) : q \in {j} \X Span(mmap[j])
      BY DEF Counted
    <3>3. p[2] \in Span(mmap[m]) \cap Span(mmap[j])
      BY <2>2, <3>1, <3>2
    <3>4. m = j
      BY <3>3, Descriptors
    <3> QED BY <2>2, <3>1, <3>2, <3>4
  <2>3. \A p, q \in Counted : frame[p] = frame[q] => p = q
    BY <2>2
  <2> HIDE DEF frame
  <2> QED BY <2>1, <2>3 DEF Injection, IsInjective
<1>4. frame \in Surjection(Counted, Memory)
  <2>1. ASSUME NEW f \in Memory PROVE \E p \in Counted : frame[p] = f
    <3>1. PICK m \in Conventional(mmap) : f \in Span(mmap[m])
      BY DEF Memory
    <3>2. <<m, f>> \in Counted
      BY <3>1 DEF Counted
    <3> QED BY <3>2
  <2> QED BY <1>3, <2>1 DEF Injection, Surjection
<1>5. Cardinality(Counted) = Cardinality(Memory)
  BY <1>2, <1>3, <1>4, FS_Injection
<1> QED BY <1>1, <1>5 DEF BootCount, Counted

\* What the successful end of init leaves behind: everything conventional is
\* free, except the bitmap and frame 0.
LEMMA InitEffect ==
  ASSUME TypeOK, PmmInit, InitPlaces
  PROVE  /\ totalFrames' \in Nat /\ bitmap' \in Nat /\ phase' = "ready"
         /\ Memory \subseteq Frames'
         /\ used' = Frames' \ (Memory \ Kept')
         /\ freeFrames' = Cardinality(Memory \ Kept')
<1> DEFINE T == totalFrames'
           N == BitmapFrames(T)
           u0 == BootUsed(T)
<1>1. T \in Nat /\ \A m \in Conventional(mmap) : End(mmap[m]) <= T
  BY Descriptors DEF PmmInit, End
<1>2. PICK m \in BitmapHomes(mmap, T) :
        LET forMap == NewlySet(T, u0, mmap[m].start, N)
            forNil == NewlySet(T, u0 \cup forMap, 0, 1)
        IN  /\ phase' = "ready"
            /\ bitmap' = mmap[m].start
            /\ used' = u0 \cup forMap \cup forNil
            /\ freeFrames' = BootCount - Cardinality(forMap) - Cardinality(forNil)
  BY DEF InitPlaces
<1> DEFINE forMap == NewlySet(T, u0, mmap[m].start, N)
           forNil == NewlySet(T, u0 \cup forMap, 0, 1)
<1> DEFINE start == mmap[m].start
           pages == mmap[m].pages
<1>3. /\ start \in Nat \ {0} /\ pages \in Nat
      /\ N <= pages /\ start + pages <= T
  BY <1>1, Descriptors DEF BitmapHomes, End
<1>4. N \in Nat /\ N > 0
  BY <1>1, <1>3, RoundUp
<1>5. /\ start < T /\ N <= T - start
      /\ 0 < T /\ 1 <= T - 0
  <2> HIDE DEF T, N, start, pages
  <2> QED BY <1>1, <1>3, <1>4
<1>6. forMap = Run(start, N) \ u0 /\ forNil = {0} \ (u0 \cup forMap)
  BY <1>5 DEF NewlySet, InRange, Run
<1>7. Memory \subseteq 0 .. T - 1 /\ BootCount = Cardinality(Memory)
  BY <1>1, BootCounts
<1>8. u0 = (0 .. T - 1) \ Memory
  BY DEF BootUsed, Memory
<1>9. Kept' = {0} \cup Run(start, N)
  BY <1>1, <1>2, <1>3, BitmapIsRun DEF Kept, Bitmap, Frames
<1>10. Run(start, N) \subseteq 0 .. T - 1 /\ 0 \in 0 .. T - 1
  <2> HIDE DEF T, N, start, pages
  <2> QED BY <1>1, <1>3, <1>4 DEF Run
<1>11. forMap \subseteq Memory /\ forNil \subseteq Memory \ forMap
  BY <1>6, <1>8, <1>10
<1>12. Cardinality((Memory \ forMap) \ forNil)
         = Cardinality(Memory) - Cardinality(forMap) - Cardinality(forNil)
  <2>1. IsFiniteSet(Memory)
    BY <1>1, <1>7, FreeFinite
  <2>2. /\ IsFiniteSet(Memory \ forMap)
        /\ Cardinality(Memory \ forMap) = Cardinality(Memory) - Cardinality(forMap)
    BY <2>1, <1>11, TakeOut
  <2>3. Cardinality((Memory \ forMap) \ forNil)
          = Cardinality(Memory \ forMap) - Cardinality(forNil)
    BY <2>2, <1>11, TakeOut
  <2> QED BY <2>2, <2>3
<1>13. (Memory \ forMap) \ forNil = Memory \ Kept'
  BY <1>6, <1>8, <1>9, <1>10, <1>7
<1>14. used' = Frames' \ (Memory \ Kept')
  BY <1>2, <1>6, <1>7, <1>8, <1>9, <1>10 DEF Frames
<1> QED BY <1>1, <1>2, <1>3, <1>7, <1>12, <1>13, <1>14 DEF Frames
-------------------------------------------------------------------------------
\* The two ways a call moves frames: out of the free ones and to a client, or
\* back.  The counter follows by as many.
Gives(c, S) ==
  /\ S \subseteq Free
  /\ used' = used \cup S
  /\ freeFrames' = freeFrames - Cardinality(S)
  /\ held' = [held EXCEPT ![c] = @ \cup S]
  /\ UNCHANGED <<mmap, phase, bitmap, totalFrames>>

Returns(c, S) ==
  /\ S \subseteq held[c] /\ S \subseteq used
  /\ used' = used \ S
  /\ freeFrames' = freeFrames + Cardinality(S)
  /\ held' = [held EXCEPT ![c] = @ \ S]
  /\ UNCHANGED <<mmap, phase, bitmap, totalFrames>>

\* alloc_frames gives the run it answers.
LEMMA AllocGives ==
  ASSUME TypeOK, NEW c \in Clients, NEW n \in Counts, AllocFrames(c, n)
  PROVE  \E first \in Free : /\ Gives(c, Run(first, n))
                             /\ answer' = [count |-> n, first |-> first]
<1>1. PICK first \in Runs(totalFrames, used, n) :
        LET taken == NewlySet(totalFrames, used, first, n)
        IN  /\ used' = used \cup taken
            /\ freeFrames' = freeFrames - Cardinality(taken)
            /\ answer' = [count |-> n, first |-> first]
            /\ held' = [held EXCEPT ![c] = @ \cup Run(first, n)]
  BY DEF AllocFrames
<1>2. totalFrames \in Nat /\ n \in Nat /\ n > 0
  BY CountsAssumption DEF TypeOK, AllocFrames
<1>3. first \in 0 .. totalFrames - 1 /\ first + n <= totalFrames
  BY <1>1 DEF Runs
<1>4. Run(first, n) \cap used = {} /\ Run(first, n) \subseteq Frames
  BY <1>1, <1>2, <1>3 DEF Runs, Run, Frames
<1>5. InRange(totalFrames, first, n) /\ first \in Run(first, n)
  BY <1>2, <1>3 DEF InRange, Run
<1>6. NewlySet(totalFrames, used, first, n) = Run(first, n)
  BY <1>4, <1>5 DEF NewlySet
<1> QED BY <1>1, <1>4, <1>5, <1>6 DEF AllocFrames, Gives, Free

\* reserve gives what was free of the range.
LEMMA ReserveGives ==
  ASSUME TypeOK, NEW c \in Clients, NEW n \in Counts,
         NEW first \in 0 .. totalFrames, ReserveFrames(c, first, n)
  PROVE  Gives(c, NewlySet(totalFrames, used, first, n))
<1> DEFINE taken == NewlySet(totalFrames, used, first, n)
<1>1. totalFrames \in Nat /\ n \in Nat
  BY CountsAssumption DEF TypeOK
<1>2. taken \subseteq Free
  BY <1>1 DEF NewlySet, InRange, Run, Free, Frames
<1>3. taken \ used = taken
  BY <1>2 DEF Free
<1> QED BY <1>2, <1>3 DEF ReserveFrames, Gives

\* free_frames returns frames of the client that calls it, and no others.
LEMMA FreeReturns ==
  ASSUME TypeOK, NEW c \in Clients, NEW n \in Counts,
         NEW first \in 0 .. totalFrames, FreeFrames(c, first, n)
  PROVE  Returns(c, Cleared(first, n))
<1>1. Cleared(first, n) \subseteq (Run(first, n) \cap used) \ {0}
  BY DEF Cleared
<1>2. Run(first, n) \cap Frames \subseteq held[c] \cup Free \cup {0}
  BY DEF FreeFrames
<1>3. Cleared(first, n) \subseteq held[c]
  BY <1>1, <1>2 DEF TypeOK, Free
<1> QED BY <1>1, <1>3 DEF FreeFrames, Returns

\* Giving and returning keep the invariant.
LEMMA GivesKeeps ==
  ASSUME IInv, phase = "ready", NEW c \in Clients, NEW S, Gives(c, S),
         answer' \in [count : Counts \cup {0}, first : Nat]
  PROVE  IInv'
<1>1. totalFrames \in Nat /\ Free \subseteq Frames
  BY DEF IInv, TypeOK, Free
<1>2. IsFiniteSet(Free)
  BY <1>1, FreeFinite DEF Frames
<1>3. Free' = Free \ S /\ Frames' = Frames /\ Kept' = Kept
  BY DEF Gives, Free, Frames, Kept, Bitmap
<1>4. held' \in [Clients -> SUBSET Frames] /\ held'[c] = held[c] \cup S
      /\ \A d \in Clients : d # c => held'[d] = held[d]
  BY <1>1 DEF IInv, TypeOK, Gives
<1>5. freeFrames' = Cardinality(Free')
  BY <1>2, <1>3, TakeOut DEF Gives, IInv, CounterExact
<1>6. freeFrames' \in 0 .. totalFrames
  BY <1>1, <1>3, <1>5, FreeFinite DEF Frames
<1>7. TypeOK'
  BY <1>1, <1>3, <1>4, <1>6 DEF IInv, TypeOK, Gives
<1>8. Accounted'
  <2>1. /\ Memory' = Memory
        /\ UNION {held'[d] : d \in Clients} = S \cup UNION {held[d] : d \in Clients}
    BY <1>4 DEF Gives, Memory, Conventional
  <2>2. Accounted
    BY DEF IInv
  <2> QED BY <1>3, <1>4, <2>1, <2>2 DEF Accounted, Gives, Memory
<1> QED BY <1>5, <1>7, <1>8 DEF IInv, CounterExact, Unbooted, Gives

LEMMA ReturnsKeeps ==
  ASSUME IInv, phase = "ready", NEW c \in Clients, NEW S, Returns(c, S),
         UNCHANGED answer
  PROVE  IInv'
<1>1. totalFrames \in Nat /\ Free \subseteq Frames /\ S \subseteq Frames
  BY DEF IInv, TypeOK, Free, Returns
<1>2. IsFiniteSet(Free) /\ IsFiniteSet(S)
  BY <1>1, FreeFinite DEF Frames
<1>3. Free' = Free \cup S /\ Free \cap S = {} /\ Frames' = Frames /\ Kept' = Kept
  BY <1>1 DEF Returns, Free, Frames, Kept, Bitmap
<1>4. held' \in [Clients -> SUBSET Frames] /\ held'[c] = held[c] \ S
      /\ \A d \in Clients : d # c => held'[d] = held[d]
  BY <1>1 DEF IInv, TypeOK, Returns
<1>5. freeFrames' = Cardinality(Free')
  BY <1>2, <1>3, PutBack DEF Returns, IInv, CounterExact
<1>6. freeFrames' \in 0 .. totalFrames
  BY <1>1, <1>3, <1>5, FreeFinite DEF Frames
<1>7. TypeOK'
  BY <1>1, <1>3, <1>4, <1>6 DEF IInv, TypeOK, Returns
<1>8. Accounted'
  <2>1. /\ Memory' = Memory
        /\ UNION {held[d] : d \in Clients} \subseteq S \cup UNION {held'[d] : d \in Clients}
        /\ S \cup UNION {held'[d] : d \in Clients} \subseteq UNION {held[d] : d \in Clients}
    BY <1>4 DEF Returns, Memory, Conventional
  <2>2. Accounted
    BY DEF IInv
  <2> QED BY <1>3, <1>4, <2>1, <2>2 DEF Accounted, Returns, Memory
<1> QED BY <1>5, <1>7, <1>8 DEF IInv, CounterExact, Unbooted, Returns
-------------------------------------------------------------------------------
\* Init, whether it places the bitmap or panics, establishes the invariant.
LEMMA BootKeeps ==
  ASSUME IInv, PmmInit
  PROVE  IInv'
<1>1. /\ totalFrames' \in Nat
      /\ used = {} /\ freeFrames = 0 /\ held = [c \in Clients |-> {}]
  BY Descriptors DEF IInv, TypeOK, Unbooted, PmmInit, End
<1>2. CASE InitPanics
  BY <1>1, <1>2 DEF IInv, TypeOK, Unbooted, CounterExact, Accounted, PmmInit,
                    InitPanics, Frames
<1>3. CASE InitPlaces
  <2>1. /\ bitmap' \in Nat /\ phase' = "ready"
        /\ Memory \subseteq Frames'
        /\ used' = Frames' \ (Memory \ Kept')
        /\ freeFrames' = Cardinality(Memory \ Kept')
    BY <1>3, InitEffect DEF IInv
  <2>2. Memory' = Memory /\ held' = [c \in Clients |-> {}]
    BY <1>1 DEF PmmInit, Memory, Conventional
  <2>3. Free' = Memory \ Kept'
    BY <2>1 DEF Free
  <2>4. freeFrames' \in 0 .. totalFrames'
    BY <1>1, <2>1, FreeFinite DEF Frames
  <2>5. TypeOK'
    BY <1>1, <2>1, <2>2, <2>4 DEF IInv, TypeOK, PmmInit
  <2>6. Accounted'
    <3>1. UNION {held'[c] : c \in Clients} = {}
      BY <2>2
    <3> QED BY <2>2, <2>3, <3>1 DEF Accounted, Memory
  <2> QED BY <2>1, <2>3, <2>5, <2>6 DEF IInv, CounterExact, Unbooted
<1> QED BY <1>2, <1>3 DEF PmmInit

\* Every step keeps the invariant, whatever the calls and their order.
LEMMA NextKeeps == IInv /\ [Next]_vars => IInv'
<1> SUFFICES ASSUME IInv, [Next]_vars PROVE IInv'
  OBVIOUS
<1>1. CASE PmmInit
  BY <1>1, BootKeeps
<1>2. ASSUME NEW c \in Clients, NEW n \in Counts, AllocFrames(c, n)
      PROVE  IInv'
  <2>1. PICK first \in Free : /\ Gives(c, Run(first, n))
                             /\ answer' = [count |-> n, first |-> first]
    BY <1>2, AllocGives DEF IInv
  <2>2. first \in Nat
    BY <2>1 DEF IInv, TypeOK, Free, Frames
  <2> QED BY <1>2, <2>1, <2>2, GivesKeeps DEF AllocFrames
<1>3. ASSUME NEW n \in Counts, AllocFails(n)
      PROVE  IInv'
  BY <1>3 DEF AllocFails, IInv, TypeOK, Unbooted, CounterExact, Accounted, Free,
              Frames, Kept, Bitmap, Conventional
<1>4. ASSUME NEW c \in Clients, NEW n \in Counts, NEW first \in 0 .. totalFrames,
             FreeFrames(c, first, n)
      PROVE  IInv'
  BY <1>4, FreeReturns, ReturnsKeeps DEF IInv, FreeFrames
<1>5. ASSUME NEW c \in Clients, NEW n \in Counts, NEW first \in 0 .. totalFrames,
             ReserveFrames(c, first, n)
      PROVE  IInv'
  <2>1. answer' \in [count : Counts \cup {0}, first : Nat]
    BY <1>5 DEF ReserveFrames, IInv, TypeOK
  <2> QED BY <1>5, <2>1, ReserveGives, GivesKeeps DEF IInv, ReserveFrames
<1>6. CASE Halted \/ UNCHANGED vars
  <2>1. UNCHANGED vars
    BY <1>6 DEF Halted
  <2> QED BY <2>1 DEF vars, IInv, TypeOK, Unbooted, CounterExact, Accounted, Free,
                      Frames, Kept, Bitmap, Conventional
<1> QED BY <1>1, <1>2, <1>3, <1>4, <1>5, <1>6 DEF Next, ClientCall

LEMMA InitHolds == Init => IInv
BY DEF Init, IInv, TypeOK, Unbooted, CounterExact, Accounted, Frames

THEOREM Invariance == Spec => []IInv
<1> QED BY InitHolds, NextKeeps, PTL DEF Spec

\* The state of the manager is well typed, and its counter never leaves
\* 0 .. totalFrames, whatever is allocated, reserved and freed.
THEOREM TypeCorrect == Spec => []TypeOK
<1>1. IInv => TypeOK
  BY DEF IInv
<1> QED BY <1>1, Invariance, PTL

\* free_count, and the early refusal in alloc_frames, go by the exact number of
\* free frames.
THEOREM CounterCorrect == Spec => []CounterExact
<1>1. IInv => CounterExact
  BY DEF IInv
<1> QED BY <1>1, Invariance, PTL

\* No frame is handed out twice or lost, and the bitmap is never handed out.
THEOREM Accounting == Spec => []Accounted
<1>1. IInv => Accounted
  BY DEF IInv
<1> QED BY <1>1, Invariance, PTL
-------------------------------------------------------------------------------
\* A request that the counter or the scan refuses could not be met.
LEMMA RefusalJustified ==
  ASSUME IInv, NEW n \in Counts, n # 0, AllocFails(n),
         NEW f \in Free, Run(f, n) \subseteq Free
  PROVE  FALSE
<1>1. totalFrames \in Nat /\ n \in Nat /\ f \in 0 .. totalFrames - 1
  BY CountsAssumption DEF IInv, TypeOK, Free, Frames
<1>2. n <= freeFrames
  <2>1. IsFiniteSet(Free) /\ Cardinality(Free) = freeFrames
    BY <1>1, FreeFinite DEF Free, Frames, IInv, CounterExact, AllocFails
  <2>2. Cardinality(Run(f, n)) = n
    <3>1. Cardinality(f .. f + n - 1) = n
      BY <1>1, FS_Interval
    <3> QED BY <3>1 DEF Run
  <2> QED BY <2>1, <2>2, FS_Subset
<1>3. f \in Runs(totalFrames, used, n)
  <2>1. f + n - 1 \in Run(f, n)
    BY <1>1 DEF Run
  <2>2. f + n - 1 < totalFrames
    BY <1>1, <2>1 DEF Free, Frames
  <2> QED BY <1>1, <2>2 DEF Runs, Free
<1> QED BY <1>1, <1>2, <1>3 DEF AllocFails, IInv, TypeOK

\* alloc_frames answers 0 only when it must, and otherwise with a free run.
THEOREM AllocAnswers == Spec => AllocAnswer
<1> DEFINE Justified ==
      answer' # answer =>
        IF answer'.first = 0
          THEN answer'.count # 0 =>
                 ~\E f \in Free : Run(f, answer'.count) \subseteq Free
          ELSE Run(answer'.first, answer'.count) \subseteq Free
<1>1. IInv /\ Next => Justified
  <2> SUFFICES ASSUME IInv, Next, answer' # answer PROVE Justified
    OBVIOUS
  <2>1. ASSUME NEW c \in Clients, NEW n \in Counts, AllocFrames(c, n)
        PROVE  Justified
    <3>1. PICK first \in Free : /\ Gives(c, Run(first, n))
                               /\ answer' = [count |-> n, first |-> first]
      BY <2>1, AllocGives DEF IInv
    <3>2. first # 0
      BY <2>1, <3>1 DEF AllocFrames, IInv, Accounted, Kept
    <3> QED BY <3>1, <3>2 DEF Gives
  <2>2. ASSUME NEW n \in Counts, AllocFails(n)
        PROVE  Justified
    <3>1. answer' = [count |-> n, first |-> 0]
      BY <2>2 DEF AllocFails
    <3>2. n # 0 => ~\E f \in Free : Run(f, n) \subseteq Free
      BY <2>2, RefusalJustified
    <3> QED BY <3>1, <3>2
  <2>3. \/ \E c \in Clients, n \in Counts : AllocFrames(c, n)
        \/ \E n \in Counts : AllocFails(n)
    BY DEF Next, ClientCall, PmmInit, FreeFrames, ReserveFrames, Halted, vars
  <2> QED BY <2>1, <2>2, <2>3
<1>2. IInv /\ [Next]_vars => [Justified]_vars
  BY <1>1
<1> QED BY <1>2, Invariance, PTL DEF Spec, AllocAnswer, Justified

-------------------------------------------------------------------------------
\* Each call is one step of the abstract allocator, for the client that calls.
THEOREM Implementation == Spec => ImplementsAllocator
<1>1. Init => Abstract!Init
  BY DEF Init, Abstract!Init
<1>2. IInv /\ [Next]_vars => [Abstract!Next]_(Abstract!vars)
  <2> SUFFICES ASSUME IInv, [Next]_vars
               PROVE  Abstract!Next \/ UNCHANGED Abstract!vars
    OBVIOUS
  <2> USE DEF Abstract!vars
  <2>1. ASSUME NEW c \in Clients, NEW S, Gives(c, S), phase = "ready"
        PROVE  Abstract!Next
    <3>1. Free' = Free \ S /\ phase' = "ready" /\ S \in SUBSET Free
      BY <2>1 DEF Gives, Free, Frames
    <3> QED BY <2>1, <3>1 DEF Gives, Abstract!Next, Abstract!Acquire
  <2>2. ASSUME NEW c \in Clients, NEW S, Returns(c, S), phase = "ready"
        PROVE  Abstract!Next
    <3>1. Free' = Free \cup S /\ phase' = "ready" /\ S \in SUBSET held[c]
      BY <2>2 DEF Returns, IInv, TypeOK, Free, Frames
    <3> QED BY <2>2, <3>1 DEF Returns, Abstract!Next, Abstract!Release
  <2>3. CASE PmmInit
    <3>1. phase = "reset" /\ held = [c \in Clients |-> {}] /\ held' = held
      BY <2>3 DEF PmmInit, IInv, Unbooted
    <3>2. Free' \subseteq Nat
      <4>1. totalFrames' \in Nat
        BY <2>3, BootKeeps DEF IInv, TypeOK
      <4> QED BY <4>1 DEF Free, Frames
    <3> QED BY <3>1, <3>2 DEF Abstract!Next, Abstract!Populate
  <2>4. ASSUME NEW c \in Clients, NEW n \in Counts, AllocFrames(c, n)
        PROVE  Abstract!Next
    BY <2>1, <2>4, AllocGives DEF IInv, AllocFrames
  <2>5. ASSUME NEW n \in Counts, AllocFails(n)
        PROVE  UNCHANGED Abstract!vars
    BY <2>5 DEF AllocFails, Free, Frames
  <2>6. ASSUME NEW c \in Clients, NEW n \in Counts, NEW first \in 0 .. totalFrames,
               FreeFrames(c, first, n)
        PROVE  Abstract!Next
    BY <2>2, <2>6, FreeReturns DEF IInv, FreeFrames
  <2>7. ASSUME NEW c \in Clients, NEW n \in Counts, NEW first \in 0 .. totalFrames,
               ReserveFrames(c, first, n)
        PROVE  Abstract!Next
    BY <2>1, <2>7, ReserveGives DEF IInv, ReserveFrames
  <2>8. CASE Halted \/ UNCHANGED vars
    <3>1. UNCHANGED vars
      BY <2>8 DEF Halted
    <3> QED BY <3>1 DEF vars, Free, Frames
  <2> QED BY <2>3, <2>4, <2>5, <2>6, <2>7, <2>8 DEF Next, ClientCall
<1> QED BY <1>1, <1>2, Invariance, PTL DEF Spec, ImplementsAllocator, Abstract!Spec

-------------------------------------------------------------------------------
(***************************************************************************)
(* The loops.                                                              *)
(***************************************************************************)

(***************************************************************************)
(* Where the running call is.  The counter check at the head of            *)
(* alloc_frames still holds while it scans, and the bounds check of the    *)
(* other calls while they loop.                                            *)
(***************************************************************************)
InLoop ==
  /\ pc \in {"idle", "scan", "reserve", "free"} /\ i \in Nat /\ run \in Nat
  /\ phase # "ready" => pc = "idle"
  /\ pc # "idle" => call \in [first : Nat, count : Counts, client : Clients]
  /\ pc = "scan" => call.count # 0 /\ call.count <= freeFrames
  /\ pc \in {"reserve", "free"} =>
       InRange(totalFrames, call.first, call.count) /\ i <= call.count

(***************************************************************************)
(* The inductive invariant.  The counter is exact after every iteration;   *)
(* that the frames are accounted for is not true in the midst of a loop,   *)
(* and follows for the whole calls from the refinement.                    *)
(***************************************************************************)
LInv == TypeOK /\ Unbooted /\ CounterExact /\ InLoop /\ ScanInv

\* The manager as its callers see it: the bitmap and the counter once the
\* running loop has done the rest of its work.
Bits  == (used \cup ToSet) \ ToClear
Count == freeFrames - Cardinality(ToSet) + Cardinality(ToClear)
-------------------------------------------------------------------------------
LEMMA LoopInitially == LoopInit => LInv
<1> SUFFICES ASSUME LoopInit PROVE LInv
  OBVIOUS
<1>1. IInv
  BY InitHolds DEF LoopInit
<1> QED BY <1>1 DEF LoopInit, LInv, IInv, InLoop, ScanInv, Init

\* A step that moves no bit keeps the counter exact.
LEMMA BitsUntouched ==
  ASSUME LInv, phase = "ready", UNCHANGED <<mmap, phase, bitmap, totalFrames, used, freeFrames>>,
         answer' \in [count : Counts \cup {0}, first : Nat],
         held' \in [Clients -> SUBSET Frames]
  PROVE  TypeOK' /\ Unbooted' /\ CounterExact'
BY DEF LInv, TypeOK, Unbooted, CounterExact, Free, Frames

\* Nor is there anything to do on the way out of a call, or in front of one.
LEMMA Nothing ==
  pc \notin {"reserve", "free"} => ToSet = {} /\ ToClear = {}
BY DEF ToSet, ToClear

LEMMA NoneLeft ==
  ASSUME freeFrames \in Int, ToSet = {}, ToClear = {}
  PROVE  Bits = used /\ Count = freeFrames
<1>1. Cardinality({}) = 0
  BY FS_EmptySet
<1> QED BY <1>1 DEF Bits, Count

\* A call that returns leaves no trace in the variables of the loop.
LEMMA ReturnKeeps ==
  ASSUME TypeOK', Unbooted', CounterExact', Return
  PROVE  LInv'
BY DEF LInv, Return, InLoop, ScanInv

\* The step that enters a loop fixes what the call does, or that it does nothing.
LEMMA EnterKeeps ==
  ASSUME TypeOK', Unbooted', CounterExact', UNCHANGED <<phase, totalFrames, freeFrames>>,
         phase = "ready", NEW loop \in {"reserve", "free"}, NEW c \in Clients,
         NEW first \in Nat, NEW n \in Counts, Enter(loop, c, first, n)
  PROVE  LInv'
<1>1. CASE InRange(totalFrames, first, n)
  <2>1. pc' = loop /\ i' = 0 /\ run' = 0 /\ call' = [first |-> first, count |-> n, client |-> c]
    BY <1>1 DEF Enter
  <2>2. n \in Nat
    BY CountsAssumption
  <2> QED BY <1>1, <2>1, <2>2 DEF LInv, InLoop, ScanInv
<1>2. CASE ~InRange(totalFrames, first, n)
  BY <1>2, ReturnKeeps DEF Enter
<1> QED BY <1>1, <1>2

\* The operators of PMM do not depend on the bitmap that Atomic gives it.
LEMMA SameOperators ==
  /\ \A S : Atomic!Cardinality(S) = Cardinality(S)
  /\ \A first, n : Atomic!Run(first, n) = Run(first, n)
  /\ \A total, u, n : Atomic!Runs(total, u, n) = Runs(total, u, n)
  /\ \A total, u, first, n : Atomic!NewlySet(total, u, first, n) = NewlySet(total, u, first, n)
  /\ \A total, first, n : Atomic!InRange(total, first, n) = InRange(total, first, n)
<1>1. ASSUME NEW S PROVE Atomic!Cardinality(S) = Cardinality(S)
  BY DEF Atomic!Cardinality, Cardinality
<1>2. ASSUME NEW first, NEW n PROVE Atomic!Run(first, n) = Run(first, n)
  BY DEF Atomic!Run, Run
<1>3. ASSUME NEW total, NEW u, NEW n PROVE Atomic!Runs(total, u, n) = Runs(total, u, n)
  BY DEF Atomic!Runs, Runs, Atomic!Run, Run
<1>4. ASSUME NEW total, NEW first, NEW n
      PROVE  Atomic!InRange(total, first, n) = InRange(total, first, n)
  BY DEF Atomic!InRange, InRange
<1>5. ASSUME NEW total, NEW u, NEW first, NEW n
      PROVE  Atomic!NewlySet(total, u, first, n) = NewlySet(total, u, first, n)
  BY DEF Atomic!NewlySet, NewlySet, Atomic!InRange, InRange, Atomic!Run, Run
<1> QED BY <1>1, <1>2, <1>3, <1>4, <1>5
-------------------------------------------------------------------------------
\* The first half of alloc_frames: refuse by the counter, or begin to scan.
LEMMA AllocEntry ==
  ASSUME LInv, NEW n \in Counts, AllocRefuses(n)
  PROVE  LInv' /\ Atomic!AllocFails(n)
<1>1. /\ phase = "ready" /\ pc = "idle" /\ pc' = "idle" /\ Return
      /\ n = 0 \/ n > freeFrames
      /\ answer' = [count |-> n, first |-> 0]
      /\ UNCHANGED <<mmap, phase, bitmap, totalFrames, used, freeFrames, held>>
  BY DEF AllocRefuses, Idle, Return
<1>2. held' \in [Clients -> SUBSET Frames] /\ freeFrames \in Int
  BY <1>1 DEF LInv, TypeOK
<1>3. LInv'
  BY <1>1, <1>2, BitsUntouched, ReturnKeeps
<1>4. Bits = used /\ Count = freeFrames
  BY <1>1, <1>2, Nothing, NoneLeft
<1>5. Bits' = used' /\ Count' = freeFrames'
  <2>1. ToSet' = {} /\ ToClear' = {}
    BY <1>1 DEF ToSet, ToClear
  <2>2. Cardinality({}) = 0
    BY FS_EmptySet
  <2> QED BY <1>1, <1>2, <2>1, <2>2 DEF Bits, Count
<1> QED BY <1>1, <1>3, <1>4, <1>5 DEF Atomic!AllocFails, Bits, Count

LEMMA ScanEntry ==
  ASSUME LInv, NEW c \in Clients, NEW n \in Counts, AllocScans(c, n)
  PROVE  LInv' /\ ToSet' = ToSet /\ ToClear' = ToClear
<1>1. /\ phase = "ready" /\ pc = "idle" /\ pc' = "scan" /\ i' = 0 /\ run' = 0
      /\ n # 0 /\ n <= freeFrames
      /\ call' = [first |-> 0, count |-> n, client |-> c]
      /\ UNCHANGED <<mmap, phase, bitmap, totalFrames, used, freeFrames, answer, held>>
  BY DEF AllocScans, Idle, vars
<1>2. TypeOK' /\ Unbooted' /\ CounterExact'
  BY <1>1, BitsUntouched DEF LInv, TypeOK
<1>3. InLoop'
  BY <1>1 DEF InLoop
<1>4. ScanInv'
  <2>1. n \in Nat /\ totalFrames \in Nat
    BY CountsAssumption DEF LInv, TypeOK
  <2>2. Run(0 - 0, 0) = {}
    BY DEF Run
  <2>3. \A first \in Runs(totalFrames, used, n) : 0 < first + n
    BY <1>1, <2>1 DEF Runs
  <2> QED BY <1>1, <2>1, <2>2, <2>3 DEF ScanInv
<1>5. ToSet' = {} /\ ToClear' = {}
  BY <1>1 DEF ToSet, ToClear
<1> QED BY <1>1, <1>2, <1>3, <1>4, <1>5, Nothing DEF LInv

\* What the scan knows of the frame it looks at.
LEMMA Scanning ==
  ASSUME LInv, pc = "scan"
  PROVE  /\ totalFrames \in Nat /\ i \in Nat /\ run \in Nat /\ call.count \in Nat
         /\ call.count > 0 /\ run < call.count /\ run <= i /\ i <= totalFrames
         /\ \A f \in i - run .. i - 1 : f \notin used
         /\ i - run > 0 => i - run - 1 \in used
         /\ \A first \in Runs(totalFrames, used, call.count) : i < first + call.count
<1>1. totalFrames \in Nat /\ i \in Nat /\ run \in Nat /\ call.count \in Counts
  BY DEF LInv, TypeOK, InLoop
<1>2. call.count \in Nat /\ call.count # 0
  BY <1>1, CountsAssumption DEF LInv, InLoop
<1>3. Run(i - run, run) = i - run .. i - 1
  BY <1>1 DEF Run
<1> QED BY <1>1, <1>2, <1>3 DEF LInv, ScanInv

\* A frame that ends no run that is long enough is passed, and with it every
\* run that could have ended there.
LEMMA ScanShortKeeps ==
  ASSUME LInv, ScanShort
  PROVE  LInv' /\ ToSet' = ToSet /\ ToClear' = ToClear
<1> DEFINE n == call.count
<1>1. /\ pc = "scan" /\ pc' = "scan" /\ i < totalFrames /\ RunAfter(i) < n
      /\ run' = RunAfter(i) /\ i' = i + 1 /\ call' = call
      /\ UNCHANGED <<mmap, phase, bitmap, totalFrames, used, freeFrames, answer, held>>
  BY DEF ScanShort, vars
<1>2. /\ totalFrames \in Nat /\ i \in Nat /\ run \in Nat /\ n \in Nat
      /\ n > 0 /\ run < n /\ run <= i /\ i <= totalFrames
      /\ \A f \in i - run .. i - 1 : f \notin used
      /\ i - run > 0 => i - run - 1 \in used
      /\ \A first \in Runs(totalFrames, used, n) : i < first + n
  BY <1>1, Scanning
<1>3. phase = "ready"
  BY <1>1 DEF LInv, InLoop
<1>4. TypeOK' /\ Unbooted' /\ CounterExact'
  BY <1>1, <1>3, BitsUntouched DEF LInv, TypeOK
<1> HIDE DEF n
<1>5. ASSUME NEW first \in Runs(totalFrames, used, n)
      PROVE  i + 1 < first + n
  <2> SUFFICES ASSUME i + 1 >= first + n PROVE FALSE
    BY <1>2, <1>5 DEF Runs
  <2>1. first \in Nat /\ first + n = i + 1 /\ Run(first, n) \cap used = {}
    BY <1>2, <1>5 DEF Runs
  <2>2. \A f \in first .. i : f \notin used
    BY <1>2, <2>1 DEF Run
  <2>3. i \notin used
    BY <1>2, <2>1, <2>2
  <2>4. run + 1 < n
    BY <1>1, <2>3 DEF RunAfter, n
  <2>5. i - run > 0 /\ i - run - 1 \in first .. i
    BY <1>2, <2>1, <2>4
  <2> QED BY <1>2, <2>2, <2>5
<1>6. /\ i' \in 0 .. totalFrames /\ run' \in 0 .. i' /\ run' \in Nat /\ run' < n
      /\ Run(i' - run', run') \cap used = {}
      /\ i' - run' > 0 => i' - run' - 1 \in used
  <2>1. CASE i \in used
    <3>1. run' = 0
      BY <1>1, <2>1 DEF RunAfter
    <3> QED BY <1>1, <1>2, <2>1, <3>1 DEF Run
  <2>2. CASE i \notin used
    <3>1. run' = run + 1 /\ run' < n
      BY <1>1, <2>2 DEF RunAfter, n
    <3>2. /\ i' - run' = i - run
          /\ \A f \in i - run .. (i - run) + run' - 1 : f \notin used
      BY <1>1, <1>2, <2>2, <3>1
    <3> QED BY <1>1, <1>2, <3>1, <3>2 DEF Run
  <2> QED BY <2>1, <2>2
<1>7. InLoop'
  BY <1>1, <1>2, <1>6 DEF LInv, InLoop
<1>8. ScanInv'
  <2>1. Runs(totalFrames', used', call'.count) = Runs(totalFrames, used, n)
    BY <1>1 DEF n
  <2>2. call'.count = n /\ totalFrames' = totalFrames /\ used' = used /\ i' = i + 1
    BY <1>1 DEF n
  <2>3. i' \in 0 .. totalFrames' /\ run' \in 0 .. i' /\ run' < call'.count
    BY <1>6, <2>2
  <2>5. Run(i' - run', run') \cap used' = {}
    BY <1>6, <2>2
  <2>6. i' - run' > 0 => i' - run' - 1 \in used'
    BY <1>6, <2>2
  <2>4. \A first \in Runs(totalFrames', used', call'.count) : i' < first + call'.count
    BY <1>5, <2>1, <2>2
  <2> QED BY <2>3, <2>4, <2>5, <2>6 DEF ScanInv
<1>9. ToSet' = {} /\ ToClear' = {}
  BY <1>1 DEF ToSet, ToClear
<1> QED BY <1>1, <1>4, <1>7, <1>8, <1>9, Nothing DEF LInv

\* The run that the scan finds is free, inside the bitmap, and the first one.
LEMMA ScanFindsFirst ==
  ASSUME LInv, ScanFinds
  PROVE  LET n     == call.count
             first == FirstOfRun(i, n)
         IN  /\ first \in Runs(totalFrames, used, n)
             /\ \A g \in Runs(totalFrames, used, n) : first <= g
             /\ Run(first, n) \subseteq Frames
             /\ InRange(totalFrames, first, n)
<1> DEFINE n     == call.count
           first == FirstOfRun(i, n)
<1>1. /\ totalFrames \in Nat /\ i \in Nat /\ run \in Nat /\ n \in Nat
      /\ n > 0 /\ run < n /\ run <= i /\ i <= totalFrames
      /\ \A f \in i - run .. i - 1 : f \notin used
      /\ \A g \in Runs(totalFrames, used, n) : i < g + n
  BY Scanning DEF ScanFinds
<1>2. i < totalFrames /\ RunAfter(i) >= n /\ first = i + 1 - n
  BY DEF ScanFinds, FirstOfRun
<1> HIDE DEF n, first
<1>3. i \notin used /\ run + 1 = n
  BY <1>1, <1>2 DEF RunAfter
<1>4. first \in Nat /\ first = i - run /\ first + n = i + 1
  BY <1>1, <1>2, <1>3
<1>5. \A f \in first .. first + n - 1 : f \notin used
  BY <1>1, <1>3, <1>4
<1>6. first \in Runs(totalFrames, used, n)
  BY <1>1, <1>2, <1>4, <1>5 DEF Runs, Run
<1>7. \A g \in Runs(totalFrames, used, n) : first <= g
  BY <1>1, <1>4 DEF Runs
<1>8. Run(first, n) \subseteq Frames /\ InRange(totalFrames, first, n)
  BY <1>1, <1>2, <1>4 DEF Run, Frames, InRange
<1> QED BY <1>6, <1>7, <1>8 DEF first, n

LEMMA ScanFindsKeeps ==
  ASSUME LInv, ScanFinds
  PROVE  LInv' /\ call.client \in Clients /\ call.count \in Counts
         /\ Atomic!AllocFrames(call.client, call.count)
<1> DEFINE n     == call.count
           c     == call.client
           first == FirstOfRun(i, n)
<1>1. /\ first \in Runs(totalFrames, used, n)
      /\ \A g \in Runs(totalFrames, used, n) : first <= g
      /\ Run(first, n) \subseteq Frames
      /\ InRange(totalFrames, first, n)
  BY ScanFindsFirst
<1>2. /\ pc = "scan" /\ pc' = "reserve" /\ i' = 0
      /\ call' = [first |-> first, count |-> n, client |-> c]
      /\ Enter("reserve", c, first, n)
      /\ answer' = [count |-> n, first |-> first]
      /\ held' = [held EXCEPT ![c] = @ \cup Run(first, n)]
      /\ UNCHANGED <<mmap, phase, bitmap, totalFrames, used, freeFrames>>
  BY <1>1 DEF ScanFinds, Enter
<1>3. /\ phase = "ready" /\ n \in Counts /\ c \in Clients
      /\ n # 0 /\ n <= freeFrames /\ freeFrames \in Int /\ totalFrames \in Nat /\ n \in Nat
  <2>1. call \in [first : Nat, count : Counts, client : Clients]
    BY <1>2 DEF LInv, InLoop
  <2>2. phase = "ready" /\ n # 0 /\ n <= freeFrames /\ freeFrames \in Int /\ totalFrames \in Nat
    BY <1>2 DEF LInv, InLoop, TypeOK
  <2> QED BY <2>1, <2>2, CountsAssumption
<1> HIDE DEF n, c, first
<1>4. first \in Nat /\ Run(first, n) \cap used = {}
  BY <1>1, <1>3 DEF Runs
<1>5. LInv'
  <2>1. held' \in [Clients -> SUBSET Frames]
    BY <1>1, <1>2 DEF LInv, TypeOK
  <2>2. answer' \in [count : Counts \cup {0}, first : Nat]
    BY <1>2, <1>3, <1>4
  <2>3. TypeOK' /\ Unbooted' /\ CounterExact'
    BY <1>2, <1>3, <2>1, <2>2, BitsUntouched
  <2> QED BY <1>2, <1>3, <1>4, <2>3, EnterKeeps
<1>6. Bits = used /\ Count = freeFrames
  BY <1>2, <1>3, Nothing, NoneLeft
<1>7. /\ Bits' = used \cup Run(first, n)
      /\ Count' = freeFrames - Cardinality(Run(first, n))
  <2>1. Rest' = Run(first, n)
    <3>1. Run(first + 0, n - 0) = Run(first, n)
      BY <1>3, <1>4 DEF Run
    <3> QED BY <1>2, <3>1 DEF Rest
  <2>2. ToSet' = Run(first, n) /\ ToClear' = {}
    BY <1>2, <1>4, <2>1 DEF ToSet, ToClear
  <2>3. Cardinality({}) = 0 /\ Cardinality(Run(first, n)) \in Nat
    BY <1>1, <1>3, FS_EmptySet, FreeFinite DEF Frames
  <2> QED BY <1>2, <1>3, <2>2, <2>3 DEF Bits, Count
<1>8. NewlySet(totalFrames, used, first, n) = Run(first, n)
  BY <1>1, <1>4 DEF NewlySet
<1>9. Atomic!AllocFrames(c, n)
  BY <1>1, <1>2, <1>3, <1>6, <1>7, <1>8, SameOperators DEF Atomic!AllocFrames, Bits, Count
<1> QED BY <1>3, <1>5, <1>9 DEF c, n

\* A scan that comes to the end has not missed a run.
LEMMA ScanEndsKeeps ==
  ASSUME LInv, ScanEnds
  PROVE  LInv' /\ call.count \in Counts /\ Atomic!AllocFails(call.count)
<1> DEFINE n == call.count
<1>1. /\ pc = "scan" /\ pc' = "idle" /\ Return /\ i = totalFrames
      /\ answer' = [count |-> n, first |-> 0]
      /\ UNCHANGED <<mmap, phase, bitmap, totalFrames, used, freeFrames, held>>
  BY DEF ScanEnds, Return
<1>2. phase = "ready" /\ n \in Counts /\ freeFrames \in Int /\ held' \in [Clients -> SUBSET Frames]
  BY <1>1 DEF LInv, InLoop, TypeOK
<1>3. LInv'
  BY <1>1, <1>2, BitsUntouched, ReturnKeeps
<1>4. Runs(totalFrames, used, n) = {}
  <2>1. \A g \in Runs(totalFrames, used, n) : totalFrames < g + n /\ totalFrames \in Nat /\ n \in Nat
    BY <1>1, Scanning
  <2> QED BY <2>1 DEF Runs
<1>5. Bits = used /\ Count = freeFrames
  BY <1>1, <1>2, Nothing, NoneLeft
<1>6. Bits' = used' /\ Count' = freeFrames'
  <2>1. ToSet' = {} /\ ToClear' = {}
    BY <1>1 DEF ToSet, ToClear
  <2>2. Cardinality({}) = 0
    BY FS_EmptySet
  <2> QED BY <1>1, <1>2, <2>1, <2>2 DEF Bits, Count
<1> QED BY <1>1, <1>2, <1>3, <1>4, <1>5, <1>6, SameOperators DEF Atomic!AllocFails, Bits, Count
-------------------------------------------------------------------------------
\* The range of a loop, and of what is left of it, is inside the bitmap.
LEMMA Looping ==
  ASSUME LInv, pc \in {"reserve", "free"}
  PROVE  /\ phase = "ready" /\ totalFrames \in Nat /\ i \in Nat /\ freeFrames \in Nat
         /\ call.first \in Nat /\ call.count \in Nat /\ i <= call.count
         /\ Rest \subseteq Frames
         /\ i < call.count => /\ call.first + i \in Frames
                              /\ Rest = {call.first + i} \cup Run(call.first + (i + 1), call.count - (i + 1))
                              /\ call.first + i \notin Run(call.first + (i + 1), call.count - (i + 1))
         /\ i = call.count => Rest = {}
<1>1. /\ phase = "ready" /\ totalFrames \in Nat /\ i \in Nat /\ freeFrames \in Nat
      /\ InRange(totalFrames, call.first, call.count) /\ i <= call.count
  BY DEF LInv, InLoop, TypeOK
<1>2. call.first \in Nat /\ call.count \in Nat
  <2>1. call \in [first : Nat, count : Counts, client : Clients]
    BY DEF LInv, InLoop
  <2> QED BY <2>1, CountsAssumption
<1>3. call.first < totalFrames /\ call.count <= totalFrames - call.first
  BY <1>1 DEF InRange
<1> DEFINE first == call.first
           count == call.count
<1> HIDE DEF first, count
<1>4. /\ first \in Nat /\ count \in Nat /\ first < totalFrames
      /\ count <= totalFrames - first /\ i <= count
      /\ Rest = Run(first + i, count - i)
  BY <1>1, <1>2, <1>3 DEF Rest, first, count
<1>5. Rest \subseteq Frames /\ (i = count => Rest = {})
  BY <1>1, <1>4 DEF Run, Frames
<1>6. ASSUME i < count
      PROVE  /\ first + i \in Frames
             /\ Rest = {first + i} \cup Run(first + (i + 1), count - (i + 1))
             /\ first + i \notin Run(first + (i + 1), count - (i + 1))
  BY <1>1, <1>4, <1>6 DEF Run, Frames
<1> QED BY <1>1, <1>2, <1>5, <1>6 DEF first, count

\* The bits that a loop has still to move are finitely many.
LEMMA FewLeft ==
  ASSUME LInv
  PROVE  /\ IsFiniteSet(ToSet) /\ Cardinality(ToSet) \in Nat
         /\ IsFiniteSet(ToClear) /\ Cardinality(ToClear) \in Nat
<1>1. CASE pc \in {"reserve", "free"}
  <2>1. totalFrames \in Nat /\ ToSet \in SUBSET (0 .. totalFrames - 1)
        /\ ToClear \in SUBSET (0 .. totalFrames - 1)
    BY <1>1, Looping DEF ToSet, ToClear, Frames
  <2> QED BY <2>1, FreeFinite
<1>2. CASE pc \notin {"reserve", "free"}
  BY <1>2, Nothing, FS_EmptySet
<1> QED BY <1>1, <1>2

\* One iteration of reserve does one of the bits it had to do.
LEMMA ReserveStepKeeps ==
  ASSUME LInv, ReserveStep
  PROVE  LInv' /\ Bits' = Bits /\ Count' = Count
<1> DEFINE f    == call.first + i
           next == Run(call.first + (i + 1), call.count - (i + 1))
<1>1. /\ pc = "reserve" /\ pc' = "reserve" /\ i < call.count /\ i' = i + 1
      /\ used' = used \cup {f}
      /\ freeFrames' = IF f \in used THEN freeFrames ELSE freeFrames - 1
      /\ UNCHANGED <<mmap, phase, bitmap, totalFrames, answer, held, call, run>>
  BY DEF ReserveStep
<1>2. /\ phase = "ready" /\ totalFrames \in Nat /\ i \in Nat /\ freeFrames \in Nat
      /\ call.first \in Nat /\ call.count \in Nat
      /\ f \in Frames /\ Rest = {f} \cup next /\ f \notin next /\ Rest \subseteq Frames
  BY <1>1, Looping
<1>3. Rest' = next
  BY <1>1 DEF Rest
<1> HIDE DEF f, next
<1>4. /\ ToSet = ({f} \cup next) \ used /\ ToClear = {}
      /\ ToSet' = next \ (used \cup {f}) /\ ToClear' = {}
  BY <1>1, <1>2, <1>3 DEF ToSet, ToClear
<1>5. Bits' = Bits
  BY <1>1, <1>4 DEF Bits
<1>6. IsFiniteSet(ToSet) /\ Cardinality(ToSet) \in Nat /\ Cardinality({}) = 0
  BY FewLeft, FS_EmptySet
<1>7. CASE f \in used
  <2>1. ToSet' = ToSet
    BY <1>4, <1>7
  <2>2. Count' = Count
    BY <1>1, <1>4, <1>7, <2>1 DEF Count
  <2>3. used' = used /\ freeFrames' = freeFrames
    BY <1>1, <1>7
  <2>4. TypeOK' /\ Unbooted' /\ CounterExact'
    BY <1>1, <1>2, <2>3, BitsUntouched DEF LInv, TypeOK
  <2>5. InLoop' /\ ScanInv'
    BY <1>1, <1>2, <2>3 DEF LInv, InLoop, ScanInv
  <2> QED BY <1>5, <2>2, <2>4, <2>5 DEF LInv
<1>8. CASE f \notin used
  <2>1. /\ ToSet' = ToSet \ {f} /\ f \in ToSet
    BY <1>2, <1>4, <1>8
  <2>2. Cardinality(ToSet') = Cardinality(ToSet) - 1
    BY <1>6, <2>1, FS_RemoveElement
  <2>3. freeFrames' = freeFrames - 1
    BY <1>1, <1>8
  <2>4. Count' = Count
    BY <1>2, <1>4, <1>6, <2>2, <2>3 DEF Count
  <2>5. Free' = Free \ {f} /\ f \in Free /\ Frames' = Frames
    BY <1>1, <1>2, <1>8 DEF Free, Frames
  <2>6. freeFrames' = Cardinality(Free') /\ freeFrames' \in 0 .. totalFrames
    <3>1. Free \in SUBSET (0 .. totalFrames - 1) /\ Free' \in SUBSET (0 .. totalFrames - 1)
      BY <2>5 DEF Free, Frames
    <3>2. IsFiniteSet(Free) /\ Cardinality(Free') \in 0 .. totalFrames
      BY <1>2, <3>1, FreeFinite
    <3>3. Cardinality(Free) = freeFrames
      BY <1>2 DEF LInv, CounterExact
    <3>4. Cardinality(Free') = Cardinality(Free) - 1
      BY <2>5, <3>2, FS_RemoveElement
    <3> QED BY <2>3, <3>2, <3>3, <3>4
  <2>7. TypeOK' /\ Unbooted' /\ CounterExact'
    BY <1>1, <1>2, <2>5, <2>6 DEF LInv, TypeOK, Unbooted, CounterExact
  <2>8. InLoop' /\ ScanInv'
    BY <1>1, <1>2 DEF LInv, InLoop, ScanInv
  <2> QED BY <1>5, <2>4, <2>7, <2>8 DEF LInv
<1> QED BY <1>7, <1>8

\* When the counter says that all frames are free, no bit is set.
LEMMA AllFree ==
  ASSUME TypeOK, freeFrames = Cardinality(Free), freeFrames = totalFrames
  PROVE  used = {}
<1>1. totalFrames \in Nat /\ used \subseteq Frames
  BY DEF TypeOK
<1>2. IsFiniteSet(Frames) /\ Cardinality(Frames) = totalFrames
  <2>1. IsFiniteSet(0 .. totalFrames - 1) /\ Cardinality(0 .. totalFrames - 1) = totalFrames
    BY <1>1, FS_Interval
  <2> QED BY <2>1 DEF Frames
<1>3. Cardinality(Free) = Cardinality(Frames) - Cardinality(used) /\ IsFiniteSet(used)
  BY <1>1, <1>2, TakeOut, FS_Subset DEF Free
<1>4. Cardinality(used) = 0
  <2>1. Cardinality(used) \in Nat
    BY <1>3, FS_CardinalityType
  <2>2. totalFrames = totalFrames - Cardinality(used)
    BY <1>2, <1>3
  <2> QED BY <1>1, <2>1, <2>2
<1> QED BY <1>3, <1>4, FS_EmptySet

\* free_frame skips a frame of the range only if it is not to be cleared.
LEMMA SkippedRight ==
  ASSUME LInv, pc = "free", NEW f \in Frames
  PROVE  Skipped(f) <=> f \notin used \ {0}
<1>1. totalFrames \in Nat /\ freeFrames = Cardinality(Free) /\ TypeOK
  BY Looping DEF LInv, CounterExact
<1>2. freeFrames = totalFrames => used = {}
  BY <1>1, AllFree
<1>3. ~(f >= totalFrames)
  BY <1>1 DEF Frames
<1> QED BY <1>2, <1>3 DEF Skipped

\* One iteration of free_frames does one of the bits it had to do.
LEMMA FreeStepKeeps ==
  ASSUME LInv, FreeStep
  PROVE  LInv' /\ Bits' = Bits /\ Count' = Count
<1> DEFINE f    == call.first + i
           next == Run(call.first + (i + 1), call.count - (i + 1))
<1>1. /\ pc = "free" /\ pc' = "free" /\ i < call.count /\ i' = i + 1
      /\ IF Skipped(f) THEN UNCHANGED <<used, freeFrames>>
                       ELSE used' = used \ {f} /\ freeFrames' = freeFrames + 1
      /\ UNCHANGED <<mmap, phase, bitmap, totalFrames, answer, held, call, run>>
  BY DEF FreeStep
<1>2. /\ phase = "ready" /\ totalFrames \in Nat /\ i \in Nat /\ freeFrames \in Nat
      /\ call.first \in Nat /\ call.count \in Nat
      /\ f \in Frames /\ Rest = {f} \cup next /\ f \notin next /\ Rest \subseteq Frames
  BY <1>1, Looping
<1>3. Rest' = next
  BY <1>1 DEF Rest
<1> HIDE DEF f, next
<1>4. /\ ToSet = {} /\ ToClear = (({f} \cup next) \cap used) \ {0}
      /\ ToSet' = {} /\ ToClear' = (next \cap used') \ {0}
  BY <1>1, <1>2, <1>3 DEF ToSet, ToClear
<1>5. IsFiniteSet(ToClear) /\ Cardinality(ToClear) \in Nat /\ Cardinality({}) = 0
  BY FewLeft, FS_EmptySet
<1>6. Skipped(f) <=> f \notin used \ {0}
  BY <1>1, <1>2, SkippedRight
<1>7. CASE Skipped(f)
  <2>1. used' = used /\ freeFrames' = freeFrames
    BY <1>1, <1>7
  <2>2. ToClear' = ToClear
    BY <1>4, <1>6, <1>7, <2>1
  <2>3. Count' = Count /\ Bits' = Bits
    BY <1>4, <2>1, <2>2 DEF Count, Bits
  <2>4. TypeOK' /\ Unbooted' /\ CounterExact'
    BY <1>1, <1>2, <2>1, BitsUntouched DEF LInv, TypeOK
  <2>5. InLoop' /\ ScanInv'
    BY <1>1, <1>2, <2>1 DEF LInv, InLoop, ScanInv
  <2> QED BY <2>3, <2>4, <2>5 DEF LInv
<1>8. CASE ~Skipped(f)
  <2>1. used' = used \ {f} /\ freeFrames' = freeFrames + 1 /\ f \in used /\ f # 0
    BY <1>1, <1>6, <1>8
  <2>2. ToClear' = ToClear \ {f} /\ f \in ToClear
    BY <1>2, <1>4, <2>1
  <2>3. Cardinality(ToClear') = Cardinality(ToClear) - 1
    BY <1>5, <2>2, FS_RemoveElement
  <2>4. Count' = Count
    BY <1>2, <1>4, <1>5, <2>1, <2>3 DEF Count
  <2>5. Bits' = Bits
    BY <1>4, <2>1, <2>2 DEF Bits
  <2>6. Free' = Free \cup {f} /\ f \notin Free /\ Frames' = Frames
    BY <1>1, <1>2, <2>1 DEF Free, Frames
  <2>7. freeFrames' = Cardinality(Free') /\ freeFrames' \in 0 .. totalFrames
    <3>1. Free \in SUBSET (0 .. totalFrames - 1) /\ Free' \in SUBSET (0 .. totalFrames - 1)
      BY <1>2, <2>6 DEF Free, Frames
    <3>2. IsFiniteSet(Free) /\ Cardinality(Free') \in 0 .. totalFrames
      BY <1>2, <3>1, FreeFinite
    <3>3. Cardinality(Free) = freeFrames
      BY <1>2 DEF LInv, CounterExact
    <3>4. Cardinality(Free') = Cardinality(Free) + 1
      BY <2>6, <3>2, FS_AddElement
    <3> QED BY <2>1, <3>2, <3>3, <3>4
  <2>8. TypeOK' /\ Unbooted' /\ CounterExact'
    BY <1>1, <1>2, <2>1, <2>6, <2>7 DEF LInv, TypeOK, Unbooted, CounterExact
  <2>9. InLoop' /\ ScanInv'
    BY <1>1, <1>2 DEF LInv, InLoop, ScanInv
  <2> QED BY <2>4, <2>5, <2>8, <2>9 DEF LInv
<1> QED BY <1>7, <1>8
-------------------------------------------------------------------------------
\* The entry of reserve fixes the bits that the loop will set.
LEMMA ReserveCallKeeps ==
  ASSUME LInv, NEW c \in Clients, NEW n \in Counts, NEW first \in 0 .. totalFrames,
         ReserveCall(c, first, n)
  PROVE  LInv' /\ Atomic!ReserveFrames(c, first, n)
<1> DEFINE taken == NewlySet(totalFrames, used, first, n)
<1>1. /\ phase = "ready" /\ pc = "idle" /\ Enter("reserve", c, first, n)
      /\ held' = [held EXCEPT ![c] = @ \cup taken]
      /\ UNCHANGED <<mmap, phase, bitmap, totalFrames, used, freeFrames, answer>>
  BY DEF ReserveCall, Idle
<1>2. /\ totalFrames \in Nat /\ n \in Nat /\ first \in Nat /\ freeFrames \in Nat
      /\ held \in [Clients -> SUBSET Frames] /\ used \subseteq Frames
  BY CountsAssumption DEF LInv, TypeOK
<1>3. taken \subseteq Frames \ used /\ taken \ used = taken
  BY <1>2 DEF NewlySet, InRange, Run, Frames
<1>4. LInv'
  <2>1. held' \in [Clients -> SUBSET Frames] /\ answer' \in [count : Counts \cup {0}, first : Nat]
    BY <1>1, <1>2, <1>3 DEF LInv, TypeOK
  <2>2. TypeOK' /\ Unbooted' /\ CounterExact'
    BY <1>1, <2>1, BitsUntouched
  <2> QED BY <1>1, <1>2, <2>2, EnterKeeps
<1>5. Bits = used /\ Count = freeFrames
  BY <1>1, <1>2, Nothing, NoneLeft
<1>6. ToSet' = taken /\ ToClear' = {}
  <2>1. CASE InRange(totalFrames, first, n)
    <3>1. /\ pc' = "reserve" /\ i' = 0
          /\ call' = [first |-> first, count |-> n, client |-> c]
      BY <1>1, <2>1 DEF Enter
    <3>2. Run(first + 0, n - 0) = Run(first, n)
      BY <1>2 DEF Run
    <3> QED BY <1>1, <2>1, <3>1, <3>2 DEF ToSet, ToClear, Rest, NewlySet
  <2>2. CASE ~InRange(totalFrames, first, n)
    BY <1>1, <2>2 DEF Enter, Return, ToSet, ToClear, NewlySet
  <2> QED BY <2>1, <2>2
<1>7. Bits' = used \cup taken /\ Count' = freeFrames - Cardinality(taken)
  <2>1. Cardinality({}) = 0 /\ Cardinality(taken) \in Nat
    BY <1>2, <1>3, FS_EmptySet, FreeFinite DEF Frames
  <2> HIDE DEF taken
  <2> QED BY <1>1, <1>2, <1>6, <2>1 DEF Bits, Count
<1>8. Atomic!ReserveFrames(c, first, n)
  BY <1>1, <1>3, <1>5, <1>7, SameOperators DEF Atomic!ReserveFrames, Bits, Count
<1> QED BY <1>4, <1>8

\* The entry of free_frames fixes the bits that the loop will clear.
LEMMA FreeCallKeeps ==
  ASSUME LInv, NEW c \in Clients, NEW n \in Counts, NEW first \in 0 .. totalFrames,
         FreeCall(c, first, n)
  PROVE  LInv' /\ Atomic!FreeFrames(c, first, n)
<1> DEFINE S == Cleared(first, n)
<1>1. /\ phase = "ready" /\ pc = "idle" /\ Enter("free", c, first, n)
      /\ Run(first, n) \cap Frames \subseteq held[c] \cup Free \cup {0}
      /\ held' = [held EXCEPT ![c] = @ \ S]
      /\ UNCHANGED <<mmap, phase, bitmap, totalFrames, used, freeFrames, answer>>
  BY DEF FreeCall, Idle
<1>2. /\ totalFrames \in Nat /\ n \in Nat /\ first \in Nat /\ freeFrames \in Nat
      /\ held \in [Clients -> SUBSET Frames] /\ used \subseteq Frames
  BY CountsAssumption DEF LInv, TypeOK
<1>3. LInv'
  <2>1. held' \in [Clients -> SUBSET Frames] /\ answer' \in [count : Counts \cup {0}, first : Nat]
    BY <1>1, <1>2 DEF LInv, TypeOK
  <2>2. TypeOK' /\ Unbooted' /\ CounterExact'
    BY <1>1, <2>1, BitsUntouched
  <2> QED BY <1>1, <1>2, <2>2, EnterKeeps
<1>4. Bits = used /\ Count = freeFrames
  BY <1>1, <1>2, Nothing, NoneLeft
<1>5. freeFrames = totalFrames => used = {}
  BY <1>1, <1>2, AllFree DEF LInv, CounterExact
<1>6. ToSet' = {} /\ ToClear' = S
  <2>1. CASE InRange(totalFrames, first, n)
    <3>1. /\ pc' = "free" /\ i' = 0
          /\ call' = [first |-> first, count |-> n, client |-> c]
      BY <1>1, <2>1 DEF Enter
    <3>2. Run(first + 0, n - 0) = Run(first, n)
      BY <1>2 DEF Run
    <3>3. S = (Run(first, n) \cap used) \ {0}
      BY <1>5, <2>1 DEF Cleared
    <3> HIDE DEF S
    <3> QED BY <1>1, <3>1, <3>2, <3>3 DEF ToSet, ToClear, Rest
  <2>2. CASE ~InRange(totalFrames, first, n)
    BY <1>1, <2>2 DEF Enter, Return, ToSet, ToClear, Cleared
  <2> QED BY <2>1, <2>2
<1>7. Bits' = used \ S /\ Count' = freeFrames + Cardinality(S)
  <2>1. S \in SUBSET (0 .. totalFrames - 1)
    BY <1>2 DEF Cleared, Frames
  <2> HIDE DEF S
  <2>2. Cardinality({}) = 0 /\ Cardinality(S) \in Nat
    <3>1. Cardinality(S) \in 0 .. totalFrames
      BY <1>2, <2>1, FreeFinite
    <3> QED BY <1>2, <3>1, FS_EmptySet
  <2> QED BY <1>1, <1>2, <1>6, <2>2 DEF Bits, Count
<1>8. /\ Atomic!Cleared(first, n) = S /\ Atomic!Frames = Frames /\ Atomic!Free = Free
  <2>1. Atomic!Frames = Frames /\ Atomic!Free = Free
    BY <1>4 DEF Atomic!Free, Free, Atomic!Frames, Frames, Bits
  <2>2. Atomic!Cleared(first, n) = S
    BY <1>4, SameOperators DEF Atomic!Cleared, Cleared, Bits, Count
  <2> QED BY <2>1, <2>2
<1>9. Atomic!FreeFrames(c, first, n)
  <2> HIDE DEF S
  <2> QED BY <1>1, <1>4, <1>7, <1>8, SameOperators DEF Atomic!FreeFrames, Bits, Count
<1> QED BY <1>3, <1>9

\* The return at the end of a loop, when nothing is left to do.
LEMMA LoopEndsKeeps ==
  ASSUME LInv, LoopEnds
  PROVE  LInv' /\ Bits' = Bits /\ Count' = Count
<1>1. /\ pc \in {"reserve", "free"} /\ i = call.count /\ Return
      /\ UNCHANGED <<mmap, phase, bitmap, totalFrames, used, freeFrames, answer, held>>
  BY DEF LoopEnds, vars
<1>2. ToSet = {} /\ ToClear = {}
  BY <1>1, Looping DEF ToSet, ToClear
<1>3. ToSet' = {} /\ ToClear' = {}
  BY <1>1 DEF Return, ToSet, ToClear
<1>4. TypeOK' /\ Unbooted' /\ CounterExact'
  BY <1>1, Looping, BitsUntouched DEF LInv, TypeOK
<1> QED BY <1>1, <1>2, <1>3, <1>4, ReturnKeeps DEF Bits, Count

\* PMM::init runs while no call does.
LEMMA BootStep ==
  ASSUME LInv, Boot
  PROVE  LInv' /\ Atomic!PmmInit
<1>1. /\ PmmInit /\ phase = "reset" /\ pc = "idle"
      /\ UNCHANGED <<pc, call, i, run>>
  BY DEF Boot, PmmInit, LInv, InLoop
<1>2. IInv
  BY <1>1 DEF LInv, IInv, Accounted
<1>3. IInv'
  BY <1>1, <1>2, BootKeeps
<1>4. LInv'
  BY <1>1, <1>3 DEF LInv, IInv, InLoop, ScanInv
<1>5. /\ ToSet = {} /\ ToClear = {} /\ ToSet' = {} /\ ToClear' = {}
      /\ freeFrames \in Int /\ freeFrames' \in Int
  BY <1>1, <1>2, <1>3 DEF ToSet, ToClear, IInv, TypeOK
<1>6. Bits = used /\ Count = freeFrames
  BY <1>5, NoneLeft
<1>7. Bits' = used' /\ Count' = freeFrames'
  <2>1. Cardinality({}) = 0
    BY FS_EmptySet
  <2> QED BY <1>5, <2>1 DEF Bits, Count
<1>8. Atomic!PmmInit
  <2>1. /\ \A m : Atomic!Conventional(m) = Conventional(m)
        /\ \A d : Atomic!End(d) = End(d)
        /\ \A n : Atomic!BitmapFrames(n) = BitmapFrames(n)
        /\ \A m, n : Atomic!BitmapHomes(m, n) = BitmapHomes(m, n)
        /\ \A n : Atomic!BootUsed(n) = BootUsed(n)
        /\ Atomic!BootCount = BootCount
    <3>1. ASSUME NEW m PROVE Atomic!Conventional(m) = Conventional(m)
      BY DEF Atomic!Conventional, Conventional
    <3>2. ASSUME NEW d PROVE Atomic!End(d) = End(d) /\ Atomic!Span(d) = Span(d)
      BY SameOperators DEF Atomic!End, End, Atomic!Span, Span
    <3>3. ASSUME NEW n PROVE Atomic!BitmapFrames(n) = BitmapFrames(n)
      BY DEF Atomic!BitmapFrames, BitmapFrames
    <3>4. ASSUME NEW m, NEW n PROVE Atomic!BitmapHomes(m, n) = BitmapHomes(m, n)
      BY <3>1, <3>3 DEF Atomic!BitmapHomes, BitmapHomes
    <3>5. ASSUME NEW n PROVE Atomic!BootUsed(n) = BootUsed(n)
      BY <3>1, <3>2 DEF Atomic!BootUsed, BootUsed
    <3>6. Atomic!BootCount = BootCount
      BY <3>1, <3>2, SameOperators DEF Atomic!BootCount, BootCount
    <3> QED BY <3>1, <3>2, <3>3, <3>4, <3>5, <3>6
  <2>2. /\ totalFrames' \in {0} \cup {Atomic!End(mmap[j]) : j \in Atomic!Conventional(mmap)}
        /\ \A j \in Atomic!Conventional(mmap) : Atomic!End(mmap[j]) <= totalFrames'
        /\ UNCHANGED <<mmap, answer, held>>
    BY <1>1, <2>1 DEF PmmInit
  <2>3. InitPanics => Atomic!InitPanics
    BY <1>6, <1>7, <2>1 DEF InitPanics, Atomic!InitPanics, Bits, Count
  <2>4. InitPlaces => Atomic!InitPlaces
    BY <1>6, <1>7, <2>1, SameOperators DEF InitPlaces, Atomic!InitPlaces, Bits, Count
  <2> QED BY <1>1, <2>2, <2>3, <2>4 DEF Atomic!PmmInit, PmmInit
<1> QED BY <1>4, <1>8
-------------------------------------------------------------------------------
\* What each step of the loops is, seen from outside.
LEMMA LoopStep ==
  ASSUME LInv, [LoopNext]_loopVars
  PROVE  LInv' /\ [Atomic!Next]_(Atomic!vars)
<1> USE DEF Atomic!vars
<1>1. CASE Boot
  BY <1>1, BootStep DEF Atomic!Next
<1>2. ASSUME NEW c \in Clients, NEW n \in Counts, AllocRefuses(n)
      PROVE  LInv' /\ Atomic!Next
  BY <1>2, AllocEntry DEF Atomic!Next, Atomic!ClientCall
<1>3. ASSUME NEW c \in Clients, NEW n \in Counts, AllocScans(c, n)
      PROVE  LInv' /\ UNCHANGED Atomic!vars
  BY <1>3, ScanEntry DEF AllocScans, vars
<1>4. ASSUME NEW c \in Clients, NEW n \in Counts, NEW first \in 0 .. totalFrames,
             ReserveCall(c, first, n)
      PROVE  LInv' /\ Atomic!Next
  BY <1>4, ReserveCallKeeps DEF Atomic!Next, Atomic!ClientCall
<1>5. ASSUME NEW c \in Clients, NEW n \in Counts, NEW first \in 0 .. totalFrames,
             FreeCall(c, first, n)
      PROVE  LInv' /\ Atomic!Next
  BY <1>5, FreeCallKeeps DEF Atomic!Next, Atomic!ClientCall
<1>6. CASE ScanShort
  BY <1>6, ScanShortKeeps DEF ScanShort, vars
<1>7. CASE ScanFinds
  BY <1>7, ScanFindsKeeps DEF Atomic!Next, Atomic!ClientCall
<1>8. CASE ScanEnds
  <2>1. LInv' /\ call.count \in Counts /\ Atomic!AllocFails(call.count)
    BY <1>8, ScanEndsKeeps
  <2>2. call.client \in Clients
    BY <1>8 DEF ScanEnds, LInv, InLoop
  <2> QED BY <2>1, <2>2 DEF Atomic!Next, Atomic!ClientCall
<1>9. CASE ReserveStep \/ FreeStep
  <2>1. LInv' /\ Bits' = Bits /\ Count' = Count
    BY <1>9, ReserveStepKeeps, FreeStepKeeps
  <2> QED BY <1>9, <2>1 DEF ReserveStep, FreeStep, Bits, Count
<1>10. CASE LoopEnds
  BY <1>10, LoopEndsKeeps DEF LoopEnds, vars, Bits, Count
<1>11. CASE LoopHalted \/ UNCHANGED loopVars
  <2>1. UNCHANGED <<mmap, phase, bitmap, totalFrames, used, freeFrames, answer, held,
                    pc, call, i, run>>
    BY <1>11 DEF LoopHalted, loopVars, vars
  <2>2. TypeOK' /\ Unbooted' /\ CounterExact'
    BY <2>1 DEF LInv, TypeOK, Unbooted, CounterExact, Free, Frames
  <2>3. InLoop' /\ ScanInv' /\ ToSet' = ToSet /\ ToClear' = ToClear
    BY <2>1 DEF LInv, InLoop, ScanInv, ToSet, ToClear, Rest
  <2> QED BY <2>1, <2>2, <2>3 DEF LInv
<1> QED
  BY <1>1, <1>2, <1>3, <1>4, <1>5, <1>6, <1>7, <1>8, <1>9, <1>10, <1>11 DEF LoopNext

THEOREM LoopInvariance == LoopSpec => []LInv
<1>1. LInv /\ [LoopNext]_loopVars => LInv'
  BY LoopStep
<1> QED BY <1>1, LoopInitially, PTL DEF LoopSpec

(***************************************************************************)
(* The scan of alloc_frames overlooks no run: every free run of the asked  *)
(* length ends at or after the frame it looks at.                          *)
(***************************************************************************)
THEOREM ScanCorrect == LoopSpec => []ScanInv
<1>1. LInv => ScanInv
  BY DEF LInv
<1> QED BY <1>1, LoopInvariance, PTL

(***************************************************************************)
(* Each call of the manager, loops and all, is one step of PMM: what its   *)
(* loops do bit by bit no caller can see half done.                        *)
(***************************************************************************)
THEOREM LoopsImplement == LoopSpec => ImplementsPMM
<1>1. LoopInit => Atomic!Init
  <2> SUFFICES ASSUME LoopInit PROVE Atomic!Init
    OBVIOUS
  <2>1. ToSet = {} /\ ToClear = {} /\ freeFrames \in Int
    BY DEF LoopInit, Init, ToSet, ToClear
  <2>2. Bits = used /\ Count = freeFrames
    BY <2>1, NoneLeft
  <2> QED BY <2>2 DEF LoopInit, Init, Atomic!Init, Bits, Count
<1>2. LInv /\ [LoopNext]_loopVars => [Atomic!Next]_(Atomic!vars)
  BY LoopStep
<1> QED BY <1>1, <1>2, LoopInvariance, PTL DEF LoopSpec, ImplementsPMM, Atomic!Spec
===============================================================================
