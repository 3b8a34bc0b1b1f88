------------------------------ MODULE BootProofs ------------------------------
(***************************************************************************)
(* Proofs about Boot, for every memory map, every demand for tables and    *)
(* every framebuffer: that the heap owns what is mapped for it, and that   *)
(* the kernel gets its heap exactly when the frames allow the size chosen. *)
(* What the calls do to the frame manager is taken from PMMProofs.         *)
(***************************************************************************)
EXTENDS Boot, PMMProofs, WellFoundedInduction

-------------------------------------------------------------------------------
(* Powers of two *)

\* A power of two above one is even, and its half is one again.
LEMMA Halving ==
  ASSUME NEW n \in Nat, n > 1, PowerOfTwo(n)
  PROVE  n % 2 = 0 /\ n \div 2 \in 1 .. n - 1 /\ n = 2 * (n \div 2) /\ PowerOfTwo(n \div 2)
<1>1. n % 2 = 0
  <2>1. n % n = 0
    <3>1. n = n * 1 + 0
      OBVIOUS
    <3> QED BY <3>1
  <2> QED BY <2>1 DEF PowerOfTwo
<1>2. n \div 2 \in 1 .. n - 1 /\ n = 2 * (n \div 2)
  BY <1>1
<1>3. ASSUME NEW d \in 1 .. n \div 2, (n \div 2) % d = 0
      PROVE  d = 1 \/ d % 2 = 0
  <2>1. PICK q \in Int : n \div 2 = d * q
    <3>1. n \div 2 = d * ((n \div 2) \div d) + ((n \div 2) % d)
      BY <1>2
    <3>2. (n \div 2) \div d \in Int
      BY <1>2
    <3> QED BY <3>1, <3>2, <1>2, <1>3
  <2>2. n = d * (2 * q) + 0
    BY <1>2, <2>1
  <2>3. n % d = 0
    BY <2>2
  <2>4. d \in 1 .. n
    BY <1>2
  <2> QED BY <2>3, <2>4 DEF PowerOfTwo
<1> QED BY <1>1, <1>2, <1>3 DEF PowerOfTwo

\* Every set of numbers has a least one.
LEMMA Least ==
  ASSUME NEW S \in SUBSET Nat, NEW s \in S
  PROVE  \E n \in S : \A m \in S : n <= m
<1> DEFINE R == OpToRel(<, Nat)
<1>1. \A m, n \in Nat : <<m, n>> \in R <=> m < n
  BY DEF OpToRel
<1>2. IsWellFoundedOn(R, Nat)
  BY NatLessThanWellFounded
<1> HIDE DEF R
<1>3. PICK n \in S : \A m \in S : ~ (<<m, n>> \in R)
  BY <1>2, WFMin
<1>4. ASSUME NEW m \in S PROVE n <= m
  <2>1. m \in Nat /\ n \in Nat
    OBVIOUS
  <2>2. ~ (m < n)
    BY <1>1, <1>3, <2>1
  <2> QED BY <2>1, <2>2
<1> QED BY <1>4

\* Between a power of two and its double there is none.
LEMMA NoneBetween ==
  ASSUME NEW n \in Nat \ {0}, PowerOfTwo(n), NEW p \in Nat, PowerOfTwo(p), n < p
  PROVE  2 * n <= p
<1> DEFINE Bad == {m \in Nat \ {0} : /\ PowerOfTwo(m)
                                     /\ \E u \in Nat : PowerOfTwo(u) /\ m < u /\ u < 2 * m}
<1> SUFFICES ASSUME p < 2 * n PROVE FALSE
  OBVIOUS
<1>1. n \in Bad /\ Bad \in SUBSET Nat
  OBVIOUS
<1>2. PICK m \in Bad : \A k \in Bad : m <= k
  BY <1>1, Least
<1>3. PICK u \in Nat : PowerOfTwo(u) /\ m < u /\ u < 2 * m
  BY <1>2
<1>4. m > 1 /\ u > 1
  BY <1>2, <1>3
<1>5. /\ m \div 2 \in 1 .. m - 1 /\ m = 2 * (m \div 2) /\ PowerOfTwo(m \div 2)
      /\ u \div 2 \in 1 .. u - 1 /\ u = 2 * (u \div 2) /\ PowerOfTwo(u \div 2)
  BY <1>2, <1>3, <1>4, Halving
<1>6. m \div 2 < u \div 2 /\ u \div 2 < 2 * (m \div 2)
  BY <1>3, <1>5
<1>7. m \div 2 \in Bad
  BY <1>5, <1>6
<1> QED BY <1>2, <1>5, <1>7

\* HeapAlloc's answer is the one number that fits the description.
LEMMA TargetIs ==
  ASSUME NEW count \in Nat, NEW t \in {0} \cup Sizes, t <= count,
         \A u \in Sizes : u <= count => u <= t
  PROVE  Target(count) = t
<1>1. Sizes \subseteq Nat
  BY BootAssumption DEF Sizes
<1> DEFINE s == Target(count)
<1>2. s \in {0} \cup Sizes /\ s <= count /\ \A u \in Sizes : u <= count => u <= s
  BY DEF Target
<1> HIDE DEF s
<1>3. s = t
  BY <1>1, <1>2
<1> QED BY <1>3 DEF s

-------------------------------------------------------------------------------
(* The invariant *)

\* What HeapIffEnough asks of the frames that VMM::init left.
Enough ==
  LET n == Target(Cardinality(left))
  IN  /\ n > 0 /\ Cardinality(left) >= Pages(n) + HeapTables(Pages(n))
      /\ \E f \in left : Run(f, Pages(n)) \subseteq left

(***************************************************************************)
(* The manager is ready after its init, nobody has counted frames before   *)
(* HeapAlloc, and the heap has none before its own init.                   *)
(***************************************************************************)
Order ==
  /\ stage = "pmm" => phase = "reset" /\ base = 0
  /\ stage \notin {"pmm", "panic"} => phase = "ready"
  /\ stage \in {"pmm", "root", "tables"} => left = {} /\ targetSize = MaxTarget
  /\ stage \in {"pmm", "root", "tables", "choose"} => HeapInitSize = 0
  /\ stage \in {"pmm", "root", "tables", "choose", "heap"} => held[heap] = {}

(***************************************************************************)
(* While HeapAlloc looks for a size, twice the one it tries is too large   *)
(* or was never tried; what it has chosen is the largest that will do.     *)
(***************************************************************************)
Chosen ==
  /\ stage \in {"choose", "heap"} => left = Free
  /\ stage = "choose" =>
       /\ PowerOfTwo(targetSize)
       /\ targetSize = MaxTarget \/ Cardinality(left) < 2 * targetSize
  /\ stage \in {"heap", "map heap", "shadow", "map shadow", "runs"} =>
       HeapInitSize \in 2 .. MaxTarget /\ HeapInitSize = Target(Cardinality(left))

(***************************************************************************)
(* While the heap is mapped, the frames that were free are its own, those  *)
(* of the tables it got, and those still free.                             *)
(***************************************************************************)
Mapped ==
  /\ stage = "map heap" =>
       /\ demand <= HeapTables(size) /\ size = Pages(HeapInitSize)
       /\ base \in left /\ Run(base, size) \subseteq left
       /\ Cardinality(left) = size + (HeapTables(size) - demand) + freeFrames
  /\ stage = "shadow" => size = Pages(HeapInitSize)
  /\ stage = "map shadow" => Growth > 0 /\ size = Growth

BInv ==
  /\ IInv /\ BootTypeOK /\ Order /\ Chosen /\ Mapped
  /\ HeapBacked /\ HeapIffEnough

\* What the copy of the framebuffer takes is settled with the heap's first size.
LEMMA GrowthStays ==
  ASSUME UNCHANGED <<ShadowPages, room, HeapInitSize>>
  PROVE  Growth' = Growth
BY DEF Growth, InFirstBlock, WithRoomFor, Pages

-------------------------------------------------------------------------------
(* The calls of the frame manager *)

\* The sizes that boot asks for are among the counts.
LEMMA Asked ==
  ASSUME BInv
  PROVE  /\ 1 \in Counts
         /\ HeapInitSize \in 2 .. MaxTarget =>
              Pages(HeapInitSize) \in Counts /\ Pages(HeapInitSize) \in Nat \ {0}
         /\ Growth \in Nat /\ (Growth > 0 => Growth \in Counts)
<1>1. MaxTarget \in Nat /\ MaxTarget > 1 /\ HEAP_MAX_PAGES \in Nat \ {0}
      /\ 1 .. MaxTarget \subseteq Counts /\ ScreenPages \subseteq Counts
      /\ {n + 1 : n \in ScreenPages} \subseteq Counts
      /\ ScreenPages \subseteq Nat \ {0}
  BY BootAssumption
<1>2. ShadowPages \in ScreenPages
  BY DEF BInv, BootTypeOK
<1>3. HeapInitSize \in 2 .. MaxTarget => Pages(HeapInitSize) \in 1 .. MaxTarget
  BY <1>1 DEF Pages
<1>4. Growth \in {0, 1, ShadowPages, ShadowPages + 1}
  <2>1. ShadowPages \in Nat
    BY <1>1, <1>2
  <2>2. ShadowPages + 0 = ShadowPages
    BY <2>1
  <2> QED BY <2>2 DEF Growth, WithRoomFor
<1>5. {1, ShadowPages, ShadowPages + 1} \subseteq Counts \cap Nat
  BY <1>1, <1>2
<1>6. Growth \in Nat /\ (Growth > 0 => Growth \in Counts)
  BY <1>4, <1>5
<1> QED BY <1>1, <1>2, <1>3, <1>6

\* A range of pages needs finitely many tables.
LEMMA TablesCounted ==
  ASSUME NEW m \in Nat, NEW n \in Nat
  PROVE  NewTables(m, n) \in Nat /\ HeapTables(n) \in Nat
<1>1. ASSUME NEW a \in Nat, NEW b \in Nat PROVE NewTables(a, b) \in Nat
  <2> DEFINE pages == a .. a + b - 1
             needed == {p \div PagesPerTable : p \in pages}
             there == TablesOf(0 .. a - 1)
  <2>1. IsFiniteSet(pages)
    BY FS_Interval
  <2> HIDE DEF pages
  <2>2. IsFiniteSet(needed)
    <3> DEFINE f == [p \in pages |-> p \div PagesPerTable]
    <3>1. f \in Surjection(pages, needed)
      BY DEF Surjection, needed
    <3> QED BY <2>1, <3>1, FS_Surjection
  <2> HIDE DEF needed, there
  <2>3. IsFiniteSet(needed \ there)
    BY <2>2, FS_Difference
  <2>4. Cardinality(needed \ there) \in Nat
    BY <2>3, FS_CardinalityType
  <2> QED BY <2>4 DEF NewTables, TablesOf, needed, there, pages
<1>2. NewTables(m, n) \in Nat /\ NewTables(0, n) \in Nat
  BY <1>1
<1>3. UpperTables \in Nat
  BY BootAssumption
<1>4. UpperTables + NewTables(0, n) \in Nat
  BY <1>2, <1>3
<1> QED BY <1>2, <1>4 DEF HeapTables

\* alloc_frames gives a run of free frames.
LEMMA Allocates ==
  ASSUME IInv, NEW c \in Clients, NEW n \in Counts, AllocFrames(c, n)
  PROVE  \E first \in Free :
           /\ n \in Nat \ {0} /\ phase = "ready" /\ phase' = phase /\ IInv'
           /\ Run(first, n) \subseteq Free /\ Cardinality(Run(first, n)) = n
           /\ first \in Run(first, n) /\ IsFiniteSet(Run(first, n))
           /\ answer'.first = first
           /\ Frames' = Frames /\ Free' = Free \ Run(first, n)
           /\ freeFrames \in Nat /\ freeFrames' = freeFrames - n
           /\ held[c] \in SUBSET Frames /\ held[c] \cap Free = {}
           /\ held'[c] = held[c] \cup Run(first, n)
           /\ \A d \in Clients \ {c} : held'[d] = held[d]
<1>1. PICK first \in Free : /\ Gives(c, Run(first, n))
                             /\ answer' = [count |-> n, first |-> first]
  BY AllocGives DEF IInv
<1>2. first \in Nat /\ n \in Nat \ {0} /\ phase = "ready" /\ phase' = phase
  BY <1>1, CountsAssumption DEF IInv, TypeOK, Free, Frames, AllocFrames
<1>3. IInv'
  BY <1>1, <1>2, GivesKeeps
<1>4. /\ Cardinality(Run(first, n)) = n /\ IsFiniteSet(Run(first, n))
      /\ first \in Run(first, n)
  <2>1. Cardinality(first .. first + n - 1) = n /\ IsFiniteSet(first .. first + n - 1)
    BY <1>2, FS_Interval
  <2> QED BY <2>1, <1>2 DEF Run
<1>5. Run(first, n) \subseteq Free /\ Frames' = Frames /\ Free' = Free \ Run(first, n)
  BY <1>1 DEF Gives, Free, Frames
<1>6. freeFrames \in Nat /\ freeFrames' = freeFrames - n
  BY <1>1, <1>4 DEF Gives, IInv, TypeOK
<1>7. /\ held[c] \in SUBSET Frames /\ held[c] \cap Free = {}
      /\ held'[c] = held[c] \cup Run(first, n)
      /\ \A d \in Clients \ {c} : held'[d] = held[d]
  BY <1>1, <1>2 DEF Gives, IInv, TypeOK, Accounted
<1> QED BY <1>1, <1>2, <1>3, <1>4, <1>5, <1>6, <1>7

\* A refusal changes nothing, and there was no run.
LEMMA Refuses ==
  ASSUME IInv, NEW n \in Counts, AllocFails(n)
  PROVE  /\ IInv' /\ phase = "ready" /\ phase' = phase
         /\ Frames' = Frames /\ Free' = Free /\ UNCHANGED <<held, freeFrames>>
         /\ n # 0 => ~\E f \in Free : Run(f, n) \subseteq Free
<1>1. heap \in Clients
  BY BootAssumption
<1>2. Next
  BY <1>1 DEF Next, ClientCall
<1>3. IInv'
  BY <1>2, NextKeeps
<1> QED BY <1>3, RefusalJustified DEF AllocFails, Free, Frames

\* free_frames takes back all of a run that its client has.
LEMMA GivenBack ==
  ASSUME IInv, NEW c \in Clients, NEW n \in Counts, n # 0, NEW first \in Frames,
         Run(first, n) \subseteq held[c], FreeFrames(c, first, n)
  PROVE  /\ IInv' /\ phase = "ready" /\ phase' = phase /\ Frames' = Frames
         /\ held'[c] = held[c] \ Run(first, n)
         /\ IsFiniteSet(Run(first, n)) /\ Cardinality(Run(first, n)) = n
<1>1. /\ totalFrames \in Nat /\ first \in Nat /\ n \in Nat \ {0} /\ phase = "ready"
      /\ held[c] \in SUBSET Frames /\ held[c] \cap (Free \cup Kept) = {}
      /\ used \in SUBSET Frames
  BY CountsAssumption DEF IInv, TypeOK, Frames, FreeFrames, Accounted
<1>2. first \in Run(first, n) /\ first + n - 1 \in Run(first, n)
  BY <1>1 DEF Run
<1>3. InRange(totalFrames, first, n)
  BY <1>1, <1>2 DEF InRange, Frames
<1>4. Run(first, n) \subseteq used /\ 0 \notin Run(first, n)
  BY <1>1 DEF Free, Kept
<1>5. freeFrames # totalFrames
  <2>1. freeFrames = Cardinality(Free) /\ Free \subseteq Frames \ {first}
    BY <1>1, <1>2, <1>4 DEF IInv, CounterExact, Free
  <2>2. IsFiniteSet(Frames) /\ Cardinality(Frames) = totalFrames
    <3>1. IsFiniteSet(0 .. totalFrames - 1) /\ Cardinality(0 .. totalFrames - 1) = totalFrames
      BY <1>1, FS_Interval
    <3> QED BY <3>1 DEF Frames
  <2>3. IsFiniteSet(Frames \ {first}) /\ Cardinality(Frames \ {first}) = totalFrames - 1
    BY <2>2, FS_RemoveElement
  <2>4. Cardinality(Free) <= totalFrames - 1
    BY <2>1, <2>3, FS_Subset
  <2> QED BY <2>1, <2>4, <1>1
<1>6. Cleared(first, n) = Run(first, n)
  BY <1>3, <1>4, <1>5 DEF Cleared
<1>7. Returns(c, Run(first, n)) /\ UNCHANGED answer
  <2>1. first \in 0 .. totalFrames
    BY <1>1 DEF Frames
  <2> QED BY <2>1, <1>6, FreeReturns DEF IInv, FreeFrames
<1>8. IInv'
  BY <1>1, <1>7, ReturnsKeeps
<1>9. IsFiniteSet(Run(first, n)) /\ Cardinality(Run(first, n)) = n
  <2>1. Cardinality(first .. first + n - 1) = n /\ IsFiniteSet(first .. first + n - 1)
    BY <1>1, FS_Interval
  <2> QED BY <2>1, <1>1 DEF Run
<1> QED BY <1>1, <1>7, <1>8, <1>9 DEF Returns, Frames, IInv, TypeOK

-------------------------------------------------------------------------------
(* The steps *)

\* Steps of boot that are no call leave the manager alone.
LEMMA LeftAlone ==
  ASSUME IInv, UNCHANGED vars
  PROVE  IInv' /\ Free' = Free /\ Frames' = Frames
<1>1. IInv'
  BY NextKeeps
<1> QED BY <1>1 DEF vars, Free, Frames

\* PMM::init leaves nobody with a frame.
LEMMA InitPmmKeeps ==
  ASSUME BInv, InitPmm
  PROVE  BInv'
<1>1. /\ stage = "pmm" /\ PmmInit /\ IInv' /\ held' = held
      /\ stage' = (IF phase' = "ready" THEN "root" ELSE "panic")
      /\ UNCHANGED <<ShadowPages, room, demand, targetSize, HeapInitSize, base, size, left>>
  BY BootKeeps DEF InitPmm, Goto, BInv, PmmInit
<1>2. left = {} /\ targetSize = MaxTarget /\ HeapInitSize = 0 /\ held[heap] = {}
      /\ base = 0
  BY <1>1 DEF BInv, Order
<1>3. BootTypeOK'
  BY <1>1, <1>2 DEF BInv, BootTypeOK
<1>4. Order' /\ Chosen' /\ Mapped'
  BY <1>1, <1>2 DEF Order, Chosen, Mapped
<1>5. HeapBacked' /\ HeapIffEnough'
  BY <1>1, <1>2, FS_EmptySet DEF HeapBacked, HeapIffEnough
<1> QED BY <1>1, <1>3, <1>4, <1>5 DEF BInv

\* The tables of the memory map come out of the free frames, before they are counted.
LEMMA RootKeeps ==
  ASSUME BInv, Root
  PROVE  BInv'
<1>1. vmm \in Clients /\ heap \in Clients \ {vmm} /\ 1 \in Counts /\ BootTables \in Nat
  BY Asked, BootAssumption
<1>2. /\ stage = "root" /\ left = {} /\ HeapInitSize = 0 /\ held[heap] = {}
      /\ targetSize = MaxTarget
      /\ UNCHANGED <<ShadowPages, room, targetSize, HeapInitSize, base, size, left>>
  BY DEF Root, Goto, BInv, Order
<1>3. /\ IInv' /\ phase = "ready" /\ phase' = phase /\ Frames' = Frames
      /\ held'[heap] = held[heap]
      /\ stage' \in {"tables", "panic"}
      /\ demand' = demand \/ demand' \in 0 .. BootTables
  <2>1. CASE AllocFrames(vmm, 1) /\ Goto("tables") /\ demand' \in 0 .. BootTables
    BY <1>1, <2>1, Allocates DEF Goto, BInv
  <2>2. CASE AllocFails(1) /\ Goto("panic") /\ UNCHANGED demand
    BY <1>1, <2>2, Refuses DEF Goto, BInv
  <2> QED BY <2>1, <2>2 DEF Root
<1>4. BootTypeOK'
  <2>1. demand \in Nat
    BY DEF BInv, BootTypeOK
  <2>2. demand' \in Nat
    BY <1>1, <1>3, <2>1
  <2> QED BY <1>2, <1>3, <2>2 DEF BInv, BootTypeOK
<1>5. Order' /\ Chosen' /\ Mapped'
  BY <1>2, <1>3 DEF Order, Chosen, Mapped
<1>6. HeapBacked' /\ HeapIffEnough'
  BY <1>2, <1>3, FS_EmptySet DEF HeapBacked, HeapIffEnough
<1> QED BY <1>3, <1>4, <1>5, <1>6 DEF BInv

LEMMA TablesKeeps ==
  ASSUME BInv, Tables
  PROVE  BInv'
<1>1. vmm \in Clients /\ heap \in Clients \ {vmm} /\ 1 \in Counts /\ BootTables \in Nat
  BY Asked, BootAssumption
<1>2. /\ stage = "tables" /\ left = {} /\ HeapInitSize = 0 /\ held[heap] = {}
      /\ targetSize = MaxTarget /\ demand > 0 /\ demand' = demand - 1
      /\ UNCHANGED <<stage, ShadowPages, room, targetSize, HeapInitSize, base, size, left>>
  BY DEF Tables, BInv, Order
<1>3. IInv' /\ phase = "ready" /\ phase' = phase /\ Frames' = Frames /\ held'[heap] = held[heap]
  <2>1. CASE AllocFrames(vmm, 1)
    BY <1>1, <2>1, Allocates DEF BInv
  <2>2. CASE AllocFails(1)
    BY <1>1, <2>2, Refuses DEF BInv
  <2> QED BY <2>1, <2>2 DEF Tables
<1>4. BootTypeOK'
  BY <1>1, <1>2, <1>3 DEF BInv, BootTypeOK
<1>5. Order' /\ Chosen' /\ Mapped'
  BY <1>2, <1>3 DEF Order, Chosen, Mapped
<1>6. HeapBacked' /\ HeapIffEnough'
  BY <1>2, <1>3 DEF HeapBacked, HeapIffEnough
<1> QED BY <1>3, <1>4, <1>5, <1>6 DEF BInv

\* HeapAlloc begins with the frames that are free now.
LEMMA VmmReadyKeeps ==
  ASSUME BInv, VmmReady
  PROVE  BInv'
<1>1. /\ stage = "tables" /\ stage' = "choose" /\ left' = Free
      /\ HeapInitSize = 0 /\ held[heap] = {} /\ targetSize = MaxTarget /\ phase = "ready"
      /\ UNCHANGED <<vars, ShadowPages, room, demand, targetSize, HeapInitSize, base, size>>
  BY DEF VmmReady, Goto, BInv, Order
<1>2. IInv' /\ Free' = Free /\ Frames' = Frames
  BY <1>1, LeftAlone DEF BInv
<1>3. phase' = phase /\ held' = held /\ freeFrames' = freeFrames
  BY <1>1 DEF vars
<1>4. BootTypeOK'
  BY <1>1, <1>2 DEF BInv, BootTypeOK, Free
<1>5. Order' /\ Mapped'
  BY <1>1, <1>3 DEF Order, Mapped
<1>6. Chosen'
  BY <1>1, <1>2, BootAssumption DEF Chosen
<1>7. HeapBacked' /\ HeapIffEnough'
  BY <1>1, <1>3 DEF HeapBacked, HeapIffEnough
<1> QED BY <1>2, <1>4, <1>5, <1>6, <1>7 DEF BInv

\* A size that is not met is halved; the first that is met is the largest.
LEMMA ChooseKeeps ==
  ASSUME BInv, Choose
  PROVE  BInv'
<1>1. /\ stage = "choose" /\ left = Free /\ PowerOfTwo(targetSize)
      /\ targetSize = MaxTarget \/ Cardinality(left) < 2 * targetSize
      /\ HeapInitSize = 0 /\ held[heap] = {} /\ phase = "ready"
      /\ targetSize \in 1 .. MaxTarget
      /\ UNCHANGED <<vars, ShadowPages, room, demand, base, size, left>>
  BY DEF Choose, Goto, BInv, Order, Chosen, BootTypeOK
<1>2. IInv' /\ Free' = Free /\ Frames' = Frames
  BY <1>1, LeftAlone DEF BInv
<1>3. phase' = phase /\ held' = held /\ freeFrames' = freeFrames
  BY <1>1 DEF vars
<1>4. freeFrames = Cardinality(left) /\ freeFrames \in Nat /\ MaxTarget \in Nat
  BY <1>1, BootAssumption DEF BInv, IInv, TypeOK, CounterExact
\* the sizes that fit are those up to the one tried
<1>5. \A u \in Sizes : u <= Cardinality(left) => u <= targetSize
  <2> SUFFICES ASSUME NEW u \in Sizes, u <= Cardinality(left), targetSize < u
               PROVE  FALSE
    BY <1>1, <1>4 DEF Sizes
  <2>1. u \in Nat /\ u <= MaxTarget /\ PowerOfTwo(u) /\ targetSize \in Nat \ {0}
    BY <1>1, <1>4 DEF Sizes
  <2>2. 2 * targetSize <= u
    BY <1>1, <2>1, NoneBetween
  <2> QED BY <1>1, <1>4, <2>1, <2>2
<1>6. CASE Break /\ Goto("panic") /\ UNCHANGED <<targetSize, HeapInitSize>>
  <2>1. targetSize = 1 /\ stage' = "panic"
    BY <1>6 DEF Break, Goto
  <2>2. \A u \in Sizes : u <= Cardinality(left) => u <= 0
    <3>1. \A u \in Sizes : u >= 2
      BY <1>4 DEF Sizes
    <3> QED BY <3>1, <2>1, <1>5, <1>4 DEF Sizes
  <2>3. Target(Cardinality(left)) = 0
    BY <2>2, <1>4, TargetIs
  <2>4. BootTypeOK'
    BY <1>1, <1>2, <1>6, <2>1 DEF BInv, BootTypeOK
  <2>5. Order' /\ Chosen' /\ Mapped'
    BY <1>1, <1>6, <2>1 DEF Order, Chosen, Mapped
  <2>6. HeapBacked' /\ HeapIffEnough'
    BY <1>1, <1>3, <1>6, <2>1, <2>3, FS_EmptySet DEF HeapBacked, HeapIffEnough
  <2> QED BY <1>2, <2>4, <2>5, <2>6 DEF BInv
<1>7. CASE /\ ~Break /\ TooFew /\ targetSize' = targetSize \div 2
           /\ UNCHANGED <<stage, ShadowPages, room, HeapInitSize>>
  <2>1. targetSize > 1 /\ Cardinality(left) < targetSize
    BY <1>1, <1>4, <1>7 DEF Break, TooFew
  <2>2. /\ targetSize' \in 1 .. targetSize - 1 /\ targetSize = 2 * targetSize'
        /\ PowerOfTwo(targetSize')
    BY <1>1, <1>4, <1>7, <2>1, Halving
  <2>3. BootTypeOK'
    BY <1>1, <1>2, <1>4, <1>7, <2>2 DEF BInv, BootTypeOK
  <2>4. Order' /\ Mapped'
    BY <1>1, <1>3, <1>7 DEF Order, Mapped
  <2>5. Chosen'
    BY <1>1, <1>2, <1>7, <2>1, <2>2 DEF Chosen
  <2>6. HeapBacked' /\ HeapIffEnough'
    BY <1>1, <1>3, <1>7 DEF HeapBacked, HeapIffEnough
  <2> QED BY <1>2, <2>3, <2>4, <2>5, <2>6 DEF BInv
<1>8. CASE /\ ~Break /\ ~TooFew /\ HeapInitSize' = targetSize
           /\ Goto(IF HeapInitSize' = 0 THEN "choose" ELSE "heap")
           /\ UNCHANGED targetSize
  <2>1. targetSize \in 2 .. MaxTarget /\ targetSize <= Cardinality(left) /\ stage' = "heap"
    BY <1>1, <1>4, <1>8 DEF Break, TooFew, Goto
  <2>2. Target(Cardinality(left)) = targetSize
    <3>1. targetSize \in Sizes
      BY <1>1, <2>1 DEF Sizes
    <3> QED BY <3>1, <2>1, <1>5, <1>4, TargetIs
  <2>3. BootTypeOK'
    BY <1>1, <1>2, <1>4, <1>8, <2>1 DEF BInv, BootTypeOK
  <2>4. Order' /\ Mapped'
    BY <1>1, <1>3, <2>1 DEF Order, Mapped
  <2>5. Chosen'
    BY <1>1, <1>2, <1>8, <2>1, <2>2 DEF Chosen
  <2>6. HeapBacked' /\ HeapIffEnough'
    BY <1>1, <1>3, <2>1 DEF HeapBacked, HeapIffEnough
  <2> QED BY <1>2, <2>3, <2>4, <2>5, <2>6 DEF BInv
<1> QED BY <1>6, <1>7, <1>8 DEF Choose

\* The numbers of a state are numbers.
LEMMA Numbers ==
  ASSUME BInv
  PROVE  /\ demand \in Nat /\ HeapTables(size) \in Nat
         /\ size \in Nat /\ totalFrames \in Nat /\ freeFrames \in Nat
         /\ heap \in Clients /\ vmm \in Clients \ {heap}
         /\ held[heap] \subseteq Frames /\ left \subseteq Frames
         /\ IsFiniteSet(held[heap]) /\ IsFiniteSet(left)
<1>1. demand \in Nat /\ size \in Nat /\ left \subseteq Frames
  BY DEF BInv, BootTypeOK
<1>2. heap \in Clients /\ vmm \in Clients \ {heap}
  BY BootAssumption
<1>3. HeapTables(size) \in Nat
  BY <1>1, TablesCounted
<1>4. totalFrames \in Nat /\ freeFrames \in 0 .. totalFrames /\ held[heap] \subseteq Frames
  BY <1>2 DEF BInv, IInv, TypeOK
<1>5. freeFrames \in Nat
  BY <1>4
<1>6. IsFiniteSet(held[heap]) /\ IsFiniteSet(left)
  BY <1>1, <1>4, FreeFinite DEF Frames
<1> QED BY <1>1, <1>2, <1>3, <1>4, <1>5, <1>6

\* Heap::init gets the run, or there is none in what VMM::init left.
LEMMA HeapFramesKeeps ==
  ASSUME BInv, HeapFrames
  PROVE  BInv'
<1> DEFINE n == Pages(HeapInitSize)
<1>0. n = Pages(HeapInitSize)
  OBVIOUS
<1> HIDE DEF n
<1>1. /\ stage = "heap" /\ left = Free /\ held[heap] = {} /\ phase = "ready"
      /\ HeapInitSize \in 2 .. MaxTarget /\ HeapInitSize = Target(Cardinality(left))
      /\ UNCHANGED <<ShadowPages, room, targetSize, HeapInitSize, left>>
  <2>1. stage = "heap" /\ UNCHANGED <<ShadowPages, room, targetSize, HeapInitSize, left>>
    BY DEF HeapFrames, Goto
  <2> QED BY <2>1 DEF BInv, Order, Chosen
<1>2. n \in Counts /\ n \in Nat \ {0}
  BY <1>0, <1>1, Asked
<1>3. freeFrames = Cardinality(left)
  BY <1>1 DEF BInv, IInv, CounterExact
<1>4. Pages(HeapInitSize)' = n
  BY <1>0, <1>1 DEF Pages
<1>5. CASE /\ AllocFrames(heap, n) /\ Goto("map heap")
           /\ base' = answer'.first /\ size' = n /\ demand' = HeapTables(n)
  <2>1. stage' = "map heap"
    BY <1>5 DEF Goto
  <2>2. /\ IInv' /\ phase' = "ready" /\ Frames' = Frames /\ base' \in left
        /\ Run(base', n) \subseteq left /\ Cardinality(Run(base', n)) = n
        /\ freeFrames \in Nat /\ freeFrames' = freeFrames - n
        /\ held'[heap] = Run(base', n)
    <3>1. heap \in Clients /\ n \in Counts /\ AllocFrames(heap, n) /\ IInv
          /\ base' = answer'.first /\ left = Free /\ held[heap] = {}
      BY <1>1, <1>2, <1>5, Numbers DEF BInv
    <3>2. PICK first \in Free :
            /\ phase = "ready" /\ phase' = phase /\ IInv'
            /\ Run(first, n) \subseteq Free /\ Cardinality(Run(first, n)) = n
            /\ answer'.first = first /\ Frames' = Frames
            /\ freeFrames \in Nat /\ freeFrames' = freeFrames - n
            /\ held'[heap] = held[heap] \cup Run(first, n)
      BY <3>1, Allocates
    <3> QED BY <3>1, <3>2
  <2>3. BootTypeOK'
    <3>1. base' \in Frames
      BY <1>1, <2>2 DEF Free
    <3>2. demand' = HeapTables(n)
      BY <1>5
    <3>3. demand' \in Nat
      BY <3>2, <1>2, TablesCounted
    <3> QED BY <1>1, <1>2, <1>5, <2>1, <2>2, <3>1, <3>3 DEF BInv, BootTypeOK
  <2>4. Order' /\ Chosen'
    BY <1>1, <2>1, <2>2 DEF Order, Chosen
  <2>5. Mapped'
    <3>1. demand' = HeapTables(n) /\ size' = n /\ left' = left /\ HeapTables(n) \in Nat
      BY <1>1, <1>2, <1>5, TablesCounted
    <3>2. Cardinality(left') = size' + (HeapTables(n) - demand') + freeFrames'
      BY <3>1, <1>2, <1>3, <2>2, Numbers
    <3>3. demand' <= HeapTables(n)
      BY <3>1
    <3>4. HeapTables(size)' = HeapTables(n)
      BY <3>1
    <3> QED BY <1>4, <2>1, <2>2, <3>1, <3>2, <3>3, <3>4 DEF Mapped
  <2>6. HeapBacked' /\ HeapIffEnough'
    BY <1>1, <1>4, <1>5, <2>1, <2>2 DEF HeapBacked, HeapIffEnough
  <2> QED BY <2>2, <2>3, <2>4, <2>5, <2>6 DEF BInv
<1>6. CASE AllocFails(n) /\ Goto("panic") /\ UNCHANGED <<demand, base, size>>
  <2>1. stage' = "panic"
    BY <1>6 DEF Goto
  <2>2. /\ IInv' /\ phase' = "ready" /\ Frames' = Frames /\ held' = held
        /\ ~\E f \in left : Run(f, n) \subseteq left
    <3>1. n \in Counts /\ AllocFails(n) /\ IInv /\ left = Free /\ n # 0
      BY <1>1, <1>2, <1>6 DEF BInv
    <3> QED BY <3>1, Refuses
  <2>3. BootTypeOK'
    BY <1>1, <1>2, <1>6, <2>1, <2>2 DEF BInv, BootTypeOK
  <2>4. Order' /\ Chosen' /\ Mapped'
    BY <1>1, <2>1, <2>2 DEF Order, Chosen, Mapped
  <2>5. HeapBacked' /\ HeapIffEnough'
    BY <1>0, <1>1, <1>4, <2>1, <2>2, FS_EmptySet DEF HeapBacked, HeapIffEnough
  <2> QED BY <2>2, <2>3, <2>4, <2>5 DEF BInv
<1> QED BY <1>0, <1>5, <1>6 DEF HeapFrames

\* A table for the heap's range is a frame more that is not free.
LEMMA TableForHeapKeeps ==
  ASSUME BInv, TableForHeap
  PROVE  BInv'
<1>1. /\ stage \in {"map heap", "map shadow"} /\ phase = "ready" /\ AllocFrames(vmm, 1)
      /\ demand > 0 /\ demand' = demand - 1
      /\ UNCHANGED <<stage, ShadowPages, room, targetSize, HeapInitSize, base, size, left>>
  BY DEF TableForHeap, Mapping, BInv, Order
<1>2. vmm \in Clients /\ heap \in Clients \ {vmm} /\ 1 \in Counts
      /\ HeapTables(size) \in Nat
  BY Asked, Numbers
<1>3. /\ IInv' /\ phase' = "ready" /\ Frames' = Frames /\ held'[heap] = held[heap]
      /\ freeFrames \in Nat /\ freeFrames' = freeFrames - 1
  BY <1>1, <1>2, Allocates DEF BInv
<1>4. demand \in Nat /\ BootTypeOK'
  <2>1. demand \in Nat
    BY Numbers
  <2>2. demand > 0 /\ demand' = demand - 1
    BY <1>1
  <2>3. demand' \in Nat
    BY <2>1, <2>2
  <2> QED BY <1>1, <1>3, <2>1, <2>3 DEF BInv, BootTypeOK
<1>5. Order' /\ Chosen'
  BY <1>1, <1>3 DEF BInv, Order, Chosen
<1>6. Mapped'
  <2>1. CASE stage = "map heap"
    <3>1. /\ demand <= HeapTables(size) /\ size = Pages(HeapInitSize) /\ size \in Nat
          /\ base \in left /\ Run(base, size) \subseteq left
          /\ Cardinality(left) = size + (HeapTables(size) - demand) + freeFrames
      BY <2>1 DEF BInv, Mapped, BootTypeOK
    <3>2. Pages(HeapInitSize)' = Pages(HeapInitSize)
      BY <1>1 DEF Pages
    <3>3. Cardinality(left) = size + (HeapTables(size) - (demand - 1)) + (freeFrames - 1)
      BY <3>1, <1>2, <1>3, <1>4
    <3>4. demand - 1 <= HeapTables(size)
      BY <3>1, <1>2, <1>4
    <3>5. HeapTables(size)' = HeapTables(size)
      BY <1>1
    <3> QED BY <3>1, <3>2, <3>3, <3>4, <3>5, <2>1, <1>1, <1>3 DEF Mapped
  <2>2. CASE stage = "map shadow"
    BY <1>1, <2>2, GrowthStays DEF BInv, Mapped
  <2> QED BY <1>1, <2>1, <2>2
<1>7. HeapBacked' /\ HeapIffEnough'
  BY <1>1, <1>3, GrowthStays DEF BInv, HeapBacked, HeapIffEnough, Pages
<1> QED BY <1>3, <1>4, <1>5, <1>6, <1>7 DEF BInv

\* Without a table the run goes back, and nothing else was free.
LEMMA NoTableKeeps ==
  ASSUME BInv, NoTable
  PROVE  BInv'
<1> DEFINE n == Pages(HeapInitSize)
<1>0. n = Pages(HeapInitSize)
  OBVIOUS
<1> HIDE DEF n
<1>1. /\ stage \in {"map heap", "map shadow"} /\ phase = "ready" /\ stage' = "panic"
      /\ demand > 0 /\ FreeFrames(heap, base, size)
      /\ freeFrames < 1 \/ Runs(totalFrames, used, 1) = {}
      /\ HeapInitSize \in 2 .. MaxTarget /\ HeapInitSize = Target(Cardinality(left))
      /\ UNCHANGED <<ShadowPages, room, demand, targetSize, HeapInitSize, base, size, left>>
  BY DEF NoTable, Mapping, GivesBack, Goto, BInv, Order, Chosen
<1>2. heap \in Clients /\ HeapTables(size) \in Nat
  BY Numbers
<1>3. /\ n \in Counts /\ n \in Nat \ {0}
      /\ Growth \in Nat /\ (Growth > 0 => Growth \in Counts) /\ size \in Nat /\ demand \in Nat
  BY <1>0, <1>1, Asked, Numbers
<1>4. freeFrames = 0
  <2>1. freeFrames = Cardinality(Free) /\ totalFrames \in Nat /\ freeFrames \in Nat
    BY <1>1, Numbers DEF BInv, IInv, CounterExact
  <2>2. Free = {} \/ freeFrames < 1
    <3> SUFFICES ASSUME NEW f \in Free, Runs(totalFrames, used, 1) = {} PROVE FALSE
      BY <1>1
    <3>1. f \in 0 .. totalFrames - 1 /\ f \notin used
      BY DEF Free, Frames
    <3>2. Run(f, 1) = {f} /\ f + 1 <= totalFrames
      BY <2>1, <3>1 DEF Run
    <3> QED BY <3>1, <3>2 DEF Runs
  <2> QED BY <2>1, <2>2, FS_EmptySet
<1>5. /\ size \in Counts \ {0} /\ base \in Frames /\ Run(base, size) \subseteq held[heap]
  <2>1. CASE stage = "map heap"
    BY <2>1, <1>0, <1>3, Numbers DEF BInv, Mapped, HeapBacked
  <2>2. CASE stage = "map shadow"
    <3>1. size = Growth /\ Growth > 0 /\ Run(base, size) \subseteq held[heap]
          /\ base \in {0} \cup Frames /\ held[heap] \subseteq Frames /\ totalFrames \in Nat
      BY <2>2, Numbers DEF BInv, Mapped, HeapBacked, BootTypeOK
    <3>2. base \in Int
      BY <3>1 DEF Frames
    <3>3. base \in Run(base, size)
      BY <3>1, <3>2, <1>3 DEF Run
    <3> QED BY <3>1, <3>3, <1>3
  <2> QED BY <1>1, <2>1, <2>2
<1>6. /\ IInv' /\ phase' = "ready" /\ Frames' = Frames
      /\ held'[heap] = held[heap] \ Run(base, size)
      /\ IsFiniteSet(Run(base, size)) /\ Cardinality(Run(base, size)) = size
  BY <1>1, <1>2, <1>5, GivenBack DEF BInv
<1>7. BootTypeOK'
  BY <1>1, <1>6 DEF BInv, BootTypeOK
<1>8. Order' /\ Chosen' /\ Mapped'
  BY <1>1, <1>6 DEF Order, Chosen, Mapped
<1>9. Pages(HeapInitSize)' = n
  BY <1>0, <1>1 DEF Pages
<1>10. HeapBacked' /\ HeapIffEnough'
  <2>1. CASE stage = "map heap"
    <3>1. held'[heap] = {}
      BY <2>1, <1>6 DEF BInv, HeapBacked
    <3>2. size = n /\ Cardinality(left) = size + (HeapTables(size) - demand) + freeFrames
      BY <2>1, <1>0 DEF BInv, Mapped
    <3>3. n \in Nat /\ demand > 0
      BY <1>1, <1>3
    <3>4. ~ (Cardinality(left) >= n + HeapTables(n))
      <4>1. Cardinality(left) = n + (HeapTables(n) - demand) + freeFrames /\ HeapTables(n) \in Nat
        BY <3>2, <1>2
      <4> QED BY <4>1, <3>3, <1>3, <1>4
    <3> QED BY <1>0, <1>1, <1>9, <3>1, <3>4, FS_EmptySet DEF HeapBacked, HeapIffEnough
  <2>2. CASE stage = "map shadow"
    <3>1. size = Growth /\ Cardinality(held[heap]) = n + size
          /\ held[heap] \subseteq Frames /\ totalFrames \in Nat
      BY <2>2, <1>0, Numbers DEF BInv, Mapped, HeapBacked
    <3>2. IsFiniteSet(held[heap])
      BY <3>1, FreeFinite DEF Frames
    <3>3. Cardinality(held'[heap]) = Cardinality(held[heap]) - Cardinality(Run(base, size))
      BY <3>2, <1>5, <1>6, TakeOut
    <3>4. Cardinality(held'[heap]) = n
      <4> QED BY <3>1, <3>3, <1>3, <1>6
    <3>5. held'[heap] # {}
      BY <3>4, <1>3, FS_EmptySet
    <3> QED BY <1>1, <1>9, <3>4, <3>5 DEF HeapBacked, HeapIffEnough
  <2> QED BY <1>1, <2>1, <2>2
<1> QED BY <1>6, <1>7, <1>8, <1>10 DEF BInv

\* With its tables the heap stands, and all that it needed was there.
LEMMA HeapReadyKeeps ==
  ASSUME BInv, HeapReady
  PROVE  BInv'
<1>1. /\ stage = "map heap" /\ demand = 0 /\ stage' = "shadow"
      /\ UNCHANGED <<vars, ShadowPages, room, demand, targetSize, HeapInitSize, base, size, left>>
  BY DEF HeapReady, Goto
<1>2. IInv' /\ Free' = Free /\ Frames' = Frames
  BY <1>1, LeftAlone DEF BInv
<1>3. phase' = phase /\ held' = held /\ freeFrames' = freeFrames
  BY <1>1 DEF vars
<1>4. BootTypeOK'
  BY <1>1, <1>2 DEF BInv, BootTypeOK
<1>5. Pages(HeapInitSize)' = Pages(HeapInitSize)
  BY <1>1 DEF Pages
<1>6. Order' /\ Chosen' /\ Mapped' /\ HeapBacked'
  BY <1>1, <1>3, <1>5 DEF BInv, Order, Chosen, Mapped, HeapBacked
<1>7. HeapIffEnough'
  <2>1. /\ HeapInitSize \in 2 .. MaxTarget /\ HeapInitSize = Target(Cardinality(left))
        /\ size = Pages(HeapInitSize) /\ base \in left /\ Run(base, size) \subseteq left
        /\ Cardinality(left) = size + (HeapTables(size) - demand) + freeFrames
    BY <1>1 DEF BInv, Chosen, Mapped
  <2>2. Cardinality(left) >= size + HeapTables(size)
    <3>1. Cardinality(left) = size + (HeapTables(size) - demand) + freeFrames /\ demand = 0
      BY <2>1, <1>1
    <3> QED BY <3>1, Numbers
  <2>3. HeapInitSize > 0
    BY <2>1, BootAssumption
  <2>4. Enough
    BY <2>1, <2>2, <2>3 DEF Enough
  <2>5. Enough' = Enough
    BY <1>1 DEF Enough, Pages
  <2> QED BY <1>1, <2>4, <2>5 DEF HeapIffEnough, Enough
<1> QED BY <1>2, <1>4, <1>6, <1>7 DEF BInv

\* The copy of the framebuffer comes out of the first block or out of a second.
LEMMA ShadowKeeps ==
  ASSUME BInv, Shadow
  PROVE  BInv'
<1> DEFINE n == Pages(HeapInitSize)
           m == Growth
<1>0. n = Pages(HeapInitSize) /\ m = Growth
  OBVIOUS
<1> HIDE DEF n, m
<1>1. /\ stage = "shadow" /\ phase = "ready" /\ size = n
      /\ HeapInitSize \in 2 .. MaxTarget /\ HeapInitSize = Target(Cardinality(left))
      /\ held[heap] = Run(base, size) /\ base \in {0} \cup Frames
      /\ UNCHANGED <<ShadowPages, room, targetSize, HeapInitSize, left>>
  <2>1. stage = "shadow" /\ UNCHANGED <<ShadowPages, room, targetSize, HeapInitSize, left>>
    BY DEF Shadow, Goto
  <2> QED BY <2>1, <1>0 DEF BInv, Order, Chosen, Mapped, HeapBacked, BootTypeOK
<1>2. n \in Nat \ {0} /\ m \in Nat /\ (m > 0 => m \in Counts)
  BY <1>0, <1>1, Asked
<1>3. Cardinality(held[heap]) = n
  <2>1. base \in Int /\ size \in Nat
    BY <1>1, Numbers DEF Frames
  <2>2. Cardinality(base .. base + size - 1) = size
    BY <2>1, FS_Interval
  <2> QED BY <1>1, <2>2 DEF Run
<1>4. /\ n' = n /\ m' = m
      /\ Pages(HeapInitSize)' = Pages(HeapInitSize) /\ Growth' = Growth
  BY <1>1, GrowthStays DEF Pages, n, m
<1>5. held[heap] # {}
  BY <1>2, <1>3, FS_EmptySet
<1>6. Enough
  BY <1>1 DEF BInv, HeapIffEnough, Enough
<1>7. Enough' = Enough
  BY <1>1 DEF Enough, Pages
<1>8. CASE m = 0 /\ Goto("runs") /\ UNCHANGED <<vars, demand, base, size>>
  <2>1. stage' = "runs" /\ UNCHANGED <<vars, demand, base, size>>
    BY <1>8 DEF Goto
  <2>2. IInv' /\ Frames' = Frames /\ phase' = phase /\ held' = held
    BY <2>1, LeftAlone DEF BInv, vars
  <2>3. BootTypeOK'
    BY <1>1, <2>1, <2>2 DEF BInv, BootTypeOK
  <2>4. Order' /\ Chosen' /\ Mapped'
    BY <1>1, <2>1, <2>2 DEF Order, Chosen, Mapped
  <2>5. HeapBacked'
    <3>1. n + 0 = n
      BY <1>2
    <3> QED BY <1>0, <1>1, <1>3, <1>4, <1>8, <2>1, <2>2, <3>1 DEF HeapBacked
  <2>6. HeapIffEnough'
    BY <1>6, <1>7, <2>1 DEF HeapIffEnough, Enough
  <2> QED BY <2>2, <2>3, <2>4, <2>5, <2>6 DEF BInv
<1>9. ASSUME IInv', phase' = phase, Frames' = Frames, held' = held, stage' = "panic",
             UNCHANGED <<demand, base, size>>
      PROVE  BInv'
  <2>1. BootTypeOK'
    BY <1>1, <1>9 DEF BInv, BootTypeOK
  <2>2. Order' /\ Chosen' /\ Mapped'
    BY <1>1, <1>9 DEF Order, Chosen, Mapped
  <2>3. HeapBacked' /\ HeapIffEnough'
    BY <1>0, <1>1, <1>3, <1>4, <1>5, <1>9 DEF HeapBacked, HeapIffEnough
  <2> QED BY <1>9, <2>1, <2>2, <2>3 DEF BInv
<1>10. CASE Goto("panic") /\ UNCHANGED <<vars, demand, base, size>>
  <2>1. stage' = "panic" /\ UNCHANGED <<vars, demand, base, size>>
    BY <1>10 DEF Goto
  <2>2. IInv' /\ Frames' = Frames /\ phase' = phase /\ held' = held
    BY <2>1, LeftAlone DEF BInv, vars
  <2> QED BY <1>9, <2>1, <2>2
<1>11. CASE m > 0 /\ AllocFails(m) /\ Goto("panic") /\ UNCHANGED <<demand, base, size>>
  <2>1. stage' = "panic" /\ UNCHANGED <<demand, base, size>>
    BY <1>11 DEF Goto
  <2>2. IInv' /\ Frames' = Frames /\ phase' = phase /\ held' = held
    BY <1>2, <1>11, Refuses DEF BInv
  <2> QED BY <1>9, <2>1, <2>2
<1>12. CASE /\ m > 0 /\ AllocFrames(heap, m) /\ Goto("map shadow")
            /\ base' = answer'.first /\ size' = m /\ demand' = NewTables(size, m)
  <2>1. stage' = "map shadow" /\ base' = answer'.first /\ size' = m /\ m > 0
    BY <1>12 DEF Goto
  <2>2. heap \in Clients /\ m \in Counts /\ AllocFrames(heap, m) /\ IInv
    BY <1>2, <1>12, Numbers DEF BInv
  <2>3. PICK first \in Free :
          /\ phase' = phase /\ IInv' /\ Frames' = Frames
          /\ Run(first, m) \subseteq Free /\ Cardinality(Run(first, m)) = m
          /\ IsFiniteSet(Run(first, m)) /\ answer'.first = first
          /\ held[heap] \cap Free = {}
          /\ held'[heap] = held[heap] \cup Run(first, m)
    BY <2>2, Allocates
  <2>4. Cardinality(held'[heap]) = n + m
    BY <2>3, <1>3, Numbers, PutBack
  <2>5. BootTypeOK'
    <3>1. base' \in Frames
      BY <2>1, <2>3 DEF Free
    <3>2. demand' = NewTables(size, m)
      BY <1>12
    <3>3. demand' \in Nat
      BY <3>2, <1>2, Numbers, TablesCounted
    <3> QED BY <1>1, <1>2, <2>1, <2>3, <3>1, <3>3 DEF BInv, BootTypeOK
  <2>6. Order' /\ Chosen'
    BY <1>1, <2>1, <2>3 DEF Order, Chosen
  <2>7. Mapped'
    BY <1>0, <1>1, <1>4, <2>1 DEF Mapped
  <2>8. HeapBacked'
    BY <1>0, <1>4, <2>1, <2>3, <2>4 DEF HeapBacked
  <2>9. HeapIffEnough'
    BY <1>6, <1>7, <2>1 DEF HeapIffEnough, Enough
  <2> QED BY <2>3, <2>5, <2>6, <2>7, <2>8, <2>9 DEF BInv
<1> QED BY <1>0, <1>8, <1>10, <1>11, <1>12 DEF Shadow

LEMMA ShadowReadyKeeps ==
  ASSUME BInv, ShadowReady
  PROVE  BInv'
<1>1. /\ stage = "map shadow" /\ stage' = "runs"
      /\ UNCHANGED <<vars, ShadowPages, room, demand, targetSize, HeapInitSize, base, size, left>>
  BY DEF ShadowReady, Goto
<1>2. IInv' /\ Free' = Free /\ Frames' = Frames
  BY <1>1, LeftAlone DEF BInv
<1>3. phase' = phase /\ held' = held
  BY <1>1 DEF vars
<1>4. BootTypeOK'
  BY <1>1, <1>2 DEF BInv, BootTypeOK
<1>5. Order' /\ Chosen' /\ Mapped'
  BY <1>1, <1>3 DEF BInv, Order, Chosen, Mapped
<1>6. HeapBacked' /\ HeapIffEnough'
  BY <1>1, <1>3, GrowthStays DEF BInv, HeapBacked, HeapIffEnough, Pages
<1> QED BY <1>2, <1>4, <1>5, <1>6 DEF BInv

-------------------------------------------------------------------------------
LEMMA BootBegins == BootInit => BInv
<1> SUFFICES ASSUME BootInit PROVE BInv
  OBVIOUS
<1>1. /\ stage = "pmm" /\ ShadowPages \in ScreenPages /\ room \in Rooms /\ demand = 0
      /\ targetSize = MaxTarget /\ HeapInitSize = 0 /\ base = 0 /\ size = 0 /\ left = {}
      /\ phase = "reset" /\ held[heap] = {} /\ Init
  BY BootAssumption DEF BootInit, Init
<1>2. IInv
  BY <1>1, InitHolds
<1>3. MaxTarget \in Nat /\ MaxTarget > 1
  BY BootAssumption
<1>4. BootTypeOK
  BY <1>1, <1>3 DEF BootTypeOK
<1>5. Order /\ Chosen /\ Mapped
  BY <1>1 DEF Order, Chosen, Mapped
<1>6. HeapBacked /\ HeapIffEnough
  BY <1>1 DEF HeapBacked, HeapIffEnough
<1> QED BY <1>2, <1>4, <1>5, <1>6 DEF BInv

LEMMA BootStutters == BInv /\ UNCHANGED <<vars, boot>> => BInv'
<1> SUFFICES ASSUME BInv, UNCHANGED <<vars, boot>> PROVE BInv'
  OBVIOUS
<1>1. UNCHANGED vars /\ UNCHANGED boot
  OBVIOUS
<1>2. IInv' /\ Free' = Free /\ Frames' = Frames
  BY <1>1, LeftAlone DEF BInv
<1>3. phase' = phase /\ held' = held /\ freeFrames' = freeFrames
  BY <1>1 DEF vars
<1>4. UNCHANGED <<stage, ShadowPages, room, demand, targetSize, HeapInitSize, base, size, left>>
  BY <1>1 DEF boot
<1>5. BootTypeOK'
  BY <1>2, <1>4 DEF BInv, BootTypeOK
<1>6. Order' /\ Chosen' /\ Mapped'
  BY <1>2, <1>3, <1>4, GrowthStays DEF BInv, Order, Chosen, Mapped, Pages
<1>7. HeapBacked' /\ HeapIffEnough'
  BY <1>3, <1>4, GrowthStays DEF BInv, HeapBacked, HeapIffEnough, Pages
<1> QED BY <1>2, <1>5, <1>6, <1>7 DEF BInv

\* On every machine, and whatever is refused on the way, the invariant holds.
THEOREM BootInvariance == BootSpec => []BInv
<1>1. BInv /\ [Steps]_<<vars, boot>> => BInv'
  BY BootStutters, InitPmmKeeps, RootKeeps, TablesKeeps, VmmReadyKeeps, ChooseKeeps,
     HeapFramesKeeps, TableForHeapKeeps, NoTableKeeps, HeapReadyKeeps, ShadowKeeps,
     ShadowReadyKeeps DEF Steps
<1> QED BY <1>1, BootBegins, PTL DEF BootSpec

\* The heap owns exactly the frames mapped for it at every stage of _start, and
\* Heap::init gives back those of a mapping that failed.
THEOREM BootInOrder == BootSpec => []BootInv
<1>1. BInv => BootInv
  BY DEF BInv, BootInv
<1> QED BY <1>1, BootInvariance, PTL

\* HeapAlloc settles for the largest power of two that the count of free frames
\* allows, and the kernel then gets its heap exactly when a run of that length is
\* free and the tables fit beside it.
THEOREM HeapExactlyWhenEnough == BootSpec => []HeapIffEnough
<1>1. BInv => HeapIffEnough
  BY DEF BInv
<1> QED BY <1>1, BootInvariance, PTL

-------------------------------------------------------------------------------
\* Each stage makes at most one call of the manager per step, of a size it may ask for.
LEMMA CallsOnly == BInv /\ [Steps]_<<vars, boot>> => [Next]_vars
<1> SUFFICES ASSUME BInv, [Steps]_<<vars, boot>> PROVE Next \/ UNCHANGED vars
  OBVIOUS
<1>1. heap \in Clients /\ vmm \in Clients /\ 1 \in Counts
  BY Asked, Numbers
<1>2. ASSUME NEW c \in Clients, NEW n \in Counts, AllocFrames(c, n) \/ AllocFails(n)
      PROVE  Next
  BY <1>2 DEF Next, ClientCall
<1>3. CASE Root \/ Tables \/ TableForHeap
  BY <1>1, <1>2, <1>3 DEF Root, Tables, TableForHeap
<1>4. CASE HeapFrames
  <2>1. HeapInitSize \in 2 .. MaxTarget
    BY <1>4 DEF HeapFrames, BInv, Chosen
  <2>2. Pages(HeapInitSize) \in Counts
    BY <2>1, Asked
  <2> QED BY <1>1, <1>2, <1>4, <2>2 DEF HeapFrames
<1>5. CASE NoTable
  <2>1. FreeFrames(heap, base, size)
    BY <1>5 DEF NoTable, GivesBack
  <2>2. size \in Counts
    <3>1. stage \in {"map heap", "map shadow"} /\ HeapInitSize \in 2 .. MaxTarget
      BY <1>5 DEF NoTable, Mapping, BInv, Chosen
    <3>2. size = Pages(HeapInitSize) \/ (size = Growth /\ Growth > 0)
      BY <3>1 DEF BInv, Mapped
    <3> QED BY <3>1, <3>2, Asked
  <2>3. base \in 0 .. totalFrames
    <3>1. base \in {0} \cup Frames /\ totalFrames \in Nat
      BY Numbers DEF BInv, BootTypeOK
    <3> QED BY <3>1 DEF Frames
  <2> QED BY <1>1, <2>1, <2>2, <2>3 DEF Next, ClientCall
<1>6. CASE Shadow
  <2>1. Growth > 0 => Growth \in Counts
    BY Asked
  <2> QED BY <1>1, <1>2, <1>6, <2>1 DEF Shadow
<1>7. CASE InitPmm
  BY <1>7 DEF InitPmm, Next
<1>8. CASE VmmReady \/ Choose \/ HeapReady \/ ShadowReady \/ UNCHANGED <<vars, boot>>
  BY <1>8 DEF VmmReady, Choose, HeapReady, ShadowReady
<1> QED BY <1>3, <1>4, <1>5, <1>6, <1>7, <1>8 DEF Steps

\* The kernel's way up is a behaviour of the frame manager: every free names frames
\* of the heap only, every size is one that callers ask for.
THEOREM BootCallsManager == BootSpec => Spec
<1>1. BootInit => Init
  BY DEF BootInit
<1> QED BY <1>1, CallsOnly, BootInvariance, PTL DEF BootSpec, Spec

\* So no stage of _start loses a frame or is given one that has an owner.
THEOREM BootAccounts == BootSpec => []Accounted
BY BootCallsManager, Accounting, PTL
===============================================================================
