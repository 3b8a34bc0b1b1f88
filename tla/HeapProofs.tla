------------------------------ MODULE HeapProofs ------------------------------
(***************************************************************************)
(* Proofs about Heap, for every size of header, alignment, frame and heap: *)
(* the region stays tiled by its blocks in the midst of every call, one    *)
(* pass of the cleanup is enough, alloc gives up only when it must, and    *)
(* objects never move or overlap.                                          *)
(***************************************************************************)
EXTENDS Heap, TLAPS

\* The headers of a list, and the address behind the data of a block, in any
\* list m: Heap's After(b) is Behind(meta, b).
Headers(m)   == [size : Nat, next : DOMAIN m \cup {NULL}, free : BOOLEAN]
Behind(m, b) == b + META_SIZE + m[b].size

(***************************************************************************)
(* The blocks of m are all of HeapStart .. end - 1, each followed by the   *)
(* next of the list.  Tiling alone is not inductive: that no block lies in *)
(* front of HeapStart or reaches past the end does not follow from it.     *)
(***************************************************************************)
Tiled(m, end) ==
  /\ m \in [DOMAIN m -> Headers(m)] /\ DOMAIN m \subseteq Nat \ {NULL}
  /\ \A b \in DOMAIN m :
       /\ HeapStart <= b /\ Behind(m, b) <= end
       /\ Behind(m, b) = IF m[b].next = NULL THEN end ELSE m[b].next
  /\ \A b, c \in DOMAIN m : b < c => Behind(m, b) <= c

Ops == {"none", "alloc", "new", "calloc", "realloc"}

Typed ==
  /\ HeapEnd \in Nat /\ frames \in Nat
  /\ pc \in {"boot", "idle", "scan", "map", "copy", "cleanup", "panic", "corrupt"}
  /\ call \in [op : Ops, bytes : Nat, size : Nat, old : Nat]
  /\ cursor \in Blocks \cup {NULL}
  /\ live \in [DOMAIN live -> Nat]

\* Before Heap::init has run there is nothing, and there are blocks ever after,
\* the first of them at HeapStart.
Booted ==
  /\ pc = "boot" =>
       Blocks = {} /\ HeapEnd = HeapStart /\ frames = 0 /\ DOMAIN live = {}
  /\ pc \notin {"boot", "panic"} => Blocks # {}
  /\ Blocks # {} => HeapStart \in Blocks

\* LiveBlocks, with each object's bounds stated at its block.
Owned ==
  /\ DOMAIN live = {Ptr(b) : b \in {a \in Blocks : ~meta[a].free}}
  /\ \A b \in Blocks : ~meta[b].free =>
       /\ 0 < live[Ptr(b)] /\ live[Ptr(b)] <= meta[b].size
       /\ meta[b].size < AlignUp(live[Ptr(b)], ALIGN) + META_SIZE + ALIGN

\* What the running call knows: what it is after; that the search has passed no
\* block that fits, and the cleanup none that should be merged; that the growth
\* was found small enough; and which block realloc copies to.
InCall ==
  /\ pc \in {"scan", "map", "copy", "corrupt"} =>
       /\ 0 < call.bytes /\ call.size = AlignUp(call.bytes, ALIGN)
       /\ call.op = "realloc" => call.old \in DOMAIN live
  /\ pc = "scan" => \A b \in Blocks : cursor = NULL \/ b < cursor => ~Fits(b, call.size)
  /\ pc = "map" => ~TooBig(Grown)
  /\ pc \in {"copy", "corrupt"} =>
       /\ call.op = "realloc" /\ cursor # NULL /\ call.size <= meta[cursor].size
  /\ pc = "corrupt" => meta[Block(call.old)].size > meta[cursor].size
  /\ pc = "cleanup" =>
       cursor # NULL /\ \A b \in Blocks : b < cursor => Last(b) \/ ~BothFree(b)

IInv == Typed /\ Tiled(meta, HeapEnd) /\ Booted /\ Owned /\ FramesBacked /\ InCall
-------------------------------------------------------------------------------
\* Division with a positive divisor, as the provers can use it.
LEMMA Quotient ==
  ASSUME NEW n \in Nat, NEW a \in Nat \ {0}
  PROVE  /\ n \div a \in Nat
         /\ (n \div a) * a <= n
         /\ n < (n \div a) * a + a
<1> DEFINE q == n \div a
<1>1. q \in Int /\ a * q <= n /\ n < a * q + a
  OBVIOUS
<1> HIDE DEF q
<1>2. q >= 0
  <2> SUFFICES ASSUME q <= -1 PROVE FALSE
    BY <1>1
  <2>1. a * q <= a * (-1)
    BY <1>1
  <2> QED BY <2>1, <1>1
<1>3. a * q = q * a
  BY <1>1
<1> QED BY <1>1, <1>2, <1>3 DEF q

\* Rounding up adds less than the alignment.
LEMMA AlignUpBounds ==
  ASSUME NEW n \in Nat, NEW a \in Nat \ {0}
  PROVE  AlignUp(n, a) \in Nat /\ n <= AlignUp(n, a) /\ AlignUp(n, a) < n + a
<1> DEFINE q == (n + a - 1) \div a
<1>1. n + a - 1 \in Nat
  OBVIOUS
<1>2. q \in Nat /\ q * a <= n + a - 1 /\ n + a - 1 < q * a + a
  BY <1>1, Quotient
<1> HIDE DEF q
<1>3. q * a \in Nat
  BY <1>2
<1>4. AlignUp(n, a) = q * a
  BY DEF AlignUp, q
<1> QED BY <1>2, <1>3, <1>4

\* The frames grow asks for hold the bytes it needs them for.
LEMMA PagesHold ==
  ASSUME NEW bytes \in Nat
  PROVE  /\ Pages(bytes) \in Nat
         /\ Pages(bytes) * FRAME_SIZE \in Nat
         /\ bytes <= Pages(bytes) * FRAME_SIZE
<1> DEFINE up == AlignUp(bytes, FRAME_SIZE)
           q  == (bytes + FRAME_SIZE - 1) \div FRAME_SIZE
<1>1. FRAME_SIZE \in Nat \ {0} /\ bytes + FRAME_SIZE - 1 \in Nat
  BY SizesAssumption
<1>2. up \in Nat /\ bytes <= up
  BY <1>1, AlignUpBounds
<1>3. q \in Nat /\ up = q * FRAME_SIZE
  BY <1>1, Quotient DEF AlignUp
<1>4. up \div FRAME_SIZE = q
  <2> HIDE DEF q
  <2> QED BY <1>1, <1>3
<1> QED BY <1>2, <1>3, <1>4 DEF Pages

\* No fewer frames would do.
LEMMA PagesLeast ==
  ASSUME NEW bytes \in Nat, NEW pages \in Nat, pages * FRAME_SIZE >= bytes
  PROVE  Pages(bytes) * FRAME_SIZE <= pages * FRAME_SIZE
<1> DEFINE F == FRAME_SIZE
           q == (bytes + F - 1) \div F
<1>1. F \in Nat \ {0} /\ bytes + F - 1 \in Nat
  BY SizesAssumption
<1>2. q \in Nat /\ q * F <= bytes + F - 1
  BY <1>1, Quotient
<1>3. Pages(bytes) = q
  <2>1. AlignUp(bytes, F) = q * F
    BY DEF AlignUp
  <2>2. (q * F) \div F = q
    <3> HIDE DEF q, F
    <3> QED BY <1>1, <1>2
  <2> QED BY <2>1, <2>2 DEF Pages
<1> HIDE DEF q, F
<1>4. q <= pages
  <2> SUFFICES ASSUME pages + 1 <= q PROVE FALSE
    BY <1>2
  <2>1. (pages + 1) * F <= q * F
    BY <1>1, <1>2
  <2>2. (pages + 1) * F = pages * F + F /\ pages * F \in Nat /\ q * F \in Nat
    BY <1>1, <1>2
  <2>3. pages * F >= bytes
    BY DEF F
  <2> QED BY <1>1, <1>2, <2>1, <2>2, <2>3
<1>5. q * F <= pages * F
  BY <1>1, <1>2, <1>4
<1> QED BY <1>3, <1>5 DEF F

\* calloc's product is what it seems: a product that does not fit HEAP_MAX is
\* refused before it can wrap around.
LEMMA CallocExact ==
  ASSUME NEW count \in Nat, NEW size \in Nat, ~CallocRefuses(count, size)
  PROVE  /\ count * size \in Nat
         /\ (count * size) % SIZE_MOD = count * size
<1>1. HEAP_MAX \in Nat /\ SIZE_MOD \in Nat /\ HEAP_MAX < SIZE_MOD
  BY SizesAssumption
<1>2. count * size \in Nat /\ count * size <= HEAP_MAX
  <2>1. CASE size = 0
    BY <2>1, <1>1
  <2>2. CASE size # 0
    <3> DEFINE q == HEAP_MAX \div size
    <3>1. q \in Nat /\ q * size <= HEAP_MAX
      BY <1>1, <2>2, Quotient
    <3>2. count <= q
      BY <2>2, <3>1 DEF CallocRefuses
    <3> HIDE DEF q
    <3>3. count * size <= q * size
      BY <3>1, <3>2
    <3> QED BY <3>1, <3>3, <1>1
  <2> QED BY <2>1, <2>2
<1> DEFINE product == count * size
<1> HIDE DEF product
<1>3. product % SIZE_MOD = product
  BY <1>1, <1>2 DEF product
<1> QED BY <1>2, <1>3 DEF product
-------------------------------------------------------------------------------
\* What Tiled says of one block, and of two.
LEMMA BlockFacts ==
  ASSUME NEW m, NEW end \in Nat, Tiled(m, end), NEW b \in DOMAIN m
  PROVE  /\ b \in Nat /\ b > 0 /\ HeapStart <= b
         /\ m[b] \in Headers(m)
         /\ m[b].size \in Nat /\ m[b].free \in BOOLEAN
         /\ m[b].next \in DOMAIN m \cup {NULL}
         /\ Behind(m, b) \in Nat /\ b < Behind(m, b) /\ Behind(m, b) <= end
         /\ m[b].next = NULL => Behind(m, b) = end
         /\ m[b].next # NULL => /\ m[b].next \in DOMAIN m
                                /\ Behind(m, b) = m[b].next
         /\ \A c \in DOMAIN m : c # b => Behind(m, b) <= c \/ Behind(m, c) <= b
<1>1. META_SIZE \in Nat /\ META_SIZE > 0
  BY SizesAssumption
<1>2. b \in Nat /\ b > 0 /\ m[b] \in Headers(m)
  BY DEF Tiled, NULL
<1>3. m[b].size \in Nat /\ m[b].free \in BOOLEAN /\ m[b].next \in DOMAIN m \cup {NULL}
  BY <1>2 DEF Headers
<1>4. Behind(m, b) \in Nat /\ b < Behind(m, b)
  BY <1>1, <1>2, <1>3 DEF Behind
<1>5. ASSUME NEW c \in DOMAIN m, c # b
      PROVE  Behind(m, b) <= c \/ Behind(m, c) <= b
  <2>1. c \in Nat /\ (b < c \/ c < b)
    BY <1>2, <1>5 DEF Tiled
  <2> QED BY <2>1 DEF Tiled
<1> QED BY <1>2, <1>3, <1>4, <1>5 DEF Tiled

\* Marking a block free or used does not touch the list.
LEMMA MarkTiles ==
  ASSUME NEW m, NEW end \in Nat, Tiled(m, end), NEW b \in DOMAIN m, NEW v \in BOOLEAN
  PROVE  LET n == [m EXCEPT ![b].free = v]
         IN  /\ Tiled(n, end) /\ DOMAIN n = DOMAIN m
             /\ n[b].size = m[b].size /\ n[b].next = m[b].next /\ n[b].free = v
             /\ \A a \in DOMAIN m : a # b => n[a] = m[a]
<1> DEFINE n == [m EXCEPT ![b].free = v]
<1>1. m \in [DOMAIN m -> Headers(m)]
  BY DEF Tiled
<1>2. DOMAIN n = DOMAIN m /\ n[b] = [m[b] EXCEPT !.free = v]
      /\ \A a \in DOMAIN m : a # b => n[a] = m[a]
  BY <1>1
<1>3. m[b] \in Headers(m)
  BY <1>1
<1>4. /\ n[b].size = m[b].size /\ n[b].next = m[b].next /\ n[b].free = v
      /\ n[b] \in Headers(m)
  BY <1>2, <1>3 DEF Headers
<1>5. n \in [DOMAIN m -> Headers(m)] /\ Headers(n) = Headers(m)
  <2>1. n = [a \in DOMAIN m |-> n[a]]
    BY <1>2
  <2>2. \A a \in DOMAIN m : n[a] \in Headers(m)
    BY <1>1, <1>2, <1>4
  <2> HIDE DEF n
  <2> QED BY <1>2, <2>1, <2>2 DEF Headers
<1>6. \A a \in DOMAIN m : n[a].size = m[a].size /\ n[a].next = m[a].next
  BY <1>2, <1>4
<1> HIDE DEF n
<1>7. \A a \in DOMAIN m : Behind(n, a) = Behind(m, a)
  BY <1>6 DEF Behind
<1>8. Tiled(n, end)
  BY <1>2, <1>5, <1>6, <1>7 DEF Tiled
<1> QED BY <1>2, <1>4, <1>8 DEF n

\* split_block cuts a free block out of the end of b, whose place was inside b.
LEMMA SplitTiles ==
  ASSUME NEW m, NEW end \in Nat, Tiled(m, end), NEW b \in DOMAIN m,
         NEW n \in Nat, n <= m[b].size
  PROVE  LET s == Split(m, b, n)
         IN  /\ Tiled(s, end) /\ DOMAIN m \subseteq DOMAIN s
             /\ n <= s[b].size /\ s[b].size < n + META_SIZE + ALIGN
             /\ s[b].free = m[b].free
             /\ \A a \in DOMAIN m : a # b => s[a] = m[a]
             /\ \A a \in DOMAIN s \ DOMAIN m : s[a].free
<1> DEFINE s == Split(m, b, n)
           rest == b + META_SIZE + n
<1>1. META_SIZE \in Nat /\ META_SIZE > 0 /\ ALIGN \in Nat /\ ALIGN > 0
  BY SizesAssumption
<1>2. /\ b \in Nat /\ b > 0 /\ HeapStart <= b /\ m[b] \in Headers(m)
      /\ m[b].size \in Nat /\ m[b].free \in BOOLEAN
      /\ m[b].next \in DOMAIN m \cup {NULL}
  BY BlockFacts
<1>3. CASE m[b].size < n + META_SIZE + ALIGN
  <2>1. s = m
    BY <1>3 DEF Split
  <2> QED BY <1>3, <2>1
<1>4. CASE ~(m[b].size < n + META_SIZE + ALIGN)
  <2>1. /\ rest \in Nat /\ b < rest /\ HeapStart \in Nat
        /\ Behind(m, b) = b + META_SIZE + m[b].size
        /\ rest + META_SIZE <= Behind(m, b)
    BY <1>1, <1>2, <1>4, SizesAssumption DEF Behind
  <2>2. rest \notin DOMAIN m
    <3> SUFFICES ASSUME rest \in DOMAIN m PROVE FALSE
      OBVIOUS
    <3>1. Behind(m, b) <= rest \/ Behind(m, rest) <= b
      BY <2>1, BlockFacts
    <3>2. rest < Behind(m, rest) /\ Behind(m, rest) \in Nat /\ Behind(m, b) \in Nat
      BY BlockFacts
    <3> QED BY <1>1, <1>2, <2>1, <3>1, <3>2
  <2>3. s = [a \in DOMAIN m \cup {rest} |->
               CASE a = b    -> [m[b] EXCEPT !.size = n, !.next = rest]
                 [] a = rest -> [size |-> m[b].size - n - META_SIZE,
                                 next |-> m[b].next, free |-> TRUE]
                 [] OTHER    -> m[a]]
    BY <1>4 DEF Split
  <2>4. /\ DOMAIN s = DOMAIN m \cup {rest}
        /\ s[b] = [m[b] EXCEPT !.size = n, !.next = rest]
        /\ s[rest] = [size |-> m[b].size - n - META_SIZE, next |-> m[b].next, free |-> TRUE]
        /\ \A a \in DOMAIN m : a # b => s[a] = m[a]
    BY <2>2, <2>3
  <2> HIDE DEF s, rest
  <2>5. /\ s[b].size = n /\ s[b].next = rest /\ s[b].free = m[b].free
        /\ s[b] \in Headers(s)
    BY <1>2, <2>4 DEF Headers
  <2>6. /\ s[rest].size = m[b].size - n - META_SIZE /\ s[rest].size \in Nat
        /\ s[rest].next = m[b].next /\ s[rest].free = TRUE
        /\ s[rest] \in Headers(s)
    BY <1>1, <1>2, <1>4, <2>4 DEF Headers
  <2>7. s \in [DOMAIN s -> Headers(s)]
    <3>1. \A a \in DOMAIN m : m[a] \in Headers(m)
      BY DEF Tiled
    <3>2. Headers(m) \subseteq Headers(s)
      BY <2>4 DEF Headers
    <3>3. \A a \in DOMAIN s : s[a] \in Headers(s)
      BY <2>4, <2>5, <2>6, <3>1, <3>2
    <3>4. s = [a \in DOMAIN s |-> s[a]]
      BY <2>3, <2>4
    <3> QED BY <3>3, <3>4
  <2>8. /\ Behind(s, b) = rest /\ Behind(s, rest) = Behind(m, b)
        /\ \A a \in DOMAIN m : a # b => Behind(s, a) = Behind(m, a)
    <3>1. Behind(s, b) = b + META_SIZE + n
      BY <2>5 DEF Behind
    <3>2. Behind(s, rest) = rest + META_SIZE + (m[b].size - n - META_SIZE)
      BY <2>6 DEF Behind
    <3>3. \A a \in DOMAIN m : a # b => Behind(s, a) = Behind(m, a)
      BY <2>4 DEF Behind
    <3> QED BY <1>1, <1>2, <2>1, <3>1, <3>2, <3>3 DEF rest
  <2>9. ASSUME NEW a \in DOMAIN s
        PROVE  /\ a \in Nat \ {NULL} /\ HeapStart <= a /\ Behind(s, a) <= end
               /\ Behind(s, a) = IF s[a].next = NULL THEN end ELSE s[a].next
    <3>1. CASE a = b
      BY <1>1, <1>2, <2>1, <2>5, <2>8, <3>1, BlockFacts DEF NULL
    <3>2. CASE a = rest
      BY <1>1, <1>2, <2>1, <2>6, <2>8, <3>2, BlockFacts DEF NULL
    <3>3. CASE a \in DOMAIN m /\ a # b
      <4>1. s[a] = m[a] /\ Behind(s, a) = Behind(m, a)
        BY <2>4, <2>8, <3>3
      <4> QED BY <3>3, <4>1 DEF Tiled
    <3> QED BY <2>4, <3>1, <3>2, <3>3
  <2>10. ASSUME NEW a \in DOMAIN s, NEW c \in DOMAIN s, a < c
         PROVE  Behind(s, a) <= c
    <3>1. a \in Nat /\ c \in Nat
      BY <2>9
    <3>2. CASE a = b
      <4>1. CASE c \in DOMAIN m
        <5>1. Behind(m, b) <= c /\ Behind(m, b) \in Nat
          BY <2>10, <3>2, <4>1, BlockFacts DEF Tiled
        <5> QED BY <1>1, <2>1, <2>8, <3>1, <3>2, <5>1
      <4>2. CASE c = rest
        BY <2>1, <2>8, <3>2, <4>2
      <4> QED BY <2>4, <4>1, <4>2
    <3>3. CASE a = rest
      <4>1. c \in DOMAIN m /\ c # b /\ b < c
        BY <1>2, <2>1, <2>4, <2>10, <3>1, <3>3
      <4>2. Behind(m, b) <= c
        BY <4>1 DEF Tiled
      <4> QED BY <2>8, <3>3, <4>2
    <3>4. CASE a \in DOMAIN m /\ a # b
      <4>1. CASE c \in DOMAIN m
        BY <2>8, <2>10, <3>4, <4>1 DEF Tiled
      <4>2. CASE c = rest
        <5>1. Behind(m, a) <= b \/ Behind(m, b) <= a
          BY <3>4, BlockFacts
        <5>2. Behind(m, a) \in Nat /\ Behind(m, b) \in Nat
          BY <3>4, BlockFacts
        <5> QED BY <1>1, <1>2, <2>1, <2>8, <2>10, <3>1, <3>4, <4>2, <5>1, <5>2
      <4> QED BY <2>4, <4>1, <4>2
    <3> QED BY <2>4, <3>2, <3>3, <3>4
  <2>11. Tiled(s, end)
    BY <2>7, <2>9, <2>10 DEF Tiled
  <2>12. /\ n <= s[b].size /\ s[b].size < n + META_SIZE + ALIGN
    BY <1>1, <2>5
  <2> QED BY <2>4, <2>5, <2>6, <2>11, <2>12 DEF s
<1> QED BY <1>3, <1>4

\* cleanup makes the block behind b a part of b.
LEMMA MergeTiles ==
  ASSUME NEW m, NEW end \in Nat, Tiled(m, end), NEW b \in DOMAIN m, m[b].next # NULL
  PROVE  LET s == Merge(m, b)
         IN  /\ Tiled(s, end) /\ b \in DOMAIN s
             /\ DOMAIN s = DOMAIN m \ {m[b].next}
             /\ (s[b].free <=> m[b].free) /\ s[b].next = m[m[b].next].next
             /\ \A a \in DOMAIN s : a # b => s[a] = m[a]
<1> DEFINE gone == m[b].next
           s    == Merge(m, b)
<1>1. META_SIZE \in Nat /\ META_SIZE > 0
  BY SizesAssumption
<1>2. /\ b \in Nat /\ b > 0 /\ HeapStart <= b /\ m[b] \in Headers(m)
      /\ m[b].size \in Nat /\ m[b].free \in BOOLEAN
      /\ gone \in DOMAIN m /\ Behind(m, b) = gone /\ b < gone
  BY BlockFacts
<1>3. /\ gone \in Nat /\ m[gone].size \in Nat
      /\ m[gone].next \in DOMAIN m \cup {NULL}
      /\ gone < Behind(m, gone) /\ Behind(m, gone) \in Nat /\ Behind(m, gone) <= end
      /\ Behind(m, gone) = IF m[gone].next = NULL THEN end ELSE m[gone].next
  <2> HIDE DEF gone
  <2> QED BY <1>2, BlockFacts DEF Tiled
<1>4. s = [a \in DOMAIN m \ {gone} |->
             IF a = b THEN [m[b] EXCEPT !.size = @ + META_SIZE + m[gone].size,
                                        !.next = m[gone].next]
                      ELSE m[a]]
  BY DEF Merge
<1> HIDE DEF s, gone
<1>5. /\ DOMAIN s = DOMAIN m \ {gone} /\ b \in DOMAIN s
      /\ s[b] = [m[b] EXCEPT !.size = @ + META_SIZE + m[gone].size, !.next = m[gone].next]
      /\ \A a \in DOMAIN s : a # b => s[a] = m[a]
  BY <1>2, <1>3, <1>4
<1>6. m[gone].next # gone /\ \A a \in DOMAIN m : a # b => m[a].next # gone
  <2>1. m[gone].next # gone
    BY <1>2, <1>3 DEF NULL
  <2>2. ASSUME NEW a \in DOMAIN m, a # b, m[a].next = gone
        PROVE  FALSE
    <3>1. /\ a \in Nat /\ a < Behind(m, a) /\ Behind(m, a) = gone
          /\ Behind(m, b) <= a \/ Behind(m, a) <= b
      BY <1>2, <1>3, <2>2, BlockFacts DEF NULL
    <3> QED BY <1>2, <1>3, <3>1
  <2> QED BY <2>1, <2>2
<1>7. /\ s[b].size = m[b].size + META_SIZE + m[gone].size
      /\ s[b].next = m[gone].next /\ s[b].free = m[b].free /\ s[b] \in Headers(s)
  <2> DEFINE size == m[b].size + META_SIZE + m[gone].size
  <2>1. m[b] = [size |-> m[b].size, next |-> m[b].next, free |-> m[b].free]
    BY <1>2 DEF Headers
  <2>2. s[b] = [size |-> size, next |-> m[gone].next, free |-> m[b].free]
    BY <1>5, <2>1
  <2>3. size \in Nat /\ m[gone].next \in DOMAIN s \cup {NULL}
    BY <1>1, <1>2, <1>3, <1>5, <1>6
  <2> HIDE DEF size
  <2>4. s[b] \in Headers(s)
    BY <1>2, <2>2, <2>3 DEF Headers
  <2> QED BY <2>2, <2>4 DEF size
<1>8. s \in [DOMAIN s -> Headers(s)]
  <2>1. ASSUME NEW a \in DOMAIN s, a # b
        PROVE  s[a] \in Headers(s)
    <3>1. s[a] = m[a] /\ m[a] \in Headers(m) /\ m[a].next # gone
      BY <1>5, <1>6, <2>1 DEF Tiled
    <3> QED BY <1>5, <3>1 DEF Headers
  <2>2. s = [a \in DOMAIN s |-> s[a]]
    BY <1>4, <1>5
  <2> QED BY <1>7, <2>1, <2>2
<1>9. /\ Behind(s, b) = Behind(m, gone)
      /\ \A a \in DOMAIN s : a # b => Behind(s, a) = Behind(m, a)
  <2>1. Behind(s, b) = b + META_SIZE + (m[b].size + META_SIZE + m[gone].size)
    BY <1>7 DEF Behind
  <2>2. Behind(m, b) = b + META_SIZE + m[b].size /\
        Behind(m, gone) = gone + META_SIZE + m[gone].size
    BY DEF Behind
  <2>3. \A a \in DOMAIN s : a # b => Behind(s, a) = Behind(m, a)
    BY <1>5 DEF Behind
  <2> QED BY <1>1, <1>2, <1>3, <2>1, <2>2, <2>3
<1>10. ASSUME NEW a \in DOMAIN s
       PROVE  /\ a \in Nat \ {NULL} /\ HeapStart <= a /\ Behind(s, a) <= end
              /\ Behind(s, a) = IF s[a].next = NULL THEN end ELSE s[a].next
  <2>1. CASE a = b
    BY <1>2, <1>3, <1>7, <1>9, <2>1 DEF NULL
  <2>2. CASE a # b
    <3>1. s[a] = m[a] /\ Behind(s, a) = Behind(m, a) /\ a \in DOMAIN m
      BY <1>5, <1>9, <2>2
    <3> QED BY <3>1 DEF Tiled
  <2> QED BY <2>1, <2>2
<1>11. ASSUME NEW a \in DOMAIN s, NEW c \in DOMAIN s, a < c
       PROVE  Behind(s, a) <= c
  <2>1. a \in DOMAIN m /\ c \in DOMAIN m /\ c # gone /\ a \in Nat /\ c \in Nat
    BY <1>5, <1>10
  <2>2. CASE a = b
    <3>1. Behind(m, b) <= c
      BY <1>11, <2>1, <2>2 DEF Tiled
    <3>2. gone < c
      BY <1>2, <1>3, <2>1, <3>1
    <3> QED BY <1>2, <1>9, <2>1, <2>2, <3>2 DEF Tiled
  <2>3. CASE a # b
    BY <1>9, <1>11, <2>1, <2>3 DEF Tiled
  <2> QED BY <2>2, <2>3
<1>12. Tiled(s, end)
  BY <1>8, <1>10, <1>11 DEF Tiled
<1> QED BY <1>5, <1>7, <1>12 DEF s, gone

\* grow puts a free block behind the others.
LEMMA AppendTiles ==
  ASSUME NEW m, NEW end \in Nat, Tiled(m, end), HeapStart <= end, NEW size \in Nat
  PROVE  LET s == Append(m, end, size)
         IN  /\ Tiled(s, end + META_SIZE + size) /\ end \notin DOMAIN m
             /\ DOMAIN s = DOMAIN m \cup {end}
             /\ s[end].size = size /\ s[end].free
             /\ \A a \in DOMAIN m : s[a].size = m[a].size /\ (s[a].free <=> m[a].free)
<1> DEFINE s   == Append(m, end, size)
           new == end + META_SIZE + size
<1>1. META_SIZE \in Nat /\ META_SIZE > 0 /\ HeapStart \in Nat /\ HeapStart > 0
  BY SizesAssumption
<1>2. end \notin DOMAIN m
  <2> SUFFICES ASSUME end \in DOMAIN m PROVE FALSE
    OBVIOUS
  <2> QED BY BlockFacts
<1>3. s = [a \in DOMAIN m \cup {end} |->
             IF a = end THEN [size |-> size, next |-> NULL, free |-> TRUE]
             ELSE IF m[a].next = NULL THEN [m[a] EXCEPT !.next = end] ELSE m[a]]
  BY DEF Append
<1> HIDE DEF s
<1>4. /\ DOMAIN s = DOMAIN m \cup {end}
      /\ s[end] = [size |-> size, next |-> NULL, free |-> TRUE]
  BY <1>3
<1>5. ASSUME NEW a \in DOMAIN m
      PROVE  /\ s[a].size = m[a].size /\ s[a].free = m[a].free
             /\ s[a].next = IF m[a].next = NULL THEN end ELSE m[a].next
             /\ s[a] \in Headers(s)
             /\ Behind(s, a) = Behind(m, a)
  <2>1. m[a] \in Headers(m)
    BY BlockFacts
  <2>2. s[a] = IF m[a].next = NULL THEN [m[a] EXCEPT !.next = end] ELSE m[a]
    BY <1>2, <1>3
  <2>3. /\ s[a].size = m[a].size /\ s[a].free = m[a].free
        /\ s[a].next = IF m[a].next = NULL THEN end ELSE m[a].next
        /\ s[a] \in Headers(s)
    BY <1>4, <2>1, <2>2 DEF Headers
  <2> QED BY <2>3 DEF Behind
<1>6. s[end] \in Headers(s) /\ Behind(s, end) = new
  BY <1>4 DEF Headers, Behind
<1>7. s \in [DOMAIN s -> Headers(s)]
  <2>1. s = [a \in DOMAIN s |-> s[a]]
    BY <1>3, <1>4
  <2> QED BY <1>4, <1>5, <1>6, <2>1
<1>8. ASSUME NEW a \in DOMAIN s
      PROVE  /\ a \in Nat \ {NULL} /\ HeapStart <= a /\ Behind(s, a) <= new
             /\ Behind(s, a) = IF s[a].next = NULL THEN new ELSE s[a].next
  <2>1. CASE a = end
    BY <1>1, <1>4, <1>6, <2>1 DEF NULL
  <2>2. CASE a \in DOMAIN m
    <3>1. /\ Behind(m, a) \in Nat /\ Behind(m, a) <= end
          /\ Behind(m, a) = IF m[a].next = NULL THEN end ELSE m[a].next
          /\ a \in Nat \ {NULL} /\ HeapStart <= a
          /\ m[a].next # NULL => m[a].next \in Nat \ {NULL}
      BY <2>2, BlockFacts DEF NULL, Tiled
    <3> QED BY <1>1, <1>5, <2>2, <3>1 DEF NULL
  <2> QED BY <1>4, <2>1, <2>2
<1>9. ASSUME NEW a \in DOMAIN s, NEW c \in DOMAIN s, a < c
      PROVE  Behind(s, a) <= c
  <2>1. CASE a = end
    <3>1. c \in DOMAIN m
      BY <1>4, <1>9, <2>1
    <3>2. c \in Nat /\ c < Behind(m, c) /\ Behind(m, c) <= end /\ Behind(m, c) \in Nat
      BY <3>1, BlockFacts
    <3> QED BY <1>9, <2>1, <3>2
  <2>2. CASE a \in DOMAIN m
    BY <1>4, <1>5, <1>9, <2>2 DEF Tiled
  <2> QED BY <1>4, <2>1, <2>2
<1>10. Tiled(s, new)
  BY <1>7, <1>8, <1>9 DEF Tiled
<1> QED BY <1>2, <1>4, <1>5, <1>10 DEF s
-------------------------------------------------------------------------------
LEMMA Initially == Init => IInv
<1> SUFFICES ASSUME Init PROVE IInv
  OBVIOUS
<1>1. /\ HeapStart \in Nat /\ HEAP_MAX \in Nat /\ FRAME_SIZE \in Nat
      /\ DOMAIN meta = {} /\ DOMAIN live = {}
  BY SizesAssumption DEF Init
<1>2. Typed
  BY <1>1 DEF Init, Typed, Ops, NoCall, NULL, Blocks
<1>3. Tiled(meta, HeapEnd)
  BY <1>1 DEF Init, Tiled
<1>4. Owned
  BY <1>1 DEF Owned, Blocks
<1>5. FramesBacked
  BY <1>1 DEF Init, FramesBacked
<1> QED BY <1>1, <1>2, <1>3, <1>4, <1>5 DEF Init, IInv, Booted, InCall, Blocks

\* The address of an object is behind the header of its block, and no other.
LEMMA Pointers ==
  ASSUME IInv
  PROVE  /\ DOMAIN live \subseteq Nat
         /\ \A p \in DOMAIN live : /\ Block(p) \in Blocks /\ ~meta[Block(p)].free
                                   /\ Ptr(Block(p)) = p
         /\ \A b \in Blocks : /\ Block(Ptr(b)) = b
                              /\ ~meta[b].free => Ptr(b) \in DOMAIN live
                              /\ meta[b].free => Ptr(b) \notin DOMAIN live
<1>1. META_SIZE \in Nat /\ Blocks \subseteq Nat
  BY SizesAssumption DEF IInv, Tiled, Blocks
<1>2. \A b \in Blocks : Ptr(b) \in Nat /\ Block(Ptr(b)) = b
  BY <1>1 DEF Ptr, Block
<1>3. DOMAIN live = {Ptr(b) : b \in {a \in Blocks : ~meta[a].free}}
  BY DEF IInv, Owned
<1> HIDE DEF Blocks
<1> QED BY <1>2, <1>3

\* A call that returns leaves all as it is, but for frames it gives back.
LEMMA ReturnKeeps ==
  ASSUME IInv, pc \notin {"boot", "panic"}, UNCHANGED <<meta, HeapEnd, live>>,
         pc' \in {"idle", "panic"}, call' = NoCall, cursor' = NULL,
         frames' \in Nat, frames' * FRAME_SIZE = HeapEnd - HeapStart
  PROVE  IInv'
<1>1. Typed'
  BY DEF IInv, Typed, Ops, NoCall, NULL, Blocks
<1>2. Tiled(meta, HeapEnd)' /\ Owned'
  BY DEF IInv, Owned, Blocks, Tiled, Headers, Behind
<1>3. Booted'
  BY DEF IInv, Booted, Blocks
<1>4. FramesBacked'
  BY SizesAssumption DEF IInv, Typed, FramesBacked
<1> QED BY <1>1, <1>2, <1>3, <1>4 DEF IInv, InCall

LEMMA InitKeeps ==
  ASSUME IInv, HeapInit
  PROVE  IInv'
<1> DEFINE max == HEAP_MAX \div FRAME_SIZE
<1>1. PICK asked \in BootPages :
        LET pages == IF asked > max THEN max ELSE asked
        IN  /\ pages # 0
            /\ frames' = pages
            /\ HeapEnd' = HeapStart + pages * FRAME_SIZE
            /\ meta' = [b \in {HeapStart} |->
                          [size |-> HeapEnd' - HeapStart - META_SIZE,
                           next |-> NULL, free |-> TRUE]]
  BY DEF HeapInit
<1> DEFINE pages == IF asked > max THEN max ELSE asked
           bytes == pages * FRAME_SIZE
<1>2. /\ HeapStart \in Nat \ {0} /\ META_SIZE \in Nat \ {0} /\ HEAP_MAX \in Nat
      /\ FRAME_SIZE \in Nat \ {0} /\ META_SIZE < FRAME_SIZE
  BY SizesAssumption
<1>3. max \in Nat /\ max * FRAME_SIZE <= HEAP_MAX
  BY <1>2, Quotient
<1>4. pages \in Nat /\ pages > 0 /\ pages <= max
  BY <1>1, <1>3, InputsAssumption
<1>5. bytes \in Nat /\ FRAME_SIZE <= bytes /\ bytes <= HEAP_MAX
  <2> HIDE DEF pages, max
  <2>1. bytes <= max * FRAME_SIZE /\ 1 * FRAME_SIZE <= bytes /\ bytes \in Nat
    BY <1>2, <1>3, <1>4
  <2> QED BY <1>2, <1>3, <2>1
<1>6. frames' = pages /\ HeapEnd' = HeapStart + bytes
      /\ meta' = [b \in {HeapStart} |->
                    [size |-> HeapEnd' - HeapStart - META_SIZE, next |-> NULL, free |-> TRUE]]
  BY <1>1
<1> HIDE DEF pages, bytes
<1> DEFINE size == HeapEnd' - HeapStart - META_SIZE
<1>7. /\ DOMAIN meta' = {HeapStart} /\ size \in Nat
      /\ meta'[HeapStart] = [size |-> size, next |-> NULL, free |-> TRUE]
      /\ HeapStart + META_SIZE + size = HeapEnd'
  BY <1>2, <1>5, <1>6
<1>8. DOMAIN live' = {} /\ live' = live /\ pc = "boot" /\ pc' = "idle" /\ UNCHANGED <<call, cursor>>
  BY DEF HeapInit, IInv, Booted
<1>9. cursor = NULL
  BY <1>8 DEF IInv, Typed, Booted
<1> HIDE DEF size
<1>10. Tiled(meta', HeapEnd')
  <2>1. meta'[HeapStart] \in Headers(meta')
    BY <1>7 DEF Headers
  <2>2. Behind(meta', HeapStart) = HeapEnd'
    BY <1>7 DEF Behind
  <2>3. meta' \in [DOMAIN meta' -> Headers(meta')]
    BY <1>6, <1>7, <2>1
  <2>4. meta'[HeapStart].next = NULL
    BY <1>7
  <2>5. HeapEnd' \in Nat
    BY <1>2, <1>5, <1>6
  <2> QED BY <1>2, <1>7, <2>2, <2>3, <2>4, <2>5 DEF Tiled, NULL
<1>11. Typed'
  BY <1>2, <1>4, <1>5, <1>6, <1>8, <1>9 DEF IInv, Typed
<1>12. Owned'
  BY <1>7, <1>8 DEF Owned, Blocks
<1>13. FramesBacked'
  BY <1>2, <1>5, <1>6, <1>8 DEF FramesBacked, bytes
<1>14. Booted' /\ InCall'
  BY <1>7, <1>8 DEF Booted, InCall, Blocks
<1> QED BY <1>10, <1>11, <1>12, <1>13, <1>14 DEF IInv

\* The region, and the number of frames it is made of.
LEMMA Region ==
  ASSUME IInv
  PROVE  /\ HeapStart \in Nat /\ HeapStart > 0 /\ HeapEnd \in Nat /\ HeapStart <= HeapEnd
         /\ META_SIZE \in Nat /\ META_SIZE > 0 /\ ALIGN \in Nat \ {0}
         /\ FRAME_SIZE \in Nat \ {0} /\ HEAP_MAX \in Nat
         /\ frames \in Nat
         /\ pc # "map" => frames * FRAME_SIZE = HeapEnd - HeapStart
         /\ pc = "map" => frames * FRAME_SIZE = HeapEnd - HeapStart + Grown * FRAME_SIZE
         /\ HeapEnd - HeapStart <= HEAP_MAX
<1>1. /\ HeapStart \in Nat /\ HeapStart > 0 /\ META_SIZE \in Nat /\ META_SIZE > 0
      /\ ALIGN \in Nat \ {0} /\ FRAME_SIZE \in Nat \ {0} /\ HEAP_MAX \in Nat
  BY SizesAssumption
<1>2. HeapEnd \in Nat /\ frames \in Nat
  BY DEF IInv, Typed
<1>3. HeapStart <= HeapEnd
  <2>1. CASE Blocks = {}
    <3>1. pc \in {"boot", "panic"}
      BY <2>1 DEF IInv, Booted
    <3>2. frames * FRAME_SIZE = HeapEnd - HeapStart + 0 /\ frames * FRAME_SIZE >= 0
      BY <1>1, <1>2, <3>1 DEF IInv, FramesBacked
    <3> QED BY <1>1, <1>2, <3>2
  <2>2. CASE Blocks # {}
    <3>1. HeapStart < Behind(meta, HeapStart) /\ Behind(meta, HeapStart) \in Nat
          /\ Behind(meta, HeapStart) <= HeapEnd
      BY <1>2, <2>2, BlockFacts DEF IInv, Booted, Blocks
    <3> QED BY <1>1, <1>2, <3>1
  <2> QED BY <2>1, <2>2
<1>4. pc # "map" => frames * FRAME_SIZE = HeapEnd - HeapStart
  BY <1>1, <1>2 DEF IInv, FramesBacked
<1> QED BY <1>1, <1>2, <1>3, <1>4 DEF IInv, FramesBacked

\* A call for n bytes that is entered starts its search at the first block.
LEMMA EnterKeeps ==
  ASSUME IInv, pc = "idle", NEW op \in Ops, NEW bytes \in Nat, NEW n \in Nat,
         n <= HEAP_MAX => n = bytes, NEW old \in Nat,
         op = "realloc" => old \in DOMAIN live,
         Enter(op, bytes, n, old)
  PROVE  IInv'
<1>1. UNCHANGED <<meta, HeapEnd, frames, live>>
  BY DEF Enter
<1>2. CASE n = 0 \/ n > HEAP_MAX
  <2>1. pc' \in {"idle", "panic"} /\ call' = NoCall /\ cursor' = NULL
    BY <1>2 DEF Enter, ReturnNull, Return
  <2> QED BY <1>1, <2>1, Region, ReturnKeeps
<1>3. CASE n # 0 /\ ~(n > HEAP_MAX)
  <2>1. /\ pc' = "scan" /\ cursor' = HeapStart
        /\ call' = [op |-> op, bytes |-> bytes, size |-> AlignUp(n, ALIGN), old |-> old]
    BY <1>3 DEF Enter
  <2>2. n = bytes /\ 0 < bytes /\ AlignUp(n, ALIGN) \in Nat
    <3>1. HEAP_MAX \in Nat /\ ALIGN \in Nat \ {0}
      BY SizesAssumption
    <3>2. AlignUp(n, ALIGN) \in Nat
      BY <3>1, AlignUpBounds
    <3> QED BY <1>3, <3>1, <3>2
  <2>3. HeapStart \in Blocks
    BY DEF IInv, Booted
  <2>4. Typed'
    BY <1>1, <2>1, <2>2, <2>3 DEF IInv, Typed, Blocks
  <2>5. Tiled(meta, HeapEnd)' /\ Owned'
    BY <1>1 DEF IInv, Owned, Blocks, Tiled, Headers, Behind
  <2>6. Booted' /\ FramesBacked'
    BY <1>1, <2>1 DEF IInv, Booted, FramesBacked, Blocks
  <2>7. InCall'
    <3>1. \A b \in Blocks : ~(b < HeapStart) /\ HeapStart # NULL
      BY Region DEF IInv, Tiled, Blocks, NULL
    <3>2. /\ call'.bytes = bytes /\ call'.size = AlignUp(bytes, ALIGN)
          /\ call'.op = op /\ call'.old = old
      BY <2>1, <2>2
    <3> QED BY <1>1, <2>1, <2>2, <3>1, <3>2 DEF InCall, Blocks
  <2> QED BY <2>4, <2>5, <2>6, <2>7 DEF IInv
<1> QED BY <1>2, <1>3

LEMMA ScanSkipKeeps ==
  ASSUME IInv, ScanSkip
  PROVE  IInv'
<1>1. /\ pc = "scan" /\ pc' = "scan" /\ cursor' = meta[cursor].next
      /\ ~Fits(cursor, call.size) /\ cursor \in Blocks
      /\ UNCHANGED <<meta, HeapEnd, frames, call, live>>
  BY DEF ScanSkip, IInv, Typed
<1>2. meta[cursor].next \in Blocks \cup {NULL}
  BY <1>1, BlockFacts, Region DEF IInv, Blocks
<1>3. Typed'
  BY <1>1, <1>2 DEF IInv, Typed, Blocks
<1>4. Tiled(meta, HeapEnd)' /\ Owned'
  BY <1>1 DEF IInv, Owned, Blocks, Tiled, Headers, Behind
<1>5. Booted' /\ FramesBacked'
  BY <1>1 DEF IInv, Booted, FramesBacked, Blocks
<1>6. ASSUME NEW b \in Blocks, cursor' = NULL \/ b < cursor'
      PROVE  ~Fits(b, call.size)
  <2>1. b = cursor \/ b < cursor \/ cursor < b
    BY <1>1, BlockFacts, Region DEF IInv, Blocks
  <2>2. CASE cursor < b
    <3>1. Behind(meta, cursor) <= b /\ b < HeapEnd
      <4>1. b < Behind(meta, b) /\ Behind(meta, b) <= HeapEnd /\ b \in Nat
            /\ Behind(meta, b) \in Nat
        BY Region, BlockFacts DEF IInv, Blocks
      <4> QED BY <1>1, <2>2, <4>1, Region DEF IInv, Tiled, Blocks
    <3>2. b \in Nat /\ Behind(meta, cursor) \in Nat
          /\ (meta[cursor].next = NULL => Behind(meta, cursor) = HeapEnd)
          /\ (meta[cursor].next # NULL => Behind(meta, cursor) = meta[cursor].next)
      BY <1>1, Region, BlockFacts DEF IInv, Blocks
    <3> QED BY <1>1, <1>6, <3>1, <3>2, Region
  <2>3. cursor # NULL /\ (b < cursor => ~Fits(b, call.size))
    BY <1>1 DEF IInv, InCall, ScanSkip
  <2> QED BY <1>1, <2>1, <2>2, <2>3
<1>7. InCall'
  <2>1. \A b \in Blocks : (cursor' = NULL \/ b < cursor') => ~Fits(b, call.size)
    BY <1>6
  <2> QED BY <1>1, <2>1 DEF IInv, InCall, Blocks, Fits
<1> QED BY <1>3, <1>4, <1>5, <1>7 DEF IInv

\* alloc takes the first block that fits, and cuts off what it does not need.
LEMMA ScanTakeKeeps ==
  ASSUME IInv, ScanTake
  PROVE  IInv'
<1> DEFINE m == Split(meta, cursor, call.size)
           p == Ptr(cursor)
<1>1. /\ pc = "scan" /\ cursor \in Blocks /\ Fits(cursor, call.size)
      /\ meta' = [m EXCEPT ![cursor].free = FALSE]
      /\ live' = [q \in DOMAIN live \cup {p} |-> IF q = p THEN call.bytes ELSE live[q]]
      /\ \/ call.op = "realloc" /\ pc' = "copy" /\ UNCHANGED <<call, cursor>>
         \/ call.op # "realloc" /\ pc' = "idle" /\ call' = NoCall /\ cursor' = NULL
      /\ UNCHANGED <<HeapEnd, frames>>
  BY DEF ScanTake, Return, IInv, Typed
<1>2. /\ 0 < call.bytes /\ call.size = AlignUp(call.bytes, ALIGN)
      /\ call.op = "realloc" => call.old \in DOMAIN live
      /\ call.bytes \in Nat /\ call.size \in Nat /\ call.bytes <= call.size
      /\ call \in [op : Ops, bytes : Nat, size : Nat, old : Nat]
  <2>1. call \in [op : Ops, bytes : Nat, size : Nat, old : Nat]
    BY DEF IInv, Typed
  <2>2. /\ 0 < call.bytes /\ call.size = AlignUp(call.bytes, ALIGN)
        /\ call.op = "realloc" => call.old \in DOMAIN live
    BY <1>1 DEF IInv, InCall
  <2>3. call.bytes <= AlignUp(call.bytes, ALIGN)
    BY <2>1, SizesAssumption, AlignUpBounds
  <2> QED BY <2>1, <2>2, <2>3
<1>3. /\ Tiled(m, HeapEnd) /\ Blocks \subseteq DOMAIN m
      /\ call.size <= m[cursor].size /\ m[cursor].size < call.size + META_SIZE + ALIGN
      /\ \A a \in Blocks : a # cursor => m[a] = meta[a]
      /\ \A a \in DOMAIN m \ Blocks : m[a].free
  <2>1. Tiled(meta, HeapEnd) /\ HeapEnd \in Nat /\ meta[cursor].free
        /\ meta[cursor].size >= call.size
    BY <1>1 DEF IInv, Typed, Fits
  <2>2. call.size <= meta[cursor].size
    BY <1>1, <1>2, <2>1, BlockFacts DEF Blocks
  <2> QED BY <1>1, <1>2, <2>1, <2>2, SplitTiles DEF Blocks
<1>4. /\ Tiled(meta', HeapEnd') /\ Blocks' = DOMAIN m
      /\ meta'[cursor].size = m[cursor].size /\ meta'[cursor].free = FALSE
      /\ \A a \in DOMAIN m : a # cursor => meta'[a] = m[a]
  <2> HIDE DEF m
  <2>1. cursor \in DOMAIN m /\ HeapEnd \in Nat /\ FALSE \in BOOLEAN
    BY <1>1, <1>3, Region
  <2> QED BY <1>1, <1>3, <2>1, MarkTiles DEF Blocks
<1> HIDE DEF m
<1>5. /\ p \notin DOMAIN live /\ p \in Nat
      /\ DOMAIN live' = DOMAIN live \cup {p} /\ live'[p] = call.bytes
      /\ \A q \in DOMAIN live : live'[q] = live[q]
  <2>1. p \notin DOMAIN live
    BY <1>1, Pointers DEF Fits
  <2>2. p \in Nat
    BY <1>1, Region DEF Ptr, IInv, Tiled, Blocks
  <2> HIDE DEF p
  <2> QED BY <1>1, <2>1, <2>2
<1>6. {a \in Blocks' : ~meta'[a].free} = {a \in Blocks : ~meta[a].free} \cup {cursor}
  BY <1>1, <1>3, <1>4
<1>7. Owned'
  <2>1. DOMAIN live' = {Ptr(b) : b \in {a \in Blocks' : ~meta'[a].free}}
    <3>1. DOMAIN live = {Ptr(b) : b \in {a \in Blocks : ~meta[a].free}}
      BY DEF IInv, Owned
    <3> QED BY <1>5, <1>6, <3>1
  <2>2. ASSUME NEW b \in Blocks', ~meta'[b].free
        PROVE  /\ 0 < live'[Ptr(b)] /\ live'[Ptr(b)] <= meta'[b].size
               /\ meta'[b].size < AlignUp(live'[Ptr(b)], ALIGN) + META_SIZE + ALIGN
    <3>1. CASE b = cursor
      <4>1. meta'[b].size \in Nat
        BY <1>4, <3>1, BlockFacts, Region, <1>1 DEF Blocks, IInv
      <4> QED BY <1>2, <1>3, <1>4, <1>5, <3>1, <4>1
    <3>2. CASE b # cursor
      <4>1. b \in Blocks /\ meta'[b] = meta[b] /\ ~meta[b].free
        BY <1>3, <1>4, <2>2, <3>2
      <4>2. Ptr(b) \in DOMAIN live /\ live'[Ptr(b)] = live[Ptr(b)]
        BY <1>5, <4>1, Pointers
      <4> QED BY <4>1, <4>2 DEF IInv, Owned
    <3> QED BY <3>1, <3>2
  <2> QED BY <2>1, <2>2 DEF Owned
<1>8. Typed'
  <2>1. live' \in [DOMAIN live' -> Nat]
    <3>1. live' = [q \in DOMAIN live' |-> live'[q]]
      BY <1>1, <1>5
    <3>2. \A q \in DOMAIN live' : live'[q] \in Nat
      BY <1>2, <1>5 DEF IInv, Typed
    <3> QED BY <3>1, <3>2
  <2>2. call' \in [op : Ops, bytes : Nat, size : Nat, old : Nat]
    BY <1>1, <1>2 DEF NoCall, Ops, NULL
  <2>3. cursor' \in Blocks' \cup {NULL}
    BY <1>1, <1>3, <1>4
  <2>4. pc' \in {"copy", "idle"} /\ HeapEnd' \in Nat /\ frames' \in Nat
    BY <1>1, Region
  <2> QED BY <2>1, <2>2, <2>3, <2>4 DEF Typed
<1>9. Booted' /\ FramesBacked'
  <2>1. HeapStart \in Blocks' /\ pc' \in {"copy", "idle"}
    BY <1>1, <1>3, <1>4 DEF IInv, Booted
  <2> QED BY <1>1, <2>1 DEF Booted, IInv, FramesBacked
<1>10. InCall'
  <2>1. CASE pc' = "idle"
    BY <2>1 DEF InCall
  <2>2. CASE pc' = "copy"
    <3>1. cursor # NULL /\ call.op = "realloc" /\ UNCHANGED <<call, cursor>>
      BY <1>1, <2>2 DEF ScanTake
    <3>2. call.size <= meta'[cursor].size /\ call.old \in DOMAIN live'
      BY <1>2, <1>3, <1>4, <1>5, <3>1
    <3> QED BY <1>2, <2>2, <3>1, <3>2 DEF InCall
  <2> QED BY <1>1, <2>1, <2>2
<1> QED BY <1>4, <1>7, <1>8, <1>9, <1>10 DEF IInv

\* The frames that grow takes: enough for the bytes wanted and a header.
LEMMA GrownHolds ==
  ASSUME IInv
  PROVE  /\ Grown \in Nat /\ Grown * FRAME_SIZE \in Nat
         /\ call.size + META_SIZE <= Grown * FRAME_SIZE
<1>1. call.size \in Nat /\ META_SIZE \in Nat
  BY SizesAssumption DEF IInv, Typed
<1>2. call.size + META_SIZE \in Nat
  BY <1>1
<1> QED BY <1>2, PagesHold DEF Grown

LEMMA GrowFramesKeeps ==
  ASSUME IInv, GrowFrames
  PROVE  IInv'
<1>1. /\ pc = "scan" /\ pc' = "map" /\ ~TooBig(Grown) /\ frames' = frames + Grown
      /\ UNCHANGED <<meta, HeapEnd, call, cursor, live>>
  BY DEF GrowFrames, ScanEnds
<1>2. Grown' = Grown /\ TooBig(Grown)' = TooBig(Grown)
  BY <1>1 DEF Grown, TooBig
<1>3. /\ frames' \in Nat
      /\ frames' * FRAME_SIZE = HeapEnd - HeapStart + Grown * FRAME_SIZE
  BY <1>1, GrownHolds, Region
<1>4. Typed'
  BY <1>1, <1>3 DEF IInv, Typed, Blocks
<1>5. Tiled(meta, HeapEnd)' /\ Owned' /\ Booted'
  BY <1>1 DEF IInv, Owned, Booted, Blocks, Tiled, Headers, Behind
<1>6. FramesBacked'
  <2>1. HeapEnd' = HeapEnd /\ HeapEnd - HeapStart <= HEAP_MAX
    BY <1>1, Region
  <2> QED BY <1>1, <1>2, <1>3, <2>1 DEF FramesBacked
<1>7. InCall'
  BY <1>1, <1>2 DEF IInv, InCall
<1> QED BY <1>4, <1>5, <1>6, <1>7 DEF IInv

\* A growth whose pages cannot be mapped leaves the heap as it was.
LEMMA MapFailsKeeps ==
  ASSUME IInv, MapFails
  PROVE  IInv'
<1>1. /\ pc = "map" /\ frames' = frames - Grown
      /\ UNCHANGED <<meta, HeapEnd, live>>
      /\ pc' \in {"idle", "panic"} /\ call' = NoCall /\ cursor' = NULL
  BY DEF MapFails, FramesBack, ReturnNull, Return
<1>2. /\ Grown \in Nat /\ frames \in Nat /\ FRAME_SIZE \in Nat /\ FRAME_SIZE > 0
      /\ HeapEnd - HeapStart \in Nat
      /\ frames * FRAME_SIZE = HeapEnd - HeapStart + Grown * FRAME_SIZE
  BY <1>1, Region, GrownHolds
<1>3. Grown <= frames
  <2> SUFFICES ASSUME frames <= Grown - 1 PROVE FALSE
    BY <1>2
  <2>1. frames * FRAME_SIZE <= (Grown - 1) * FRAME_SIZE
    BY <1>2
  <2> QED BY <1>2, <2>1
<1>4. frames' \in Nat /\ frames' * FRAME_SIZE = HeapEnd - HeapStart
  BY <1>1, <1>2, <1>3
<1> QED BY <1>1, <1>4, ReturnKeeps

\* A growth that succeeds appends a block in which the request fits.
LEMMA MapDoneKeeps ==
  ASSUME IInv, MapDone
  PROVE  IInv' /\ \E b \in Blocks' : meta'[b].free /\ meta'[b].size >= call.size
<1> DEFINE bytes == Grown * FRAME_SIZE
           data  == bytes - META_SIZE
<1>1. /\ pc = "map" /\ pc' = "scan" /\ cursor' = HeapStart
      /\ meta' = Append(meta, HeapEnd, data)
      /\ HeapEnd' = HeapEnd + bytes
      /\ UNCHANGED <<frames, call, live>>
  BY DEF MapDone
<1>2. /\ HeapStart \in Nat /\ HeapStart > 0 /\ HeapEnd \in Nat /\ HeapStart <= HeapEnd
      /\ META_SIZE \in Nat /\ HEAP_MAX \in Nat /\ frames \in Nat
      /\ bytes \in Nat /\ call.size + META_SIZE <= bytes /\ call.size \in Nat
      /\ frames * FRAME_SIZE = HeapEnd - HeapStart + bytes
  BY <1>1, Region, GrownHolds DEF IInv, Typed
<1>3. HeapEnd + bytes <= HeapStart + HEAP_MAX
  BY <1>1, <1>2 DEF IInv, InCall, TooBig
<1> HIDE DEF bytes
<1>4. data \in Nat /\ call.size <= data /\ HeapEnd' = HeapEnd + META_SIZE + data
  BY <1>1, <1>2
<1> HIDE DEF data
<1>5. /\ Tiled(meta', HeapEnd') /\ HeapEnd \notin Blocks
      /\ Blocks' = Blocks \cup {HeapEnd}
      /\ meta'[HeapEnd].size = data /\ meta'[HeapEnd].free
      /\ \A a \in Blocks : meta'[a].size = meta[a].size /\ (meta'[a].free <=> meta[a].free)
  <2> DEFINE m == Append(meta, HeapEnd, data)
  <2>1. Tiled(meta, HeapEnd)
    BY DEF IInv
  <2>2. /\ Tiled(m, HeapEnd + META_SIZE + data) /\ HeapEnd \notin DOMAIN meta
        /\ DOMAIN m = DOMAIN meta \cup {HeapEnd}
        /\ m[HeapEnd].size = data /\ m[HeapEnd].free
        /\ \A a \in DOMAIN meta : m[a].size = meta[a].size /\ (m[a].free <=> meta[a].free)
    BY <1>2, <1>4, <2>1, AppendTiles
  <2> HIDE DEF m
  <2>3. meta' = m
    BY <1>1 DEF m
  <2> QED BY <1>4, <2>2, <2>3 DEF Blocks
<1>6. Typed'
  BY <1>1, <1>2, <1>4, <1>5 DEF IInv, Typed, Booted
<1>7. Booted'
  BY <1>1, <1>5 DEF IInv, Booted
<1>8. Owned'
  <2>1. {a \in Blocks' : ~meta'[a].free} = {a \in Blocks : ~meta[a].free}
    BY <1>5
  <2> QED BY <1>1, <1>5, <2>1 DEF IInv, Owned
<1>9. FramesBacked'
  BY <1>1, <1>2, <1>3 DEF FramesBacked, bytes
<1>10. InCall'
  <2>1. \A b \in Blocks' : ~(b < HeapStart)
    BY <1>2, <1>5 DEF Tiled, Blocks
  <2> QED BY <1>1, <1>2, <2>1 DEF IInv, InCall, NULL
<1> QED BY <1>4, <1>5, <1>6, <1>7, <1>8, <1>9, <1>10, <1>2 DEF IInv

LEMMA CopyOverrunsKeeps ==
  ASSUME IInv, CopyOverruns
  PROVE  IInv'
<1>1. /\ pc = "copy" /\ pc' = "corrupt"
      /\ meta[Block(call.old)].size > meta[cursor].size
      /\ UNCHANGED <<meta, HeapEnd, frames, call, cursor, live>>
  BY DEF CopyOverruns
<1>2. Typed' /\ Booted' /\ FramesBacked'
  BY <1>1 DEF IInv, Typed, Booted, FramesBacked, Blocks
<1>3. Tiled(meta, HeapEnd)' /\ Owned'
  BY <1>1 DEF IInv, Owned, Blocks, Tiled, Headers, Behind
<1>4. InCall'
  BY <1>1 DEF IInv, InCall, Block
<1> QED BY <1>2, <1>3, <1>4 DEF IInv

\* free, and the end of realloc, take a block out of use.
LEMMA ReleaseKeeps ==
  ASSUME IInv, pc \in {"idle", "copy"}, NEW p \in DOMAIN live, Release(p)
  PROVE  IInv'
<1> DEFINE b == Block(p)
<1>1. /\ meta' = [meta EXCEPT ![b].free = TRUE]
      /\ live' = [q \in DOMAIN live \ {p} |-> live[q]]
      /\ pc' = "cleanup" /\ cursor' = HeapStart
      /\ UNCHANGED <<HeapEnd, frames, call>>
  BY DEF Release
<1>2. b \in Blocks /\ ~meta[b].free /\ Ptr(b) = p
  BY Pointers
<1> HIDE DEF b
<1>3. /\ Tiled(meta', HeapEnd') /\ Blocks' = Blocks
      /\ meta'[b].size = meta[b].size /\ meta'[b].free = TRUE
      /\ \A a \in Blocks : a # b => meta'[a] = meta[a]
  <2>1. TRUE \in BOOLEAN /\ Tiled(meta, HeapEnd) /\ HeapEnd \in Nat
    BY Region DEF IInv
  <2> QED BY <1>1, <1>2, <2>1, MarkTiles DEF Blocks
<1>4. /\ DOMAIN live' = DOMAIN live \ {p}
      /\ \A q \in DOMAIN live' : live'[q] = live[q]
  BY <1>1
<1>5. HeapStart \in Blocks
  BY DEF IInv, Booted
<1>6. Typed'
  <2>1. live' \in [DOMAIN live' -> Nat]
    BY <1>1, <1>4 DEF IInv, Typed
  <2> QED BY <1>1, <1>3, <1>5, <2>1 DEF IInv, Typed
<1>7. Booted' /\ FramesBacked'
  BY <1>1, <1>3, <1>5 DEF IInv, Booted, FramesBacked
<1>8. Owned'
  <2>1. \A a \in Blocks : Ptr(a) = p => a = b
    BY <1>2, Pointers
  <2>2. {a \in Blocks' : ~meta'[a].free} = {a \in Blocks : ~meta[a].free} \ {b}
    BY <1>3
  <2>3. DOMAIN live' = {Ptr(a) : a \in {a \in Blocks' : ~meta'[a].free}}
    BY <1>2, <1>4, <2>1, <2>2 DEF IInv, Owned
  <2>4. ASSUME NEW a \in Blocks', ~meta'[a].free
        PROVE  a \in Blocks /\ a # b /\ meta'[a] = meta[a] /\ live'[Ptr(a)] = live[Ptr(a)]
    <3>1. a \in Blocks /\ a # b /\ meta'[a] = meta[a]
      BY <1>3, <2>4
    <3>2. Ptr(a) \in DOMAIN live'
      BY <1>4, <2>1, <2>4, <3>1, Pointers
    <3> QED BY <1>4, <3>1, <3>2
  <2> QED BY <2>3, <2>4 DEF IInv, Owned
<1>9. InCall'
  <2>1. HeapStart # NULL /\ \A a \in Blocks' : ~(a < HeapStart)
    BY <1>3, Region DEF IInv, Tiled, Blocks, NULL
  <2> QED BY <1>1, <2>1 DEF InCall
<1> QED BY <1>3, <1>6, <1>7, <1>8, <1>9 DEF IInv

\* Behind the last block of the list there is no other, and two blocks of which
\* one is next to the other have none between them.
LEMMA Neighbours ==
  ASSUME IInv, NEW a \in Blocks, NEW b \in Blocks, a < b
  PROVE  meta[a].next # NULL /\ meta[a].next \in Blocks /\ meta[a].next <= b
<1>1. /\ a \in Nat /\ b \in Nat /\ b < Behind(meta, b) /\ Behind(meta, b) <= HeapEnd
      /\ Behind(meta, b) \in Nat /\ HeapEnd \in Nat
      /\ meta[a].next = NULL => Behind(meta, a) = HeapEnd
      /\ meta[a].next # NULL => meta[a].next \in Blocks /\ Behind(meta, a) = meta[a].next
  BY Region, BlockFacts DEF IInv, Blocks
<1>2. Behind(meta, a) <= b
  BY DEF IInv, Tiled, Blocks
<1> QED BY <1>1, <1>2

LEMMA CleanupMergeKeeps ==
  ASSUME IInv, CleanupMerge
  PROVE  IInv'
<1>1. /\ pc = "cleanup" /\ pc' = "cleanup" /\ cursor # NULL /\ cursor \in Blocks
      /\ meta[cursor].next # NULL /\ BothFree(cursor)
      /\ meta' = Merge(meta, cursor) /\ cursor' = cursor
      /\ UNCHANGED <<HeapEnd, frames, call, live>>
  BY DEF CleanupMerge, AfterMerge, Last, IInv, Typed, InCall
<1> DEFINE m    == Merge(meta, cursor)
           gone == meta[cursor].next
<1>2. Tiled(meta, HeapEnd) /\ HeapEnd \in Nat
  BY Region DEF IInv
<1>3. /\ Tiled(m, HeapEnd) /\ cursor \in DOMAIN m
      /\ DOMAIN m = DOMAIN meta \ {gone}
      /\ (m[cursor].free <=> meta[cursor].free) /\ m[cursor].next = meta[gone].next
      /\ \A a \in DOMAIN m : a # cursor => m[a] = meta[a]
  BY <1>1, <1>2, MergeTiles DEF Blocks
<1> HIDE DEF m
<1>4. meta' = m
  BY <1>1 DEF m
<1>5. /\ gone \in Blocks /\ gone \in Nat /\ cursor \in Nat /\ cursor < gone
      /\ meta[cursor].free /\ meta[gone].free
  BY <1>1, <1>2, BlockFacts DEF Blocks, BothFree
<1> HIDE DEF gone
<1>6. Typed'
  BY <1>1, <1>3, <1>4 DEF IInv, Typed, Blocks
<1>7. Booted' /\ FramesBacked'
  <2>1. HeapStart \in Blocks' /\ Blocks' # {}
    <3>1. HeapStart \in Blocks /\ HeapStart <= cursor
      BY <1>1, <1>2, BlockFacts DEF IInv, Booted, Blocks
    <3>2. HeapStart # gone
      BY <1>5, <3>1, Region
    <3> QED BY <1>3, <1>4, <3>1, <3>2 DEF Blocks
  <2> QED BY <1>1, <2>1 DEF IInv, Booted, FramesBacked
<1>8. Owned'
  <2>1. /\ {a \in Blocks' : ~meta'[a].free} = {a \in Blocks : ~meta[a].free}
        /\ \A a \in Blocks' : ~meta'[a].free => a # cursor /\ a \in Blocks /\ meta'[a] = meta[a]
    BY <1>3, <1>4, <1>5 DEF Blocks
  <2> QED BY <1>1, <2>1 DEF IInv, Owned
<1>9. InCall'
  <2>1. ASSUME NEW b \in Blocks', b < cursor
        PROVE  Last(b)' \/ ~BothFree(b)'
    <3>1. b \in Blocks /\ b # cursor /\ meta'[b] = meta[b] /\ b # NULL
      BY <1>2, <1>3, <1>4, <1>5, <2>1 DEF Blocks, Tiled
    <3>2. meta[b].next \in Blocks /\ meta[b].next # NULL /\ meta[b].next <= cursor
      BY <1>1, <2>1, <3>1, Neighbours
    <3>3. ~meta[b].free \/ ~meta[meta[b].next].free
      BY <1>1, <2>1, <3>1, <3>2 DEF IInv, InCall, Last, BothFree
    <3>4. meta[b].next \in Nat /\ meta[b].next \in Blocks'
      BY <1>2, <1>3, <1>4, <1>5, <3>2 DEF Blocks, Tiled
    <3>5. meta'[meta[b].next].free <=> meta[meta[b].next].free
      BY <1>3, <1>4, <3>4 DEF Blocks
    <3> QED BY <3>1, <3>3, <3>5 DEF BothFree
  <2> QED BY <1>1, <2>1 DEF InCall
<1> QED BY <1>1, <1>3, <1>4, <1>6, <1>7, <1>8, <1>9 DEF IInv

LEMMA CleanupAdvanceKeeps ==
  ASSUME IInv, CleanupAdvance
  PROVE  IInv'
<1>1. /\ pc = "cleanup" /\ pc' = "cleanup" /\ cursor # NULL /\ cursor \in Blocks
      /\ meta[cursor].next # NULL /\ ~BothFree(cursor)
      /\ cursor' = meta[cursor].next
      /\ UNCHANGED <<meta, HeapEnd, frames, call, live>>
  BY DEF CleanupAdvance, Last, IInv, Typed, InCall
<1>2. cursor' \in Blocks /\ \A b \in Blocks : cursor < b => cursor' <= b
  BY <1>1, BlockFacts, Neighbours, Region DEF IInv, Blocks
<1>3. Typed'
  BY <1>1, <1>2 DEF IInv, Typed, Blocks
<1>4. Tiled(meta, HeapEnd)' /\ Owned' /\ Booted' /\ FramesBacked'
  BY <1>1 DEF IInv, Owned, Booted, FramesBacked, Blocks, Tiled, Headers, Behind
<1>5. InCall'
  <2>1. ASSUME NEW b \in Blocks, b < cursor'
        PROVE  Last(b) \/ ~BothFree(b)
    <3>1. b \in Nat /\ cursor \in Nat /\ cursor' \in Nat
      BY <1>1, <1>2 DEF IInv, Tiled, Blocks
    <3>2. b = cursor \/ b < cursor
      BY <1>2, <2>1, <3>1
    <3> QED BY <1>1, <3>2 DEF IInv, InCall
  <2> QED BY <1>1, <2>1 DEF InCall, Blocks, Last, BothFree
<1> QED BY <1>3, <1>4, <1>5 DEF IInv
-------------------------------------------------------------------------------
\* Every step of every call keeps the invariant.
LEMMA NextKeeps == IInv /\ [Next]_vars => IInv'
<1> SUFFICES ASSUME IInv, [Next]_vars PROVE IInv'
  OBVIOUS
<1>1. CASE HeapInit
  BY <1>1, InitKeeps
<1>2. CASE HeapInitPanics
  <2>1. pc = "boot" /\ pc' = "panic" /\ UNCHANGED <<meta, HeapEnd, frames, call, cursor, live>>
    BY <1>2 DEF HeapInitPanics
  <2>2. Typed' /\ Booted' /\ FramesBacked' /\ InCall'
    BY <2>1 DEF IInv, Typed, Booted, FramesBacked, InCall, Blocks
  <2>3. Tiled(meta, HeapEnd)' /\ Owned'
    BY <2>1 DEF IInv, Owned, Blocks, Tiled, Headers, Behind
  <2> QED BY <2>2, <2>3 DEF IInv
<1>3. CASE Alloc
  <2>1. PICK op \in {"alloc", "new"}, n \in Sizes : Enter(op, n, n, NULL)
    BY <1>3 DEF Alloc
  <2>2. pc = "idle" /\ n \in Nat /\ NULL \in Nat /\ op \in Ops /\ op # "realloc"
    BY <1>3, InputsAssumption DEF Alloc, NULL, Ops
  <2> QED BY <2>1, <2>2, EnterKeeps
<1>4. CASE Calloc
  <2>1. PICK count \in Counts, size \in Sizes :
          /\ ~CallocRefuses(count, size)
          /\ Enter("calloc", count * size, (count * size) % SIZE_MOD, NULL)
    BY <1>4 DEF Calloc
  <2> DEFINE bytes == count * size
  <2>2. bytes \in Nat /\ (count * size) % SIZE_MOD = bytes
    BY <2>1, InputsAssumption, CallocExact
  <2>3. pc = "idle" /\ NULL \in Nat /\ "calloc" \in Ops
    BY <1>4 DEF Calloc, NULL, Ops
  <2>4. Enter("calloc", bytes, bytes, NULL)
    BY <2>1, <2>2
  <2> HIDE DEF bytes
  <2> QED BY <2>2, <2>3, <2>4, EnterKeeps
<1>5. CASE Realloc
  <2>1. PICK p \in DOMAIN live, n \in Sizes : Enter("realloc", n, n, p)
    BY <1>5 DEF Realloc
  <2>2. pc = "idle" /\ n \in Nat /\ p \in Nat /\ "realloc" \in Ops
    BY <1>5, InputsAssumption, Pointers DEF Realloc, Ops
  <2> QED BY <2>1, <2>2, EnterKeeps
<1>6. CASE Free
  BY <1>6, ReleaseKeeps DEF Free
<1>7. CASE ScanSkip \/ ScanTake
  BY <1>7, ScanSkipKeeps, ScanTakeKeeps
<1>8. CASE GrowTooBig \/ NoFrames
  <2>1. /\ pc = "scan" /\ UNCHANGED <<meta, HeapEnd, frames, live>>
        /\ pc' \in {"idle", "panic"} /\ call' = NoCall /\ cursor' = NULL
    BY <1>8 DEF GrowTooBig, NoFrames, ScanEnds, ReturnNull, Return
  <2> QED BY <2>1, Region, ReturnKeeps
<1>9. CASE GrowFrames \/ MapFails \/ MapDone
  BY <1>9, GrowFramesKeeps, MapFailsKeeps, MapDoneKeeps
<1>10. CASE Copy
  <2>1. pc = "copy" /\ call.old \in DOMAIN live /\ Release(call.old)
    BY <1>10 DEF Copy, IInv, InCall
  <2> QED BY <2>1, ReleaseKeeps
<1>11. CASE CopyOverruns
  BY <1>11, CopyOverrunsKeeps
<1>12. CASE CleanupMerge \/ CleanupAdvance
  BY <1>12, CleanupMergeKeeps, CleanupAdvanceKeeps
<1>13. CASE CleanupEnds
  <2>1. /\ pc = "cleanup" /\ UNCHANGED <<meta, HeapEnd, frames, live>>
        /\ pc' = "idle" /\ call' = NoCall /\ cursor' = NULL
    BY <1>13 DEF CleanupEnds, Return
  <2> QED BY <2>1, Region, ReturnKeeps
<1>14. CASE Halted \/ UNCHANGED vars
  <2>1. UNCHANGED <<meta, HeapEnd, frames, pc, call, cursor, live>>
    BY <1>14 DEF Halted, vars
  <2>2. Typed' /\ Booted' /\ FramesBacked' /\ InCall'
    BY <2>1 DEF IInv, Typed, Booted, FramesBacked, InCall, Blocks, Grown, TooBig, Fits, Last,
                BothFree, Block
  <2>3. Tiled(meta, HeapEnd)' /\ Owned'
    BY <2>1 DEF IInv, Owned, Blocks, Tiled, Headers, Behind
  <2> QED BY <2>2, <2>3 DEF IInv
<1> QED
  BY <1>1, <1>2, <1>3, <1>4, <1>5, <1>6, <1>7, <1>8, <1>9, <1>10, <1>11, <1>12, <1>13, <1>14
  DEF Next, Work

THEOREM Invariance == Spec => []IInv
<1> QED BY Initially, NextKeeps, PTL DEF Spec

LEMMA DeniedTyped == Spec => [](denied \in BOOLEAN)
<1>1. Init => denied \in BOOLEAN
  BY DEF Init
<1>2. denied \in BOOLEAN /\ [Next]_vars => (denied \in BOOLEAN)'
  BY DEF Next, Work, vars, HeapInit, HeapInitPanics, Alloc, Calloc, Realloc, Enter, Free, Release,
         ScanSkip, ScanTake, GrowTooBig, NoFrames, GrowFrames, MapFails, MapDone, Copy, CopyOverruns,
         CleanupMerge, CleanupAdvance, CleanupEnds, Halted
<1> QED BY <1>1, <1>2, PTL DEF Spec

(***************************************************************************)
(* The heap is in order in every state: its list is closed and tiles the   *)
(* region from HeapStart to HeapEnd, each object has a block of its own    *)
(* that is large enough and not wastefully large, and the frames taken are *)
(* the ones the region is made of.                                         *)
(***************************************************************************)
THEOREM HeapInOrder == Spec => []HeapInv
<1>1. IInv /\ denied \in BOOLEAN => HeapInv
  <2> SUFFICES ASSUME IInv, denied \in BOOLEAN PROVE HeapInv
    OBVIOUS
  <2>1. Tiled(meta, HeapEnd) /\ HeapEnd \in Nat /\ HeapStart \in Nat
    BY Region DEF IInv
  <2>2. TypeOK
    <3>1. Blocks \subseteq Nat \ {NULL}
      BY <2>1 DEF Tiled, Blocks
    <3>2. \A b \in Blocks : /\ meta[b].size \in Nat /\ meta[b].free \in BOOLEAN
                            /\ meta[b].next \in Blocks \cup {NULL}
      BY <2>1, BlockFacts DEF Blocks
    <3>3. pc = "copy" => cursor # NULL /\ call.old \in DOMAIN live
      BY DEF IInv, InCall
    <3>4. \A p \in DOMAIN live : Block(p) \in Blocks /\ live[p] \in Nat
      BY Pointers DEF IInv, Typed
    <3> QED BY <3>1, <3>2, <3>3, <3>4 DEF TypeOK, IInv, Typed
  <2>3. Tiling
    <3>1. \A b \in Blocks : After(b) = Behind(meta, b)
      BY DEF After, Behind
    <3> QED BY <2>1, <3>1 DEF Tiling, Tiled, IInv, Booted, Blocks
  <2>4. LiveBlocks
    <3>1. ASSUME NEW p \in DOMAIN live
          PROVE  /\ live[p] <= meta[Block(p)].size
                 /\ meta[Block(p)].size < AlignUp(live[p], ALIGN) + META_SIZE + ALIGN
      <4>1. Block(p) \in Blocks /\ ~meta[Block(p)].free /\ Ptr(Block(p)) = p
        BY Pointers
      <4> QED BY <4>1 DEF IInv, Owned
    <3> QED BY <3>1 DEF LiveBlocks, IInv, Owned
  <2> QED BY <2>2, <2>3, <2>4 DEF HeapInv, IInv
<1> QED BY <1>1, Invariance, DeniedTyped, PTL

(***************************************************************************)
(* When realloc writes past its new block, it was asked for little more    *)
(* than before: the two sizes, rounded up, are less than META_SIZE + ALIGN *)
(* apart, for every alignment and every header.                            *)
(***************************************************************************)
THEOREM OverrunsOnlyWhenClose == Spec => []OverrunsWhenClose
<1>1. IInv => OverrunsWhenClose
  <2> SUFFICES ASSUME IInv, pc = "corrupt"
               PROVE  AlignUp(call.bytes, ALIGN) < AlignUp(live[call.old], ALIGN) + META_SIZE + ALIGN
    BY DEF OverrunsWhenClose
  <2> DEFINE old  == Block(call.old)
             most == AlignUp(live[call.old], ALIGN) + META_SIZE + ALIGN
  <2>1. /\ call.size = AlignUp(call.bytes, ALIGN) /\ call.old \in DOMAIN live
        /\ cursor \in Blocks /\ call.size <= meta[cursor].size
        /\ meta[old].size > meta[cursor].size /\ call.size \in Nat
    BY DEF IInv, InCall, Typed
  <2>2. old \in Blocks /\ ~meta[old].free /\ Ptr(old) = call.old
    BY <2>1, Pointers
  <2>3. meta[old].size < most
    BY <2>2 DEF IInv, Owned
  <2>4. most \in Nat
    <3>1. live[call.old] \in Nat /\ ALIGN \in Nat \ {0} /\ META_SIZE \in Nat
      BY <2>1, SizesAssumption DEF IInv, Typed
    <3>2. AlignUp(live[call.old], ALIGN) \in Nat
      BY <3>1, AlignUpBounds
    <3> QED BY <3>1, <3>2
  <2> HIDE DEF most, old
  <2>5. meta[old].size \in Nat /\ meta[cursor].size \in Nat
    BY <2>1, <2>2, Region, BlockFacts DEF IInv, Blocks
  <2>6. call.size < most
    BY <2>1, <2>3, <2>4, <2>5
  <2> QED BY <2>1, <2>6 DEF most
<1> QED BY <1>1, Invariance, PTL

(***************************************************************************)
(* One pass of the cleanup is enough: when free returns, no block and its  *)
(* successor are both free.                                                *)
(***************************************************************************)
THEOREM CleanupCoalesces == Spec => Coalesced
<1>1. IInv /\ [Next]_vars =>
        (pc = "cleanup" /\ pc' # "cleanup" => \A b \in Blocks : Last(b) \/ ~BothFree(b))
  <2> SUFFICES ASSUME IInv, [Next]_vars, pc = "cleanup", pc' # "cleanup", NEW b \in Blocks
               PROVE  Last(b) \/ ~BothFree(b)
    OBVIOUS
  <2>1. Last(cursor)
    BY DEF Next, Work, vars, HeapInit, HeapInitPanics, Alloc, Calloc, Realloc, Free, ScanSkip,
           ScanTake, ScanEnds, GrowTooBig, NoFrames, GrowFrames, MapFails, MapDone, Copy, CopyOverruns,
           CleanupMerge, CleanupAdvance, CleanupEnds, Halted
  <2>2. cursor \in Blocks /\ meta[cursor].next = NULL
    BY <2>1 DEF IInv, Typed, InCall, Last
  <2>3. b \in Nat /\ cursor \in Nat
    BY <2>2 DEF IInv, Tiled, Blocks
  <2>4. ~(cursor < b)
    BY <2>2, Neighbours
  <2>5. CASE b < cursor
    BY <2>5 DEF IInv, InCall
  <2>6. CASE b = cursor
    BY <2>1, <2>6
  <2> QED BY <2>3, <2>4, <2>5, <2>6
<1> QED BY <1>1, Invariance, PTL DEF Spec, Coalesced

(***************************************************************************)
(* alloc grows the heap, or gives up, only when no block fits.  It gives   *)
(* up only when frames or page tables have been refused to it or every     *)
(* growth that would serve passes HEAP_MAX, and finds a block that fits as *)
(* soon as the heap has grown.                                             *)
(***************************************************************************)
THEOREM AllocGivesUpLate == Spec => GivesUpLate
<1> DEFINE Searched ==
      pc = "scan" /\ pc' \in {"map", "idle", "panic"} /\ live' = live =>
        \A b \in Blocks : ~Fits(b, call.size)
           Full ==
      pc \in {"scan", "map"} /\ pc' \in {"idle", "panic"} /\ live' = live /\ ~denied' =>
        \A pages \in 0 .. HEAP_MAX :
          pages * FRAME_SIZE >= META_SIZE + call.size =>
            HeapEnd + pages * FRAME_SIZE > HeapStart + HEAP_MAX
           Room ==
      pc = "map" /\ pc' = "scan" => \E b \in Blocks' : meta'[b].free /\ meta'[b].size >= call.size
<1>1. IInv /\ [Next]_vars => Searched
  <2> SUFFICES ASSUME IInv, [Next]_vars, pc = "scan", pc' \in {"map", "idle", "panic"}, live' = live
               PROVE  \A b \in Blocks : ~Fits(b, call.size)
    OBVIOUS
  <2>1. ~ScanTake
    <3> SUFFICES ASSUME ScanTake PROVE FALSE
      OBVIOUS
    <3>1. cursor \in Blocks /\ meta[cursor].free /\ Ptr(cursor) \in DOMAIN live'
      BY DEF ScanTake, Fits, IInv, Typed
    <3> QED BY <3>1, Pointers
  <2>2. cursor = NULL
    BY <2>1 DEF Next, Work, vars, HeapInit, HeapInitPanics, Alloc, Calloc, Realloc, Free, ScanSkip,
           ScanEnds, GrowTooBig, NoFrames, GrowFrames, MapFails, MapDone, Copy, CopyOverruns,
           CleanupMerge, CleanupAdvance, CleanupEnds, Halted
  <2> QED BY <2>2 DEF IInv, InCall
<1>2. IInv /\ [Next]_vars => Room
  <2> SUFFICES ASSUME IInv, [Next]_vars, pc = "map", pc' = "scan"
               PROVE  \E b \in Blocks' : meta'[b].free /\ meta'[b].size >= call.size
    OBVIOUS
  <2>1. MapDone
    BY DEF Next, Work, vars, HeapInit, HeapInitPanics, Alloc, Calloc, Realloc, Free, ScanSkip,
           ScanTake, ScanEnds, GrowTooBig, NoFrames, GrowFrames, MapFails, ReturnNull, Return, Copy,
           CopyOverruns, CleanupMerge, CleanupAdvance, CleanupEnds, Halted
  <2> QED BY <2>1, MapDoneKeeps
<1>3. IInv /\ [Next]_vars => Full
  <2> SUFFICES ASSUME IInv, [Next]_vars, pc \in {"scan", "map"}, pc' \in {"idle", "panic"},
                      live' = live, ~denied',
                      NEW pages \in 0 .. HEAP_MAX, pages * FRAME_SIZE >= META_SIZE + call.size
               PROVE  HeapEnd + pages * FRAME_SIZE > HeapStart + HEAP_MAX
    OBVIOUS
  <2>1. ~ScanTake
    <3> SUFFICES ASSUME ScanTake PROVE FALSE
      OBVIOUS
    <3>1. cursor \in Blocks /\ meta[cursor].free /\ Ptr(cursor) \in DOMAIN live'
      BY DEF ScanTake, Fits, IInv, Typed
    <3> QED BY <3>1, Pointers
  <2>2. GrowTooBig
    BY <2>1 DEF Next, Work, vars, HeapInit, HeapInitPanics, Alloc, Calloc, Realloc, Free, ScanSkip,
           NoFrames, GrowFrames, MapFails, MapDone, Copy, CopyOverruns,
           CleanupMerge, CleanupAdvance, CleanupEnds, Halted
  <2>3. HeapEnd + Grown * FRAME_SIZE > HeapStart + HEAP_MAX
    BY <2>2 DEF GrowTooBig, TooBig
  <2> DEFINE bytes == call.size + META_SIZE
             some  == pages * FRAME_SIZE
             grown == Grown * FRAME_SIZE
  <2>4. bytes \in Nat /\ some >= bytes /\ pages \in Nat /\ FRAME_SIZE \in Nat
        /\ HeapStart \in Nat /\ HEAP_MAX \in Nat
    BY SizesAssumption DEF IInv, Typed
  <2>5. HeapEnd \in Nat /\ grown \in Nat
    BY GrownHolds DEF IInv, Typed
  <2>6. grown <= some
    <3> HIDE DEF bytes
    <3>1. Pages(bytes) * FRAME_SIZE <= pages * FRAME_SIZE
      BY <2>4, PagesLeast
    <3> QED BY <3>1 DEF Grown, bytes
  <2>7. some \in Nat
    <3>1. \A a, b \in Nat : a * b \in Nat
      OBVIOUS
    <3> QED BY <2>4, <3>1
  <2> HIDE DEF some, grown
  <2>8. HeapEnd + some > HeapStart + HEAP_MAX
    BY <2>3, <2>4, <2>5, <2>6, <2>7 DEF grown
  <2> QED BY <2>8 DEF some
<1> QED BY <1>1, <1>2, <1>3, Invariance, PTL DEF Spec, GivesUpLate

(***************************************************************************)
(* Objects stay where they are: the heap makes each one of bytes of its    *)
(* region that no other object has, and only its owner's free or realloc   *)
(* takes them back.                                                        *)
(***************************************************************************)
THEOREM HeapKeepsObjects == Spec => ImplementsObjects
<1>1. Init => Objects!Init
  BY DEF Init, Objects!Init
<1>2. IInv /\ IInv' /\ [Next]_vars => [Objects!Next]_<<HeapEnd, live>>
  <2> SUFFICES ASSUME IInv, IInv', [Next]_vars
               PROVE  Objects!Next \/ UNCHANGED <<HeapEnd, live>>
    OBVIOUS
  <2>1. ASSUME HeapInit \/ MapDone
        PROVE  Objects!Extend \/ UNCHANGED <<HeapEnd, live>>
    <3>1. live' = live
      BY <2>1 DEF HeapInit, MapDone
    <3>2. /\ HeapEnd' \in Nat /\ HeapEnd \in Nat /\ HeapStart \in Nat /\ HEAP_MAX \in Nat
          /\ HeapEnd' - HeapStart <= HEAP_MAX
      BY SizesAssumption DEF IInv, Typed, FramesBacked
    <3>3. HeapEnd <= HeapEnd'
      <4>1. CASE HeapInit
        <5>1. HeapEnd = HeapStart
          BY <4>1 DEF HeapInit, IInv, Booted
        <5>2. frames' \in Nat /\ frames' * FRAME_SIZE = HeapEnd' - HeapStart /\ FRAME_SIZE \in Nat
          BY <3>2, <4>1, SizesAssumption DEF HeapInit, IInv, Typed, FramesBacked
        <5>3. \A a, b \in Nat : a * b \in Nat
          OBVIOUS
        <5> QED BY <3>2, <5>1, <5>2, <5>3
      <4>2. CASE MapDone
        <5>1. HeapEnd' = HeapEnd + Grown * FRAME_SIZE
          BY <4>2 DEF MapDone
        <5> QED BY <3>2, <5>1, GrownHolds
      <4> QED BY <2>1, <4>1, <4>2
    <3>4. HeapEnd' <= HeapStart + HEAP_MAX
      <4> DEFINE end == HeapEnd'
      <4>1. /\ end \in Nat /\ HeapStart \in Nat /\ HEAP_MAX \in Nat
            /\ end - HeapStart <= HEAP_MAX
        BY <3>2
      <4> HIDE DEF end
      <4>2. end <= HeapStart + HEAP_MAX
        BY <4>1
      <4> QED BY <4>2 DEF end
    <3>5. HeapEnd' = HeapEnd \/ HeapEnd' > HeapEnd
      BY <3>2, <3>3
    <3> QED BY <3>1, <3>4, <3>5 DEF Objects!Extend
  <2>2. ASSUME ScanTake
        PROVE  Objects!Make
    <3> DEFINE p == Ptr(cursor)
               n == call.bytes
    <3>1. /\ pc = "scan" /\ cursor \in Blocks /\ meta[cursor].free
          /\ meta[cursor].size >= call.size
          /\ live' = [q \in DOMAIN live \cup {p} |-> IF q = p THEN n ELSE live[q]]
          /\ HeapEnd' = HeapEnd
      BY <2>2 DEF ScanTake, Fits, IInv, Typed
    <3>2. n \in Nat /\ 0 < n /\ n <= call.size /\ call.size \in Nat
      <4>1. n \in Nat /\ 0 < n /\ call.size \in Nat /\ call.size = AlignUp(n, ALIGN)
            /\ ALIGN \in Nat \ {0}
        BY <3>1, SizesAssumption DEF IInv, Typed, InCall
      <4> QED BY <4>1, AlignUpBounds
    <3>3. p \notin DOMAIN live
      BY <3>1, Pointers
    <3>4. /\ cursor \in Nat /\ HeapStart <= cursor /\ meta[cursor].size \in Nat
          /\ cursor + META_SIZE + meta[cursor].size <= HeapEnd
          /\ HeapEnd \in Nat /\ HeapStart \in Nat /\ META_SIZE \in Nat
      BY <3>1, Region, BlockFacts DEF IInv, Blocks, Behind
    <3>5. p \in HeapStart .. HeapEnd - 1 /\ p + n <= HeapEnd /\ n \in 1 .. HeapEnd - HeapStart
      BY <3>1, <3>2, <3>4 DEF Ptr
    <3>6. ASSUME NEW q \in DOMAIN live
          PROVE  Objects!Bytes(q) \cap (p .. p + n - 1) = {}
      <4> DEFINE c == Block(q)
      <4>1. c \in Blocks /\ ~meta[c].free /\ q = Ptr(c) /\ q \in Nat
        BY Pointers
      <4> HIDE DEF c
      <4>2. /\ c # cursor /\ c \in Nat /\ meta[c].size \in Nat
            /\ \/ c + META_SIZE + meta[c].size <= cursor
               \/ cursor + META_SIZE + meta[cursor].size <= c
        BY <3>1, <4>1, Region, BlockFacts DEF IInv, Blocks, Behind
      <4>3. live[q] \in Nat /\ live[q] <= meta[c].size
        BY <4>1 DEF IInv, Owned, Typed
      <4>4. \A x \in q .. q + live[q] - 1 : x \notin p .. p + n - 1
        BY <3>1, <3>2, <3>4, <4>1, <4>2, <4>3 DEF Ptr
      <4> QED BY <4>4 DEF Objects!Bytes
    <3> HIDE DEF p, n
    <3> QED BY <3>1, <3>3, <3>5, <3>6 DEF Objects!Make
  <2>3. ASSUME Copy \/ Free
        PROVE  Objects!Drop
    <3>1. PICK p \in DOMAIN live : Release(p)
      BY <2>3 DEF Copy, Free, IInv, InCall
    <3> QED BY <3>1 DEF Release, Objects!Drop
  <2>4. CASE HeapInitPanics \/ Alloc \/ Calloc \/ Realloc \/ ScanSkip \/ GrowTooBig
             \/ NoFrames \/ GrowFrames \/ MapFails \/ CopyOverruns \/ CleanupMerge \/ CleanupAdvance
             \/ CleanupEnds \/ Halted \/ UNCHANGED vars
    BY <2>4 DEF HeapInitPanics, Alloc, Calloc, Realloc, Enter, ScanSkip, GrowTooBig, NoFrames, GrowFrames,
                MapFails, CopyOverruns, CleanupMerge, CleanupAdvance, CleanupEnds, Halted, vars
  <2> QED BY <2>1, <2>2, <2>3, <2>4 DEF Next, Work, Objects!Next
<1> QED BY <1>1, <1>2, Invariance, PTL DEF Spec, ImplementsObjects, Objects!Spec
===============================================================================
