------------------------------- MODULE VMMProofs -------------------------------
(***************************************************************************)
(* Proofs about VMM, for tables of any number of levels and entries, any   *)
(* memory and any ranges: the tables are a tree at every step (TablesInv), *)
(* the CPU uses no translation that they do not hold (Coherent), what      *)
(* callers see is a function to which whole ranges are added, and only     *)
(* where nothing is mapped (ImplementsAddressSpace), and when boot has     *)
(* memory enough for its tables all can be reached (AmpleGivesAccess).     *)
(*                                                                         *)
(* All of it rests on Shape: each table has a level and a place, its       *)
(* number among all that its level could have, and no two have the same.   *)
(* So a walk, the CPU's or the software's, finds for a page the one table  *)
(* that is in the page's place (Walks), and an entry that is written for a *)
(* page is that of no other page.                                          *)
(***************************************************************************)
EXTENDS VMM, FiniteSetTheorems, TLAPS

Levels  == 0 .. LEVELS - 1
Indices == 0 .. FANOUT - 1

\* Where the tables are: lev[t] is the level of table t, place[t] its place there.
\* An entry above level 0 leads to the table in the place that it stands for, and
\* each table but the root has such an entry; and each was made for some page.
Shape(lev, place) ==
  /\ lev \in [DOMAIN tables -> Levels] /\ place \in [DOMAIN tables -> Nat]
  /\ pml4Phys \in DOMAIN tables /\ lev[pml4Phys] = LEVELS - 1 /\ place[pml4Phys] = 0
  /\ \A t \in DOMAIN tables : lev[t] = LEVELS - 1 => t = pml4Phys
  /\ \A s, t \in DOMAIN tables : lev[s] = lev[t] /\ place[s] = place[t] => s = t
  /\ \A t \in DOMAIN tables, x \in Indices :
       lev[t] > 0 /\ tables[t][x] # ABSENT =>
         /\ tables[t][x] \in DOMAIN tables
         /\ lev[tables[t][x]] = lev[t] - 1 /\ place[tables[t][x]] = FANOUT * place[t] + x
  /\ \A t \in DOMAIN tables \ {pml4Phys} : \E s \in DOMAIN tables, x \in Indices :
       lev[s] = lev[t] + 1 /\ tables[s][x] = t
  /\ \A t \in DOMAIN tables : \E v \in VirtualPages : place[t] = Above(v)[lev[t] + 1]

\* The walk is at the table that is in the place of its page.
Position(lev, place) ==
  /\ pc \in {"walk", "invlpg"} =>
       table \in DOMAIN tables /\ lev[table] = level /\ place[table] = Above(Page)[level + 1]
  /\ pc = "invlpg" => level = 0

Placed(lev, place) == Shape(lev, place) /\ Position(lev, place)

Rooted ==
  IF pml4Phys = NONE
  THEN /\ pc \in {"reset", "panic"} /\ tables = [f \in {} |-> EmptyTable]
       /\ physOffset = 0 /\ tlb = {}
  ELSE pc \notin {"reset", "panic"} /\ \E lev, place : Placed(lev, place)

\* Free frames are frames, and none is a table.
Frames ==
  /\ ranges \in BootInfos /\ boot \in 0 .. 2 * Len(ranges) /\ physOffset \in {0, HHDM}
  /\ pool \subseteq Nat \ {NONE} /\ DOMAIN tables \subseteq Nat \ {NONE}
  /\ DOMAIN tables \cap pool = {}
  /\ \A f \in DOMAIN tables : tables[f] \in [Indices -> Nat \cup {ABSENT}]

\* There is a call exactly while its pages are walked, and it is one that was asked
\* for, or takes back a part of one.
Ops == {"none", "map", "unmap", "undo"}

Calling ==
  /\ pc \in {"reset", "boot", "idle", "walk", "invlpg", "panic", "fault"}
  /\ call \in [op : Ops, virt : Nat, phys : Nat, count : Nat] /\ i \in 0 .. call.count
  /\ pc \notin {"walk", "invlpg", "fault"} => call = NoCall /\ i = 0
  /\ pc \in {"walk", "invlpg", "fault"} => call.op # "none" /\ i < call.count
  /\ pc = "invlpg" => call.op # "map"
  /\ call.op = "map" => [virt |-> call.virt, phys |-> call.phys, count |-> call.count] \in Requests
  /\ \A k \in 0 .. call.count - 1 : call.virt + k \in VirtualPages

\* What the pages of the call that are done are mapped to.
Progress ==
  /\ call.op = "map"  => \A k \in 0 .. i - 1 : Translate(call.virt + k) = call.phys + k
  /\ call.op = "undo" => \A k \in 0 .. i - 1 : Translate(call.virt + k) = ABSENT
  /\ pc = "invlpg"    => Translate(Page) = ABSENT

Cached == Coherent /\ \A t \in tlb : \E v \in Watched, w \in Nat : t = <<v, w>>

VInv == Frames /\ Rooted /\ Calling /\ Progress /\ Cached
--------------------------------------------------------------------------------
\* The least number of a set, and with it induction over a set of numbers.
LEMMA LeastNumber ==
  ASSUME NEW S \in SUBSET Nat, S # {}
  PROVE  \E m \in S : \A n \in S : m <= n
<1> DEFINE R == OpToRel(<, Nat)
<1>1. \A m, n \in Nat : <<n, m>> \in R <=> n < m
  BY DEF OpToRel
<1>2. IsWellFoundedOn(R, Nat)
  BY NatLessThanWellFounded
<1>. HIDE DEF R
<1>3. PICK m \in S : \A n \in S : ~ (<<n, m>> \in R)
  BY <1>2, WFMin
<1>4. ASSUME NEW n \in S  PROVE m <= n
  <2>1. m \in Nat /\ n \in Nat
    OBVIOUS
  <2>2. ~ (n < m)
    BY <1>1, <1>3, <2>1
  <2>. QED  BY <2>1, <2>2
<1>. QED  BY <1>4

LEMMA Induction ==
  ASSUME NEW S \in SUBSET Nat, 0 \in S, \A n \in S : n + 1 \in S
  PROVE  \A n \in Nat : n \in S
<1>. SUFFICES ASSUME Nat \ S # {}  PROVE FALSE
  OBVIOUS
<1>1. PICK m \in Nat \ S : \A n \in Nat \ S : m <= n
  BY LeastNumber
<1>2. m - 1 \in S
  BY <1>1
<1>. QED  BY <1>1, <1>2

\* The lowest free frame is a free frame.
LEMMA LowestFree ==
  ASSUME NEW S \in SUBSET Nat, S # {}
  PROVE  Lowest(S) \in S
  BY LeastNumber DEF Lowest

\* Division by the number of entries.
LEMMA Division ==
  ASSUME NEW v \in Nat
  PROVE  v \div FANOUT \in Nat /\ v % FANOUT \in Indices
           /\ v = FANOUT * (v \div FANOUT) + (v % FANOUT)
  BY VMMAssumption DEF Indices

LEMMA Digits ==
  ASSUME NEW p \in Nat, NEW q \in Nat, NEW x \in Indices, NEW y \in Indices,
         FANOUT * p + x = FANOUT * q + y
  PROVE  p = q /\ x = y
  BY VMMAssumption DEF Indices

LEMMA Quotient ==
  ASSUME NEW p \in Nat, NEW x \in Indices
  PROVE  /\ FANOUT * p + x \in Nat
         /\ (FANOUT * p + x) \div FANOUT = p /\ (FANOUT * p + x) % FANOUT = x
<1>1. FANOUT * p + x \in Nat
  BY VMMAssumption DEF Indices
<1>. QED  BY <1>1, Division, Digits

\* Above is what its recursive definition says: there is such a function.
LEMMA AboveExists ==
  ASSUME NEW v
  PROVE  \E g : g = [l \in 0 .. LEVELS |-> IF l = 0 THEN v ELSE g[l - 1] \div FANOUT]
<1> DEFINE S == {n \in Nat : \E g : g = [l \in 0 .. n |-> IF l = 0 THEN v ELSE g[l - 1] \div FANOUT]}
<1>1. 0 \in S
  <2> DEFINE g == [l \in 0 .. 0 |-> v]
  <2>1. g = [l \in 0 .. 0 |-> IF l = 0 THEN v ELSE g[l - 1] \div FANOUT]
    OBVIOUS
  <2>. QED  BY <2>1
<1>2. ASSUME NEW n \in S  PROVE n + 1 \in S
  <2>1. PICK g : g = [l \in 0 .. n |-> IF l = 0 THEN v ELSE g[l - 1] \div FANOUT]
    BY <1>2
  <2> DEFINE h == [l \in 0 .. n + 1 |-> IF l = n + 1 THEN g[n] \div FANOUT ELSE g[l]]
  <2>2. ASSUME NEW l \in 0 .. n + 1
        PROVE  h[l] = IF l = 0 THEN v ELSE h[l - 1] \div FANOUT
    <3>1. CASE l = n + 1
      BY <3>1
    <3>2. CASE l # n + 1
      <4>1. l \in 0 .. n /\ h[l] = g[l]
        BY <3>2
      <4>2. l # 0 => h[l - 1] = g[l - 1]
        BY <4>1
      <4>3. g[l] = IF l = 0 THEN v ELSE g[l - 1] \div FANOUT
        BY <2>1, <4>1
      <4>. QED  BY <4>1, <4>2, <4>3
    <3>. QED  BY <3>1, <3>2
  <2>3. h = [l \in 0 .. n + 1 |-> IF l = 0 THEN v ELSE h[l - 1] \div FANOUT]
    BY <2>2
  <2>. HIDE DEF h
  <2>. QED  BY <2>3
<1>3. LEVELS \in S
  <2>. HIDE DEF S
  <2>1. S \in SUBSET Nat
    BY DEF S
  <2>. QED  BY <1>1, <1>2, <2>1, Induction, VMMAssumption
<1>. QED  BY <1>3

LEMMA AboveStep ==
  ASSUME NEW v
  PROVE  /\ Above(v)[0] = v
         /\ \A l \in 0 .. LEVELS - 1 : Above(v)[l + 1] = Above(v)[l] \div FANOUT
<1> DEFINE g == Above(v)
<1>1. g = [l \in 0 .. LEVELS |-> IF l = 0 THEN v ELSE g[l - 1] \div FANOUT]
  BY AboveExists DEF Above
<1>. HIDE DEF g
<1>2. 0 \in 0 .. LEVELS /\ \A l \in 0 .. LEVELS - 1 : l + 1 \in 0 .. LEVELS /\ l + 1 # 0
  BY VMMAssumption
<1>3. \A l \in 0 .. LEVELS - 1 : (l + 1) - 1 = l
  BY VMMAssumption
<1>4. g[0] = v
  BY <1>1, <1>2
<1>5. ASSUME NEW l \in 0 .. LEVELS - 1  PROVE g[l + 1] = g[l] \div FANOUT
  BY <1>1, <1>2, <1>3
<1>. QED  BY <1>4, <1>5 DEF g

LEMMA AboveType ==
  ASSUME NEW v \in Nat
  PROVE  \A l \in 0 .. LEVELS : Above(v)[l] \in Nat
<1> DEFINE S == {n \in Nat : n <= LEVELS => Above(v)[n] \in Nat}
<1>1. 0 \in S
  BY AboveStep
<1>2. ASSUME NEW n \in S  PROVE n + 1 \in S
  <2>1. CASE n + 1 <= LEVELS
    <3>1. n \in 0 .. LEVELS - 1 /\ Above(v)[n] \in Nat
      BY <2>1, <1>2, VMMAssumption
    <3>2. Above(v)[n + 1] = Above(v)[n] \div FANOUT
      BY <3>1, AboveStep
    <3>. QED  BY <3>1, <3>2, Division
  <2>. QED  BY <2>1
<1>3. \A n \in Nat : n \in S
  <2>. HIDE DEF S
  <2>1. S \in SUBSET Nat
    BY DEF S
  <2>. QED  BY <1>1, <1>2, <2>1, Induction
<1>. QED  BY <1>3, VMMAssumption

\* A page number is made up of its digits.
LEMMA AboveDigits ==
  ASSUME NEW v \in Nat, NEW l \in Levels
  PROVE  /\ Index(v, l) \in Indices
         /\ Above(v)[l] \in Nat /\ Above(v)[l + 1] \in Nat
         /\ Above(v)[l] = FANOUT * Above(v)[l + 1] + Index(v, l)
<1>1. l \in 0 .. LEVELS /\ l + 1 \in 0 .. LEVELS
  BY VMMAssumption DEF Levels
<1>2. Above(v)[l] \in Nat /\ Above(v)[l + 1] \in Nat
  BY <1>1, AboveType
<1>3. Above(v)[l + 1] = Above(v)[l] \div FANOUT
  BY AboveStep DEF Levels
<1>. QED  BY <1>2, <1>3, Division DEF Index

\* Two pages below the same table are below the same tables.
LEMMA SameAbove ==
  ASSUME NEW u \in Nat, NEW v \in Nat, Above(u)[1] = Above(v)[1]
  PROVE  Above(u)[LEVELS] = Above(v)[LEVELS]
<1> DEFINE S == {n \in Nat : n + 1 <= LEVELS => Above(u)[n + 1] = Above(v)[n + 1]}
<1>1. 0 \in S
  OBVIOUS
<1>2. ASSUME NEW n \in S  PROVE n + 1 \in S
  <2>1. CASE (n + 1) + 1 <= LEVELS
    <3>1. n + 1 \in 0 .. LEVELS - 1 /\ Above(u)[n + 1] = Above(v)[n + 1]
      BY <2>1, <1>2, VMMAssumption
    <3>. QED  BY <3>1, AboveStep
  <2>. QED  BY <2>1
<1>3. \A n \in Nat : n \in S
  <2>. HIDE DEF S
  <2>1. S \in SUBSET Nat
    BY DEF S
  <2>. QED  BY <1>1, <1>2, <2>1, Induction
<1>4. LEVELS - 1 \in Nat /\ (LEVELS - 1) + 1 = LEVELS
  BY VMMAssumption
<1>5. LEVELS - 1 \in S
  BY <1>3, <1>4
<1>. QED  BY <1>4, <1>5, VMMAssumption

\* A page in the same leaf table as one that can be asked for can be asked for.
LEMMA Neighbour ==
  ASSUME NEW u \in VirtualPages, NEW x \in Indices
  PROVE  /\ FANOUT * Above(u)[1] + x \in VirtualPages
         /\ Above(FANOUT * Above(u)[1] + x)[1] = Above(u)[1]
         /\ Index(FANOUT * Above(u)[1] + x, 0) = x
<1> DEFINE p == Above(u)[1]
           v == FANOUT * p + x
<1>1. u \in Nat /\ Above(u)[LEVELS] = 0 /\ 0 \in Levels
  BY VMMAssumption DEF VirtualPages, Levels
<1>2. p \in Nat
  BY <1>1, AboveDigits
<1>. HIDE DEF p
<1>3. v \in Nat /\ v \div FANOUT = p /\ v % FANOUT = x
  BY <1>2, Quotient
<1>. HIDE DEF v
<1>4. Above(v)[0] = v /\ Above(v)[1] = v \div FANOUT
  BY AboveStep, VMMAssumption
<1>5. Index(v, 0) = x /\ Above(v)[1] = Above(u)[1]
  BY <1>3, <1>4 DEF Index, p
<1>6. Above(v)[LEVELS] = 0
  BY <1>1, <1>3, <1>5, SameAbove
<1>. QED  BY <1>3, <1>5, <1>6 DEF VirtualPages, v, p

\* The table of its level and its index there tell a page.
LEMMA SamePage ==
  ASSUME NEW u \in VirtualPages, NEW v \in VirtualPages,
         Above(u)[1] = Above(v)[1], Index(u, 0) = Index(v, 0)
  PROVE  u = v
<1>1. u \in Nat /\ v \in Nat /\ 0 \in Levels
  BY VMMAssumption DEF VirtualPages, Levels
<1>2. Above(u)[0] = Above(v)[0]
  BY <1>1, AboveDigits
<1>. QED  BY <1>2, AboveStep

LEMMA PageZero ==
  0 \in VirtualPages /\ Above(0)[LEVELS] = 0
<1> DEFINE S == {n \in Nat : n <= LEVELS => Above(0)[n] = 0}
<1>1. 0 \in S
  BY AboveStep
<1>2. ASSUME NEW n \in S  PROVE n + 1 \in S
  <2>1. CASE n + 1 <= LEVELS
    <3>1. n \in 0 .. LEVELS - 1 /\ Above(0)[n] = 0
      BY <2>1, <1>2, VMMAssumption
    <3>2. Above(0)[n + 1] = 0 \div FANOUT
      BY <3>1, AboveStep
    <3>. QED  BY <3>2, VMMAssumption
  <2>. QED  BY <2>1
<1>3. \A n \in Nat : n \in S
  <2>. HIDE DEF S
  <2>1. S \in SUBSET Nat
    BY DEF S
  <2>. QED  BY <1>1, <1>2, <2>1, Induction
<1>. QED  BY <1>3, VMMAssumption DEF VirtualPages
--------------------------------------------------------------------------------
\* What the tables hold, by levels, from the root down.
LEMMA Downward ==
  ASSUME NEW low \in Int, NEW g, NEW w, low <= LEVELS - 1,
         g[LEVELS - 1] = w[LEVELS - 1],
         \A l \in low .. LEVELS - 2 : g[l + 1] = w[l + 1] => g[l] = w[l]
  PROVE  \A l \in low .. LEVELS - 1 : g[l] = w[l]
<1> DEFINE S == {n \in Nat : LEVELS - 1 - n >= low => g[LEVELS - 1 - n] = w[LEVELS - 1 - n]}
<1>1. 0 \in S
  BY VMMAssumption
<1>2. ASSUME NEW n \in S  PROVE n + 1 \in S
  <2> DEFINE l == LEVELS - 1 - (n + 1)
  <2>1. CASE l >= low
    <3>1. l \in low .. LEVELS - 2 /\ l + 1 = LEVELS - 1 - n /\ LEVELS - 1 - n >= low
      <4>1. LEVELS \in Int /\ n \in Nat
        BY VMMAssumption
      <4>. QED  BY <2>1, <4>1
    <3>. HIDE DEF l
    <3>2. g[l + 1] = w[l + 1]
      BY <1>2, <3>1
    <3>. QED  BY <3>1, <3>2 DEF l
  <2>. QED  BY <2>1
<1>3. \A n \in Nat : n \in S
  <2>. HIDE DEF S
  <2>1. S \in SUBSET Nat
    BY DEF S
  <2>. QED  BY <1>1, <1>2, <2>1, Induction
<1>4. ASSUME NEW l \in low .. LEVELS - 1  PROVE g[l] = w[l]
  <2>1. LEVELS - 1 - l \in Nat /\ LEVELS - 1 - (LEVELS - 1 - l) = l
    BY VMMAssumption
  <2>. QED  BY <1>3, <2>1
<1>. QED  BY <1>4

\* Each table but the root hangs at the entry of its place.
LEMMA Parent ==
  Frames => \A lev, place : Shape(lev, place) =>
    \A t \in DOMAIN tables : lev[t] < LEVELS - 1 =>
      \E s \in DOMAIN tables, x \in Indices :
        lev[s] = lev[t] + 1 /\ tables[s][x] = t /\ place[t] = FANOUT * place[s] + x
<1>. SUFFICES ASSUME Frames, NEW lev, NEW place, Shape(lev, place),
                     NEW t \in DOMAIN tables, lev[t] < LEVELS - 1
     PROVE  \E s \in DOMAIN tables, x \in Indices :
              lev[s] = lev[t] + 1 /\ tables[s][x] = t /\ place[t] = FANOUT * place[s] + x
  OBVIOUS
<1>1. t # pml4Phys /\ t # ABSENT /\ lev[t] \in Levels
  BY VMMAssumption DEF Shape, Frames, Levels, ABSENT
<1>2. PICK s \in DOMAIN tables, x \in Indices : lev[s] = lev[t] + 1 /\ tables[s][x] = t
  BY <1>1 DEF Shape
<1>3. lev[s] > 0
  BY <1>1, <1>2 DEF Levels
<1>4. place[t] = FANOUT * place[s] + x
  BY <1>1, <1>2, <1>3 DEF Shape
<1>. QED  BY <1>2, <1>4

\* Where a walk for page v comes at level l: to the table in the place of the page,
\* if there is one.
WalksTo(lev, place, v, l, t) ==
  \/ t \in DOMAIN tables /\ lev[t] = l /\ place[t] = Above(v)[l + 1]
  \/ t = ABSENT /\ ~ \E s \in DOMAIN tables : lev[s] = l /\ place[s] = Above(v)[l + 1]

LEMMA WalkStep ==
  ASSUME Frames, NEW lev, NEW place, Shape(lev, place), NEW v \in VirtualPages,
         NEW l \in Nat, l < LEVELS - 1, NEW above, NEW below,
         WalksTo(lev, place, v, l + 1, above), WalksTo(lev, place, v, l, below)
  PROVE  below = IF above \in {NONE, ABSENT} THEN ABSENT ELSE tables[above][Index(v, l + 1)]
<1>1. v \in Nat /\ l + 1 \in Levels /\ l \in Levels
  BY VMMAssumption DEF VirtualPages, Levels
<1> DEFINE x == Index(v, l + 1)
           p == Above(v)[(l + 1) + 1]
<1>2. /\ x \in Indices /\ Above(v)[l + 1] \in Nat /\ p \in Nat
      /\ Above(v)[l + 1] = FANOUT * p + x
  BY <1>1, AboveDigits
<1>. HIDE DEF x, p
<1>3. \A t \in DOMAIN tables : t \in Nat /\ t # NONE /\ t # ABSENT /\ lev[t] \in Levels /\ place[t] \in Nat
  BY DEF Frames, Shape, NONE, ABSENT
<1>4. ASSUME NEW s \in DOMAIN tables, lev[s] = l, place[s] = Above(v)[l + 1]
      PROVE  above \in DOMAIN tables /\ tables[above][x] = s
  <2>1. PICK t \in DOMAIN tables, y \in Indices :
          lev[t] = lev[s] + 1 /\ tables[t][y] = s /\ place[s] = FANOUT * place[t] + y
    BY <1>4, Parent
  <2>2. place[t] = p /\ y = x
    BY <1>2, <1>3, <1>4, <2>1, Digits
  <2>3. above \in DOMAIN tables /\ lev[above] = l + 1 /\ place[above] = p
    BY <1>4, <2>1, <2>2 DEF WalksTo, p
  <2>4. above = t
    BY <1>4, <2>1, <2>2, <2>3 DEF Shape
  <2>. QED  BY <2>1, <2>2, <2>4
<1>5. CASE above = ABSENT
  <2>1. below = ABSENT
    BY <1>3, <1>4, <1>5 DEF WalksTo
  <2>. QED  BY <1>5, <2>1
<1>6. CASE above \in DOMAIN tables
  <2>1. above \notin {NONE, ABSENT}
    BY <1>3, <1>6
  <2>2. lev[above] = l + 1 /\ place[above] = p
    BY <1>3, <1>6 DEF WalksTo, p
  <2>3. CASE tables[above][x] = ABSENT
    <3>1. below = ABSENT
      BY <1>3, <1>4, <2>3 DEF WalksTo
    <3>. QED  BY <2>1, <2>3, <3>1 DEF x
  <2>4. CASE tables[above][x] # ABSENT
    <3> DEFINE e == tables[above][x]
    <3>1. e \in DOMAIN tables /\ lev[e] = (l + 1) - 1 /\ place[e] = FANOUT * p + x
      BY <1>2, <1>6, <2>2, <2>4 DEF Shape
    <3>2. lev[e] = l /\ place[e] = Above(v)[l + 1]
      BY <1>2, <3>1
    <3>3. below \in DOMAIN tables /\ lev[below] = l /\ place[below] = Above(v)[l + 1]
      BY <3>1, <3>2 DEF WalksTo
    <3>4. below = e
      BY <3>1, <3>2, <3>3 DEF Shape
    <3>. QED  BY <2>1, <3>4 DEF x
  <2>. QED  BY <2>3, <2>4
<1>. QED  BY <1>5, <1>6 DEF WalksTo

\* At each level it comes to one table, or to none.
LEMMA WalkOnce ==
  ASSUME Frames, NEW lev, NEW place, Shape(lev, place), NEW v, NEW l \in Levels,
         NEW s, NEW t, WalksTo(lev, place, v, l, s), WalksTo(lev, place, v, l, t)
  PROVE  s = t
  BY DEF WalksTo, Shape

LEMMA Walks ==
  Frames => \A lev, place : Shape(lev, place) =>
    \A v \in VirtualPages, l \in Levels : WalksTo(lev, place, v, l, TableAt(v, l))
<1>. SUFFICES ASSUME Frames, NEW lev, NEW place, Shape(lev, place), NEW v \in VirtualPages
     PROVE  \A l \in Levels : WalksTo(lev, place, v, l, TableAt(v, l))
  OBVIOUS
<1> DEFINE top == LEVELS - 1
           Body(g, k) == IF k = top THEN pml4Phys
                         ELSE LET above == g[k + 1]
                              IN  IF above \in {NONE, ABSENT} THEN ABSENT
                                  ELSE tables[above][Index(v, k + 1)]
           w == [k \in Levels |-> CHOOSE t : WalksTo(lev, place, v, k, t)]
           at == CHOOSE g : g = [k \in Levels |-> Body(g, k)]
<1>0. top \in Levels /\ LEVELS = top + 1
  BY VMMAssumption DEF Levels
<1>1. ASSUME NEW k \in Levels  PROVE WalksTo(lev, place, v, k, w[k])
  <2>1. \E t : WalksTo(lev, place, v, k, t)
    BY DEF WalksTo
  <2>. QED  BY <2>1
<1>2. w[top] = pml4Phys
  <2>1. WalksTo(lev, place, v, top, pml4Phys)
    BY <1>0 DEF WalksTo, Shape, VirtualPages
  <2>. HIDE DEF w
  <2>. QED  BY <1>0, <1>1, <2>1, WalkOnce
<1>3. ASSUME NEW k \in Levels, k # top  PROVE w[k] = Body(w, k)
  <2>1. k \in Nat /\ k < LEVELS - 1 /\ k + 1 \in Levels
    BY <1>3, VMMAssumption DEF Levels
  <2>. HIDE DEF w
  <2>2. WalksTo(lev, place, v, k + 1, w[k + 1]) /\ WalksTo(lev, place, v, k, w[k])
    BY <1>1, <2>1
  <2>. QED  BY <1>3, <2>1, <2>2, WalkStep
<1>4. w = [k \in Levels |-> Body(w, k)]
  <2>1. w = [k \in Levels |-> w[k]]
    OBVIOUS
  <2>. HIDE DEF w
  <2>2. ASSUME NEW k \in Levels  PROVE w[k] = Body(w, k)
    BY <1>2, <1>3
  <2>. HIDE DEF Body
  <2>. QED  BY <2>1, <2>2
<1>5. at = [k \in Levels |-> Body(at, k)]
  <2>. HIDE DEF w
  <2>. QED  BY <1>4
<1>. HIDE DEF w, at
<1>6. at[top] = w[top]
  BY <1>0, <1>2, <1>5
<1>7. ASSUME NEW k \in 0 .. LEVELS - 2, at[k + 1] = w[k + 1]  PROVE at[k] = w[k]
  <2>1. k \in Levels /\ k # top
    BY VMMAssumption DEF Levels
  <2>2. at[k] = Body(at, k) /\ w[k] = Body(w, k)
    BY <1>3, <1>5, <2>1
  <2>. QED  BY <1>7, <2>1, <2>2
<1>. HIDE DEF Body
<1>8. \A k \in Levels : at[k] = w[k]
  <2>1. 0 \in Int /\ 0 <= LEVELS - 1
    BY VMMAssumption
  <2>2. at[LEVELS - 1] = w[LEVELS - 1]
    BY <1>6
  <2>3. \A k \in 0 .. LEVELS - 2 : at[k + 1] = w[k + 1] => at[k] = w[k]
    BY <1>7
  <2>4. \A k \in 0 .. LEVELS - 1 : at[k] = w[k]
    BY <2>1, <2>2, <2>3, Downward
  <2>. QED  BY <2>4 DEF Levels
<1>9. \A k \in Levels : TableAt(v, k) = at[k]
  BY DEF TableAt, at, Body, Levels
<1>. QED  BY <1>1, <1>8, <1>9

\* What a page is mapped to is in the leaf table in its place.
Translated(lev, place) ==
  \A v \in VirtualPages :
    /\ \A t \in DOMAIN tables :
         lev[t] = 0 /\ place[t] = Above(v)[1] => Translate(v) = tables[t][Index(v, 0)]
    /\ Translate(v) # ABSENT =>
         \E t \in DOMAIN tables : lev[t] = 0 /\ place[t] = Above(v)[1]
    /\ Translate(v) \in Nat \cup {ABSENT}

LEMMA Translation ==
  Frames => \A lev, place : Shape(lev, place) => Translated(lev, place)
<1>. SUFFICES ASSUME Frames, NEW lev, NEW place, Shape(lev, place), NEW v \in VirtualPages
     PROVE  /\ \A t \in DOMAIN tables :
                 lev[t] = 0 /\ place[t] = Above(v)[1] => Translate(v) = tables[t][Index(v, 0)]
            /\ Translate(v) # ABSENT =>
                 \E t \in DOMAIN tables : lev[t] = 0 /\ place[t] = Above(v)[1]
            /\ Translate(v) \in Nat \cup {ABSENT}
  BY DEF Translated
<1> DEFINE leaf == TableAt(v, 0)
<1>1. 0 \in Levels /\ v \in Nat
  BY VMMAssumption DEF Levels, VirtualPages
<1>2. WalksTo(lev, place, v, 0, leaf)
  BY <1>1, Walks
<1>3. Translate(v) = IF leaf \in {NONE, ABSENT} THEN ABSENT ELSE tables[leaf][Index(v, 0)]
  BY DEF Translate
<1>. HIDE DEF leaf
<1>4. NONE \notin DOMAIN tables /\ ABSENT \notin DOMAIN tables
  BY DEF Frames, NONE, ABSENT
<1>5. leaf \in DOMAIN tables => Translate(v) = tables[leaf][Index(v, 0)]
  BY <1>3, <1>4
<1>6. leaf \notin DOMAIN tables => Translate(v) = ABSENT
  BY <1>2, <1>3 DEF WalksTo
<1>7. leaf \in DOMAIN tables => lev[leaf] = 0 /\ place[leaf] = Above(v)[1]
  BY <1>2, <1>4 DEF WalksTo
<1>8. ASSUME NEW t \in DOMAIN tables, lev[t] = 0, place[t] = Above(v)[1]  PROVE t = leaf
  <2>1. leaf \in DOMAIN tables
    BY <1>2, <1>8 DEF WalksTo
  <2>. QED  BY <1>7, <1>8, <2>1 DEF Shape
<1>9. Index(v, 0) \in Indices
  BY <1>1, AboveDigits
<1>10. Translate(v) \in Nat \cup {ABSENT}
  BY <1>5, <1>6, <1>9 DEF Frames
<1>. QED  BY <1>5, <1>6, <1>7, <1>8, <1>10

\* The tables found from the root are those of each level.
LEMMA TablesFound ==
  ASSUME Frames, NEW lev, NEW place, Shape(lev, place)
  PROVE  \A l \in Levels : TablesOf[l] = {t \in DOMAIN tables : lev[t] = l}
<1> DEFINE top == LEVELS - 1
           Body(g, k) == IF k = top THEN {pml4Phys}
                         ELSE {tables[t][x] : t \in g[k + 1], x \in Indices} \ {ABSENT}
           w == [k \in Levels |-> {t \in DOMAIN tables : lev[t] = k}]
           of == CHOOSE g : g = [k \in Levels |-> Body(g, k)]
<1>0. top \in Levels /\ LEVELS = top + 1
  BY VMMAssumption DEF Levels
<1>1. w[top] = {pml4Phys}
  BY <1>0 DEF Shape
<1>2. ASSUME NEW k \in Levels, k # top  PROVE w[k] = Body(w, k)
  <2>1. k \in Nat /\ k < top /\ k + 1 \in Levels /\ k + 1 > 0
    BY <1>2, VMMAssumption DEF Levels
  <2>2. w[k] = {t \in DOMAIN tables : lev[t] = k} /\ w[k + 1] = {t \in DOMAIN tables : lev[t] = k + 1}
    BY <2>1
  <2>. HIDE DEF w
  <2>3. ASSUME NEW s \in w[k]  PROVE s \in Body(w, k)
    <3>1. s \in DOMAIN tables /\ lev[s] = k
      BY <2>2, <2>3
    <3>2. PICK t \in DOMAIN tables, x \in Indices : lev[t] = lev[s] + 1 /\ tables[t][x] = s
      BY <3>1, <2>1, Parent
    <3>3. t \in w[k + 1] /\ s # ABSENT
      BY <2>2, <3>1, <3>2 DEF Frames, ABSENT
    <3>. QED  BY <1>2, <3>2, <3>3
  <2>4. ASSUME NEW s \in Body(w, k)  PROVE s \in w[k]
    <3>1. PICK t \in w[k + 1], x \in Indices : s = tables[t][x] /\ s # ABSENT
      BY <1>2, <2>4
    <3>2. t \in DOMAIN tables /\ lev[t] = k + 1
      BY <2>2, <3>1
    <3>3. s \in DOMAIN tables /\ lev[s] = (k + 1) - 1
      BY <2>1, <3>1, <3>2 DEF Shape
    <3>. QED  BY <2>1, <2>2, <3>3
  <2>. HIDE DEF Body
  <2>5. \A s : s \in w[k] <=> s \in Body(w, k)
    BY <2>3, <2>4
  <2>6. Body(w, k) = {t \in DOMAIN tables : lev[t] = k}
    BY <2>2, <2>5
  <2>. QED  BY <2>2, <2>6
<1>3. w = [k \in Levels |-> Body(w, k)]
  <2>1. w = [k \in Levels |-> w[k]]
    OBVIOUS
  <2>. HIDE DEF w
  <2>2. ASSUME NEW k \in Levels  PROVE w[k] = Body(w, k)
    <3>1. CASE k = top
      BY <1>1, <3>1
    <3>2. CASE k # top
      <4>. HIDE DEF Body
      <4>. QED  BY <1>2, <3>2
    <3>. QED  BY <3>1, <3>2
  <2>. HIDE DEF Body
  <2>. QED  BY <2>1, <2>2
<1>4. of = [k \in Levels |-> Body(of, k)]
  <2>. HIDE DEF w, Body
  <2>. QED  BY <1>3
<1>5. TablesOf = of
  BY DEF TablesOf, Levels, Indices
<1>. HIDE DEF of
<1>6. of[LEVELS - 1] = w[LEVELS - 1]
  <2>1. of[top] = Body(of, top)
    <3>. HIDE DEF Body
    <3>. QED  BY <1>0, <1>4
  <2>. QED  BY <1>1, <2>1
<1>. HIDE DEF w, Body
<1>7. ASSUME NEW k \in 0 .. LEVELS - 2, of[k + 1] = w[k + 1]  PROVE of[k] = w[k]
  <2>1. k \in Levels /\ k # top
    BY VMMAssumption DEF Levels
  <2>2. of[k] = Body(of, k) /\ w[k] = Body(w, k)
    BY <1>2, <1>4, <2>1
  <2>3. Body(of, k) = Body(w, k)
    BY <1>7, <2>1 DEF Body
  <2>. QED  BY <2>2, <2>3
<1>8. \A k \in 0 .. LEVELS - 1 : of[k] = w[k]
  <2>1. 0 \in Int /\ 0 <= LEVELS - 1
    BY VMMAssumption
  <2>. QED  BY <1>6, <1>7, <2>1, Downward
<1>. QED  BY <1>5, <1>8 DEF w, Levels

LEMMA TreeOfShape ==
  ASSUME Frames, NEW lev, NEW place, Shape(lev, place)
  PROVE  Tree
<1>1. \A l \in Levels : TablesOf[l] = {t \in DOMAIN tables : lev[t] = l}
  BY TablesFound
<1>2. UNION {TablesOf[l] : l \in 0 .. LEVELS - 1} = DOMAIN tables
  <2>1. \A t \in DOMAIN tables : lev[t] \in 0 .. LEVELS - 1 /\ t \in TablesOf[lev[t]]
    BY <1>1 DEF Shape, Levels
  <2>2. \A l \in 0 .. LEVELS - 1 : \A t \in TablesOf[l] : t \in DOMAIN tables
    BY <1>1 DEF Levels
  <2>. QED  BY <2>1, <2>2
<1>3. \A l, m \in 0 .. LEVELS - 1 : l # m => TablesOf[l] \cap TablesOf[m] = {}
  BY <1>1 DEF Levels
<1>4. ASSUME NEW l \in 1 .. LEVELS - 1, NEW s \in TablesOf[l], NEW t \in TablesOf[l],
             NEW x \in 0 .. FANOUT - 1, NEW y \in 0 .. FANOUT - 1,
             tables[s][x] = tables[t][y], tables[s][x] # ABSENT
      PROVE  s = t /\ x = y
  <2>1. s \in DOMAIN tables /\ t \in DOMAIN tables /\ lev[s] = l /\ lev[t] = l /\ l > 0
    BY <1>1, VMMAssumption DEF Levels
  <2>2. x \in Indices /\ y \in Indices /\ place[s] \in Nat /\ place[t] \in Nat
    BY <2>1 DEF Indices, Shape
  <2>3. FANOUT * place[s] + x = FANOUT * place[t] + y
    BY <1>4, <2>1, <2>2 DEF Shape
  <2>4. place[s] = place[t] /\ x = y
    BY <2>2, <2>3, Digits
  <2>. QED  BY <2>1, <2>4 DEF Shape
<1>. QED  BY <1>2, <1>3, <1>4 DEF Tree, Frames

\* The pages found from the root are those that the walks find mapped.
LEMMA PagesFound ==
  Frames => \A lev, place : Shape(lev, place) =>
    {e[1] : e \in Reached[-1]} = {v \in VirtualPages : Mapped(v)}
<1>. SUFFICES ASSUME Frames, NEW lev, NEW place, Shape(lev, place)
     PROVE  {e[1] : e \in Reached[-1]} = {v \in VirtualPages : Mapped(v)}
  OBVIOUS
<1> DEFINE top == LEVELS - 1
           Ks  == -1 .. LEVELS - 1
           Body(g, k) == IF k = top THEN {<<0, pml4Phys>>} \ {<<0, NONE>>}
                         ELSE {e \in {<<FANOUT * t[1] + x, tables[t[2]][x]>> :
                                        t \in g[k + 1], x \in Indices} : e[2] # ABSENT}
           pages == {<<v, Translate(v)>> : v \in {u \in VirtualPages : Mapped(u)}}
           placed(k) == {<<place[t], t>> : t \in {s \in DOMAIN tables : lev[s] = k}}
           w == [k \in Ks |-> IF k = -1 THEN pages ELSE placed(k)]
           at == CHOOSE g : g = [k \in Ks |-> Body(g, k)]
<1>0. top \in Ks /\ top # -1 /\ LEVELS = top + 1 /\ -1 \in Ks /\ top \in Nat
  BY VMMAssumption
<1>1. w[top] = Body(w, top)
  <2>1. {s \in DOMAIN tables : lev[s] = top} = {pml4Phys} /\ place[pml4Phys] = 0
    BY DEF Shape
  <2>2. placed(top) = {<<0, pml4Phys>>}
    BY <2>1
  <2>3. w[top] = placed(top)
    BY <1>0
  <2>4. pml4Phys # NONE
    BY DEF Shape, Frames
  <2>. HIDE DEF w, placed
  <2>. QED  BY <2>2, <2>3, <2>4
<1>2. ASSUME NEW k \in Levels, k # top  PROVE w[k] = Body(w, k)
  <2>1. k \in Nat /\ k < top /\ k + 1 \in Levels /\ k + 1 > 0 /\ k \in Ks /\ k + 1 \in Ks /\ k # -1 /\ k + 1 # -1
    BY <1>2, VMMAssumption DEF Levels
  <2>2. w[k] = placed(k) /\ w[k + 1] = placed(k + 1)
    BY <2>1
  <2>. HIDE DEF w
  <2>3. ASSUME NEW e \in placed(k)  PROVE e \in Body(w, k)
    <3>1. PICK s \in DOMAIN tables : lev[s] = k /\ e = <<place[s], s>>
      BY <2>3
    <3>2. PICK t \in DOMAIN tables, x \in Indices :
            lev[t] = lev[s] + 1 /\ tables[t][x] = s /\ place[s] = FANOUT * place[t] + x
      BY <2>1, <3>1, Parent
    <3>3. <<place[t], t>> \in w[k + 1]
      BY <2>2, <3>1, <3>2
    <3>4. s # ABSENT
      BY DEF Frames, ABSENT
    <3>5. e = <<FANOUT * <<place[t], t>>[1] + x, tables[<<place[t], t>>[2]][x]>> /\ e[2] = s
      BY <3>1, <3>2
    <3>. QED  BY <1>2, <3>3, <3>4, <3>5
  <2>4. ASSUME NEW e \in Body(w, k)  PROVE e \in placed(k)
    <3>1. PICK p \in w[k + 1], x \in Indices :
            e = <<FANOUT * p[1] + x, tables[p[2]][x]>> /\ e[2] # ABSENT
      BY <1>2, <2>4
    <3>2. PICK t \in DOMAIN tables : lev[t] = k + 1 /\ p = <<place[t], t>>
      BY <2>2, <3>1
    <3> DEFINE s == tables[t][x]
    <3>3. e = <<FANOUT * place[t] + x, s>> /\ s # ABSENT
      BY <3>1, <3>2
    <3>4. s \in DOMAIN tables /\ lev[s] = (k + 1) - 1 /\ place[s] = FANOUT * place[t] + x
      BY <2>1, <3>2, <3>3 DEF Shape
    <3>. QED  BY <2>1, <3>3, <3>4
  <2>. HIDE DEF Body, placed
  <2>5. placed(k) \subseteq Body(w, k) /\ Body(w, k) \subseteq placed(k)
    BY <2>3, <2>4
  <2>. QED  BY <2>2, <2>5
<1>3. w[-1] = Body(w, -1)
  <2>1. w[-1] = pages /\ w[0] = placed(0) /\ -1 # top /\ -1 + 1 = 0 /\ 0 \in Levels
    BY <1>0, VMMAssumption DEF Levels
  <2>. HIDE DEF w
  <2>2. ASSUME NEW e \in pages  PROVE e \in Body(w, -1)
    <3>1. PICK v \in VirtualPages : Translate(v) # ABSENT /\ e = <<v, Translate(v)>>
      BY <2>2 DEF Mapped
    <3>2. PICK t \in DOMAIN tables : lev[t] = 0 /\ place[t] = Above(v)[1]
      BY <3>1, Translation DEF Translated
    <3> DEFINE x == Index(v, 0)
    <3>3. Translate(v) = tables[t][x]
      BY <3>2, Translation DEF Translated
    <3>4. v \in Nat
      BY DEF VirtualPages
    <3>5. x \in Indices /\ v = FANOUT * place[t] + x
      BY <2>1, <3>2, <3>4, AboveDigits, AboveStep
    <3>. HIDE DEF x
    <3> DEFINE p == <<place[t], t>>
    <3>6. p \in w[-1 + 1]
      BY <2>1, <3>2
    <3>7. e = <<FANOUT * p[1] + x, tables[p[2]][x]>> /\ e[2] # ABSENT
      BY <3>1, <3>3, <3>5
    <3>. HIDE DEF p
    <3>. QED  BY <2>1, <3>5, <3>6, <3>7
  <2>3. ASSUME NEW e \in Body(w, -1)  PROVE e \in pages
    <3>1. PICK p \in w[0], x \in Indices :
            e = <<FANOUT * p[1] + x, tables[p[2]][x]>> /\ e[2] # ABSENT
      BY <2>1, <2>3
    <3>2. PICK t \in DOMAIN tables : lev[t] = 0 /\ p = <<place[t], t>>
      BY <2>1, <3>1
    <3>3. PICK u \in VirtualPages : place[t] = Above(u)[1]
      <4>1. PICK u \in VirtualPages : place[t] = Above(u)[lev[t] + 1]
        BY DEF Shape
      <4>. QED  BY <3>2, <4>1
    <3> DEFINE v == FANOUT * place[t] + x
    <3>4. v \in VirtualPages /\ Above(v)[1] = place[t] /\ Index(v, 0) = x
      BY <3>3, Neighbour
    <3>5. e = <<v, tables[t][x]>> /\ tables[t][x] # ABSENT
      BY <3>1, <3>2
    <3>. HIDE DEF v
    <3>6. Translate(v) = tables[t][x]
      BY <3>2, <3>4, Translation DEF Translated
    <3>. QED  BY <3>4, <3>5, <3>6 DEF Mapped
  <2>. HIDE DEF Body, pages
  <2>4. pages \subseteq Body(w, -1) /\ Body(w, -1) \subseteq pages
    BY <2>2, <2>3
  <2>. QED  BY <2>1, <2>4
<1>4. w = [k \in Ks |-> Body(w, k)]
  <2>1. w = [k \in Ks |-> w[k]]
    OBVIOUS
  <2>. HIDE DEF w, Body
  <2>2. ASSUME NEW k \in Ks  PROVE w[k] = Body(w, k)
    <3>1. k = -1 \/ k \in Levels
      BY VMMAssumption DEF Levels
    <3>. QED  BY <1>1, <1>2, <1>3, <3>1
  <2>. QED  BY <2>1, <2>2
<1>5. at = [k \in Ks |-> Body(at, k)]
  <2>. HIDE DEF w, Body
  <2>. QED  BY <1>4
<1>6. Reached = at
  BY DEF Reached, Indices
<1>. HIDE DEF at
<1>7. at[top] = w[top]
  <2>1. at[top] = Body(at, top)
    <3>. HIDE DEF Body
    <3>. QED  BY <1>0, <1>5
  <2>2. Body(at, top) = Body(w, top)
    OBVIOUS
  <2>. HIDE DEF Body, w
  <2>. QED  BY <1>1, <2>1, <2>2
<1>. HIDE DEF w, Body
<1>8. ASSUME NEW k \in -1 .. LEVELS - 2, at[k + 1] = w[k + 1]  PROVE at[k] = w[k]
  <2>1. k \in Ks /\ k # top /\ (k = -1 \/ k \in Levels)
    BY VMMAssumption DEF Levels
  <2>2. at[k] = Body(at, k) /\ w[k] = Body(w, k)
    BY <1>2, <1>3, <1>5, <2>1
  <2>3. Body(at, k) = Body(w, k)
    BY <1>8, <2>1 DEF Body
  <2>. QED  BY <2>2, <2>3
<1>9. \A k \in -1 .. LEVELS - 1 : at[k] = w[k]
  <2>1. -1 \in Int /\ -1 <= LEVELS - 1
    BY VMMAssumption
  <2>2. at[LEVELS - 1] = w[LEVELS - 1]
    BY <1>7
  <2>. HIDE DEF top
  <2>. QED  BY <1>8, <2>1, <2>2, Downward
<1>10. Reached[-1] = pages
  <2>1. w[-1] = pages
    BY <1>0 DEF w
  <2>. HIDE DEF pages
  <2>. QED  BY <1>0, <1>6, <1>9, <2>1
<1>11. ASSUME NEW v \in {e[1] : e \in Reached[-1]}  PROVE v \in VirtualPages /\ Mapped(v)
  BY <1>10, <1>11
<1>12. ASSUME NEW v \in VirtualPages, Mapped(v)  PROVE v \in {e[1] : e \in Reached[-1]}
  <2>1. <<v, Translate(v)>> \in Reached[-1] /\ <<v, Translate(v)>>[1] = v
    BY <1>10, <1>12
  <2>. QED  BY <2>1
<1>. QED  BY <1>11, <1>12

\* Before there is a root nothing is found.
LEMMA NothingFound ==
  pml4Phys = NONE => {e[1] : e \in Reached[-1]} = {}
<1>. SUFFICES ASSUME pml4Phys = NONE  PROVE {e[1] : e \in Reached[-1]} = {}
  OBVIOUS
<1> DEFINE top == LEVELS - 1
           Ks  == -1 .. LEVELS - 1
           Body(g, k) == IF k = top THEN {<<0, pml4Phys>>} \ {<<0, NONE>>}
                         ELSE {e \in {<<FANOUT * t[1] + x, tables[t[2]][x]>> :
                                        t \in g[k + 1], x \in Indices} : e[2] # ABSENT}
           w == [k \in Ks |-> {}]
           at == CHOOSE g : g = [k \in Ks |-> Body(g, k)]
<1>0. top \in Ks /\ -1 \in Ks /\ LEVELS = top + 1 /\ top \in Nat
  BY VMMAssumption
<1>1. ASSUME NEW g, NEW k \in Ks, k # top => g[k + 1] = {}  PROVE Body(g, k) = {}
  BY <1>1
<1>. HIDE DEF Body
<1>2. ASSUME NEW k \in Ks  PROVE w[k] = Body(w, k)
  <2>1. k # top => k + 1 \in Ks
    BY <1>0
  <2>2. Body(w, k) = {}
    BY <1>1, <2>1
  <2>. QED  BY <2>2
<1>3. at = [k \in Ks |-> Body(at, k)]
  <2>1. w = [k \in Ks |-> w[k]]
    OBVIOUS
  <2>. HIDE DEF w
  <2>2. w = [k \in Ks |-> Body(w, k)]
    BY <1>2, <2>1
  <2>. QED  BY <2>2
<1>4. Reached = at
  BY DEF Reached, Indices, Body
<1>. HIDE DEF at
<1>5. at[top] = w[top]
  BY <1>0, <1>1, <1>3
<1>6. ASSUME NEW k \in -1 .. LEVELS - 2, at[k + 1] = w[k + 1]  PROVE at[k] = w[k]
  <2>1. k \in Ks /\ k + 1 \in Ks
    BY <1>0
  <2>2. Body(at, k) = {}
    BY <1>1, <1>6, <2>1
  <2>. QED  BY <1>3, <2>1, <2>2
<1>. HIDE DEF w
<1>7. \A k \in -1 .. LEVELS - 1 : at[k] = w[k]
  <2>1. -1 \in Int /\ -1 <= LEVELS - 1 /\ at[LEVELS - 1] = w[LEVELS - 1]
    BY <1>5, VMMAssumption
  <2>. HIDE DEF top
  <2>. QED  BY <1>6, <2>1, Downward
<1>8. Reached[-1] = {}
  BY <1>0, <1>4, <1>7 DEF w
<1>. QED  BY <1>8

\* What callers see of page v.
Shown(v) == IF v \in InFlight THEN ABSENT ELSE Translate(v)

LEMMA VisiblePages ==
  Frames => \A lev, place : Shape(lev, place) =>
    Visible = [v \in {u \in VirtualPages : Shown(u) # ABSENT} |-> Shown(v)]
<1>. SUFFICES ASSUME Frames, NEW lev, NEW place, Shape(lev, place)
     PROVE  Visible = [v \in {u \in VirtualPages : Shown(u) # ABSENT} |-> Shown(v)]
  OBVIOUS
<1>1. {e[1] : e \in Reached[-1]} = {u \in VirtualPages : Mapped(u)}
  BY PagesFound
<1>2. {u \in VirtualPages : Mapped(u)} \ InFlight = {u \in VirtualPages : Shown(u) # ABSENT}
  BY DEF Shown, Mapped
<1>3. \A v \in {u \in VirtualPages : Mapped(u)} \ InFlight : Translate(v) = Shown(v)
  BY DEF Shown
<1>. QED  BY <1>1, <1>2, <1>3 DEF Visible

LEMMA VisibleNothing ==
  pml4Phys = NONE => Visible = [v \in {} |-> 0]
<1>. SUFFICES ASSUME pml4Phys = NONE  PROVE Visible = [v \in {} |-> 0]
  OBVIOUS
<1>1. {e[1] : e \in Reached[-1]} \ InFlight = {}
  BY NothingFound
<1>. QED  BY <1>1 DEF Visible

\* The same after a step.
LEMMA TranslationAfter ==
  Frames' => \A lev, place : Shape(lev, place)' => Translated(lev, place)'
<1>1. (Frames => \A lev, place : Shape(lev, place) => Translated(lev, place))'
  BY Translation, PTL
<1>. QED  BY <1>1

LEMMA VisibleAfter ==
  Frames' => \A lev, place : Shape(lev, place)' =>
    Visible' = [v \in {u \in VirtualPages : Shown(u) # ABSENT} |-> Shown(v)]'
<1>1. (Frames => \A lev, place : Shape(lev, place) =>
         Visible = [v \in {u \in VirtualPages : Shown(u) # ABSENT} |-> Shown(v)])'
  BY VisiblePages, PTL
<1>. QED  BY <1>1
--------------------------------------------------------------------------------
\* How the steps change the tables.  A translation is the same after a step in which
\* the leaf tables in a page's place have kept their entry for it, and no other has
\* come there with one.
LEMMA TranslationKept ==
  ASSUME Frames, Frames', NEW lev, NEW place, Shape(lev, place),
         NEW lev2, NEW place2, Shape(lev2, place2)', NEW v \in VirtualPages,
         \A t \in DOMAIN tables : lev[t] = 0 /\ place[t] = Above(v)[1] =>
           /\ t \in DOMAIN tables' /\ lev2[t] = 0 /\ place2[t] = Above(v)[1]
           /\ tables'[t][Index(v, 0)] = tables[t][Index(v, 0)],
         \A t \in DOMAIN tables' : lev2[t] = 0 /\ place2[t] = Above(v)[1] =>
           \/ t \in DOMAIN tables /\ lev[t] = 0 /\ place[t] = Above(v)[1]
           \/ tables'[t][Index(v, 0)] = ABSENT
  PROVE  Translate(v)' = Translate(v)
<1>1. Translated(lev, place)
  BY Translation
<1>2. Translated(lev2, place2)'
  BY TranslationAfter
<1>3. /\ \A t \in DOMAIN tables' :
           lev2[t] = 0 /\ place2[t] = Above(v)[1] => Translate(v)' = tables'[t][Index(v, 0)]
      /\ Translate(v)' # ABSENT =>
           \E t \in DOMAIN tables' : lev2[t] = 0 /\ place2[t] = Above(v)[1]
  BY <1>2 DEF Translated
<1>4. CASE Translate(v) # ABSENT
  <2>1. PICK t \in DOMAIN tables : lev[t] = 0 /\ place[t] = Above(v)[1]
    BY <1>1, <1>4 DEF Translated
  <2>2. Translate(v) = tables[t][Index(v, 0)]
    BY <1>1, <2>1 DEF Translated
  <2>. QED  BY <1>3, <2>1, <2>2
<1>5. CASE Translate(v) = ABSENT
  <2>1. SUFFICES ASSUME Translate(v)' # ABSENT  PROVE FALSE
    BY <1>5
  <2>2. PICK t \in DOMAIN tables' : lev2[t] = 0 /\ place2[t] = Above(v)[1]
    BY <1>3, <2>1
  <2>3. t \in DOMAIN tables /\ lev[t] = 0 /\ place[t] = Above(v)[1]
    BY <1>3, <2>1, <2>2
  <2>4. Translate(v) = tables[t][Index(v, 0)]
    BY <1>1, <2>3 DEF Translated
  <2>. QED  BY <1>3, <1>5, <2>1, <2>2, <2>3, <2>4
<1>. QED  BY <1>4, <1>5

\* Most steps leave the tables as they are.
LEMMA SameTables ==
  ASSUME Frames, Frames', NEW lev, NEW place, Shape(lev, place), UNCHANGED <<tables, pml4Phys>>
  PROVE  /\ Shape(lev, place)'
         /\ \A v \in VirtualPages : Translate(v)' = Translate(v)
<1>1. Shape(lev, place)'
  BY DEF Shape
<1>2. ASSUME NEW v \in VirtualPages  PROVE Translate(v)' = Translate(v)
  BY <1>1, TranslationKept
<1>. QED  BY <1>1, <1>2

\* An entry of a leaf table that is written for page p is that of no other page.
LEMMA LeafWrite ==
  ASSUME Frames, Frames', NEW lev, NEW place, Shape(lev, place),
         NEW p \in VirtualPages, NEW t \in DOMAIN tables, lev[t] = 0, place[t] = Above(p)[1],
         NEW f, DOMAIN tables' = DOMAIN tables, pml4Phys' = pml4Phys,
         \A s \in DOMAIN tables, y \in Indices :
           tables'[s][y] = IF s = t /\ y = Index(p, 0) THEN f ELSE tables[s][y]
  PROVE  /\ Shape(lev, place)'
         /\ Translate(p)' = f
         /\ \A v \in VirtualPages : v # p => Translate(v)' = Translate(v)
<1> DEFINE x == Index(p, 0)
<1>1. x \in Indices /\ 0 \in Levels
  <2>1. 0 \in Levels /\ p \in Nat
    BY VMMAssumption DEF Levels, VirtualPages
  <2>. QED  BY <2>1, AboveDigits
<1>. HIDE DEF x
<1>2. DOMAIN tables' = DOMAIN tables
  OBVIOUS
<1>3. \A s \in DOMAIN tables, y \in Indices : s # t => tables'[s][y] = tables[s][y]
  OBVIOUS
<1>4. tables'[t][x] = f /\ \A y \in Indices : y # x => tables'[t][y] = tables[t][y]
  BY <1>1 DEF x
<1>5. Shape(lev, place)'
  <2>1. lev \in [DOMAIN tables' -> Levels] /\ place \in [DOMAIN tables' -> Nat]
    BY <1>2 DEF Shape
  <2>2. pml4Phys' \in DOMAIN tables' /\ lev[pml4Phys'] = LEVELS - 1 /\ place[pml4Phys'] = 0
    BY <1>2 DEF Shape
  <2>3. /\ \A s \in DOMAIN tables' : lev[s] = LEVELS - 1 => s = pml4Phys'
        /\ \A s, u \in DOMAIN tables' : lev[s] = lev[u] /\ place[s] = place[u] => s = u
        /\ \A s \in DOMAIN tables' : \E v \in VirtualPages : place[s] = Above(v)[lev[s] + 1]
    BY <1>2 DEF Shape
  <2>4. ASSUME NEW s \in DOMAIN tables', NEW y \in Indices, lev[s] > 0, tables'[s][y] # ABSENT
        PROVE  /\ tables'[s][y] \in DOMAIN tables'
               /\ lev[tables'[s][y]] = lev[s] - 1 /\ place[tables'[s][y]] = FANOUT * place[s] + y
    <3>1. s \in DOMAIN tables /\ tables'[s][y] = tables[s][y]
      BY <1>2, <1>3, <2>4
    <3>. QED  BY <1>2, <2>4, <3>1 DEF Shape
  <2>5. ASSUME NEW s \in DOMAIN tables' \ {pml4Phys'}
        PROVE  \E u \in DOMAIN tables', y \in Indices : lev[u] = lev[s] + 1 /\ tables'[u][y] = s
    <3>1. PICK u \in DOMAIN tables, y \in Indices : lev[u] = lev[s] + 1 /\ tables[u][y] = s
      BY <1>2 DEF Shape
    <3>2. lev[s] \in Nat
      BY <1>2 DEF Shape, Levels
    <3>3. u # t
      BY <3>1, <3>2
    <3>. QED  BY <1>2, <1>3, <3>1, <3>3
  <2>. QED  BY <2>1, <2>2, <2>3, <2>4, <2>5 DEF Shape
<1>6. Translate(p)' = f
  <2>2. Translated(lev, place)'
    BY <1>5, TranslationAfter
  <2>3. Translate(p)' = tables'[t][x]
    BY <1>2, <2>2 DEF Translated, x
  <2>. QED  BY <1>4, <2>3
<1>7. ASSUME NEW v \in VirtualPages, v # p  PROVE Translate(v)' = Translate(v)
  <2> DEFINE y == Index(v, 0)
  <2>1. y \in Indices
    <3>1. v \in Nat
      BY DEF VirtualPages
    <3>. QED  BY <1>1, <3>1, AboveDigits
  <2>2. ASSUME NEW s \in DOMAIN tables, place[s] = Above(v)[1]  PROVE tables'[s][y] = tables[s][y]
    <3>1. CASE s # t
      BY <1>3, <2>1, <3>1
    <3>2. CASE s = t
      <4>1. y # x
        BY <1>7, <2>2, <3>2, SamePage DEF x
      <4>. HIDE DEF y
      <4>. QED  BY <1>4, <2>1, <3>2, <4>1
    <3>. QED  BY <3>1, <3>2
  <2>. HIDE DEF y
  <2>3. \A s \in DOMAIN tables : lev[s] = 0 /\ place[s] = Above(v)[1] =>
          /\ s \in DOMAIN tables' /\ lev[s] = 0 /\ place[s] = Above(v)[1]
          /\ tables'[s][Index(v, 0)] = tables[s][Index(v, 0)]
    BY <1>2, <2>2 DEF y
  <2>. QED  BY <1>2, <1>5, <2>3, TranslationKept
<1>. QED  BY <1>5, <1>6, <1>7

\* Where an entry leads nowhere, no table is in the place that it stands for.
LEMMA PlaceFree ==
  ASSUME Frames, NEW lev, NEW place, Shape(lev, place), NEW p \in VirtualPages,
         NEW t \in DOMAIN tables, NEW l \in 1 .. LEVELS - 1,
         lev[t] = l, place[t] = Above(p)[l + 1], tables[t][Index(p, l)] = ABSENT
  PROVE  \A s \in DOMAIN tables : ~ (lev[s] = l - 1 /\ place[s] = Above(p)[l])
<1>. SUFFICES ASSUME NEW s \in DOMAIN tables, lev[s] = l - 1, place[s] = Above(p)[l]
     PROVE  FALSE
  OBVIOUS
<1>1. l \in Levels /\ l - 1 < LEVELS - 1 /\ (l - 1) + 1 = l /\ p \in Nat
  BY VMMAssumption DEF Levels, VirtualPages
<1>2. PICK u \in DOMAIN tables, y \in Indices :
        lev[u] = lev[s] + 1 /\ tables[u][y] = s /\ place[s] = FANOUT * place[u] + y
  BY <1>1, Parent
<1>3. /\ Index(p, l) \in Indices /\ Above(p)[l + 1] \in Nat /\ place[u] \in Nat
      /\ Above(p)[l] = FANOUT * Above(p)[l + 1] + Index(p, l)
  BY <1>1, AboveDigits DEF Shape
<1>4. place[u] = place[t] /\ y = Index(p, l)
  <2>1. FANOUT * place[u] + y = FANOUT * Above(p)[l + 1] + Index(p, l)
    BY <1>2, <1>3
  <2>2. place[u] = Above(p)[l + 1] /\ y = Index(p, l)
    BY <1>3, <2>1, Digits
  <2>. QED  BY <2>2
<1>5. u = t
  BY <1>1, <1>2, <1>4 DEF Shape
<1>. QED  BY <1>2, <1>4, <1>5 DEF Frames, ABSENT

\* A new table hangs at an entry that led nowhere, in the place that the entry stands
\* for, where there was no table: the walks find nothing there that was not there.
LEMMA TableAdded ==
  ASSUME Frames, Frames', NEW lev, NEW place, Shape(lev, place),
         NEW p \in VirtualPages, NEW t \in DOMAIN tables, NEW l \in 1 .. LEVELS - 1,
         lev[t] = l, place[t] = Above(p)[l + 1], tables[t][Index(p, l)] = ABSENT,
         NEW f \in Nat, f \notin DOMAIN tables,
         DOMAIN tables' = DOMAIN tables \cup {f}, pml4Phys' = pml4Phys,
         \A y \in Indices : tables'[f][y] = ABSENT,
         \A s \in DOMAIN tables, y \in Indices :
           tables'[s][y] = IF s = t /\ y = Index(p, l) THEN f ELSE tables[s][y]
  PROVE  /\ \A v \in VirtualPages : Translate(v)' = Translate(v)
         /\ \E lev2, place2 :
              /\ Shape(lev2, place2)' /\ lev2[f] = l - 1 /\ place2[f] = Above(p)[l]
              /\ \A s \in DOMAIN tables : lev2[s] = lev[s] /\ place2[s] = place[s]
<1>0. PICK D : D = DOMAIN tables
  OBVIOUS
<1> DEFINE x == Index(p, l)
           q == Above(p)[l]
<1>a. PICK lev2 : lev2 = [s \in D \cup {f} |-> IF s = f THEN l - 1 ELSE lev[s]]
  OBVIOUS
<1>b. PICK place2 : place2 = [s \in D \cup {f} |-> IF s = f THEN q ELSE place[s]]
  OBVIOUS
<1>1. /\ l \in Levels /\ l - 1 \in Levels /\ l > 0 /\ l < LEVELS /\ p \in Nat
      /\ l - 1 # LEVELS - 1 /\ (l - 1) + 1 = l
  BY VMMAssumption DEF Levels, VirtualPages
<1>2. x \in Indices /\ q \in Nat /\ place[t] \in Nat /\ q = FANOUT * place[t] + x
  BY <1>1, AboveDigits
<1>. HIDE DEF x, q
<1>3. DOMAIN tables' = D \cup {f} /\ f # t /\ t \in D
  BY <1>0
<1>4. \A y \in Indices : tables'[f][y] = ABSENT
  OBVIOUS
<1>5. \A s \in D, y \in Indices : s # t => tables'[s][y] = tables[s][y]
  BY <1>0
<1>6. tables'[t][x] = f /\ \A y \in Indices : y # x => tables'[t][y] = tables[t][y]
  BY <1>2 DEF x
<1>7. tables[t][x] = ABSENT
  BY DEF x
<1>8. \A s \in D : s \in Nat /\ s # ABSENT /\ lev[s] \in Levels /\ place[s] \in Nat /\ s # f
  BY <1>0 DEF Frames, Shape, ABSENT
<1>9. f # ABSENT
  BY DEF ABSENT
<1>10. lev2[f] = l - 1 /\ place2[f] = q /\ \A s \in D : lev2[s] = lev[s] /\ place2[s] = place[s]
  BY <1>8, <1>a, <1>b
<1>11. lev2 \in [DOMAIN tables' -> Levels] /\ place2 \in [DOMAIN tables' -> Nat]
  BY <1>0, <1>1, <1>2, <1>3, <1>8, <1>a, <1>b DEF Shape
<1>12. ASSUME NEW s \in D, lev[s] = l - 1, place[s] = q  PROVE FALSE
  BY <1>0, <1>12, PlaceFree DEF q
<1>13. Shape(lev2, place2)'
  <2>1. pml4Phys' \in DOMAIN tables' /\ lev2[pml4Phys'] = LEVELS - 1 /\ place2[pml4Phys'] = 0
    BY <1>0, <1>3, <1>10 DEF Shape
  <2>2. \A s \in DOMAIN tables' : lev2[s] = LEVELS - 1 => s = pml4Phys'
    BY <1>0, <1>1, <1>3, <1>10 DEF Shape
  <2>3. ASSUME NEW s \in DOMAIN tables', NEW u \in DOMAIN tables',
               lev2[s] = lev2[u], place2[s] = place2[u]
        PROVE  s = u
    BY <1>0, <1>3, <1>10, <1>12, <2>3 DEF Shape
  <2>4. ASSUME NEW s \in DOMAIN tables', NEW y \in Indices, lev2[s] > 0, tables'[s][y] # ABSENT
        PROVE  /\ tables'[s][y] \in DOMAIN tables'
               /\ lev2[tables'[s][y]] = lev2[s] - 1
               /\ place2[tables'[s][y]] = FANOUT * place2[s] + y
    <3>1. s \in D
      BY <1>3, <1>4, <2>4
    <3>2. CASE s = t /\ y = x
      BY <1>1, <1>2, <1>3, <1>6, <1>10, <3>2
    <3>3. CASE ~ (s = t /\ y = x)
      <4>1. tables'[s][y] = tables[s][y] /\ lev2[s] = lev[s] /\ place2[s] = place[s]
        BY <1>5, <1>6, <1>10, <3>1, <3>3
      <4>2. /\ tables[s][y] \in D /\ lev[tables[s][y]] = lev[s] - 1
            /\ place[tables[s][y]] = FANOUT * place[s] + y
        BY <1>0, <2>4, <3>1, <4>1 DEF Shape
      <4>. QED  BY <1>3, <1>10, <4>1, <4>2
    <3>. QED  BY <3>2, <3>3
  <2>5. ASSUME NEW s \in DOMAIN tables' \ {pml4Phys'}
        PROVE  \E u \in DOMAIN tables', y \in Indices : lev2[u] = lev2[s] + 1 /\ tables'[u][y] = s
    <3>1. CASE s = f
      BY <1>1, <1>2, <1>3, <1>6, <1>10, <3>1
    <3>2. CASE s # f
      <4>1. s \in D
        BY <1>3, <3>2
      <4>2. PICK u \in D, y \in Indices : lev[u] = lev[s] + 1 /\ tables[u][y] = s
        BY <1>0, <1>3, <4>1 DEF Shape
      <4>3. tables'[u][y] = s
        BY <1>5, <1>6, <1>7, <1>8, <4>1, <4>2
      <4>. QED  BY <1>3, <1>10, <4>1, <4>2, <4>3
    <3>. QED  BY <3>1, <3>2
  <2>6. ASSUME NEW s \in DOMAIN tables'
        PROVE  \E v \in VirtualPages : place2[s] = Above(v)[lev2[s] + 1]
    <3>1. CASE s = f
      BY <1>1, <1>10, <3>1 DEF q
    <3>2. CASE s # f
      <4>1. s \in D
        BY <1>3, <3>2
      <4>. QED  BY <1>0, <1>10, <4>1 DEF Shape
    <3>. QED  BY <3>1, <3>2
  <2>. QED  BY <1>11, <2>1, <2>2, <2>3, <2>4, <2>5, <2>6 DEF Shape
<1>14. ASSUME NEW v \in VirtualPages  PROVE Translate(v)' = Translate(v)
  <2>1. Index(v, 0) \in Indices
    <3>1. v \in Nat /\ 0 \in Levels
      BY VMMAssumption DEF VirtualPages, Levels
    <3>. QED  BY <3>1, AboveDigits
  <2>2. tables'[f][Index(v, 0)] = ABSENT
    BY <1>4, <2>1
  <2>3. \A s \in D : lev[s] = 0 /\ place[s] = Above(v)[1] =>
          /\ s \in DOMAIN tables' /\ lev2[s] = 0 /\ place2[s] = Above(v)[1]
          /\ tables'[s][Index(v, 0)] = tables[s][Index(v, 0)]
    <3>1. \A s \in D : lev[s] = 0 => tables'[s][Index(v, 0)] = tables[s][Index(v, 0)]
      BY <1>1, <1>5, <2>1
    <3>. QED  BY <1>3, <1>10, <3>1
  <2>4. \A s \in DOMAIN tables' : lev2[s] = 0 /\ place2[s] = Above(v)[1] =>
          \/ s \in D /\ lev[s] = 0 /\ place[s] = Above(v)[1]
          \/ tables'[s][Index(v, 0)] = ABSENT
    BY <1>3, <1>10, <2>2
  <2>. QED  BY <1>0, <1>13, <2>3, <2>4, TranslationKept
<1>. QED  BY <1>0, <1>10, <1>13, <1>14 DEF q
--------------------------------------------------------------------------------
\* What callers see stays as it is when it does for each page.
Steps == Abstract!Next \/ UNCHANGED Visible

LEMMA ShownKept ==
  ASSUME Frames, Frames', NEW lev, NEW place, Shape(lev, place),
         NEW lev2, NEW place2, Shape(lev2, place2)',
         \A v \in VirtualPages : Shown(v)' = Shown(v)
  PROVE  Steps
<1> DEFINE V == {v \in VirtualPages : Shown(v) # ABSENT}
<1>1. Visible = [v \in V |-> Shown(v)]
  BY VisiblePages
<1>2. Visible' = [v \in {u \in VirtualPages : Shown(u)' # ABSENT} |-> Shown(v)']
  BY VisibleAfter
<1>3. {u \in VirtualPages : Shown(u)' # ABSENT} = V /\ \A v \in V : Shown(v)' = Shown(v)
  OBVIOUS
<1>. HIDE DEF V
<1>. QED  BY <1>1, <1>2, <1>3 DEF Steps

\* One page less is what unmap promises.
LEMMA ShownLess ==
  ASSUME Frames, Frames', NEW lev, NEW place, Shape(lev, place),
         NEW lev2, NEW place2, Shape(lev2, place2)',
         NEW p \in VirtualPages, Shown(p)' = ABSENT,
         \A v \in VirtualPages : v # p => Shown(v)' = Shown(v)
  PROVE  Steps
<1>1. CASE Shown(p) = ABSENT
  <2>1. \A v \in VirtualPages : Shown(v)' = Shown(v)
    BY <1>1
  <2>. QED  BY <2>1, ShownKept
<1>2. CASE Shown(p) # ABSENT
  <2> DEFINE V == {v \in VirtualPages : Shown(v) # ABSENT}
  <2>1. Visible = [v \in V |-> Shown(v)]
    BY VisiblePages
  <2>2. Visible' = [v \in {u \in VirtualPages : Shown(u)' # ABSENT} |-> Shown(v)']
    BY VisibleAfter
  <2>3. {u \in VirtualPages : Shown(u)' # ABSENT} = V \ {p}
    OBVIOUS
  <2>4. p \in V /\ \A v \in V \ {p} : Shown(v)' = Shown(v)
    BY <1>2
  <2>. HIDE DEF V
  <2>5. Visible' = [v \in V \ {p} |-> Shown(v)]
    BY <2>2, <2>3, <2>4
  <2>6. DOMAIN Visible = V /\ \A v \in V : Visible[v] = Shown(v)
    BY <2>1
  <2>7. Abstract!Restrict(Visible, V \ {p}) = [v \in V \ {p} |-> Shown(v)]
    BY <2>6 DEF Abstract!Restrict
  <2>8. Abstract!Unmap(p) /\ p \in DOMAIN Visible
    BY <2>4, <2>5, <2>6, <2>7 DEF Abstract!Unmap
  <2>. QED  BY <2>8 DEF Steps, Abstract!Next
<1>. QED  BY <1>1, <1>2

\* One requested range more is what map_range promises.
LEMMA ShownMore ==
  ASSUME Frames, Frames', NEW lev, NEW place, Shape(lev, place),
         NEW lev2, NEW place2, Shape(lev2, place2)',
         NEW r \in Requests, r.virt \in Nat, r.phys \in Nat, r.count \in Nat,
         \A v \in r.virt .. r.virt + r.count - 1 :
           v \in VirtualPages /\ Shown(v) = ABSENT /\ Shown(v)' = r.phys + (v - r.virt),
         \A v \in VirtualPages :
           v \notin r.virt .. r.virt + r.count - 1 => Shown(v)' = Shown(v)
  PROVE  Steps
<1> DEFINE V == {v \in VirtualPages : Shown(v) # ABSENT}
           R == r.virt .. r.virt + r.count - 1
           new == [v \in R |-> r.phys + (v - r.virt)]
<1>1. Visible = [v \in V |-> Shown(v)]
  BY VisiblePages
<1>2. Visible' = [v \in {u \in VirtualPages : Shown(u)' # ABSENT} |-> Shown(v)']
  BY VisibleAfter
<1>3. \A v \in R : Shown(v)' # ABSENT /\ v \notin V
  BY DEF ABSENT
<1>4. {u \in VirtualPages : Shown(u)' # ABSENT} = V \cup R
  BY <1>3
<1>5. \A v \in V \cup R : Shown(v)' = IF v \in R THEN new[v] ELSE Shown(v)
  OBVIOUS
<1>6. DOMAIN new = R
  OBVIOUS
<1>7. Abstract!MapRange(r) <=> /\ R \cap DOMAIN Visible = {}
                               /\ Visible' = [v \in DOMAIN Visible \cup R |->
                                                IF v \in R THEN new[v] ELSE Visible[v]]
  BY <1>6 DEF Abstract!MapRange
<1>. HIDE DEF V, R, new
<1>8. R \cap V = {}
  BY <1>3
<1>9. Visible' = [v \in V \cup R |-> IF v \in R THEN new[v] ELSE Visible[v]]
  BY <1>1, <1>2, <1>4, <1>5
<1>10. Abstract!MapRange(r)
  BY <1>1, <1>7, <1>8, <1>9
<1>. QED  BY <1>10 DEF Steps, Abstract!Next
--------------------------------------------------------------------------------
\* How the steps change the call.
LEMMA Continued ==
  ASSUME NEW c \in [op : Ops, virt : Nat, phys : Nat, count : Nat], NEW n \in 0 .. c.count,
         c.op # "none",
         c.op = "map" => [virt |-> c.virt, phys |-> c.phys, count |-> c.count] \in Requests,
         \A k \in 0 .. c.count - 1 : c.virt + k \in VirtualPages,
         pml4Phys' = pml4Phys, Continue(c, n)
  PROVE  /\ Calling'
         /\ pc' \in {"boot", "idle", "walk"}
         /\ \/ n = c.count /\ pc' # "walk" /\ call' = NoCall /\ i' = 0
            \/ n # c.count /\ pc' = "walk" /\ call' = c /\ i' = n
         /\ \A lev, place : Shape(lev, place)' => Position(lev, place)'
<1>1. CASE n = c.count
  <2>1. /\ pc' \in {"boot", "idle"} /\ call' = NoCall /\ i' = 0
    BY <1>1 DEF Continue
  <2>2. Calling'
    BY <2>1 DEF Calling, NoCall, Ops
  <2>. QED  BY <1>1, <2>1, <2>2 DEF Position
<1>2. CASE n # c.count
  <2>1. pc' = "walk" /\ call' = c /\ i' = n /\ level' = LEVELS - 1 /\ table' = pml4Phys'
    BY <1>2 DEF Continue
  <2>2. n < c.count /\ c.count \in Nat /\ n \in Nat
    BY <1>2
  <2>3. Calling'
    BY <2>1, <2>2 DEF Calling
  <2>4. ASSUME NEW lev, NEW place, Shape(lev, place)'  PROVE Position(lev, place)'
    <3>1. Page' = c.virt + n /\ c.virt + n \in VirtualPages
      BY <2>1, <2>2 DEF Page
    <3>2. Above(Page')[level' + 1] = 0
      BY <2>1, <3>1, VMMAssumption DEF VirtualPages
    <3>3. /\ pml4Phys' \in DOMAIN tables' /\ lev[pml4Phys'] = LEVELS - 1 /\ place[pml4Phys'] = 0
      BY <2>4 DEF Shape
    <3>. QED  BY <2>1, <3>2, <3>3 DEF Position
  <2>. QED  BY <1>2, <2>1, <2>3, <2>4
<1>. QED  BY <1>1, <1>2

\* The steps that leave tables and call as they are, or only put an empty table in.
LEMMA Quiet ==
  ASSUME Frames, Frames', NEW lev, NEW place, Shape(lev, place),
         NEW lev2, NEW place2, Shape(lev2, place2)', Calling, Progress,
         \A v \in VirtualPages : Translate(v)' = Translate(v),
         UNCHANGED <<call, i>>, pc' = "invlpg" => pc = "invlpg"
  PROVE  Progress' /\ Steps
<1>1. InFlight' = InFlight /\ Page' = Page
  BY DEF InFlight, Page
<1>2. \A v \in VirtualPages : Shown(v)' = Shown(v)
  BY <1>1 DEF Shown
<1>3. Steps
  BY <1>2, ShownKept
<1>4. \A k \in 0 .. call.count - 1 : call.virt + k \in VirtualPages
  BY DEF Calling
<1>5. call.count \in Nat /\ i \in 0 .. call.count
  BY DEF Calling
<1>6. ASSUME NEW k \in 0 .. call.count - 1  PROVE Translate(call.virt + k)' = Translate(call.virt + k)
  <2>1. PICK v : v = call.virt + k
    OBVIOUS
  <2>2. v \in VirtualPages /\ v = call'.virt + k
    BY <1>4, <2>1
  <2>3. Translate(v)' = Translate(v)
    BY <2>2
  <2>. QED  BY <2>1, <2>2, <2>3
<1>7. \A k \in 0 .. i - 1 : k \in 0 .. call.count - 1
  BY <1>5
<1>8. call'.op = "map" => \A k \in 0 .. i' - 1 : Translate(call.virt + k)' = call'.phys + k
  BY <1>6, <1>7 DEF Progress
<1>9. call'.op = "undo" => \A k \in 0 .. i' - 1 : Translate(call.virt + k)' = ABSENT
  BY <1>6, <1>7 DEF Progress
<1>10. pc' = "invlpg" => Translate(Page)' = ABSENT
  <2>1. SUFFICES ASSUME pc = "invlpg"  PROVE Translate(Page)' = ABSENT
    OBVIOUS
  <2>2. i \in 0 .. call.count - 1
    BY <1>5, <2>1 DEF Calling
  <2>3. PICK v : v = Page
    OBVIOUS
  <2>4. v \in VirtualPages /\ v = Page'
    BY <1>1, <1>4, <2>2, <2>3 DEF Page
  <2>5. Translate(v) = ABSENT
    BY <2>1, <2>3 DEF Progress
  <2>6. Translate(v)' = ABSENT
    BY <2>4, <2>5
  <2>. QED  BY <2>4, <2>6
<1>. QED  BY <1>3, <1>8, <1>9, <1>10 DEF Progress

\* What is cached stays true, if what the tables hold for a page changes only where
\* there was nothing, or with an invlpg to come.
LEMMA CacheKept ==
  ASSUME Cached, tlb' \subseteq tlb,
         \A v \in VirtualPages : \/ Translate(v)' = Translate(v)
                                 \/ pc' = "invlpg" /\ v = Page'
                                 \/ Translate(v) = ABSENT,
         \A t \in tlb' : pc = "invlpg" /\ t[1] = Page => pc' = "invlpg" /\ Page' = Page
  PROVE  Cached'
<1>1. \A t \in tlb' : \E v \in Watched, w \in Nat : t = <<v, w>>
  BY DEF Cached
<1>2. ASSUME NEW t \in tlb'
      PROVE  Translate(t[1])' = t[2] \/ (pc' = "invlpg" /\ t[1] = Page')
  <2>1. PICK v \in Watched, w \in Nat : t = <<v, w>>
    BY <1>1
  <2>2. v \in VirtualPages /\ t[1] = v /\ t[2] = w /\ w # ABSENT
    BY <2>1, Canonical DEF ABSENT
  <2>3. Translate(v) = w \/ (pc = "invlpg" /\ v = Page)
    BY <2>1, <2>2 DEF Cached, Coherent
  <2>4. CASE pc = "invlpg" /\ v = Page
    BY <2>2, <2>4
  <2>5. CASE Translate(v) = w
    BY <2>2, <2>5
  <2>. QED  BY <2>3, <2>4, <2>5
<1>. QED  BY <1>1, <1>2 DEF Cached, Coherent

\* Steps that leave the tables and the call as they are.
LEMMA OthersStep ==
  ASSUME VInv, InitLoads \/ OthersAlloc \/ OthersFree \/ Descend \/ Faults \/ TlbFill \/ TlbEvict
  PROVE  VInv' /\ Steps
<1>. USE DEF VInv
<1>1. pml4Phys # NONE
  BY DEF InitLoads, OthersAlloc, OthersFree, Descend, Faults, TlbFill, TlbEvict, Rooted, Walking
<1>2. PICK lev, place : Placed(lev, place)
  BY <1>1 DEF Rooted
<1>3. /\ UNCHANGED <<ranges, pml4Phys, tables, call, i>>
      /\ pc' = "invlpg" => pc = "invlpg" /\ UNCHANGED <<table, level>>
      /\ pc' \notin {"reset", "panic"}
  BY <1>1 DEF InitLoads, OthersAlloc, OthersFree, Descend, Faults, TlbFill, TlbEvict, walkVars, Rooted, Walking
<1>4. Frames'
  <2>1. boot' \in 0 .. 2 * Len(ranges) /\ physOffset' \in {0, HHDM}
    BY DEF InitLoads, OthersAlloc, OthersFree, Descend, Faults, TlbFill, TlbEvict, Frames
  <2>2. pool' \subseteq Nat \ {NONE} /\ DOMAIN tables \cap pool' = {}
    BY VMMAssumption DEF InitLoads, OthersAlloc, OthersFree, Descend, Faults, TlbFill, TlbEvict, Frames, NONE
  <2>. QED  BY <1>3, <2>1, <2>2 DEF Frames
<1>5. /\ Shape(lev, place)' /\ Shape(lev, place)
      /\ \A v \in VirtualPages : Translate(v)' = Translate(v)
  BY <1>2, <1>3, <1>4, SameTables DEF Placed
<1>6. Progress' /\ Steps
  BY <1>3, <1>4, <1>5, Quiet
<1>7. Calling'
  BY DEF InitLoads, OthersAlloc, OthersFree, Descend, Faults, TlbFill, TlbEvict, walkVars, Calling, Walking
<1>8. Page' = Page
  BY <1>3 DEF Page
<1>9. Position(lev, place)'
  <2>1. Position(lev, place)
    BY <1>2 DEF Placed
  <2>2. CASE Descend
    <3>1. PICK l \in 1 .. LEVELS - 1 : pc = "walk" /\ level = l
      BY <2>2 DEF Descend, Walking
    <3>2. l \in Nat /\ l > 0 /\ l \in Levels
      BY VMMAssumption DEF Levels
    <3>3. PICK p : p = Page
      OBVIOUS
    <3>4. p \in VirtualPages
      BY <3>1, <3>3 DEF Calling, Page
    <3>5. p \in Nat
      BY <3>4 DEF VirtualPages
    <3>6. /\ Index(p, l) \in Indices
          /\ Above(p)[l] = FANOUT * Above(p)[l + 1] + Index(p, l)
      BY <3>2, <3>5, AboveDigits
    <3>7. table \in DOMAIN tables /\ lev[table] = l /\ place[table] = Above(p)[l + 1]
      BY <2>1, <3>1, <3>3 DEF Position
    <3>8. table' = tables[table][Index(p, l)] /\ tables[table][Index(p, l)] # ABSENT /\ level' = l - 1
      BY <2>2, <3>1, <3>3 DEF Descend, Entry
    <3>9. table' \in DOMAIN tables /\ lev[table'] = l - 1 /\ place[table'] = Above(p)[l]
      BY <1>5, <3>2, <3>6, <3>7, <3>8 DEF Shape
    <3>10. Above(Page')[level' + 1] = Above(p)[l] /\ pc' = "walk"
      BY <1>8, <2>2, <3>1, <3>2, <3>3, <3>8 DEF Descend
    <3>. QED  BY <1>3, <3>8, <3>9, <3>10 DEF Position
  <2>3. CASE ~ Descend
    <3>1. pc' \in {"walk", "invlpg"} => pc = pc' /\ UNCHANGED <<table, level>>
      BY <2>3 DEF InitLoads, OthersAlloc, OthersFree, Faults, TlbFill, TlbEvict, walkVars
    <3>. QED  BY <1>3, <1>8, <2>1, <3>1 DEF Position
  <2>. QED  BY <2>2, <2>3
<1>10. Rooted'
  BY <1>1, <1>3, <1>5, <1>9 DEF Rooted, Placed
<1>11. Cached'
  <2>1. CASE TlbFill
    <3>1. PICK v \in Watched : Mapped(v) /\ tlb' = {<<v, Translate(v)>>}
      BY <2>1 DEF TlbFill
    <3>2. v \in VirtualPages
      BY Canonical
    <3>3. Translate(v) \in Nat /\ Translate(v)' = Translate(v)
      BY <1>5, <3>1, <3>2, Translation DEF Translated, Mapped
    <3>. QED  BY <3>1, <3>3 DEF Cached, Coherent
  <2>2. CASE ~ TlbFill
    <3>1. tlb' \subseteq tlb
      BY <2>2 DEF InitLoads, OthersAlloc, OthersFree, Descend, Faults, TlbEvict
    <3>2. \A t \in tlb' : pc = "invlpg" => pc' = "invlpg"
      BY <2>2 DEF InitLoads, OthersAlloc, OthersFree, Descend, Faults, TlbEvict, walkVars, Walking
    <3>. QED  BY <1>5, <1>8, <3>1, <3>2, CacheKept
  <2>. QED  BY <2>1, <2>2
<1>. QED  BY <1>4, <1>6, <1>7, <1>10, <1>11

\* The root, or no memory for it.
LEMMA InitRootStep ==
  ASSUME VInv, InitRoot
  PROVE  VInv' /\ Steps
<1>. USE DEF VInv
<1>1. /\ pc = "reset" /\ pml4Phys = NONE /\ tables = [f \in {} |-> EmptyTable]
      /\ physOffset = 0 /\ tlb = {} /\ call = NoCall /\ i = 0
  BY DEF InitRoot, Rooted, Calling
<1>2. UNCHANGED <<ranges, boot, physOffset, call, i, tlb>> /\ pc' \in {"panic", "boot"}
  BY DEF InitRoot
<1>3. Calling' /\ Progress' /\ Cached'
  BY <1>1, <1>2 DEF Calling, Progress, Cached, Coherent, NoCall
<1>4. Visible = [v \in {} |-> 0]
  BY <1>1, VisibleNothing
<1>5. CASE pool = {}
  <2>1. UNCHANGED <<pml4Phys, tables, pool>> /\ pc' = "panic"
    BY <1>5 DEF InitRoot
  <2>2. Frames'
    BY <1>2, <2>1 DEF Frames
  <2>3. Rooted'
    BY <1>1, <1>2, <2>1 DEF Rooted, EmptyTable
  <2>4. Steps
    <3>1. (pml4Phys = NONE => Visible = [v \in {} |-> 0])'
      BY VisibleNothing, PTL
    <3>. QED  BY <1>1, <1>4, <2>1, <3>1 DEF Steps
  <2>. QED  BY <1>3, <2>2, <2>3, <2>4
<1>6. CASE pool # {}
  <2>1. PICK f : f = Lowest(pool)
    OBVIOUS
  <2>2. f \in pool /\ f \in Nat /\ f # NONE
    BY <1>6, <2>1, LowestFree DEF Frames
  <2>3. /\ pc' = "boot" /\ pml4Phys' = f /\ pool' = pool \ {f}
        /\ tables' = [g \in {f} |-> EmptyTable]
    BY <1>6, <2>1 DEF InitRoot
  <2>4. tables'[f] = [x \in Indices |-> ABSENT] /\ DOMAIN tables' = {f}
    BY <2>3 DEF EmptyTable, Indices
  <2>5. Frames'
    BY <1>2, <2>2, <2>3, <2>4 DEF Frames
  <2>6. PICK lev, place : lev = [g \in {f} |-> LEVELS - 1] /\ place = [g \in {f} |-> 0]
    OBVIOUS
  <2>7. Shape(lev, place)'
    <3>1. LEVELS - 1 \in Levels /\ (LEVELS - 1) + 1 = LEVELS
      BY VMMAssumption DEF Levels
    <3>2. lev \in [{f} -> Levels] /\ place \in [{f} -> Nat] /\ lev[f] = LEVELS - 1 /\ place[f] = 0
      BY <2>6, <3>1
    <3>3. \A x \in Indices : tables'[f][x] = ABSENT
      BY <2>4
    <3>4. \E v \in VirtualPages : place[f] = Above(v)[lev[f] + 1]
      BY <3>1, <3>2, PageZero
    <3>. QED  BY <2>3, <2>4, <3>2, <3>3, <3>4 DEF Shape
  <2>8. Rooted'
    BY <2>2, <2>3, <2>7 DEF Rooted, Placed, Position
  <2>9. \A v \in VirtualPages : Shown(v)' = ABSENT
    <3>1. Translated(lev, place)'
      BY <2>5, <2>7, TranslationAfter
    <3>2. ASSUME NEW v \in VirtualPages  PROVE Translate(v)' = ABSENT
      <4>1. Index(v, 0) \in Indices
        <5>1. v \in Nat /\ 0 \in Levels
          BY VMMAssumption DEF VirtualPages, Levels
        <5>. QED  BY <5>1, AboveDigits
      <4>. QED  BY <2>4, <3>1, <4>1 DEF Translated
    <3>. QED  BY <3>2 DEF Shown
  <2>10. Visible' = Visible
    <3>1. Visible' = [v \in {u \in VirtualPages : Shown(u)' # ABSENT} |-> Shown(v)']
      BY <2>5, <2>7, VisibleAfter
    <3>2. {u \in VirtualPages : Shown(u)' # ABSENT} = {}
      BY <2>9
    <3>. QED  BY <1>4, <3>1, <3>2
  <2>. QED  BY <1>3, <2>5, <2>8, <2>10 DEF Steps
<1>. QED  BY <1>5, <1>6

\* A table is made, for the page that is walked, in the place of that page.
Made(l, f, lev, place, lev2, place2) ==
  /\ pc = "walk" /\ call.op = "map" /\ Page \in VirtualPages
  /\ f \in Nat /\ f # NONE /\ f \notin DOMAIN tables
  /\ table' = f /\ level' = l - 1 /\ pool' = pool \ {f}
  /\ DOMAIN tables' = DOMAIN tables \cup {f}
  /\ UNCHANGED <<ranges, boot, pml4Phys, physOffset, pc, call, i, tlb>>
  /\ Frames' /\ \A v \in VirtualPages : Translate(v)' = Translate(v)
  /\ Shape(lev, place) /\ Shape(lev2, place2)'
  /\ lev2[f] = l - 1 /\ place2[f] = Above(Page)[l]
  /\ \A s \in DOMAIN tables : lev2[s] = lev[s] /\ place2[s] = place[s]

LEMMA TableMade ==
  ASSUME VInv, NewTable
  PROVE  \E l \in 1 .. LEVELS - 1, f \in pool :
           \E lev, place, lev2, place2 : Made(l, f, lev, place, lev2, place2)
<1>. USE DEF VInv
<1>1. PICK l \in 1 .. LEVELS - 1 : pc = "walk" /\ level = l
  BY DEF NewTable, Walking
<1>2. PICK lev, place : Placed(lev, place)
  BY <1>1 DEF Rooted
<1>3. PICK p : p = Page
  OBVIOUS
<1>4. PICK t : t = table
  OBVIOUS
<1>5. PICK f : f = Lowest(pool)
  OBVIOUS
<1>6. f \in pool /\ f \in Nat /\ f # NONE /\ f \notin DOMAIN tables
  BY <1>5, LowestFree DEF Frames, NewTable
<1>7. p \in VirtualPages
  BY <1>1, <1>3 DEF Calling, Page
<1>8. l \in Levels /\ l > 0 /\ p \in Nat /\ (l - 1) + 1 = l
  BY <1>7, VMMAssumption DEF Levels, VirtualPages
<1>9. Index(p, l) \in Indices
  BY <1>8, AboveDigits
<1>10. t \in DOMAIN tables /\ lev[t] = l /\ place[t] = Above(p)[l + 1] /\ Shape(lev, place)
  BY <1>1, <1>2, <1>3, <1>4 DEF Placed, Position
<1>11. /\ tables[t][Index(p, l)] = ABSENT
       /\ table' = f /\ level' = l - 1 /\ pool' = pool \ {f}
       /\ tables' = [s \in DOMAIN tables \cup {f} |->
                       IF s = f THEN EmptyTable ELSE [tables EXCEPT ![t][Index(p, l)] = f][s]]
       /\ UNCHANGED <<ranges, boot, pml4Phys, physOffset, pc, call, i, tlb>>
  BY <1>1, <1>3, <1>4, <1>5 DEF NewTable, Entry, Link
<1>12. DOMAIN tables' = DOMAIN tables \cup {f} /\ \A y \in Indices : tables'[f][y] = ABSENT
  BY <1>11 DEF EmptyTable, Indices
<1>13. ASSUME NEW s \in DOMAIN tables, NEW y \in Indices
       PROVE  tables'[s][y] = IF s = t /\ y = Index(p, l) THEN f ELSE tables[s][y]
  <2> DEFINE x == Index(p, l)
  <2>1. tables'[s] = [tables EXCEPT ![t][x] = f][s]
    BY <1>6, <1>11
  <2>. HIDE DEF x
  <2>2. tables[s] \in [Indices -> Nat \cup {ABSENT}]
    BY DEF Frames
  <2>3. tables'[s][y] = IF s = t /\ y = x THEN f ELSE tables[s][y]
    BY <1>10, <2>1, <2>2
  <2>. QED  BY <2>3 DEF x
<1>14. Frames'
  <2>1. ASSUME NEW s \in DOMAIN tables'  PROVE tables'[s] \in [Indices -> Nat \cup {ABSENT}]
    <3>1. CASE s = f
      BY <1>11, <3>1 DEF EmptyTable, Indices
    <3>2. CASE s # f
      <4>1. s \in DOMAIN tables /\ tables[s] \in [Indices -> Nat \cup {ABSENT}]
        BY <1>12, <3>2 DEF Frames
      <4>2. tables'[s] = [tables EXCEPT ![t][Index(p, l)] = f][s]
        BY <1>11, <3>2, <4>1
      <4>. HIDE DEF Index
      <4>. QED  BY <1>6, <1>9, <1>10, <4>1, <4>2
    <3>. QED  BY <3>1, <3>2
  <2>. QED  BY <1>6, <1>11, <1>12, <2>1 DEF Frames
<1>15. /\ \A v \in VirtualPages : Translate(v)' = Translate(v)
       /\ \E lev2, place2 :
            /\ Shape(lev2, place2)' /\ lev2[f] = l - 1 /\ place2[f] = Above(p)[l]
            /\ \A s \in DOMAIN tables : lev2[s] = lev[s] /\ place2[s] = place[s]
  <2>1. pml4Phys' = pml4Phys
    BY <1>11
  <2>2. tables[t][Index(p, l)] = ABSENT
    BY <1>11
  <2>. QED  BY <1>6, <1>7, <1>10, <1>12, <1>13, <1>14, <2>1, <2>2, TableAdded
<1>16. call.op = "map"
  BY DEF NewTable
<1>17. Page = p
  BY <1>3
<1>18. /\ table' = f /\ level' = l - 1 /\ pool' = pool \ {f}
       /\ UNCHANGED <<ranges, boot, pml4Phys, physOffset, pc, call, i, tlb>>
  BY <1>11
<1>. HIDE DEF VInv
<1>. QED  BY <1>1, <1>6, <1>7, <1>10, <1>12, <1>14, <1>15, <1>16, <1>17, <1>18 DEF Made

LEMMA NewTableStep ==
  ASSUME VInv, NewTable
  PROVE  VInv' /\ Steps
<1>0. PICK l \in 1 .. LEVELS - 1, f \in pool :
        \E lev, place, lev2, place2 : Made(l, f, lev, place, lev2, place2)
  BY TableMade
<1>1. PICK lev, place, lev2, place2 : Made(l, f, lev, place, lev2, place2)
  BY <1>0
<1>. USE DEF Made
<1>2. Progress' /\ Steps
  BY <1>1, Quiet DEF VInv
<1>3. Calling'
  BY <1>1 DEF VInv, Calling
<1>4. Position(lev2, place2)'
  <2>1. Page' = Page
    BY <1>1 DEF Page
  <2>2. (l - 1) + 1 = l
    BY VMMAssumption
  <2>. QED  BY <1>1, <2>1, <2>2 DEF Position
<1>5. Rooted'
  BY <1>1, <1>4 DEF VInv, Rooted, Placed
<1>6. Cached'
  BY <1>1, CacheKept DEF VInv
<1>. QED  BY <1>1, <1>2, <1>3, <1>5, <1>6 DEF VInv

\* Steps that begin a call, or its next page, and write no table: what is cached and
\* what callers see is as before.
LEMMA ContinueStep ==
  ASSUME VInv, pml4Phys # NONE, UNCHANGED <<ranges, pml4Phys, physOffset, tables, pool>>,
         boot' \in 0 .. 2 * Len(ranges), tlb' \subseteq tlb,
         pc = "invlpg" => \A t \in tlb' : t[1] # Page,
         NEW c \in [op : Ops, virt : Nat, phys : Nat, count : Nat], NEW n \in 0 .. c.count,
         c.op # "none",
         c.op = "map" => [virt |-> c.virt, phys |-> c.phys, count |-> c.count] \in Requests,
         \A k \in 0 .. c.count - 1 : c.virt + k \in VirtualPages,
         Continue(c, n),
         c.op = "map"  => \A k \in 0 .. n - 1 : Translate(c.virt + k) = c.phys + k,
         c.op = "undo" => \A k \in 0 .. n - 1 : Translate(c.virt + k) = ABSENT,
         \A v \in VirtualPages : Translate(v) # ABSENT => (v \in InFlight <=> v \in InFlight')
  PROVE  VInv' /\ Steps
<1>. USE DEF VInv
<1>1. PICK lev, place : Placed(lev, place)
  BY DEF Rooted
<1>2. Frames'
  BY DEF Frames
<1>3. /\ Shape(lev, place)' /\ Shape(lev, place)
      /\ \A v \in VirtualPages : Translate(v)' = Translate(v)
  BY <1>1, <1>2, SameTables DEF Placed
<1>4. pml4Phys' = pml4Phys
  OBVIOUS
<1>5. /\ Calling' /\ pc' \in {"boot", "idle", "walk"}
      /\ \/ n = c.count /\ pc' # "walk" /\ call' = NoCall /\ i' = 0
         \/ n # c.count /\ pc' = "walk" /\ call' = c /\ i' = n
      /\ \A l, p : Shape(l, p)' => Position(l, p)'
  BY <1>4, Continued
<1>6. Rooted'
  BY <1>3, <1>5 DEF Rooted, Placed
<1>7. \A v \in VirtualPages : Shown(v)' = Shown(v)
  BY <1>3 DEF Shown
<1>8. Steps
  BY <1>2, <1>3, <1>7, ShownKept
<1>9. Cached'
  <2>1. \A t \in tlb' : ~ (pc = "invlpg" /\ t[1] = Page)
    OBVIOUS
  <2>. QED  BY <1>3, <2>1, CacheKept
<1>10. Progress'
  <2>1. CASE n = c.count
    BY <1>5, <2>1 DEF Progress, NoCall
  <2>2. CASE n # c.count
    <3>1. pc' = "walk" /\ call' = c /\ i' = n
      BY <1>5, <2>2
    <3>2. ASSUME NEW k \in 0 .. n - 1  PROVE Translate(call.virt + k)' = Translate(c.virt + k)
      <4>1. PICK v : v = c.virt + k
        OBVIOUS
      <4>2. k \in 0 .. c.count - 1
        OBVIOUS
      <4>3. v \in VirtualPages /\ v = call'.virt + k
        BY <3>1, <4>1, <4>2
      <4>4. Translate(v)' = Translate(v)
        BY <1>3, <4>3
      <4>. QED  BY <4>1, <4>3, <4>4
    <3>3. call'.op = "map" => \A k \in 0 .. i' - 1 : Translate(call.virt + k)' = call'.phys + k
      BY <3>1, <3>2
    <3>4. call'.op = "undo" => \A k \in 0 .. i' - 1 : Translate(call.virt + k)' = ABSENT
      BY <3>1, <3>2
    <3>. QED  BY <3>1, <3>3, <3>4 DEF Progress
  <2>. QED  BY <2>1, <2>2
<1>. QED  BY <1>2, <1>5, <1>6, <1>8, <1>9, <1>10

\* Nobody has pages in flight when a call begins, and it has none yet.
LEMMA CallBegins ==
  ASSUME VInv, pc \in {"boot", "idle"}, UNCHANGED <<ranges, pml4Phys, physOffset, tables, pool, tlb>>,
         boot' \in 0 .. 2 * Len(ranges),
         NEW c \in [op : Ops, virt : Nat, phys : Nat, count : Nat], c.op \in {"map", "unmap"},
         [virt |-> c.virt, phys |-> c.phys, count |-> c.count] \in Requests,
         Continue(c, 0)
  PROVE  VInv' /\ Steps
<1>1. pml4Phys # NONE
  BY DEF VInv, Rooted
<1>2. \A k \in 0 .. c.count - 1 : c.virt + k \in VirtualPages
  BY Canonical
<1>3. InFlight = {}
  BY DEF VInv, Calling, InFlight, NoCall
<1>4. InFlight' = {}
  <2>1. call' = NoCall \/ (call' = c /\ i' = 0)
    BY DEF Continue
  <2>. QED  BY <2>1 DEF InFlight, NoCall
<1>5. 0 \in 0 .. c.count /\ c.op # "none" /\ c.op # "undo" /\ tlb' \subseteq tlb /\ pc # "invlpg"
  OBVIOUS
<1>6. \A v \in VirtualPages : Translate(v) # ABSENT => (v \in InFlight <=> v \in InFlight')
  BY <1>3, <1>4
<1>7. c.op = "map" => \A k \in 0 .. 0 - 1 : Translate(c.virt + k) = c.phys + k
  OBVIOUS
<1>. QED  BY <1>1, <1>2, <1>5, <1>6, <1>7, ContinueStep

LEMMA SeqElements ==
  ASSUME NEW S, NEW s \in Seq(S)
  PROVE  DOMAIN s = 1 .. Len(s) /\ \A q \in 1 .. Len(s) : s[q] \in S
  OBVIOUS

LEMMA InitRangeStep ==
  ASSUME VInv, InitRange
  PROVE  VInv' /\ Steps
<1> DEFINE k == boot \div 2 + 1
           half == boot % 2
<1>1. PICK b : b = ranges
  OBVIOUS
<1>2. b \in BootInfos /\ b \in Seq([start : Nat, pages : Nat]) /\ boot \in Nat /\ boot < 2 * Len(b)
  BY <1>1, VMMAssumption DEF VInv, Frames, InitRange
<1>3. k \in 1 .. Len(b) /\ half \in 0 .. 1
  BY <1>2
<1>4. PICK j : j = k
  OBVIOUS
<1>5. PICK h : h = half
  OBVIOUS
<1>6. PICK c : c = MapBoth(b[j], h)
  OBVIOUS
<1>. HIDE DEF k, half
<1>7. b[j] \in [start : Nat, pages : Nat] /\ j \in DOMAIN b /\ h \in 0 .. 1
  <2>1. DOMAIN b = 1 .. Len(b) /\ \A q \in 1 .. Len(b) : b[q] \in [start : Nat, pages : Nat]
    BY <1>2, SeqElements
  <2>. QED  BY <1>3, <1>4, <1>5, <2>1
<1>8. c \in [op : Ops, virt : Nat, phys : Nat, count : Nat] /\ c.op = "map"
  <2>1. PICK r : r = b[j]
    OBVIOUS
  <2>2. r.start \in Nat /\ r.pages \in Nat /\ HHDM + r.start \in Nat
    BY <1>7, <2>1, VMMAssumption
  <2>. QED  BY <1>6, <2>1, <2>2 DEF MapBoth, Ops
<1>9. [virt |-> c.virt, phys |-> c.phys, count |-> c.count] \in Requests
  BY <1>2, <1>6, <1>7 DEF Requests
<1>10. Continue(c, 0)
  BY <1>1, <1>4, <1>5, <1>6 DEF InitRange, BootCall, k, half
<1>11. boot' \in 0 .. 2 * Len(ranges)
  BY <1>1, <1>2 DEF InitRange
<1>. QED  BY <1>8, <1>9, <1>10, <1>11, CallBegins DEF InitRange

LEMMA CallStep ==
  ASSUME VInv, Call
  PROVE  VInv' /\ Steps
<1>1. PICK op \in {"map", "unmap"}, r \in Ranges :
        Continue([op |-> op, virt |-> r.virt, phys |-> r.phys, count |-> r.count], 0)
  BY DEF Call
<1>2. PICK c : c = [op |-> op, virt |-> r.virt, phys |-> r.phys, count |-> r.count]
  OBVIOUS
<1>3. r.virt \in Nat /\ r.phys \in Nat /\ r.count \in Nat
  BY VMMAssumption
<1>4. c \in [op : Ops, virt : Nat, phys : Nat, count : Nat] /\ c.op \in {"map", "unmap"}
  BY <1>2, <1>3 DEF Ops
<1>5. [virt |-> c.virt, phys |-> c.phys, count |-> c.count] \in Requests
  BY <1>2 DEF Requests
<1>6. Continue(c, 0)
  BY <1>1, <1>2
<1>7. boot' \in 0 .. 2 * Len(ranges) /\ pc = "idle"
  BY DEF Call, VInv, Frames
<1>. QED  BY <1>4, <1>5, <1>6, <1>7, CallBegins DEF Call

\* A map that fails: what it has mapped is taken back, and was never seen.
LEMMA MapFailsStep ==
  ASSUME VInv, NoTable \/ MapRefused
  PROVE  VInv' /\ Steps
<1>1. /\ pc = "walk" /\ call.op = "map" /\ MapFails
      /\ UNCHANGED <<ranges, boot, pml4Phys, physOffset, tables, pool, tlb>>
  BY DEF NoTable, MapRefused, Walking
<1>2. /\ call \in [op : Ops, virt : Nat, phys : Nat, count : Nat] /\ i \in 0 .. call.count
      /\ \A k \in 0 .. call.count - 1 : call.virt + k \in VirtualPages
  BY DEF VInv, Calling
<1>3. PICK c : c = [call EXCEPT !.op = "undo", !.count = RollBack(i)]
  OBVIOUS
<1>4. PICK d : d = [call EXCEPT !.op = "undo"]
  OBVIOUS
<1>5. d \in [op : Ops, virt : Nat, phys : Nat, count : Nat] /\ d.op = "undo" /\ d.virt = call.virt
  BY <1>2, <1>4 DEF Ops
<1>6. c = [d EXCEPT !.count = i] /\ i \in Nat
  BY <1>2, <1>3, <1>4 DEF RollBack
<1>7. /\ c \in [op : Ops, virt : Nat, phys : Nat, count : Nat]
      /\ c.op = "undo" /\ c.virt = call.virt /\ c.count = i
  BY <1>5, <1>6
<1>8. \A k \in 0 .. c.count - 1 : c.virt + k \in VirtualPages
  BY <1>2, <1>7
<1>9. Continue(c, 0)
  BY <1>1, <1>3 DEF MapFails
<1>10. InFlight = call.virt .. call.virt + i - 1
  BY <1>1 DEF InFlight
<1>11. InFlight' = InFlight
  <2>1. CASE i = 0
    <3>1. call' = NoCall
      BY <1>7, <1>9, <2>1 DEF Continue
    <3>. QED  BY <1>2, <1>10, <2>1, <3>1 DEF InFlight, NoCall
  <2>2. CASE i # 0
    <3>1. call' = c
      BY <1>6, <1>7, <1>9, <2>2 DEF Continue
    <3>. QED  BY <1>7, <1>10, <3>1 DEF InFlight
  <2>. QED  BY <2>1, <2>2
<1>12. /\ pml4Phys # NONE /\ boot' \in 0 .. 2 * Len(ranges) /\ tlb' \subseteq tlb /\ pc # "invlpg"
       /\ 0 \in 0 .. c.count /\ c.op # "none" /\ c.op # "map"
  BY <1>1, <1>7 DEF VInv, Frames, Rooted
<1>13. c.op = "undo" => \A k \in 0 .. 0 - 1 : Translate(c.virt + k) = ABSENT
  OBVIOUS
<1>. QED  BY <1>1, <1>7, <1>8, <1>9, <1>11, <1>12, <1>13, ContinueStep

\* Where a page's leaf table is, the tables above it are.
LEMMA Ancestors ==
  ASSUME Frames, NEW lev, NEW place, Shape(lev, place), NEW p \in VirtualPages,
         NEW t \in DOMAIN tables, lev[t] = 0, place[t] = Above(p)[1], NEW l \in Levels
  PROVE  \E s \in DOMAIN tables : lev[s] = l /\ place[s] = Above(p)[l + 1]
<1> DEFINE At(n) == \E s \in DOMAIN tables : lev[s] = n /\ place[s] = Above(p)[n + 1]
           S == {n \in Nat : n <= LEVELS - 1 => At(n)}
<1>1. 0 \in S
  OBVIOUS
<1>2. ASSUME NEW n \in S  PROVE n + 1 \in S
  <2>1. CASE n + 1 <= LEVELS - 1
    <3>1. n \in Levels /\ n + 1 \in Levels /\ p \in Nat /\ n < LEVELS - 1
      BY <2>1, VMMAssumption DEF Levels, VirtualPages
    <3>2. PICK s \in DOMAIN tables : lev[s] = n /\ place[s] = Above(p)[n + 1]
      <4>1. At(n)
        <5>. HIDE DEF At
        <5>. QED  BY <1>2, <3>1 DEF Levels
      <4>. QED  BY <4>1
    <3>3. PICK u \in DOMAIN tables, x \in Indices :
            lev[u] = lev[s] + 1 /\ tables[u][x] = s /\ place[s] = FANOUT * place[u] + x
      BY <3>1, <3>2, Parent
    <3>4. /\ Index(p, n + 1) \in Indices /\ Above(p)[(n + 1) + 1] \in Nat /\ place[u] \in Nat
          /\ Above(p)[n + 1] = FANOUT * Above(p)[(n + 1) + 1] + Index(p, n + 1)
      BY <3>1, AboveDigits DEF Shape
    <3>5. place[u] = Above(p)[(n + 1) + 1]
      <4>1. FANOUT * place[u] + x = FANOUT * Above(p)[(n + 1) + 1] + Index(p, n + 1)
        BY <3>2, <3>3, <3>4
      <4>. HIDE DEF At
      <4>. QED  BY <3>4, <4>1, Digits
    <3>6. At(n + 1)
      BY <3>2, <3>3, <3>5
    <3>. HIDE DEF At
    <3>. QED  BY <3>6
  <2>. HIDE DEF At
  <2>. QED  BY <2>1
<1>. HIDE DEF At
<1>3. \A n \in Nat : n \in S
  <2>. HIDE DEF S
  <2>1. S \in SUBSET Nat
    BY DEF S
  <2>. QED  BY <1>1, <1>2, <2>1, Induction
<1>4. At(l)
  BY <1>3, VMMAssumption DEF Levels
<1>. QED  BY <1>4 DEF At

\* Where the walk is, and that the page it is for may be asked for.
LEMMA WalkPage ==
  ASSUME VInv, pc \in {"walk", "invlpg"}
  PROVE  /\ pml4Phys # NONE /\ Page \in VirtualPages
         /\ i \in 0 .. call.count - 1
         /\ call \in [op : Ops, virt : Nat, phys : Nat, count : Nat] /\ call.op # "none"
         /\ \A k \in 0 .. call.count - 1 : call.virt + k \in VirtualPages
         /\ \E lev, place : Placed(lev, place)
<1>1. pml4Phys # NONE /\ \E lev, place : Placed(lev, place)
  BY DEF VInv, Rooted
<1>2. /\ i \in 0 .. call.count - 1
      /\ call \in [op : Ops, virt : Nat, phys : Nat, count : Nat] /\ call.op # "none"
      /\ \A k \in 0 .. call.count - 1 : call.virt + k \in VirtualPages
  BY DEF VInv, Calling
<1>. QED  BY <1>1, <1>2 DEF Page

\* An unmap or undo goes on from a page that is not, or no longer, mapped.
LEMMA PageGone ==
  ASSUME VInv, pc \in {"walk", "invlpg"}, call.op # "map", Translate(Page) = ABSENT,
         UNCHANGED <<ranges, boot, pml4Phys, physOffset, tables, pool>>,
         tlb' \subseteq tlb, pc = "invlpg" => \A t \in tlb' : t[1] # Page,
         Continue(call, i + 1)
  PROVE  VInv' /\ Steps
<1>1. /\ pml4Phys # NONE /\ i \in 0 .. call.count - 1
      /\ call \in [op : Ops, virt : Nat, phys : Nat, count : Nat] /\ call.op # "none"
      /\ \A k \in 0 .. call.count - 1 : call.virt + k \in VirtualPages
  BY WalkPage
<1>2. PICK c : c = call
  OBVIOUS
<1>3. PICK n : n = i + 1
  OBVIOUS
<1>4. /\ c \in [op : Ops, virt : Nat, phys : Nat, count : Nat] /\ n \in 0 .. c.count
      /\ c.op # "none" /\ c.op # "map" /\ Continue(c, n)
      /\ \A k \in 0 .. c.count - 1 : c.virt + k \in VirtualPages
  BY <1>1, <1>2, <1>3
<1>5. c.op = "undo" => \A k \in 0 .. n - 1 : Translate(c.virt + k) = ABSENT
  <2>1. ASSUME c.op = "undo", NEW k \in 0 .. n - 1  PROVE Translate(c.virt + k) = ABSENT
    <3>1. CASE k = i
      BY <1>2, <3>1 DEF Page
    <3>2. CASE k # i
      <4>1. k \in 0 .. i - 1
        BY <1>1, <1>3, <3>2
      <4>. QED  BY <1>2, <2>1, <4>1 DEF VInv, Progress
    <3>. QED  BY <3>1, <3>2
  <2>. QED  BY <2>1
<1>6. ASSUME NEW v \in VirtualPages, Translate(v) # ABSENT
      PROVE  v \in InFlight <=> v \in InFlight'
  <2>1. CASE n # c.count
    <3>1. call' = call
      BY <1>2, <1>4, <2>1 DEF Continue
    <3>2. call.op \in {"undo", "unmap"}
      BY <1>2, <1>4 DEF Ops
    <3>. QED  BY <3>1, <3>2 DEF InFlight
  <2>2. CASE n = c.count
    <3>1. call' = NoCall
      BY <1>4, <2>2 DEF Continue
    <3>2. InFlight' = {}
      BY <3>1 DEF InFlight, NoCall
    <3>3. CASE c.op = "undo"
      <4>1. InFlight = c.virt .. c.virt + n - 1
        BY <1>2, <2>2, <3>3 DEF InFlight
      <4>2. \A u \in c.virt .. c.virt + n - 1 : Translate(u) = ABSENT
        <5>1. ASSUME NEW u \in c.virt .. c.virt + n - 1  PROVE Translate(u) = ABSENT
          <6>1. u - c.virt \in 0 .. n - 1 /\ c.virt + (u - c.virt) = u
            BY <1>4
          <6>. QED  BY <1>5, <3>3, <6>1
        <5>. QED  BY <5>1
      <4>. QED  BY <1>6, <3>2, <4>1, <4>2
    <3>4. CASE c.op # "undo"
      <4>1. c.op = "unmap"
        BY <1>4, <3>4 DEF Ops
      <4>2. InFlight = {}
        BY <1>2, <4>1 DEF InFlight
      <4>. QED  BY <3>2, <4>2
    <3>. QED  BY <3>3, <3>4
  <2>. QED  BY <2>1, <2>2
<1>7. boot' \in 0 .. 2 * Len(ranges)
  BY DEF VInv, Frames
<1>. QED  BY <1>1, <1>4, <1>5, <1>6, <1>7, ContinueStep

LEMMA UnmapSkipsStep ==
  ASSUME VInv, UnmapSkips
  PROVE  VInv' /\ Steps
<1>1. PICK l \in 1 .. LEVELS - 1 : pc = "walk" /\ level = l
  BY DEF UnmapSkips, Walking
<1>2. PICK p : p = Page
  OBVIOUS
<1>3. p \in VirtualPages
  BY <1>1, <1>2, WalkPage
<1>4. PICK lev, place : Placed(lev, place)
  BY <1>1, WalkPage
<1>5. PICK t : t = table
  OBVIOUS
<1>6. t \in DOMAIN tables /\ lev[t] = l /\ place[t] = Above(p)[l + 1] /\ Shape(lev, place)
  BY <1>1, <1>2, <1>4, <1>5 DEF Placed, Position
<1>7. l \in Levels /\ l - 1 \in Levels /\ l - 1 < LEVELS - 1 /\ (l - 1) + 1 = l /\ p \in Nat
  BY <1>3, VMMAssumption DEF Levels, VirtualPages
<1>8. tables[t][Index(p, l)] = ABSENT
  BY <1>1, <1>2, <1>5 DEF UnmapSkips, Entry
<1>9. Translate(p) = ABSENT
  <2>1. SUFFICES ASSUME Translate(p) # ABSENT  PROVE FALSE
    OBVIOUS
  <2>2. Frames
    BY DEF VInv
  <2>3. PICK u \in DOMAIN tables : lev[u] = 0 /\ place[u] = Above(p)[1]
    BY <1>3, <1>6, <2>1, <2>2, Translation DEF Translated
  <2>4. PICK s \in DOMAIN tables : lev[s] = l - 1 /\ place[s] = Above(p)[l]
    BY <1>3, <1>6, <1>7, <2>2, <2>3, Ancestors
  <2>. QED  BY <1>3, <1>6, <1>8, <2>2, <2>4, PlaceFree
<1>. QED  BY <1>1, <1>2, <1>9, PageGone DEF UnmapSkips

LEMMA InvlpgStep ==
  ASSUME VInv, Invlpg
  PROVE  VInv' /\ Steps
<1>1. Translate(Page) = ABSENT /\ pc = "invlpg" /\ call.op # "map"
  BY DEF VInv, Progress, Invlpg, Calling
<1>2. tlb' \subseteq tlb /\ \A t \in tlb' : t[1] # Page
  BY DEF Invlpg, Flushed
<1>. QED  BY <1>1, <1>2, PageGone DEF Invlpg

\* The entry of the page is written, in the leaf table that the walk has reached.
LEMMA EntryWritten ==
  ASSUME VInv, Walking(0), NEW f \in Nat \cup {ABSENT}, tables' = Link(f),
         UNCHANGED <<ranges, boot, pml4Phys, physOffset, pool, tlb>>
  PROVE  /\ Frames'
         /\ \E lev, place : Placed(lev, place) /\ Shape(lev, place)'
         /\ \E p \in VirtualPages :
              /\ p = Page /\ Translate(p) = Entry /\ Translate(p)' = f
              /\ \A v \in VirtualPages : v # p => Translate(v)' = Translate(v)
<1>1. pc = "walk" /\ level = 0
  BY DEF Walking
<1>2. PICK p : p = Page
  OBVIOUS
<1>3. PICK t : t = table
  OBVIOUS
<1>4. PICK lev, place : Placed(lev, place)
  BY <1>1, WalkPage
<1>5. p \in VirtualPages /\ Frames
  BY <1>1, <1>2, WalkPage DEF VInv
<1>6. t \in DOMAIN tables /\ lev[t] = 0 /\ place[t] = Above(p)[1] /\ Shape(lev, place)
  BY <1>1, <1>2, <1>3, <1>4 DEF Placed, Position
<1>7. tables' = [tables EXCEPT ![t][Index(p, 0)] = f] /\ Entry = tables[t][Index(p, 0)]
  BY <1>1, <1>2, <1>3 DEF Link, Entry
<1>8. Frames'
  <2>1. Index(p, 0) \in Indices
    <3>1. p \in Nat /\ 0 \in Levels
      BY <1>5, VMMAssumption DEF VirtualPages, Levels
    <3>. QED  BY <3>1, AboveDigits
  <2>2. \A s \in DOMAIN tables : tables[s] \in [Indices -> Nat \cup {ABSENT}]
    BY <1>5 DEF Frames
  <2>3. DOMAIN tables' = DOMAIN tables
    BY <1>7
  <2>4. \A s \in DOMAIN tables : tables'[s] \in [Indices -> Nat \cup {ABSENT}]
    BY <1>6, <1>7, <2>1, <2>2
  <2>. QED  BY <1>5, <2>3, <2>4 DEF Frames
<1>9. /\ Shape(lev, place)' /\ Translate(p)' = f
      /\ \A v \in VirtualPages : v # p => Translate(v)' = Translate(v)
  <2>1. DOMAIN tables' = DOMAIN tables /\ pml4Phys' = pml4Phys
    BY <1>7
  <2>2. ASSUME NEW s \in DOMAIN tables, NEW y \in Indices
        PROVE  tables'[s][y] = IF s = t /\ y = Index(p, 0) THEN f ELSE tables[s][y]
    <3>1. tables[s] \in [Indices -> Nat \cup {ABSENT}]
      BY <1>5 DEF Frames
    <3>. QED  BY <1>6, <1>7, <3>1
  <2>. QED  BY <1>5, <1>6, <1>8, <2>1, <2>2, LeafWrite
<1>10. Translate(p) = Entry
  BY <1>5, <1>6, <1>7, Translation DEF Translated
<1>. QED  BY <1>2, <1>4, <1>5, <1>8, <1>9, <1>10

\* A page of a map is entered.  Callers see the whole range, with its last page.
LEMMA MapWritesStep ==
  ASSUME VInv, MapWrites
  PROVE  VInv' /\ Steps
<1>1. /\ pc = "walk" /\ call.op = "map" /\ Walking(0) /\ Entry = ABSENT
      /\ UNCHANGED <<ranges, boot, pml4Phys, physOffset, pool, tlb>>
  BY DEF MapWrites, Walking
<1>2. /\ pml4Phys # NONE /\ i \in 0 .. call.count - 1
      /\ call \in [op : Ops, virt : Nat, phys : Nat, count : Nat]
      /\ \A k \in 0 .. call.count - 1 : call.virt + k \in VirtualPages
  BY <1>1, WalkPage
<1>3. PICK c : c = call
  OBVIOUS
<1>4. PICK n : n = i
  OBVIOUS
<1>5. PICK f : f = c.phys + n
  OBVIOUS
<1>6. /\ c.virt \in Nat /\ c.phys \in Nat /\ c.count \in Nat /\ n \in 0 .. c.count - 1
      /\ f \in Nat /\ n + 1 \in 0 .. c.count /\ c.op = "map"
      /\ \A k \in 0 .. c.count - 1 : c.virt + k \in VirtualPages
  BY <1>1, <1>2, <1>3, <1>4, <1>5
<1>7. tables' = Link(f) /\ Continue(c, n + 1)
  BY <1>3, <1>4, <1>5 DEF MapWrites
<1>8. /\ Frames'
      /\ \E lev, place : Placed(lev, place) /\ Shape(lev, place)'
      /\ \E p \in VirtualPages :
           /\ p = Page /\ Translate(p) = Entry /\ Translate(p)' = f
           /\ \A v \in VirtualPages : v # p => Translate(v)' = Translate(v)
  BY <1>1, <1>6, <1>7, EntryWritten
<1>9. PICK lev, place : Placed(lev, place) /\ Shape(lev, place)'
  BY <1>8
<1>10. PICK p \in VirtualPages :
           /\ p = Page /\ Translate(p) = Entry /\ Translate(p)' = f
           /\ \A v \in VirtualPages : v # p => Translate(v)' = Translate(v)
  BY <1>8
<1>11. p = c.virt + n /\ Translate(p) = ABSENT
  BY <1>1, <1>3, <1>4, <1>10 DEF Page
<1>12. [virt |-> c.virt, phys |-> c.phys, count |-> c.count] \in Requests
  BY <1>1, <1>3 DEF VInv, Calling
<1>13. /\ Calling' /\ pc' \in {"boot", "idle", "walk"}
       /\ \/ n + 1 = c.count /\ pc' # "walk" /\ call' = NoCall /\ i' = 0
          \/ n + 1 # c.count /\ pc' = "walk" /\ call' = c /\ i' = n + 1
       /\ \A l, q : Shape(l, q)' => Position(l, q)'
  <2>1. /\ c \in [op : Ops, virt : Nat, phys : Nat, count : Nat] /\ c.op # "none"
        /\ pml4Phys' = pml4Phys
    BY <1>1, <1>2, <1>3, <1>6
  <2>2. c.op = "map" => [virt |-> c.virt, phys |-> c.phys, count |-> c.count] \in Requests
    BY <1>12
  <2>3. PICK m : m = n + 1
    OBVIOUS
  <2>4. m \in 0 .. c.count /\ Continue(c, m)
    BY <1>6, <1>7, <2>3
  <2>. QED  BY <1>6, <2>1, <2>2, <2>3, <2>4, Continued
<1>14. Rooted'
  BY <1>1, <1>2, <1>9, <1>13 DEF Rooted, Placed
<1>15. Cached'
  <2>1. \A v \in VirtualPages : Translate(v)' = Translate(v) \/ Translate(v) = ABSENT
    BY <1>10, <1>11
  <2>2. tlb' \subseteq tlb /\ pc # "invlpg" /\ Cached
    BY <1>1 DEF VInv
  <2>. QED  BY <2>1, <2>2, CacheKept
<1>16. ASSUME NEW k \in 0 .. n  PROVE c.virt + k \in VirtualPages /\ Translate(c.virt + k)' = c.phys + k
  <2>1. PICK v : v = c.virt + k
    OBVIOUS
  <2>2. v \in VirtualPages
    BY <1>6, <2>1
  <2>3. CASE k = n
    BY <1>5, <1>10, <1>11, <2>1, <2>2, <2>3
  <2>4. CASE k # n
    <3>1. v # p /\ k \in 0 .. n - 1
      BY <1>6, <1>11, <2>1, <2>4
    <3>2. Translate(v) = c.phys + k
      BY <1>1, <1>3, <1>4, <2>1, <3>1 DEF VInv, Progress
    <3>3. Translate(v)' = c.phys + k
      BY <1>10, <2>2, <3>1, <3>2
    <3>. QED  BY <2>1, <2>2, <3>3
  <2>. QED  BY <2>3, <2>4
<1>17. InFlight = c.virt .. c.virt + n - 1
  BY <1>1, <1>3, <1>4 DEF InFlight
<1>18. Shape(lev, place) /\ Frames
  BY <1>9 DEF Placed, VInv
<1>19. CASE n + 1 # c.count
  <2>1. pc' = "walk" /\ call' = c /\ i' = n + 1
    BY <1>13, <1>19
  <2>2. InFlight' = c.virt .. c.virt + (n + 1) - 1
    BY <1>6, <2>1 DEF InFlight
  <2>3. Progress'
    <3>1. ASSUME NEW k \in 0 .. i' - 1  PROVE Translate(call.virt + k)' = call'.phys + k
      <4>1. k \in 0 .. n
        BY <1>6, <2>1
      <4>2. Translate(c.virt + k)' = c.phys + k
        BY <1>16, <4>1
      <4>. QED  BY <2>1, <4>2
    <3>2. call'.op = "map" /\ pc' = "walk"
      BY <1>6, <2>1
    <3>. QED  BY <3>1, <3>2 DEF Progress
  <2>4. ASSUME NEW v \in VirtualPages  PROVE Shown(v)' = Shown(v)
    <3>1. CASE v = p
      <4>1. p \in InFlight'
        BY <1>6, <1>11, <2>2
      <4>. QED  BY <1>11, <3>1, <4>1 DEF Shown
    <3>2. CASE v # p
      <4>1. v \in InFlight <=> v \in InFlight'
        BY <1>6, <1>11, <1>17, <2>2, <3>2 DEF VirtualPages
      <4>. QED  BY <1>10, <3>2, <4>1 DEF Shown
    <3>. QED  BY <3>1, <3>2
  <2>5. Steps
    BY <1>8, <1>9, <1>18, <2>4, ShownKept
  <2>. QED  BY <1>8, <1>13, <1>14, <1>15, <2>3, <2>5 DEF VInv
<1>20. CASE n + 1 = c.count
  <2>1. pc' # "walk" /\ pc' # "invlpg" /\ call' = NoCall /\ i' = 0
    BY <1>13, <1>20
  <2>2. InFlight' = {} /\ Progress'
    BY <2>1 DEF InFlight, Progress, NoCall
  <2>3. PICK r : r = [virt |-> c.virt, phys |-> c.phys, count |-> c.count]
    OBVIOUS
  <2>4. /\ r \in Requests /\ r.virt = c.virt /\ r.phys = c.phys /\ r.count = c.count
    BY <1>12, <2>3
  <2>5. ASSUME NEW v \in r.virt .. r.virt + r.count - 1
        PROVE  v \in VirtualPages /\ Shown(v) = ABSENT /\ Shown(v)' = r.phys + (v - r.virt)
    <3>1. v - c.virt \in 0 .. n /\ c.virt + (v - c.virt) = v
      BY <1>6, <1>20, <2>4
    <3>2. v \in VirtualPages /\ Translate(v)' = c.phys + (v - c.virt)
      BY <1>16, <3>1
    <3>3. Shown(v)' = r.phys + (v - r.virt)
      BY <2>2, <2>4, <3>2 DEF Shown
    <3>4. v = p \/ v \in InFlight
      BY <1>6, <1>11, <1>17, <3>1
    <3>5. Shown(v) = ABSENT
      BY <1>11, <3>4 DEF Shown
    <3>. QED  BY <3>2, <3>3, <3>5
  <2>6. ASSUME NEW v \in VirtualPages, v \notin r.virt .. r.virt + r.count - 1
        PROVE  Shown(v)' = Shown(v)
    <3>1. v # p /\ v \notin InFlight
      BY <1>6, <1>11, <1>17, <1>20, <2>4, <2>6
    <3>2. Translate(v)' = Translate(v)
      BY <1>10, <3>1
    <3>. QED  BY <2>2, <3>1, <3>2 DEF Shown
  <2>7. r.virt \in Nat /\ r.phys \in Nat /\ r.count \in Nat
    BY <1>6, <2>4
  <2>8. Steps
    BY <1>8, <1>9, <1>18, <2>4, <2>5, <2>6, <2>7, ShownMore
  <2>. QED  BY <1>8, <1>13, <1>14, <1>15, <2>2, <2>8 DEF VInv
<1>. QED  BY <1>19, <1>20

\* The entry of a page is cleared; what the CPU has cached of it stays until invlpg.
LEMMA UnmapClearsStep ==
  ASSUME VInv, UnmapClears
  PROVE  VInv' /\ Steps
<1>1. /\ pc = "walk" /\ call.op # "map" /\ Walking(0) /\ tables' = Link(ABSENT) /\ pc' = "invlpg"
      /\ UNCHANGED <<ranges, boot, pml4Phys, physOffset, pool, tlb, call, i, level, table>>
  BY DEF UnmapClears, Walking
<1>2. /\ pml4Phys # NONE /\ i \in 0 .. call.count - 1
      /\ call \in [op : Ops, virt : Nat, phys : Nat, count : Nat] /\ call.op # "none"
      /\ \A k \in 0 .. call.count - 1 : call.virt + k \in VirtualPages
  BY <1>1, WalkPage
<1>3. /\ Frames'
      /\ \E lev, place : Placed(lev, place) /\ Shape(lev, place)'
      /\ \E p \in VirtualPages :
           /\ p = Page /\ Translate(p) = Entry /\ Translate(p)' = ABSENT
           /\ \A v \in VirtualPages : v # p => Translate(v)' = Translate(v)
  <2>1. UNCHANGED <<ranges, boot, pml4Phys, physOffset, pool, tlb>> /\ ABSENT \in Nat \cup {ABSENT}
    BY <1>1
  <2>. QED  BY <1>1, <2>1, EntryWritten
<1>4. PICK lev, place : Placed(lev, place) /\ Shape(lev, place)'
  BY <1>3
<1>5. PICK p \in VirtualPages :
           /\ p = Page /\ Translate(p) = Entry /\ Translate(p)' = ABSENT
           /\ \A v \in VirtualPages : v # p => Translate(v)' = Translate(v)
  BY <1>3
<1>6. Shape(lev, place) /\ Frames
  BY <1>4 DEF Placed, VInv
<1>7. Page' = Page /\ InFlight' = InFlight /\ p = call.virt + i
  BY <1>1, <1>5 DEF Page, InFlight
<1>8. Rooted'
  <2>1. Position(lev, place)
    BY <1>4 DEF Placed
  <2>2. table' \in DOMAIN tables' /\ lev[table'] = level' /\ level' = 0
    <3>1. table \in DOMAIN tables /\ lev[table] = level /\ level = 0
      BY <1>1, <2>1 DEF Position, Walking
    <3>2. DOMAIN tables' = DOMAIN tables
      BY <1>1 DEF Link
    <3>. QED  BY <1>1, <3>1, <3>2
  <2>3. place[table'] = Above(Page')[level' + 1]
    BY <1>1, <1>7, <2>1 DEF Position
  <2>4. Position(lev, place)'
    BY <2>2, <2>3 DEF Position
  <2>. QED  BY <1>1, <1>2, <1>4, <2>4 DEF Rooted, Placed
<1>9. Calling'
  BY <1>1, <1>2 DEF VInv, Calling
<1>10. Cached'
  <2>1. \A v \in VirtualPages : Translate(v)' = Translate(v) \/ (pc' = "invlpg" /\ v = Page')
    BY <1>1, <1>5, <1>7
  <2>2. tlb' \subseteq tlb /\ pc # "invlpg" /\ Cached
    BY <1>1 DEF VInv
  <2>. QED  BY <2>1, <2>2, CacheKept
<1>11. Progress'
  <2>1. ASSUME call.op = "undo", NEW k \in 0 .. i - 1  PROVE Translate(call.virt + k)' = ABSENT
    <3>1. PICK v : v = call.virt + k
      OBVIOUS
    <3>2. call.virt \in Nat /\ k \in 0 .. call.count - 1 /\ k # i
      BY <1>2
    <3>3. v \in VirtualPages /\ v # p /\ v = call'.virt + k
      BY <1>1, <1>2, <1>7, <3>1, <3>2
    <3>4. Translate(v) = ABSENT
      BY <2>1, <3>1 DEF VInv, Progress
    <3>5. Translate(v)' = ABSENT
      BY <1>5, <3>3, <3>4
    <3>. QED  BY <3>3, <3>5
  <2>2. Translate(Page)' = ABSENT
    BY <1>5, <1>7
  <2>3. call'.op = "undo" => \A k \in 0 .. i' - 1 : Translate(call.virt + k)' = ABSENT
    BY <1>1, <2>1
  <2>4. call'.op # "map"
    BY <1>1
  <2>. QED  BY <2>2, <2>3, <2>4 DEF Progress
<1>12. Steps
  <2>1. CASE call.op = "undo"
    <3>1. p \in InFlight
      BY <1>2, <1>7, <2>1 DEF InFlight
    <3>2. \A v \in VirtualPages : Shown(v)' = Shown(v)
      BY <1>5, <1>7, <3>1 DEF Shown
    <3>. QED  BY <1>3, <1>4, <1>6, <3>2, ShownKept
  <2>2. CASE call.op # "undo"
    <3>1. Shown(p)' = ABSENT
      BY <1>5 DEF Shown
    <3>2. \A v \in VirtualPages : v # p => Shown(v)' = Shown(v)
      BY <1>5, <1>7 DEF Shown
    <3>. QED  BY <1>3, <1>4, <1>5, <1>6, <3>1, <3>2, ShownLess
  <2>. QED  BY <2>1, <2>2
<1>. QED  BY <1>3, <1>8, <1>9, <1>10, <1>11, <1>12 DEF VInv
--------------------------------------------------------------------------------
\* Before a step, and when nothing happens.
LEMMA InitInvariant ==
  Init => VInv /\ Abstract!Init
<1>. SUFFICES ASSUME Init  PROVE VInv /\ Abstract!Init
  OBVIOUS
<1>1. Frames
  <2>1. ranges \in Seq([start : Nat, pages : Nat])
    BY VMMAssumption DEF Init
  <2>2. 0 \in 0 .. 2 * Len(ranges)
    BY <2>1
  <2>. QED  BY <2>2, VMMAssumption DEF Init, Frames, NONE
<1>2. Rooted
  BY DEF Init, Rooted
<1>3. Calling /\ Progress /\ Cached
  BY DEF Init, Calling, Progress, Cached, Coherent, NoCall, Ops
<1>4. Visible = [v \in {} |-> 0]
  BY VisibleNothing DEF Init
<1>. QED  BY <1>1, <1>2, <1>3, <1>4 DEF VInv, Abstract!Init

LEMMA NoStep ==
  ASSUME VInv, UNCHANGED vars
  PROVE  VInv' /\ Steps
<1>1. CASE pml4Phys = NONE
  <2>1. VInv'
    <3>1. /\ tlb = {} /\ physOffset = 0 /\ pc \in {"reset", "panic"} /\ call = NoCall /\ i = 0
          /\ tables = [f \in {} |-> EmptyTable]
      BY <1>1 DEF VInv, Rooted, Calling
    <3>2. Frames' /\ Calling'
      BY DEF VInv, Frames, Calling, vars, walkVars
    <3>3. Rooted'
      BY <1>1, <3>1 DEF Rooted, vars, walkVars, EmptyTable
    <3>4. Progress' /\ Cached'
      BY <3>1 DEF Progress, Cached, Coherent, vars, walkVars, NoCall
    <3>. QED  BY <3>2, <3>3, <3>4 DEF VInv
  <2>2. Visible = [v \in {} |-> 0]
    BY <1>1, VisibleNothing
  <2>3. (pml4Phys = NONE => Visible = [v \in {} |-> 0])'
    BY VisibleNothing, PTL
  <2>. QED  BY <1>1, <2>1, <2>2, <2>3 DEF Steps, vars
<1>2. CASE pml4Phys # NONE
  <2>. USE DEF VInv
  <2>1. PICK lev, place : Placed(lev, place)
    BY <1>2 DEF Rooted
  <2>2. Frames' /\ Calling'
    BY DEF Frames, Calling, vars, walkVars
  <2>3. /\ Shape(lev, place)' /\ Shape(lev, place)
        /\ \A v \in VirtualPages : Translate(v)' = Translate(v)
    <3>1. UNCHANGED <<tables, pml4Phys>>
      BY DEF vars
    <3>. QED  BY <2>1, <2>2, <3>1, SameTables DEF Placed
  <2>4. UNCHANGED <<call, i>> /\ pc' = pc /\ tlb' = tlb /\ Page' = Page
    BY DEF vars, walkVars, Page
  <2>5. Progress' /\ Steps
    BY <2>2, <2>3, <2>4, Quiet
  <2>6. Position(lev, place)'
    <3>1. Position(lev, place)
      BY <2>1 DEF Placed
    <3>2. UNCHANGED <<table, level, tables>>
      BY DEF vars, walkVars
    <3>. QED  BY <2>4, <3>1, <3>2 DEF Position
  <2>7. Rooted'
    BY <1>2, <2>3, <2>4, <2>6 DEF Rooted, Placed, vars
  <2>8. Cached'
    BY <2>3, <2>4, CacheKept
  <2>. QED  BY <2>2, <2>5, <2>7, <2>8
<1>. QED  BY <1>1, <1>2

LEMMA NextInvariant ==
  VInv /\ [Next]_vars => VInv' /\ Steps
<1>. SUFFICES ASSUME VInv, [Next]_vars  PROVE VInv' /\ Steps
  OBVIOUS
<1>1. CASE InitRoot
  BY <1>1, InitRootStep
<1>2. CASE InitRange
  BY <1>2, InitRangeStep
<1>3. CASE Call
  BY <1>3, CallStep
<1>4. CASE InitLoads \/ OthersAlloc \/ OthersFree \/ Descend \/ Faults \/ TlbFill \/ TlbEvict
  BY <1>4, OthersStep
<1>5. CASE NewTable
  BY <1>5, NewTableStep
<1>6. CASE NoTable \/ MapRefused
  BY <1>6, MapFailsStep
<1>7. CASE UnmapSkips
  BY <1>7, UnmapSkipsStep
<1>8. CASE MapWrites
  BY <1>8, MapWritesStep
<1>9. CASE UnmapClears
  BY <1>9, UnmapClearsStep
<1>10. CASE Invlpg
  BY <1>10, InvlpgStep
<1>11. CASE Halted \/ UNCHANGED vars
  BY <1>11, NoStep DEF Halted
<1>. QED  BY <1>1, <1>2, <1>3, <1>4, <1>5, <1>6, <1>7, <1>8, <1>9, <1>10, <1>11 DEF Next, Walk

\* The tables have their shape, each call has done what it has done, and the CPU has
\* cached nothing else, at every step.
THEOREM VMMInvariance == Spec => []VInv
<1>1. Init => VInv
  BY InitInvariant
<1>2. VInv /\ [Next]_vars => VInv'
  BY NextInvariant
<1>. QED  BY <1>1, <1>2, PTL DEF Spec

\* vmm.cpp's tables are a tree in frames of their own, none shared, none lost and
\* none free, at every step and however far the frames go.
THEOREM TablesInOrder == Spec => []TablesInv
<1>1. VInv => TablesInv
  <2>. SUFFICES ASSUME VInv  PROVE TablesInv
    OBVIOUS
  <2>. USE DEF VInv
  <2>1. Tree
    <3>1. CASE pml4Phys = NONE
      BY <3>1 DEF Tree
    <3>2. CASE pml4Phys # NONE
      <4>1. PICK lev, place : Shape(lev, place)
        BY <3>2 DEF Rooted, Placed
      <4>. QED  BY <4>1, TreeOfShape
    <3>. QED  BY <3>1, <3>2
  <2>2. pc = "walk" => table \in DOMAIN tables /\ level \in 0 .. LEVELS - 1
    <3>1. SUFFICES ASSUME pc = "walk"  PROVE table \in DOMAIN tables /\ level \in 0 .. LEVELS - 1
      OBVIOUS
    <3>2. PICK lev, place : Placed(lev, place)
      BY <3>1 DEF Rooted
    <3>. QED  BY <3>1, <3>2 DEF Placed, Position, Shape, Levels
  <2>3. TypeOK
    BY <2>2 DEF TypeOK, Frames, Calling, Indices
  <2>. QED  BY <2>1, <2>3 DEF TablesInv
<1>. QED  BY <1>1, VMMInvariance, PTL

\* The CPU uses no translation that the tables no longer hold, but for the page whose
\* entry unmap has just cleared and whose invlpg comes next.
THEOREM CacheCoherent == Spec => []Coherent
<1>1. VInv => Coherent
  BY DEF VInv, Cached
<1>. QED  BY <1>1, VMMInvariance, PTL

\* map_range maps all of a range or nothing and touches nobody else's pages, and
\* unmap_range takes pages back one by one, also when a map fails half way.
THEOREM ImplementsSpace == Spec => ImplementsAddressSpace
<1>1. Init => VInv /\ Abstract!Init
  BY InitInvariant
<1>2. VInv /\ [Next]_vars => VInv' /\ [Abstract!Next]_Visible
  BY NextInvariant DEF Steps
<1>. QED  BY <1>1, <1>2, PTL DEF Spec, Abstract!Spec, ImplementsAddressSpace
--------------------------------------------------------------------------------
(***************************************************************************)
(* Access to all frames.  Init's own calls of map_range have returned up   *)
(* to the one with number Finished.  What they have put in the direct map, *)
(* of the frames that the manager may ever have, is Sure: it is there, and *)
(* no call will take it back.                                              *)
(***************************************************************************)
Finished == IF physOffset = 0 /\ pc # "boot" THEN boot - 1 ELSE boot
Usable   == UNION {p \in Pools : pml4Phys \in p}

Sure ==
  {v \in VirtualPages :
     /\ v - HHDM \in Usable
     /\ \E k \in DOMAIN ranges :
          2 * k <= Finished /\ Alone(ranges, k) /\ v \in Pages(BootCall(ranges, 2 * k - 1))}

Holds == \A v \in Sure : Translate(v) = v - HHDM /\ v \notin InFlight

\* While init maps, nothing is mapped but what it has asked for,
Asked(v) == v \in InFlight \/ \E n \in 0 .. Finished - 1 : v \in Pages(BootCall(ranges, n))
Only     == physOffset = 0 => \A v \in VirtualPages : Mapped(v) => Asked(v)

\* each table is one that was needed,
Placing ==
  physOffset = 0 =>
    \A lev, place : Shape(lev, place) =>
      \A t \in DOMAIN tables : <<lev[t], place[t]>> \in Needed(ranges)

\* and all frames are tables or free.
Supply ==
  \E p \in Pools : /\ pml4Phys \in p /\ DOMAIN tables \cup pool \subseteq p
                   /\ physOffset = 0 => p \subseteq DOMAIN tables \cup pool

\* The call that runs is init's, or takes that one back if it meets an earlier one;
\* and later calls unmap nothing of the direct map.
Booting ==
  LET c == BootCall(ranges, boot - 1)
  IN  /\ boot > 0 /\ call.virt = c.virt /\ call.op \in {"map", "undo"}
      /\ call.op = "map" => call = c
      /\ call.op = "undo" =>
           call.count <= c.count /\ \A k \in DOMAIN ranges : 2 * k = boot => ~ Alone(ranges, k)

Stage ==
  /\ pc \notin {"reset", "panic", "fault"}
  /\ physOffset = 0 => pc # "idle"
  /\ physOffset # 0 => boot = 2 * Len(ranges) /\ pc # "boot"
  /\ physOffset = 0 /\ pc \in {"walk", "invlpg"} => Booting
  /\ call.op = "unmap" => physOffset # 0 /\ \A v \in Pages(call) : v - HHDM \notin Usable

Kept == Stage /\ Supply /\ Placing /\ Only /\ Holds

AInv ==
  /\ pml4Phys = NONE => boot = 0 /\ pool \in Pools /\ pc # "fault"
  /\ pml4Phys # NONE /\ Ample => Kept
--------------------------------------------------------------------------------
\* What init asks for are ranges of pages in the address space.
LEMMA BootCalls ==
  ASSUME NEW b \in BootInfos, NEW n \in 0 .. 2 * Len(b) - 1
  PROVE  /\ BootCall(b, n) \in [op : {"map"}, virt : Nat, phys : Nat, count : Nat]
         /\ Pages(BootCall(b, n)) \subseteq VirtualPages
         /\ \A k \in DOMAIN b : n = 2 * k - 1 =>
              /\ BootCall(b, n).virt = HHDM + b[k].start /\ BootCall(b, n).phys = b[k].start
              /\ BootCall(b, n).count = b[k].pages
<1> DEFINE k == n \div 2 + 1
           h == n % 2
           c == MapBoth(b[k], h)
<1>1. b \in Seq([start : Nat, pages : Nat]) /\ Len(b) \in Nat /\ HHDM \in Nat
  BY VMMAssumption
<1>2. k \in 1 .. Len(b) /\ h \in 0 .. 1
  BY <1>1
<1>3. DOMAIN b = 1 .. Len(b) /\ b[k] \in [start : Nat, pages : Nat]
  BY <1>1, <1>2, SeqElements
<1>4. ASSUME NEW j \in DOMAIN b, n = 2 * j - 1  PROVE k = j /\ h = 1
  <2>1. j \in Int
    BY <1>1, <1>3
  <2>. QED  BY <1>4, <2>1
<1>. HIDE DEF k, h
<1>5. c \in [op : {"map"}, virt : Nat, phys : Nat, count : Nat]
  <2>1. PICK r : r = b[k]
    OBVIOUS
  <2>2. r.start \in Nat /\ r.pages \in Nat /\ HHDM + r.start \in Nat
    BY <1>1, <1>3, <2>1
  <2>. QED  BY <2>1, <2>2 DEF MapBoth
<1>6. Pages(c) \subseteq VirtualPages
  <2>1. [virt |-> c.virt, phys |-> c.phys, count |-> c.count] \in Requests
    BY <1>2, <1>3 DEF Requests
  <2>. HIDE DEF c
  <2>2. \A j \in 0 .. c.count - 1 : c.virt + j \in VirtualPages
    BY <2>1, Canonical
  <2>3. ASSUME NEW v \in Pages(c)  PROVE v \in VirtualPages
    <3>1. v - c.virt \in 0 .. c.count - 1 /\ c.virt + (v - c.virt) = v
      BY <1>5 DEF Pages
    <3>. QED  BY <2>2, <3>1
  <2>. QED  BY <2>3
<1>7. BootCall(b, n) = c
  BY DEF BootCall, k, h
<1>8. ASSUME NEW j \in DOMAIN b, n = 2 * j - 1
      PROVE  c.virt = HHDM + b[j].start /\ c.phys = b[j].start /\ c.count = b[j].pages
  BY <1>4, <1>8 DEF MapBoth
<1>. QED  BY <1>5, <1>6, <1>7, <1>8

\* The level and the place of each table are where a walk for it comes from the root.
LEMMA OneShape ==
  Frames => \A lev, place, lev2, place2 : Shape(lev, place) /\ Shape(lev2, place2) =>
    lev = lev2 /\ place = place2
<1>. SUFFICES ASSUME Frames, NEW lev, NEW place, NEW lev2, NEW place2,
                     Shape(lev, place), Shape(lev2, place2)
     PROVE  lev = lev2 /\ place = place2
  OBVIOUS
<1>1. ASSUME NEW t \in DOMAIN tables  PROVE lev[t] = lev2[t] /\ place[t] = place2[t]
  <2>1. PICK v \in VirtualPages : place[t] = Above(v)[lev[t] + 1]
    BY DEF Shape
  <2>2. lev[t] \in Levels
    BY DEF Shape
  <2>3. WalksTo(lev, place, v, lev[t], TableAt(v, lev[t]))
    BY <2>2, Walks
  <2>4. WalksTo(lev2, place2, v, lev[t], TableAt(v, lev[t]))
    BY <2>2, Walks
  <2>5. TableAt(v, lev[t]) = t
    BY <2>1, <2>3 DEF WalksTo, Shape
  <2>6. t # ABSENT
    BY DEF Frames, ABSENT
  <2>. QED  BY <2>1, <2>4, <2>5, <2>6 DEF WalksTo
<1>. QED  BY <1>1 DEF Shape

LEMMA OneShapeAfter ==
  Frames' => \A lev, place, lev2, place2 : Shape(lev, place)' /\ Shape(lev2, place2)' =>
    lev = lev2 /\ place = place2
<1>1. (Frames => \A lev, place, lev2, place2 : Shape(lev, place) /\ Shape(lev2, place2) =>
         lev = lev2 /\ place = place2)'
  BY OneShape, PTL
<1>. QED  BY <1>1

\* There are finitely many places.
LEMMA NeededFinite ==
  ASSUME NEW b \in BootInfos
  PROVE  IsFiniteSet(Needed(b))
<1> DEFINE D == 0 .. 2 * Len(b) - 1
           P == {Pages(BootCall(b, n)) : n \in D}
           V == InitPages(b)
<1>1. Len(b) \in Nat
  BY VMMAssumption
<1>2. IsFiniteSet(D)
  BY <1>1, FS_Interval
<1>3. IsFiniteSet(P)
  <2> DEFINE f == [n \in D |-> Pages(BootCall(b, n))]
  <2>1. f \in Surjection(D, P)
    BY DEF Surjection, Range
  <2>. HIDE DEF f, P
  <2>. QED  BY <1>2, <2>1, FS_Surjection
<1>4. ASSUME NEW T \in P  PROVE IsFiniteSet(T)
  <2>1. PICK n \in D : T = Pages(BootCall(b, n))
    OBVIOUS
  <2>2. BootCall(b, n).virt \in Nat /\ BootCall(b, n).count \in Nat
    BY BootCalls
  <2>3. BootCall(b, n).virt + BootCall(b, n).count - 1 \in Int /\ BootCall(b, n).virt \in Int
    BY <2>2
  <2>. QED  BY <2>1, <2>3, FS_Interval DEF Pages
<1>. HIDE DEF D, P
<1>5. IsFiniteSet(V)
  <2>1. V = UNION P
    BY DEF InitPages, P, D
  <2>. QED  BY <1>3, <1>4, <2>1, FS_UNION
<1>. HIDE DEF V
<1> DEFINE X == Levels \X V
           Q == {<<e[1], Above(e[2])[e[1] + 1]>> : e \in X}
<1>6. IsFiniteSet(X)
  <2>1. IsFiniteSet(Levels)
    BY VMMAssumption, FS_Interval DEF Levels
  <2>. QED  BY <1>5, <2>1, FS_Product
<1>7. IsFiniteSet(Q)
  <2> DEFINE f == [e \in X |-> <<e[1], Above(e[2])[e[1] + 1]>>]
  <2>1. f \in Surjection(X, Q)
    BY DEF Surjection, Range
  <2>. HIDE DEF f, Q, X
  <2>. QED  BY <1>6, <2>1, FS_Surjection
<1>8. Needed(b) = Q \cup {<<LEVELS - 1, 0>>}
  <2> DEFINE R == {<<l, Above(v)[l + 1]>> : l \in Levels, v \in V}
  <2>1. Needed(b) = {<<LEVELS - 1, 0>>} \cup R
    BY DEF Needed, Levels, V
  <2>2. ASSUME NEW e \in Q  PROVE e \in R
    <3>1. PICK d \in X : e = <<d[1], Above(d[2])[d[1] + 1]>>
      OBVIOUS
    <3>2. d[1] \in Levels /\ d[2] \in V
      OBVIOUS
    <3>. QED  BY <3>1, <3>2
  <2>3. ASSUME NEW e \in R  PROVE e \in Q
    <3>1. PICK l \in Levels, v \in V : e = <<l, Above(v)[l + 1]>>
      OBVIOUS
    <3>2. <<l, v>> \in X /\ <<l, v>>[1] = l /\ <<l, v>>[2] = v
      OBVIOUS
    <3>. QED  BY <3>1, <3>2
  <2>. HIDE DEF Q, R
  <2>. QED  BY <2>1, <2>2, <2>3
<1>. HIDE DEF Q
<1>. QED  BY <1>7, <1>8, FS_AddElement
--------------------------------------------------------------------------------
\* How the steps keep what init has built.  The frames are shared out anew,
LEMMA SupplyKept ==
  ASSUME Supply, pml4Phys' = pml4Phys,
         DOMAIN tables' \cup pool' \subseteq DOMAIN tables \cup pool,
         physOffset' = 0 =>
           physOffset = 0 /\ DOMAIN tables \cup pool \subseteq DOMAIN tables' \cup pool'
  PROVE  Supply'
  BY DEF Supply

\* the tables stay in their places,
LEMMA PlacingKept ==
  ASSUME Placing, Frames', NEW lev, NEW place, Shape(lev, place), Shape(lev, place)',
         DOMAIN tables' = DOMAIN tables, ranges' = ranges, physOffset' = 0 => physOffset = 0
  PROVE  Placing'
<1>. SUFFICES ASSUME physOffset' = 0, NEW lev2, NEW place2, Shape(lev2, place2)',
                     NEW t \in DOMAIN tables'
     PROVE  <<lev2[t], place2[t]>> \in Needed(ranges')
  BY DEF Placing
<1>1. lev2 = lev /\ place2 = place
  BY OneShapeAfter
<1>. QED  BY <1>1 DEF Placing

\* and what is sure either was so, or belongs to a call that has returned now.
LEMMA HoldsKept ==
  ASSUME Holds, UNCHANGED <<ranges, pml4Phys>>,
         \A v \in VirtualPages :
           v - HHDM \in Usable /\ Translate(v) = v - HHDM /\ v \notin InFlight =>
             Translate(v)' = Translate(v) /\ v \notin InFlight',
         \A k \in DOMAIN ranges :
           Alone(ranges, k) /\ 2 * k <= Finished' /\ ~ (2 * k <= Finished) =>
             \A v \in Pages(BootCall(ranges, 2 * k - 1)) :
               v \in VirtualPages => Translate(v)' = v - HHDM /\ v \notin InFlight'
  PROVE  Holds'
<1>. SUFFICES ASSUME NEW v \in Sure'  PROVE Translate(v)' = v - HHDM /\ v \notin InFlight'
  BY DEF Holds
<1>1. /\ v \in VirtualPages /\ v - HHDM \in Usable
      /\ \E k \in DOMAIN ranges :
           2 * k <= Finished' /\ Alone(ranges, k) /\ v \in Pages(BootCall(ranges, 2 * k - 1))
  BY DEF Sure, Usable
<1>2. PICK k \in DOMAIN ranges :
        2 * k <= Finished' /\ Alone(ranges, k) /\ v \in Pages(BootCall(ranges, 2 * k - 1))
  BY <1>1
<1>3. CASE 2 * k <= Finished
  <2>1. v \in Sure
    BY <1>1, <1>2, <1>3 DEF Sure
  <2>2. Translate(v) = v - HHDM /\ v \notin InFlight
    BY <2>1 DEF Holds
  <2>. QED  BY <1>1, <2>2
<1>4. CASE ~ (2 * k <= Finished)
  BY <1>1, <1>2, <1>4
<1>. QED  BY <1>3, <1>4
\* The call that runs stays init's own, or becomes the one that takes it back.
LEMMA StageContinues ==
  ASSUME Stage, pc \in {"walk", "invlpg"}, UNCHANGED <<ranges, boot, pml4Phys, physOffset>>,
         call.count \in Nat, NEW c, NEW n \in Nat, Continue(c, n), c.virt = call.virt,
         \/ c = call
         \/ /\ c.op = "undo" /\ call.op = "map" /\ c.count \in Nat /\ c.count <= call.count
            /\ physOffset = 0 => \A k \in DOMAIN ranges : 2 * k = boot => ~ Alone(ranges, k)
  PROVE  Stage'
<1>1. CASE n = c.count
  <2>1. pc' = (IF physOffset = 0 THEN "boot" ELSE "idle") /\ call' = NoCall
    BY <1>1 DEF Continue
  <2>. QED  BY <2>1 DEF Stage, NoCall
<1>2. CASE n # c.count
  <2>1. pc' = "walk" /\ call' = c
    BY <1>2 DEF Continue
  <2>2. physOffset' = 0 => Booting'
    <3>1. SUFFICES ASSUME physOffset = 0  PROVE Booting'
      OBVIOUS
    <3>2. PICK d : d = BootCall(ranges, boot - 1)
      OBVIOUS
    <3>3. d = BootCall(ranges', boot' - 1)
      BY <3>2
    <3>4. /\ boot > 0 /\ call.virt = d.virt /\ call.op \in {"map", "undo"}
          /\ call.op = "map" => call = d
          /\ call.op = "undo" =>
               call.count <= d.count /\ \A k \in DOMAIN ranges : 2 * k = boot => ~ Alone(ranges, k)
      BY <3>1, <3>2 DEF Stage, Booting
    <3>5. /\ boot' > 0 /\ call'.virt = d.virt /\ call'.op \in {"map", "undo"}
          /\ call'.op = "map" => call' = d
          /\ call'.op = "undo" =>
               /\ call'.count <= d.count
               /\ \A k \in DOMAIN ranges' : 2 * k = boot' => ~ Alone(ranges', k)
      BY <2>1, <3>1, <3>4
    <3>. QED  BY <3>3, <3>5 DEF Booting
  <2>3. call'.op = "unmap" => physOffset' # 0 /\ \A v \in Pages(call') : v - HHDM \notin Usable'
    <3>1. Usable' = Usable
      BY DEF Usable
    <3>. QED  BY <2>1, <3>1 DEF Stage
  <2>4. pc' \notin {"reset", "panic", "fault", "idle", "boot"} /\ physOffset' = physOffset /\ boot' = boot
        /\ ranges' = ranges
    BY <2>1
  <2>5. physOffset' # 0 => boot' = 2 * Len(ranges')
    BY <2>4 DEF Stage
  <2>. QED  BY <2>2, <2>3, <2>4, <2>5 DEF Stage
<1>. QED  BY <1>1, <1>2

\* Init's own call, while it runs.
LEMMA BootPages ==
  ASSUME VInv, Stage, physOffset = 0, pc \in {"walk", "invlpg"}
  PROVE  /\ boot \in 1 .. 2 * Len(ranges) /\ boot - 1 \in 0 .. 2 * Len(ranges) - 1
         /\ Finished = boot - 1 /\ ranges \in BootInfos /\ Len(ranges) \in Nat
         /\ DOMAIN ranges = 1 .. Len(ranges)
         /\ Page \in Pages(BootCall(ranges, boot - 1))
         /\ BootCall(ranges, boot - 1) \in [op : {"map"}, virt : Nat, phys : Nat, count : Nat]
<1>1. PICK c : c = BootCall(ranges, boot - 1)
  OBVIOUS
<1>2. ranges \in BootInfos /\ boot \in 0 .. 2 * Len(ranges)
  BY DEF VInv, Frames
<1>3. ranges \in Seq([start : Nat, pages : Nat])
  BY <1>2, VMMAssumption
<1>4. Len(ranges) \in Nat /\ DOMAIN ranges = 1 .. Len(ranges)
  BY <1>3
<1>5. /\ boot > 0 /\ call.virt = c.virt /\ call.op \in {"map", "undo"}
      /\ call.op = "map" => call = c
      /\ call.op = "undo" => call.count <= c.count
  BY <1>1 DEF Stage, Booting
<1>6. boot \in 1 .. 2 * Len(ranges) /\ boot - 1 \in 0 .. 2 * Len(ranges) - 1
  BY <1>2, <1>4, <1>5
<1>7. c \in [op : {"map"}, virt : Nat, phys : Nat, count : Nat]
  BY <1>1, <1>2, <1>6, BootCalls
<1>8. i \in 0 .. call.count - 1 /\ call.count \in Nat
  BY WalkPage
<1>9. Page \in Pages(c)
  <2>1. call.count <= c.count
    BY <1>5, <1>7
  <2>. QED  BY <1>5, <1>7, <1>8, <2>1 DEF Page, Pages
<1>10. Finished = boot - 1
  BY DEF Finished
<1>. QED  BY <1>1, <1>2, <1>4, <1>6, <1>7, <1>9, <1>10
\* Frames do not run out while init maps: no table is in the place of the one that is
\* missing, so there are fewer tables than init needs.
LEMMA PoolLasts ==
  ASSUME VInv, Kept, Ample, physOffset = 0, NEW l \in 1 .. LEVELS - 1, Walking(l), Entry = ABSENT
  PROVE  pool # {}
<1>. SUFFICES ASSUME pool = {}  PROVE FALSE
  OBVIOUS
<1> DEFINE N == Needed(ranges)
<1>1. pc = "walk" /\ level = l /\ Frames
  BY DEF Walking, VInv
<1>2. PICK lev, place : Placed(lev, place)
  BY <1>1, WalkPage
<1>3. PICK p \in Pools : pml4Phys \in p /\ DOMAIN tables \cup pool \subseteq p
                         /\ p \subseteq DOMAIN tables \cup pool
  BY DEF Kept, Supply
<1>4. p = DOMAIN tables
  BY <1>3
<1>5. IsFiniteSet(p) /\ Cardinality(N) <= Cardinality(p)
  BY <1>3 DEF Ample
<1>6. PICK v : v = Page
  OBVIOUS
<1>7. PICK t : t = table
  OBVIOUS
<1>8. v \in VirtualPages
  BY <1>1, <1>6, WalkPage
<1>9. t \in DOMAIN tables /\ lev[t] = l /\ place[t] = Above(v)[l + 1] /\ Shape(lev, place)
  BY <1>1, <1>2, <1>6, <1>7 DEF Placed, Position
<1>10. tables[t][Index(v, l)] = ABSENT
  BY <1>1, <1>6, <1>7 DEF Entry
<1> DEFINE e == <<l - 1, Above(v)[l]>>
<1>11. e \in N
  <2>1. v \in InitPages(ranges)
    BY <1>1, <1>6, BootPages DEF Kept, InitPages
  <2>2. l - 1 \in 0 .. LEVELS - 1 /\ (l - 1) + 1 = l
    BY VMMAssumption
  <2>. QED  BY <2>1, <2>2 DEF Needed
<1>12. \A s \in p : <<lev[s], place[s]>> \in N /\ <<lev[s], place[s]>> # e
  <2>1. \A s \in DOMAIN tables : ~ (lev[s] = l - 1 /\ place[s] = Above(v)[l])
    BY <1>1, <1>8, <1>9, <1>10, PlaceFree
  <2>. QED  BY <1>4, <1>9, <2>1 DEF Kept, Placing
<1>13. IsFiniteSet(N)
  BY <1>1, NeededFinite DEF Frames
<1>. HIDE DEF N, e
<1>14. IsFiniteSet(N \ {e}) /\ Cardinality(N \ {e}) = Cardinality(N) - 1
  BY <1>11, <1>13, FS_RemoveElement
<1>15. Cardinality(p) <= Cardinality(N \ {e})
  <2> DEFINE f == [s \in p |-> <<lev[s], place[s]>>]
  <2>1. \A s, u \in p : f[s] = f[u] => s = u
    BY <1>4, <1>9 DEF Shape
  <2>2. f \in [p -> N \ {e}]
    BY <1>12
  <2>. HIDE DEF f
  <2>3. f \in Injection(p, N \ {e})
    BY <2>1, <2>2 DEF Injection, IsInjective
  <2>. QED  BY <1>14, <2>3, FS_Injection
<1>16. Cardinality(N) \in Nat /\ Cardinality(p) \in Nat
  BY <1>5, <1>13, FS_CardinalityType
<1>. QED  BY <1>5, <1>14, <1>15, <1>16

\* What map_range takes back of init's call is not alone.
LEMMA RefusedMeets ==
  ASSUME VInv, Kept, physOffset = 0, Walking(0), call.op = "map", Entry # ABSENT
  PROVE  \A k \in DOMAIN ranges : 2 * k = boot => ~ Alone(ranges, k)
<1>1. pc = "walk" /\ level = 0 /\ Frames
  BY DEF Walking, VInv
<1>2. PICK lev, place : Placed(lev, place)
  BY <1>1, WalkPage
<1>3. PICK v : v = Page
  OBVIOUS
<1>4. PICK t : t = table
  OBVIOUS
<1>5. v \in VirtualPages
  BY <1>1, <1>3, WalkPage
<1>6. t \in DOMAIN tables /\ lev[t] = 0 /\ place[t] = Above(v)[1] /\ Shape(lev, place)
  BY <1>1, <1>2, <1>3, <1>4 DEF Placed, Position
<1>7. Translate(v) # ABSENT
  <2>1. Translate(v) = tables[t][Index(v, 0)]
    BY <1>1, <1>5, <1>6, Translation DEF Translated
  <2>2. Entry = tables[t][Index(v, 0)]
    BY <1>1, <1>3, <1>4 DEF Entry
  <2>. QED  BY <2>1, <2>2
<1>8. Asked(v)
  BY <1>5, <1>7 DEF Kept, Only, Mapped
<1>9. v \notin InFlight
  <2>1. i \in 0 .. call.count - 1 /\ call.virt \in Nat /\ call.count \in Nat
    BY <1>1, WalkPage
  <2>. QED  BY <1>3, <2>1 DEF InFlight, Page
<1>10. PICK n \in 0 .. Finished - 1 : v \in Pages(BootCall(ranges, n))
  BY <1>8, <1>9 DEF Asked
<1>11. v \in Pages(BootCall(ranges, boot - 1)) /\ Finished = boot - 1 /\ boot \in Nat
  BY <1>1, <1>3, BootPages DEF Kept
<1>12. ASSUME NEW k \in DOMAIN ranges, 2 * k = boot, Alone(ranges, k)  PROVE FALSE
  <2>1. n \in 0 .. 2 * k - 2 /\ 2 * k - 1 = boot - 1
    BY <1>10, <1>11, <1>12
  <2>. QED  BY <1>10, <1>11, <1>12, <2>1 DEF Alone
<1>. QED  BY <1>12

\* Once init has loaded its tables, each frame is where the direct map says.
LEMMA FramesReached ==
  ASSUME VInv, Kept, Ample, NEW f \in DOMAIN tables \cup pool
  PROVE  Reachable(f)
<1>. SUFFICES ASSUME physOffset # 0  PROVE Translate(physOffset + f) = f
  BY DEF Reachable
<1>1. physOffset = HHDM /\ HHDM \in Nat /\ ranges \in BootInfos
  BY VMMAssumption DEF VInv, Frames
<1>2. PICK p \in Pools : pml4Phys \in p /\ f \in p
  BY DEF Kept, Supply
<1>3. f \in Nat /\ f \in Usable
  BY <1>2, VMMAssumption DEF Usable
<1>4. PICK k \in DOMAIN ranges : f - ranges[k].start \in 0 .. ranges[k].pages - 1 /\ Alone(ranges, k)
  BY <1>2 DEF Ample
<1>5. Len(ranges) \in Nat /\ k \in 1 .. Len(ranges) /\ ranges[k] \in [start : Nat, pages : Nat]
  <2>1. ranges \in Seq([start : Nat, pages : Nat])
    BY <1>1, VMMAssumption
  <2>2. Len(ranges) \in Nat
    BY <2>1
  <2>. QED  BY <2>1, <2>2, SeqElements
<1>6. PICK s : s = ranges[k].start
  OBVIOUS
<1>7. PICK n : n = ranges[k].pages
  OBVIOUS
<1>8. s \in Nat /\ n \in Nat /\ f - s \in 0 .. n - 1
  BY <1>4, <1>5, <1>6, <1>7
<1>9. PICK c : c = BootCall(ranges, 2 * k - 1)
  OBVIOUS
<1>10. c.virt = HHDM + s /\ c.count = n /\ Pages(c) \subseteq VirtualPages
  <2>1. 2 * k - 1 \in 0 .. 2 * Len(ranges) - 1
    BY <1>5
  <2>. QED  BY <1>1, <1>6, <1>7, <1>9, <2>1, BootCalls
<1>11. PICK v : v = HHDM + f
  OBVIOUS
<1>12. v - HHDM = f
  BY <1>1, <1>3, <1>11
<1>13. v \in Pages(c)
  BY <1>1, <1>3, <1>8, <1>10, <1>11 DEF Pages
<1>14. 2 * k <= Finished
  <2>1. Finished = 2 * Len(ranges)
    BY DEF Finished, Kept, Stage
  <2>. QED  BY <1>5, <2>1
<1>15. v \in Sure
  BY <1>3, <1>4, <1>9, <1>10, <1>12, <1>13, <1>14 DEF Sure
<1>. QED  BY <1>1, <1>11, <1>12, <1>15 DEF Kept, Holds
\* Steps that leave the call as it is, and what the tables hold for each page.
LEMMA KeptQuiet ==
  ASSUME Kept, UNCHANGED <<ranges, boot, pml4Phys, physOffset, pc, call, i>>,
         \A v \in VirtualPages : Translate(v)' = Translate(v), Supply', Placing'
  PROVE  Kept'
<1>1. Usable' = Usable /\ Finished' = Finished /\ InFlight' = InFlight
  BY DEF Usable, Finished, InFlight
<1>2. Stage'
  <2>1. Booting => Booting'
    <3>1. PICK d : d = BootCall(ranges, boot - 1)
      OBVIOUS
    <3>2. d = BootCall(ranges', boot' - 1)
      BY <3>1
    <3>3. (\A k \in DOMAIN ranges : 2 * k = boot => ~ Alone(ranges, k)) =>
            \A k \in DOMAIN ranges' : 2 * k = boot' => ~ Alone(ranges', k)
      OBVIOUS
    <3>4. call' = call /\ boot' = boot
      OBVIOUS
    <3>. QED  BY <3>1, <3>2, <3>3, <3>4 DEF Booting
  <2>2. Stage
    BY DEF Kept
  <2>. HIDE DEF Booting
  <2>. QED  BY <1>1, <2>1, <2>2 DEF Stage
<1>3. Only'
  <2>1. ASSUME NEW v \in VirtualPages, physOffset = 0, Mapped(v)'  PROVE Asked(v)'
    <3>1. Mapped(v)
      BY <2>1 DEF Mapped
    <3>2. Asked(v)
      BY <2>1, <3>1 DEF Kept, Only
    <3>. QED  BY <1>1, <3>2 DEF Asked
  <2>. QED  BY <2>1 DEF Only
<1>4. Holds'
  <2>1. \A v \in VirtualPages :
          v - HHDM \in Usable /\ Translate(v) = v - HHDM /\ v \notin InFlight =>
            Translate(v)' = Translate(v) /\ v \notin InFlight'
    BY <1>1
  <2>2. \A k \in DOMAIN ranges : ~ (2 * k <= Finished' /\ ~ (2 * k <= Finished))
    BY <1>1
  <2>. QED  BY <2>1, <2>2, HoldsKept DEF Kept
<1>. QED  BY <1>2, <1>3, <1>4 DEF Kept

\* The pages in flight are of init's own call.
LEMMA BootFlight ==
  ASSUME VInv, Stage, physOffset = 0, pc \in {"walk", "invlpg"}
  PROVE  InFlight \subseteq Pages(BootCall(ranges, boot - 1))
<1>1. PICK c : c = BootCall(ranges, boot - 1)
  OBVIOUS
<1>2. c \in [op : {"map"}, virt : Nat, phys : Nat, count : Nat]
  BY <1>1, BootPages
<1>3. /\ call.virt = c.virt /\ call.op \in {"map", "undo"}
      /\ call.op = "map" => call = c
      /\ call.op = "undo" => call.count <= c.count
  BY <1>1 DEF Stage, Booting
<1>4. i \in 0 .. call.count - 1 /\ call.count \in Nat
  BY WalkPage
<1>5. CASE call.op = "map"
  BY <1>1, <1>2, <1>3, <1>4, <1>5 DEF InFlight, Pages
<1>6. CASE call.op = "undo"
  BY <1>1, <1>2, <1>3, <1>4, <1>6 DEF InFlight, Pages
<1>. QED  BY <1>3, <1>5, <1>6

\* Steps of a walk that go on with another page, or with taking back, and write no table.
LEMMA KeptOnward ==
  ASSUME VInv, Frames', Kept, pc \in {"walk", "invlpg"},
         UNCHANGED <<ranges, boot, pml4Phys, physOffset, tables, pool>>,
         NEW c, NEW n \in Nat, Continue(c, n), c.virt = call.virt,
         \/ c = call /\ call.op # "map"
         \/ /\ c.op = "undo" /\ call.op = "map" /\ c.count = i
            /\ physOffset = 0 => \A k \in DOMAIN ranges : 2 * k = boot => ~ Alone(ranges, k)
  PROVE  Kept'
<1>. USE DEF Kept
<1>1. PICK lev, place : Placed(lev, place)
  BY WalkPage
<1>2. /\ Shape(lev, place)' /\ Shape(lev, place)
      /\ \A v \in VirtualPages : Translate(v)' = Translate(v)
  BY <1>1, SameTables DEF Placed, VInv
<1>3. Supply' /\ Placing'
  BY <1>2, SupplyKept, PlacingKept
<1>4. /\ i \in Nat /\ call.count \in Nat /\ i <= call.count /\ call.virt \in Nat
      /\ call.op \in {"map", "unmap", "undo"}
  BY WalkPage DEF Ops
<1>5. Stage'
  BY <1>4, StageContinues
<1>6. \/ pc' \in {"boot", "idle"} /\ call' = NoCall /\ n = c.count
      \/ pc' = "walk" /\ call' = c
  BY DEF Continue
<1>7. InFlight' \subseteq InFlight
  <2>1. CASE call' = NoCall
    BY <2>1 DEF InFlight, NoCall
  <2>2. CASE call' = c /\ c = call
    BY <2>2 DEF InFlight
  <2>3. CASE call' = c /\ c.op = "undo" /\ call.op = "map" /\ c.count = i
    <3>1. InFlight' = c.virt .. c.virt + c.count - 1
      BY <2>3 DEF InFlight
    <3>2. InFlight = call.virt .. call.virt + i - 1
      BY <2>3 DEF InFlight
    <3>. QED  BY <2>3, <3>1, <3>2
  <2>. QED  BY <1>6, <2>1, <2>2, <2>3
<1>8. \/ pc' = "boot" /\ physOffset = 0 /\ Finished' = boot
      \/ Finished' = Finished /\ InFlight' = InFlight
      \/ physOffset # 0 /\ Finished' = Finished
  <2>1. CASE physOffset # 0
    BY <2>1 DEF Finished
  <2>2. CASE physOffset = 0 /\ n = c.count
    BY <2>2 DEF Finished, Continue
  <2>3. CASE physOffset = 0 /\ n # c.count
    <3>1. pc' = "walk" /\ call' = c
      BY <2>3 DEF Continue
    <3>2. Finished' = Finished
      BY <2>3, <3>1 DEF Finished
    <3>3. InFlight' = InFlight
      <4>1. CASE c = call
        BY <1>4, <3>1, <4>1 DEF InFlight
      <4>2. CASE c.op = "undo" /\ call.op = "map" /\ c.count = i
        <5>1. InFlight' = c.virt .. c.virt + c.count - 1
          BY <3>1, <4>2 DEF InFlight
        <5>2. InFlight = call.virt .. call.virt + i - 1
          BY <4>2 DEF InFlight
        <5>. QED  BY <4>2, <5>1, <5>2
      <4>. QED  BY <4>1, <4>2
    <3>. QED  BY <3>2, <3>3
  <2>. QED  BY <2>1, <2>2, <2>3
<1>9. Only'
  <2>1. ASSUME NEW v \in VirtualPages, physOffset = 0, Mapped(v)'  PROVE Asked(v)'
    <3>1. Mapped(v)
      BY <1>2, <2>1 DEF Mapped
    <3>2. Asked(v)
      BY <2>1, <3>1 DEF Only
    <3>3. CASE Finished' = Finished /\ InFlight' = InFlight
      BY <3>2, <3>3 DEF Asked
    <3>4. CASE pc' = "boot" /\ Finished' = boot
      <4>1. /\ InFlight \subseteq Pages(BootCall(ranges, boot - 1))
            /\ Finished = boot - 1 /\ boot \in 1 .. 2 * Len(ranges) /\ Len(ranges) \in Nat
        BY <2>1, BootPages, BootFlight
      <4>2. \E m \in 0 .. boot - 1 : v \in Pages(BootCall(ranges, m))
        <5>1. CASE v \in InFlight
          <6>1. boot - 1 \in 0 .. boot - 1
            BY <4>1
          <6>. QED  BY <4>1, <5>1, <6>1
        <5>2. CASE v \notin InFlight
          <6>1. PICK m \in 0 .. boot - 2 : v \in Pages(BootCall(ranges, m))
            <7>1. boot - 1 - 1 = boot - 2
              BY <4>1
            <7>. QED  BY <3>2, <4>1, <5>2, <7>1 DEF Asked
          <6>2. m \in 0 .. boot - 1
            BY <4>1
          <6>. QED  BY <6>1, <6>2
        <5>. QED  BY <5>1, <5>2
      <4>3. ranges' = ranges /\ Finished' = boot
        BY <3>4
      <4>. QED  BY <4>2, <4>3 DEF Asked
    <3>. QED  BY <1>8, <2>1, <3>3, <3>4
  <2>. QED  BY <2>1 DEF Only
<1>10. Holds'
  <2>1. \A v \in VirtualPages :
          v - HHDM \in Usable /\ Translate(v) = v - HHDM /\ v \notin InFlight =>
            Translate(v)' = Translate(v) /\ v \notin InFlight'
    BY <1>2, <1>7
  <2>2. ASSUME NEW k \in DOMAIN ranges, Alone(ranges, k),
               2 * k <= Finished', ~ (2 * k <= Finished)
        PROVE  FALSE
    <3>1. physOffset = 0 /\ Finished' = boot
      BY <1>8, <2>2
    <3>2. Finished = boot - 1 /\ boot \in Nat /\ k \in Nat
      BY <3>1, BootPages
    <3>3. 2 * k = boot
      BY <2>2, <3>1, <3>2
    <3>4. \A j \in DOMAIN ranges : 2 * j = boot => ~ Alone(ranges, j)
      BY <3>1, <1>4 DEF Stage, Booting
    <3>. QED  BY <2>2, <3>3, <3>4
  <2>. QED  BY <2>1, <2>2, HoldsKept
<1>. QED  BY <1>3, <1>5, <1>9, <1>10
\* Init's next call, and a caller's.
LEMMA KeptInitRange ==
  ASSUME VInv, Frames', Kept, InitRange
  PROVE  Kept'
<1>. USE DEF Kept
<1>1. /\ pc = "boot" /\ boot < 2 * Len(ranges) /\ boot' = boot + 1
      /\ UNCHANGED <<ranges, pml4Phys, physOffset, tables, pool, tlb>>
  BY DEF InitRange
<1>2. /\ physOffset = 0 /\ call = NoCall /\ pml4Phys # NONE
      /\ ranges \in BootInfos /\ boot \in 0 .. 2 * Len(ranges)
  BY <1>1 DEF Stage, VInv, Frames, Calling, Rooted
<1>3. ranges \in Seq([start : Nat, pages : Nat])
  BY <1>2, VMMAssumption
<1>4. Len(ranges) \in Nat /\ DOMAIN ranges = 1 .. Len(ranges)
  BY <1>3
<1>5. PICK c : c = BootCall(ranges, boot)
  OBVIOUS
<1>6. c \in [op : {"map"}, virt : Nat, phys : Nat, count : Nat]
  <2>1. boot \in 0 .. 2 * Len(ranges) - 1
    BY <1>1, <1>2, <1>4
  <2>. QED  BY <1>2, <1>5, <2>1, BootCalls
<1>7. Continue(c, 0)
  BY <1>5 DEF InitRange
<1>8. \/ c.count = 0 /\ pc' = "boot" /\ call' = NoCall /\ Finished' = boot + 1
      \/ c.count # 0 /\ pc' = "walk" /\ call' = c /\ i' = 0 /\ Finished' = boot
  BY <1>1, <1>2, <1>7 DEF Continue, Finished
<1>9. InFlight = {} /\ InFlight' = {} /\ Finished = boot
  <2>1. InFlight' = {}
    BY <1>6, <1>8 DEF InFlight, NoCall
  <2>. QED  BY <1>1, <1>2, <2>1 DEF InFlight, NoCall, Finished
<1>10. PICK lev, place : Placed(lev, place)
  BY <1>2 DEF VInv, Rooted
<1>11. /\ Shape(lev, place)' /\ Shape(lev, place)
       /\ \A v \in VirtualPages : Translate(v)' = Translate(v)
  BY <1>1, <1>10, SameTables DEF Placed, VInv
<1>12. Supply' /\ Placing'
  BY <1>1, <1>11, SupplyKept, PlacingKept
<1>13. Stage'
  <2>1. CASE pc' = "boot" /\ call' = NoCall
    BY <1>1, <1>2, <2>1 DEF Stage, NoCall
  <2>2. CASE pc' = "walk" /\ call' = c
    <3>1. c = BootCall(ranges', boot' - 1)
      BY <1>1, <1>2, <1>4, <1>5
    <3>2. boot' > 0
      BY <1>1, <1>2, <1>4
    <3>3. Booting'
      BY <1>6, <2>2, <3>1, <3>2 DEF Booting
    <3>. QED  BY <1>1, <1>2, <1>6, <2>2, <3>3 DEF Stage
  <2>. QED  BY <1>8, <2>1, <2>2
<1>14. Only'
  <2>1. ASSUME NEW v \in VirtualPages, Mapped(v)'  PROVE Asked(v)'
    <3>1. Mapped(v)
      BY <1>11, <2>1 DEF Mapped
    <3>2. PICK m \in 0 .. boot - 1 : v \in Pages(BootCall(ranges, m))
      BY <1>2, <1>9, <3>1 DEF Only, Asked
    <3>3. m \in 0 .. Finished' - 1
      BY <1>2, <1>4, <1>8
    <3>. QED  BY <1>1, <3>2, <3>3 DEF Asked
  <2>. QED  BY <2>1 DEF Only
<1>15. Holds'
  <2>1. \A v \in VirtualPages :
          v - HHDM \in Usable /\ Translate(v) = v - HHDM /\ v \notin InFlight =>
            Translate(v)' = Translate(v) /\ v \notin InFlight'
    BY <1>9, <1>11
  <2>2. ASSUME NEW k \in DOMAIN ranges, 2 * k <= Finished', ~ (2 * k <= Finished)
        PROVE  Pages(BootCall(ranges, 2 * k - 1)) = {}
    <3>1. 2 * k - 1 = boot /\ c.count = 0
      BY <1>2, <1>4, <1>8, <1>9, <2>2
    <3>2. c.virt \in Nat
      BY <1>6
    <3>. QED  BY <1>5, <3>1, <3>2 DEF Pages
  <2>. QED  BY <1>1, <2>1, <2>2, HoldsKept
<1>. QED  BY <1>12, <1>13, <1>14, <1>15

LEMMA KeptCall ==
  ASSUME VInv, Frames', Kept, Ample, Call
  PROVE  Kept'
<1>. USE DEF Kept
<1>1. PICK op \in {"map", "unmap"}, r \in Ranges :
        /\ r.count > 0
        /\ Continue([op |-> op, virt |-> r.virt, phys |-> r.phys, count |-> r.count], 0)
  BY DEF Call
<1>2. PICK c : c = [op |-> op, virt |-> r.virt, phys |-> r.phys, count |-> r.count]
  OBVIOUS
<1>3. /\ pc = "idle"
      /\ UNCHANGED <<ranges, boot, pml4Phys, physOffset, tables, pool, tlb>>
  BY DEF Call
<1>4. physOffset # 0 /\ call = NoCall /\ pml4Phys # NONE
  BY <1>3 DEF Stage, VInv, Calling, Rooted
<1>5. r.virt \in Nat /\ r.phys \in Nat /\ r.count \in Nat
  BY VMMAssumption
<1>6. pc' = "walk" /\ call' = c /\ i' = 0
  <2>1. c.count # 0 /\ Continue(c, 0)
    BY <1>1, <1>2, <1>5
  <2>. QED  BY <2>1 DEF Continue
<1>7. InFlight = {} /\ InFlight' = {} /\ Finished' = Finished
  <2>1. InFlight' = {}
    BY <1>2, <1>5, <1>6 DEF InFlight
  <2>. QED  BY <1>3, <1>4, <2>1 DEF InFlight, NoCall, Finished
<1>8. PICK lev, place : Placed(lev, place)
  BY <1>4 DEF VInv, Rooted
<1>9. /\ Shape(lev, place)' /\ Shape(lev, place)
      /\ \A v \in VirtualPages : Translate(v)' = Translate(v)
  BY <1>3, <1>8, SameTables DEF Placed, VInv
<1>10. Supply' /\ Placing'
  BY <1>3, <1>9, SupplyKept, PlacingKept
<1>11. Stage'
  <2>1. \A v \in Pages(r) : v - HHDM \notin Usable
    BY DEF Ample, Usable
  <2>2. Pages(call') = Pages(r) /\ Usable' = Usable
    BY <1>2, <1>3, <1>6 DEF Pages, Usable
  <2>3. call'.op = "unmap" => physOffset' # 0 /\ \A v \in Pages(call') : v - HHDM \notin Usable'
    BY <1>3, <1>4, <2>1, <2>2
  <2>. QED  BY <1>3, <1>4, <1>6, <2>3 DEF Stage
<1>12. Only'
  BY <1>3, <1>4 DEF Only
<1>13. Holds'
  <2>1. \A v \in VirtualPages :
          v - HHDM \in Usable /\ Translate(v) = v - HHDM /\ v \notin InFlight =>
            Translate(v)' = Translate(v) /\ v \notin InFlight'
    BY <1>7, <1>9
  <2>. QED  BY <1>3, <1>7, <2>1, HoldsKept
<1>. QED  BY <1>10, <1>11, <1>12, <1>13

LEMMA KeptInitLoads ==
  ASSUME VInv, Frames', Kept, InitLoads
  PROVE  Kept'
<1>. USE DEF Kept
<1>1. /\ pc = "boot" /\ boot = 2 * Len(ranges) /\ physOffset' = HHDM /\ pc' = "idle"
      /\ UNCHANGED <<ranges, boot, pml4Phys, tables, pool, call, i, level, table, tlb>>
  BY DEF InitLoads
<1>2. physOffset' # 0 /\ call = NoCall /\ pml4Phys # NONE
  BY <1>1, VMMAssumption DEF VInv, Calling, Rooted
<1>3. InFlight' = InFlight /\ Finished' = Finished
  BY <1>1, <1>2 DEF InFlight, Finished
<1>4. PICK lev, place : Placed(lev, place)
  BY <1>2 DEF VInv, Rooted
<1>5. /\ Shape(lev, place)' /\ Shape(lev, place)
      /\ \A v \in VirtualPages : Translate(v)' = Translate(v)
  BY <1>1, <1>4, SameTables DEF Placed, VInv
<1>6. Supply' /\ Placing' /\ Only'
  BY <1>1, <1>2, <1>5, SupplyKept, PlacingKept DEF Only
<1>7. Stage'
  BY <1>1, <1>2 DEF Stage, NoCall
<1>8. Holds'
  <2>1. \A v \in VirtualPages :
          v - HHDM \in Usable /\ Translate(v) = v - HHDM /\ v \notin InFlight =>
            Translate(v)' = Translate(v) /\ v \notin InFlight'
    BY <1>3, <1>5
  <2>. QED  BY <1>1, <1>3, <2>1, HoldsKept
<1>. QED  BY <1>6, <1>7, <1>8
\* A page of a map is entered: with the last one, the call's pages are sure.
LEMMA KeptMapWrites ==
  ASSUME VInv, Kept, MapWrites
  PROVE  Kept'
<1>. USE DEF Kept
<1>1. /\ pc = "walk" /\ call.op = "map" /\ Walking(0) /\ Entry = ABSENT
      /\ UNCHANGED <<ranges, boot, pml4Phys, physOffset, pool, tlb>>
  BY DEF MapWrites, Walking
<1>2. /\ i \in 0 .. call.count - 1 /\ call.virt \in Nat /\ call.phys \in Nat /\ call.count \in Nat
      /\ \A k \in 0 .. call.count - 1 : call.virt + k \in VirtualPages
  BY <1>1, WalkPage
<1>3. PICK n : n = i + 1
  OBVIOUS
<1>4. PICK f : f = call.phys + i
  OBVIOUS
<1>5. n \in Nat /\ n = i + 1 /\ n <= call.count /\ f \in Nat /\ f # ABSENT
  BY <1>2, <1>3, <1>4 DEF ABSENT
<1>6. tables' = Link(f) /\ Continue(call, n)
  BY <1>3, <1>4 DEF MapWrites
<1>7. /\ Frames'
      /\ \E lev, place : Placed(lev, place) /\ Shape(lev, place)'
      /\ \E p \in VirtualPages :
           /\ p = Page /\ Translate(p) = Entry /\ Translate(p)' = f
           /\ \A v \in VirtualPages : v # p => Translate(v)' = Translate(v)
  BY <1>1, <1>5, <1>6, EntryWritten
<1>8. PICK lev, place : Placed(lev, place) /\ Shape(lev, place)'
  BY <1>7
<1>9. PICK p \in VirtualPages :
         /\ p = Page /\ Translate(p) = Entry /\ Translate(p)' = f
         /\ \A v \in VirtualPages : v # p => Translate(v)' = Translate(v)
  BY <1>7
<1>10. p = call.virt + i /\ Translate(p) = ABSENT
  BY <1>1, <1>9 DEF Page
<1>11. DOMAIN tables' = DOMAIN tables
  BY <1>6 DEF Link
<1>12. Supply' /\ Placing'
  BY <1>1, <1>7, <1>8, <1>11, SupplyKept, PlacingKept DEF Placed
<1>13. Stage'
  BY <1>1, <1>2, <1>5, <1>6, StageContinues
<1>14. InFlight = call.virt .. call.virt + i - 1
  BY <1>1 DEF InFlight
<1>15. \/ n = call.count /\ InFlight' = {} /\ (physOffset = 0 => Finished' = boot)
       \/ n # call.count /\ InFlight' = call.virt .. call.virt + n - 1 /\ Finished' = Finished
  <2>1. CASE n = call.count
    <3>1. call' = NoCall /\ (physOffset = 0 => pc' = "boot")
      BY <1>6, <2>1 DEF Continue
    <3>. QED  BY <1>1, <2>1, <3>1 DEF InFlight, NoCall, Finished
  <2>2. CASE n # call.count
    <3>1. call' = call /\ i' = n /\ pc' = "walk"
      BY <1>6, <2>2 DEF Continue
    <3>. QED  BY <1>1, <2>2, <3>1 DEF InFlight, Finished
  <2>. QED  BY <2>1, <2>2
<1>16. physOffset # 0 => Finished' = Finished
  BY <1>1 DEF Finished
<1>17. physOffset = 0 => /\ boot \in 1 .. 2 * Len(ranges) /\ Len(ranges) \in Nat
                         /\ Finished = boot - 1 /\ DOMAIN ranges = 1 .. Len(ranges)
                         /\ call = BootCall(ranges, boot - 1) /\ ranges \in BootInfos
  BY <1>1, BootPages DEF Stage, Booting
<1>18. Only'
  <2>1. ASSUME NEW v \in VirtualPages, physOffset = 0, Mapped(v)'  PROVE Asked(v)'
    <3>1. v \in InFlight \/ v = p \/ \E m \in 0 .. Finished - 1 : v \in Pages(BootCall(ranges, m))
      <4>1. CASE v # p
        <5>1. Mapped(v)
          BY <1>9, <2>1, <4>1 DEF Mapped
        <5>. QED  BY <2>1, <5>1 DEF Only, Asked
      <4>. QED  BY <4>1
    <3>2. v \in call.virt .. call.virt + n - 1 \/ \E m \in 0 .. Finished - 1 : v \in Pages(BootCall(ranges, m))
      <4>1. p \in call.virt .. call.virt + n - 1
        BY <1>2, <1>5, <1>10
      <4>2. InFlight \subseteq call.virt .. call.virt + n - 1
        BY <1>2, <1>5, <1>14
      <4>. QED  BY <3>1, <4>1, <4>2
    <3>3. CASE n # call.count
      BY <1>1, <1>15, <3>2, <3>3 DEF Asked
    <3>4. CASE n = call.count
      <4>1. Finished' = boot
        BY <1>15, <2>1, <3>4
      <4>2. \E m \in 0 .. boot - 1 : v \in Pages(BootCall(ranges, m))
        <5>1. CASE v \in call.virt .. call.virt + n - 1
          <6>1. boot - 1 \in 0 .. boot - 1
            BY <1>17, <2>1
          <6>2. v \in Pages(BootCall(ranges, boot - 1))
            BY <1>17, <2>1, <3>4, <5>1 DEF Pages
          <6>. QED  BY <6>1, <6>2
        <5>2. CASE \E m \in 0 .. Finished - 1 : v \in Pages(BootCall(ranges, m))
          <6>1. PICK m \in 0 .. Finished - 1 : v \in Pages(BootCall(ranges, m))
            BY <5>2
          <6>2. m \in 0 .. boot - 1
            BY <1>17, <2>1, <6>1
          <6>. QED  BY <6>1, <6>2
        <5>. QED  BY <3>2, <5>1, <5>2
      <4>. QED  BY <1>1, <4>1, <4>2 DEF Asked
    <3>. QED  BY <3>3, <3>4
  <2>. QED  BY <1>1, <2>1 DEF Only
<1>19. Holds'
  <2>1. ASSUME NEW v \in VirtualPages, v - HHDM \in Usable, Translate(v) = v - HHDM, v \notin InFlight
        PROVE  Translate(v)' = Translate(v) /\ v \notin InFlight'
    <3>1. Usable \subseteq Nat
      BY VMMAssumption DEF Usable
    <3>2. v # p
      BY <1>10, <2>1, <3>1 DEF ABSENT
    <3>3. v \notin InFlight'
      <4>1. v \notin call.virt .. call.virt + n - 1
        <5>1. v \in Nat
          BY DEF VirtualPages
        <5>. QED  BY <1>2, <1>5, <1>10, <1>14, <2>1, <3>2, <5>1
      <4>. QED  BY <1>15, <4>1
    <3>. QED  BY <1>9, <3>2, <3>3
  <2>2. ASSUME NEW k \in DOMAIN ranges, 2 * k <= Finished', ~ (2 * k <= Finished),
               NEW v \in Pages(BootCall(ranges, 2 * k - 1)), v \in VirtualPages
        PROVE  Translate(v)' = v - HHDM /\ v \notin InFlight'
    <3>1. physOffset = 0 /\ n = call.count /\ InFlight' = {} /\ Finished' = boot
      BY <1>15, <1>16, <2>2
    <3>2. k \in Nat /\ boot \in Nat /\ 2 * k = boot
      BY <1>17, <2>2, <3>1
    <3>3. call = BootCall(ranges, 2 * k - 1) /\ v \in Pages(call)
      BY <1>17, <2>2, <3>1, <3>2
    <3>4. call.virt = HHDM + call.phys
      <4>1. 2 * k - 1 \in 0 .. 2 * Len(ranges) - 1
        BY <1>17, <3>1, <3>2
      <4>. QED  BY <1>17, <3>1, <3>3, <4>1, BootCalls
    <3>5. v \in Nat /\ HHDM \in Nat
      BY <2>2, VMMAssumption DEF VirtualPages
    <3>6. CASE v = p
      <4>1. v - HHDM = f
        BY <1>2, <1>4, <1>10, <3>4, <3>5, <3>6
      <4>. QED  BY <1>9, <3>1, <3>6, <4>1
    <3>7. CASE v # p
      <4>1. v - call.virt \in 0 .. i - 1 /\ call.virt + (v - call.virt) = v
        BY <1>2, <1>5, <1>10, <3>1, <3>3, <3>5, <3>7 DEF Pages
      <4>2. Translate(call.virt + (v - call.virt)) = call.phys + (v - call.virt)
        BY <1>1, <4>1 DEF VInv, Progress
      <4>3. Translate(v) = call.phys + (v - call.virt)
        BY <4>1, <4>2
      <4>4. call.phys + (v - call.virt) = v - HHDM
        BY <1>2, <3>4, <3>5
      <4>. QED  BY <1>9, <2>2, <3>1, <3>7, <4>3, <4>4
    <3>. QED  BY <3>6, <3>7
  <2>. QED  BY <1>1, <2>1, <2>2, HoldsKept
<1>. QED  BY <1>12, <1>13, <1>18, <1>19

\* An entry is cleared: of a call that is taken back, or of no frame's page.
LEMMA KeptUnmapClears ==
  ASSUME VInv, Kept, UnmapClears
  PROVE  Kept'
<1>. USE DEF Kept
<1>1. /\ pc = "walk" /\ call.op # "map" /\ Walking(0) /\ tables' = Link(ABSENT) /\ pc' = "invlpg"
      /\ UNCHANGED <<ranges, boot, pml4Phys, physOffset, pool, tlb, call, i, level, table>>
  BY DEF UnmapClears, Walking
<1>2. /\ i \in 0 .. call.count - 1 /\ call.virt \in Nat /\ call.count \in Nat
      /\ call.op \in {"unmap", "undo"}
  BY <1>1, WalkPage DEF Ops
<1>3. /\ Frames'
      /\ \E lev, place : Placed(lev, place) /\ Shape(lev, place)'
      /\ \E p \in VirtualPages :
           /\ p = Page /\ Translate(p) = Entry /\ Translate(p)' = ABSENT
           /\ \A v \in VirtualPages : v # p => Translate(v)' = Translate(v)
  <2>1. UNCHANGED <<ranges, boot, pml4Phys, physOffset, pool, tlb>> /\ ABSENT \in Nat \cup {ABSENT}
    BY <1>1
  <2>. QED  BY <1>1, <2>1, EntryWritten
<1>4. PICK lev, place : Placed(lev, place) /\ Shape(lev, place)'
  BY <1>3
<1>5. PICK p \in VirtualPages :
         /\ p = Page /\ Translate(p) = Entry /\ Translate(p)' = ABSENT
         /\ \A v \in VirtualPages : v # p => Translate(v)' = Translate(v)
  BY <1>3
<1>6. DOMAIN tables' = DOMAIN tables
  BY <1>1 DEF Link
<1>7. Supply' /\ Placing'
  BY <1>1, <1>3, <1>4, <1>6, SupplyKept, PlacingKept DEF Placed
<1>8. Usable' = Usable /\ Finished' = Finished /\ InFlight' = InFlight
  BY <1>1 DEF Usable, Finished, InFlight
<1>9. Stage'
  <2>1. Booting => Booting'
    <3>1. PICK d : d = BootCall(ranges, boot - 1)
      OBVIOUS
    <3>2. d = BootCall(ranges', boot' - 1)
      BY <1>1, <3>1
    <3>3. (\A k \in DOMAIN ranges : 2 * k = boot => ~ Alone(ranges, k)) =>
            \A k \in DOMAIN ranges' : 2 * k = boot' => ~ Alone(ranges', k)
      BY <1>1
    <3>. QED  BY <1>1, <3>1, <3>2, <3>3 DEF Booting
  <2>. HIDE DEF Booting
  <2>2. Stage
    OBVIOUS
  <2>. QED  BY <1>1, <1>8, <2>1, <2>2 DEF Stage
<1>10. Only'
  <2>1. ASSUME NEW v \in VirtualPages, physOffset = 0, Mapped(v)'  PROVE Asked(v)'
    <3>1. Mapped(v)
      BY <1>5, <2>1 DEF Mapped
    <3>2. Asked(v)
      BY <2>1, <3>1 DEF Only
    <3>. QED  BY <1>1, <1>8, <3>2 DEF Asked
  <2>. QED  BY <1>1, <2>1 DEF Only
<1>11. Holds'
  <2>1. ASSUME NEW v \in VirtualPages, v - HHDM \in Usable, Translate(v) = v - HHDM, v \notin InFlight
        PROVE  Translate(v)' = Translate(v) /\ v \notin InFlight'
    <3>1. p = call.virt + i
      BY <1>5 DEF Page
    <3>2. CASE call.op = "undo"
      <4>1. p \in InFlight
        BY <1>2, <3>1, <3>2 DEF InFlight
      <4>. QED  BY <1>5, <1>8, <2>1, <4>1
    <3>3. CASE call.op = "unmap"
      <4>1. p \in Pages(call)
        BY <1>2, <3>1 DEF Pages
      <4>2. v # p
        BY <2>1, <3>3, <4>1 DEF Stage
      <4>. QED  BY <1>5, <1>8, <2>1, <4>2
    <3>. QED  BY <1>2, <3>2, <3>3
  <2>2. \A k \in DOMAIN ranges : ~ (2 * k <= Finished' /\ ~ (2 * k <= Finished))
    BY <1>8
  <2>. QED  BY <1>1, <2>1, <2>2, HoldsKept
<1>. QED  BY <1>7, <1>9, <1>10, <1>11
\* A new table is in the place of a page that init asks for.
LEMMA KeptNewTable ==
  ASSUME VInv, Kept, NewTable
  PROVE  Kept'
<1>. USE DEF Kept
<1>0. PICK l \in 1 .. LEVELS - 1, f \in pool :
        \E lev, place, lev2, place2 : Made(l, f, lev, place, lev2, place2)
  BY TableMade
<1>1. PICK lev, place, lev2, place2 : Made(l, f, lev, place, lev2, place2)
  BY <1>0
<1>. USE DEF Made
<1>2. DOMAIN tables' \cup pool' = DOMAIN tables \cup pool
  BY <1>1
<1>3. Supply'
  BY <1>1, <1>2, SupplyKept
<1>4. Placing'
  <2>. SUFFICES ASSUME physOffset' = 0, NEW lev3, NEW place3, Shape(lev3, place3)',
                       NEW t \in DOMAIN tables'
       PROVE  <<lev3[t], place3[t]>> \in Needed(ranges')
    BY DEF Placing
  <2>1. lev3 = lev2 /\ place3 = place2 /\ ranges' = ranges /\ physOffset = 0
    BY <1>1, OneShapeAfter
  <2>2. CASE t = f
    <3>1. Page \in InitPages(ranges)
      BY <1>1, <2>1, BootPages DEF InitPages
    <3>2. l - 1 \in 0 .. LEVELS - 1 /\ (l - 1) + 1 = l
      BY VMMAssumption
    <3>3. <<l - 1, Above(Page)[l]>> \in Needed(ranges)
      BY <3>1, <3>2 DEF Needed
    <3>. QED  BY <1>1, <2>1, <2>2, <3>3
  <2>3. CASE t # f
    <3>1. t \in DOMAIN tables
      BY <1>1, <2>3
    <3>2. <<lev[t], place[t]>> \in Needed(ranges)
      BY <1>1, <2>1, <3>1 DEF Placing
    <3>. QED  BY <1>1, <2>1, <3>1, <3>2
  <2>. QED  BY <2>2, <2>3
<1>. QED  BY <1>1, <1>3, <1>4, KeptQuiet

\* Steps that write no table and leave the call as it is.
LEMMA KeptOthers ==
  ASSUME VInv, Frames', Kept, pml4Phys # NONE,
         \/ OthersAlloc \/ OthersFree \/ Descend \/ TlbFill \/ TlbEvict \/ Halted
         \/ UNCHANGED vars
  PROVE  Kept'
<1>. USE DEF Kept
<1>1. UNCHANGED <<ranges, boot, pml4Phys, physOffset, tables, pc, call, i>>
  BY DEF OthersAlloc, OthersFree, Descend, TlbFill, TlbEvict, Halted, vars, walkVars
<1>2. PICK lev, place : Placed(lev, place)
  BY DEF VInv, Rooted
<1>3. /\ Shape(lev, place)' /\ Shape(lev, place)
      /\ \A v \in VirtualPages : Translate(v)' = Translate(v)
  BY <1>1, <1>2, SameTables DEF Placed, VInv
<1>4. Placing'
  BY <1>1, <1>3, PlacingKept
<1>5. Supply'
  <2>1. CASE pool' = pool
    BY <1>1, <2>1, SupplyKept
  <2>2. CASE OthersAlloc
    <3>1. physOffset # 0 /\ pool' \subseteq pool
      BY <2>2 DEF OthersAlloc, Stage
    <3>. QED  BY <1>1, <3>1, SupplyKept
  <2>3. CASE OthersFree
    <3>1. PICK p \in Pools : DOMAIN tables \cup pool \subseteq p /\ pool' = p \ DOMAIN tables
      BY <2>3 DEF OthersFree
    <3>2. physOffset # 0
      BY <2>3 DEF OthersFree, Stage
    <3>3. pml4Phys \in p
      BY <1>3, <3>1 DEF Shape
    <3>4. DOMAIN tables' \cup pool' \subseteq p
      BY <1>1, <3>1
    <3>. QED  BY <1>1, <3>2, <3>3, <3>4 DEF Supply
  <2>. QED  BY <2>1, <2>2, <2>3 DEF Descend, TlbFill, TlbEvict, Halted, vars
<1>. QED  BY <1>1, <1>3, <1>4, <1>5, KeptQuiet

\* The walk goes on with another page, or takes back.
LEMMA KeptWalk ==
  ASSUME VInv, Frames', Kept, Ample, UnmapSkips \/ Invlpg \/ NoTable \/ MapRefused
  PROVE  Kept'
<1>1. /\ pc \in {"walk", "invlpg"}
      /\ UNCHANGED <<ranges, boot, pml4Phys, physOffset, tables, pool>>
  BY DEF UnmapSkips, Invlpg, NoTable, MapRefused, Walking
<1>2. i \in Nat
  BY <1>1, WalkPage
<1>3. CASE UnmapSkips \/ Invlpg
  <2>1. call.op # "map" /\ Continue(call, i + 1) /\ i + 1 \in Nat
    BY <1>2, <1>3 DEF UnmapSkips, Invlpg, VInv, Calling
  <2>. QED  BY <1>1, <2>1, KeptOnward
<1>4. CASE NoTable \/ MapRefused
  <2>1. PICK c : c = [call EXCEPT !.op = "undo", !.count = RollBack(i)]
    OBVIOUS
  <2>2. c.op = "undo" /\ c.count = i /\ c.virt = call.virt
    <3>1. call \in [op : Ops, virt : Nat, phys : Nat, count : Nat]
      BY <1>1, WalkPage
    <3>. QED  BY <2>1, <3>1 DEF RollBack
  <2>3. call.op = "map" /\ Continue(c, 0)
    BY <1>4, <2>1 DEF NoTable, MapRefused, MapFails
  <2>4. physOffset = 0 => \A k \in DOMAIN ranges : 2 * k = boot => ~ Alone(ranges, k)
    <3>. SUFFICES ASSUME physOffset = 0
         PROVE  \A k \in DOMAIN ranges : 2 * k = boot => ~ Alone(ranges, k)
      OBVIOUS
    <3>1. CASE NoTable
      <4>1. PICK l \in 1 .. LEVELS - 1 : Walking(l)
        BY <3>1 DEF NoTable
      <4>2. Entry = ABSENT /\ pool = {}
        BY <3>1 DEF NoTable
      <4>. QED  BY <4>1, <4>2, PoolLasts
    <3>2. CASE MapRefused
      BY <3>2, RefusedMeets DEF MapRefused
    <3>. QED  BY <1>4, <3>1, <3>2
  <2>. QED  BY <1>1, <2>2, <2>3, <2>4, KeptOnward
<1>. QED  BY <1>3, <1>4

\* No walk meets a table, and no map takes a frame, that is not mapped.
LEMMA NeverFaults ==
  ASSUME VInv, Kept, Ample
  PROVE  ~ Faults
<1>. SUFFICES ASSUME Faults  PROVE FALSE
  OBVIOUS
<1>1. pc = "walk"
  BY DEF Faults
<1>2. PICK lev, place : Placed(lev, place)
  BY <1>1, WalkPage
<1>3. table \in DOMAIN tables
  BY <1>1, <1>2 DEF Placed, Position
<1>4. pool # {} => Lowest(pool) \in pool
  BY LowestFree DEF VInv, Frames
<1>5. Reachable(table) /\ (pool # {} => Reachable(Lowest(pool)))
  BY <1>3, <1>4, FramesReached
<1>. QED  BY <1>5 DEF Faults

\* The root is the first table.
LEMMA KeptInitRoot ==
  ASSUME VInv, Frames', Rooted', InitRoot, pool \in Pools, boot = 0, pml4Phys' # NONE
  PROVE  Kept'
<1>1. /\ pc = "reset" /\ pml4Phys = NONE /\ physOffset = 0 /\ call = NoCall
      /\ ranges \in BootInfos
  BY DEF InitRoot, VInv, Rooted, Calling, Frames
<1>2. pool # {}
  BY <1>1 DEF InitRoot
<1>3. PICK f : f = Lowest(pool)
  OBVIOUS
<1>4. f \in pool
  BY <1>2, <1>3, LowestFree DEF VInv, Frames
<1>5. /\ pc' = "boot" /\ pml4Phys' = f /\ pool' = pool \ {f} /\ tables' = [t \in {f} |-> EmptyTable]
      /\ UNCHANGED <<ranges, boot, physOffset, call, i>>
  BY <1>2, <1>3 DEF InitRoot
<1>6. DOMAIN tables' = {f} /\ \A x \in Indices : tables'[f][x] = ABSENT
  BY <1>5 DEF EmptyTable, Indices
<1>7. Supply'
  BY <1>4, <1>5, <1>6 DEF Supply
<1>8. Stage'
  BY <1>1, <1>5 DEF Stage, NoCall
<1>9. Placing'
  <2>1. ASSUME NEW lev, NEW place, Shape(lev, place)', NEW t \in DOMAIN tables'
        PROVE  <<lev[t], place[t]>> \in Needed(ranges')
    <3>1. t = pml4Phys'
      BY <1>5, <1>6, <2>1
    <3>2. lev[t] = LEVELS - 1 /\ place[t] = 0
      BY <2>1, <3>1 DEF Shape
    <3>. QED  BY <3>2 DEF Needed
  <2>. QED  BY <2>1 DEF Placing
<1>10. Only'
  <2>1. PICK lev, place : Shape(lev, place)'
    BY DEF Rooted, Placed
  <2>2. ASSUME NEW v \in VirtualPages, Mapped(v)'  PROVE FALSE
    <3>1. Translate(v)' # ABSENT
      BY <2>2 DEF Mapped
    <3>2. Translated(lev, place)'
      BY <2>1, TranslationAfter
    <3>3. PICK t \in DOMAIN tables' : lev[t] = 0 /\ place[t] = Above(v)[1]
      BY <3>1, <3>2 DEF Translated
    <3>4. Translate(v)' = tables'[t][Index(v, 0)]
      BY <3>2, <3>3 DEF Translated
    <3>5. Index(v, 0) \in Indices
      <4>1. v \in Nat /\ 0 \in Levels
        BY VMMAssumption DEF VirtualPages, Levels
      <4>. QED  BY <4>1, AboveDigits
    <3>. QED  BY <1>6, <3>1, <3>3, <3>4, <3>5
  <2>. QED  BY <2>2 DEF Only
<1>11. Holds'
  <2>1. Finished' = 0
    BY <1>5 DEF Finished
  <2>2. ranges \in Seq([start : Nat, pages : Nat])
    BY <1>1, VMMAssumption
  <2>3. DOMAIN ranges' = 1 .. Len(ranges) /\ Len(ranges) \in Nat
    BY <1>5, <2>2
  <2>4. \A k \in DOMAIN ranges' : ~ (2 * k <= Finished')
    BY <2>1, <2>3
  <2>5. Sure' = {}
    BY <2>4 DEF Sure
  <2>. QED  BY <2>5 DEF Holds
<1>. QED  BY <1>7, <1>8, <1>9, <1>10, <1>11 DEF Kept

\* So what init has built stays, at every step.
LEMMA AccessKept ==
  VInv /\ AInv /\ [Next]_vars => AInv'
<1>. SUFFICES ASSUME VInv, AInv, [Next]_vars  PROVE AInv'
  OBVIOUS
<1>1. VInv' /\ Frames' /\ Rooted'
  BY NextInvariant DEF VInv
<1>2. CASE InitRoot
  <2>1. pml4Phys = NONE /\ boot = 0 /\ pool \in Pools
    BY <1>2 DEF InitRoot, VInv, Rooted, AInv
  <2>2. pml4Phys' = NONE => boot' = 0 /\ pool' \in Pools /\ pc' # "fault"
    <3>1. SUFFICES ASSUME pml4Phys' = NONE, pool # {}  PROVE FALSE
      BY <1>2, <2>1 DEF InitRoot
    <3>2. Lowest(pool) \in pool /\ pml4Phys' = Lowest(pool)
      BY <1>2, <3>1, LowestFree DEF InitRoot, VInv, Frames
    <3>. QED  BY <3>1, <3>2 DEF VInv, Frames
  <2>3. pml4Phys' # NONE => Kept'
    BY <1>1, <1>2, <2>1, KeptInitRoot
  <2>. QED  BY <2>2, <2>3 DEF AInv
<1>3. CASE ~ InitRoot /\ pml4Phys = NONE
  <2>1. pc \in {"reset", "panic"} /\ tlb = {} /\ physOffset = 0
    BY <1>3 DEF VInv, Rooted
  <2>2. UNCHANGED vars
    BY <1>3, <2>1 DEF Next, Walk, InitRange, InitLoads, Call, OthersAlloc, OthersFree, Halted,
         TlbFill, TlbEvict, Descend, NewTable, NoTable, UnmapSkips, MapWrites, MapRefused,
         UnmapClears, Invlpg, Faults, Walking
  <2>. QED  BY <1>3, <2>2 DEF AInv, vars, walkVars
<1>4. CASE ~ InitRoot /\ pml4Phys # NONE
  <2>1. UNCHANGED <<ranges, pml4Phys>>
    BY <1>4 DEF Next, Walk, InitRange, InitLoads, Call, OthersAlloc, OthersFree, Halted,
         TlbFill, TlbEvict, Descend, NewTable, NoTable, UnmapSkips, MapWrites, MapRefused,
         UnmapClears, Invlpg, Faults, Walking, vars
  <2>2. Ample' => Ample
    BY <2>1 DEF Ample
  <2>3. SUFFICES ASSUME Ample, Kept  PROVE Kept'
    BY <1>4, <2>1, <2>2 DEF AInv
  <2>4. CASE InitRange
    BY <1>1, <2>3, <2>4, KeptInitRange
  <2>5. CASE Call
    BY <1>1, <2>3, <2>5, KeptCall
  <2>6. CASE InitLoads
    BY <1>1, <2>3, <2>6, KeptInitLoads
  <2>7. CASE OthersAlloc \/ OthersFree \/ Descend \/ TlbFill \/ TlbEvict \/ Halted \/ UNCHANGED vars
    BY <1>1, <1>4, <2>3, <2>7, KeptOthers
  <2>8. CASE NewTable
    BY <2>3, <2>8, KeptNewTable
  <2>9. CASE UnmapSkips \/ Invlpg \/ NoTable \/ MapRefused
    BY <1>1, <2>3, <2>9, KeptWalk
  <2>10. CASE MapWrites
    BY <2>3, <2>10, KeptMapWrites
  <2>11. CASE UnmapClears
    BY <2>3, <2>11, KeptUnmapClears
  <2>12. CASE Faults
    BY <2>3, <2>12, NeverFaults
  <2>. QED  BY <1>4, <2>4, <2>5, <2>6, <2>7, <2>8, <2>9, <2>10, <2>11, <2>12 DEF Next, Walk
<1>. QED  BY <1>2, <1>3, <1>4

\* With frames enough for init's tables, all of them in ranges that it can map, and
\* callers that leave the direct map alone, phys_to_virt gives access to every frame
\* once VMM::init is done, and no walk meets a table that is not mapped.
THEOREM AccessToAll == Spec => []AmpleGivesAccess
<1>1. Init => VInv /\ AInv
  <2>1. Init => AInv
    BY DEF Init, AInv
  <2>. QED  BY <2>1, InitInvariant
<1>2. VInv /\ AInv /\ [Next]_vars => VInv' /\ AInv'
  BY NextInvariant, AccessKept
<1>3. VInv /\ AInv => AmpleGivesAccess
  <2>. SUFFICES ASSUME VInv, AInv, Ample  PROVE GivesAccess /\ pc # "fault"
    BY DEF AmpleGivesAccess
  <2>1. CASE pml4Phys = NONE
    BY <2>1 DEF VInv, Rooted, GivesAccess
  <2>2. CASE pml4Phys # NONE
    <3>1. Kept
      BY <2>2 DEF AInv
    <3>2. GivesAccess
      BY <3>1, FramesReached DEF GivesAccess
    <3>. QED  BY <3>1, <3>2 DEF Kept, Stage
  <2>. QED  BY <2>1, <2>2
<1>. QED  BY <1>1, <1>2, <1>3, PTL DEF Spec
================================================================================
