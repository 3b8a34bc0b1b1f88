---------------------------- MODULE InterruptProofs ----------------------------
(***************************************************************************)
(* Proofs about Irq, for every set of lines and any number of requests:    *)
(* both controllers are acknowledged exactly.  And about Traps, for stubs  *)
(* anywhere in memory: the CPU finds the descriptors that ArchInit meant,  *)
(* a handler finds the words it looks for, and the interrupted program     *)
(* goes on as it was.  And about Panic: whatever faults while a panic or   *)
(* an exception is being reported, the report is on the serial line, whole *)
(* and once, before any of it is on the screen, and the log is silent.     *)
(***************************************************************************)
EXTENDS MC_Interrupts, SequenceTheorems, TLAPS

\* TypeOK is needed because an interrupt of the first controller leaves no trace
\* at the second, which only the types of their lines say.
IInv == TypeOK /\ Acknowledged

-------------------------------------------------------------------------------
\* EOI leaves a controller that serves one line, or none, with none.
LEMMA EndsOnly ==
  ASSUME NEW x \in Int, NEW S \in SUBSET {x}
  PROVE  Ended(S) = {}
<1>1. CASE S = {}
  BY <1>1 DEF Ended
<1>2. CASE S = {x}
  <2>1. Min(S) \in S
    <3>1. \E y \in S : \A z \in S : y =< z
      BY <1>2
    <3> QED BY <3>1 DEF Min
  <2> QED BY <1>2, <2>1 DEF Ended
<1> QED BY <1>1, <1>2

LEMMA Initially == Init => IInv
BY IrqAssumption DEF Init, IInv, TypeOK, Acknowledged, NO_IRQ, Master, Slave

\* Every step keeps IInv: taking an interrupt makes its line the one in service,
\* and the two EOIs end just that.
LEMMA Inductive == IInv /\ [Next]_vars => IInv'
<1> SUFFICES ASSUME IInv, [Next]_vars PROVE IInv'
  OBVIOUS
<1> USE DEF IInv, NO_IRQ, CASCADE
<1>1. CASE Install
  BY <1>1 DEF Install, TypeOK, Acknowledged, Master, Slave
<1>2. CASE Interrupt
  <2>1. PICK n \in Pending :
          /\ pc = "kernel" /\ Enter(n) /\ request' = request \ {n}
          /\ service1' = service1 \cup {Rank(n)}
          /\ service2' = IF n \in Slave THEN service2 \cup {n} ELSE service2
    BY <1>2 DEF Interrupt
  <2>2. n \in 0 .. 15 /\ Rank(n) \in Master
    BY IrqAssumption DEF Pending, TypeOK, Rank, Master, Slave
  <2>3. service1 = {} /\ service2 = {}
    BY <2>1 DEF Acknowledged
  <2>4. UNCHANGED <<routines, raised, called>>
    BY <1>2 DEF Interrupt
  <2>5. TypeOK'
    BY <2>1, <2>2, <2>3, <2>4 DEF TypeOK, Enter, Slave
  <2>6. Acknowledged'
    BY <2>1, <2>2, <2>3 DEF Acknowledged, Enter
  <2> QED BY <2>5, <2>6
<1>3. CASE Spurious
  <2>1. service1 = {} /\ service2 = {}
    BY <1>3 DEF Spurious, Acknowledged
  <2>2. TypeOK'
    <3>1. service1' \subseteq Master /\ int_no' \in 0 .. 15 /\ pc' = "handler"
      BY <1>3, <2>1 DEF Spurious, Enter, Master
    <3> QED BY <1>3, <3>1 DEF Spurious, TypeOK
  <2>3. Acknowledged'
    BY <1>3, <2>1 DEF Spurious, Acknowledged, Enter, Rank, Slave
  <2> QED BY <2>2, <2>3
<1>4. CASE CallRoutine
  BY <1>4 DEF CallRoutine, TypeOK, Acknowledged
<1>5. CASE Eoi2
  <2>1. service2' = {}
    <3>1. int_no \in 0 .. 15 /\ service2 \in SUBSET {int_no} /\ service2 \in SUBSET Slave
      BY <1>5 DEF Eoi2, TypeOK, Acknowledged
    <3>2. CASE FromSlave(int_no)
      <4>1. Ended(service2) = {}
        <5>1. int_no \in Int
          BY <3>1
        <5> QED BY <3>1, <5>1, EndsOnly
      <4> QED BY <1>5, <3>2, <4>1 DEF Eoi2
    <3>3. CASE ~FromSlave(int_no)
      <4>1. int_no \notin Slave
        BY <3>1, <3>3 DEF FromSlave, Slave
      <4> QED BY <1>5, <3>1, <3>3, <4>1 DEF Eoi2
    <3> QED BY <3>2, <3>3
  <2> QED BY <1>5, <2>1 DEF Eoi2, TypeOK, Acknowledged
<1>6. CASE Eoi1
  <2>1. service1' = {}
    <3>1. Rank(int_no) \in Int /\ service1 \in SUBSET {Rank(int_no)}
      BY <1>6 DEF Eoi1, TypeOK, Acknowledged, Rank
    <3> QED BY <1>6, <3>1, EndsOnly DEF Eoi1, ToMaster
  <2> QED BY <1>6, <2>1 DEF Eoi1, TypeOK, Acknowledged
<1>7. CASE Iret
  BY <1>7 DEF Iret, TypeOK, Acknowledged
<1>8. ASSUME NEW n \in Lines,
             InstallIRQHandler(n) \/ UninstallIRQHandler(n)
      PROVE  IInv'
  BY <1>8 DEF InstallIRQHandler, UninstallIRQHandler, TypeOK, Acknowledged
<1>9. ASSUME NEW n \in Lines, Raise(n)
      PROVE  IInv'
  <2>1. raised' \in [Lines -> 0 .. MaxRaised]
    BY <1>9, IrqAssumption DEF Raise, TypeOK
  <2> QED BY <1>9, <2>1 DEF Raise, TypeOK, Acknowledged
<1>10. CASE UNCHANGED vars
  BY <1>10 DEF vars, TypeOK, Acknowledged
<1> QED
  BY <1>1, <1>2, <1>3, <1>4, <1>5, <1>6, <1>7, <1>8, <1>9, <1>10 DEF Next, Handler

\* irq_handler acknowledges each interrupt at each controller that serves it, and
\* nothing else, spurious interrupts included: whenever the kernel itself runs, no
\* controller holds a line back.
THEOREM Acknowledgement == Spec => []Acknowledged
<1>1. IInv => Acknowledged
  BY DEF IInv
<1> QED BY <1>1, Initially, Inductive, PTL DEF Spec

-------------------------------------------------------------------------------
(* Traps: what the tables hold, by how far ArchInit has come *)

\* The gate of a vector, once it is written.
Gate(v) == T!SetIDTGate(T!Stub(v))

Reached ==
  /\ \/ tStage = "gdt" /\ tK \in 0 .. 4
     \/ tStage \in {"flush", "idt"} /\ tK = 0
     \/ tStage = "isr" /\ tK \in 0 .. 31
     \/ tStage = "irq" /\ tK \in 32 .. 47
     \/ tStage \in {"sti", "kernel"} /\ tK = 48
  /\ tGdtr \in BOOLEAN /\ tIdtr \in BOOLEAN /\ tEnabled \in BOOLEAN
  /\ tGdtr <=> tStage \notin {"gdt", "flush"}
  /\ tIdtr <=> tStage \notin {"gdt", "flush", "idt"}
  /\ tEnabled => tStage = "kernel"
  /\ tGdtr => tCs = T!KERNEL_CS /\ tDs = T!KERNEL_DS

Written ==
  /\ tGdt = [i \in 0 .. 4 |-> IF tStage # "gdt" \/ i < tK THEN T!Segments[i + 1] ELSE T!NO_DESCRIPTOR]
  /\ tIdt = [v \in 0 .. IDT_SIZE - 1 |-> IF tIdtr /\ v < tK THEN Gate(v) ELSE T!NO_GATE]
  /\ tBase \in Placements

Tables == Reached /\ Written

\* The words on the stack of a trap, from the one pushed last.  The interrupt
\* flag of the interrupted program is `flag`.
Interrupted(flag) ==
  <<T!Own("rip"), <<"selector", T!KERNEL_CS>>, <<"flags", flag>>, T!Own("rsp"), T!Own("ss")>>
ErrorCode(v) == <<"error", IF v \in T!WithErrorCode THEN v ELSE 0>>
Entered(v, flag) ==
  IF v \in T!WithErrorCode THEN <<ErrorCode(v)>> \o Interrupted(flag) ELSE Interrupted(flag)
Numbered(v, flag) ==
  <<<<"number", T!Number(v)>>, ErrorCode(v)>> \o Interrupted(flag)
Saved == [j \in 1 .. 15 |-> T!Own(T!Fields[j])]

Trapped ==
  /\ DOMAIN tRegs = T!Range(T!PushOrder)
  /\ tMode # "restore" => \A r \in DOMAIN tRegs : tRegs[r] = T!Own(r)
  /\ \/ tMode = "runs" /\ tRip = "kernel" /\ tVector = -1 /\ tStack = <<>>
     \/ tMode = "firmware" /\ tVector \in T!Exceptions /\ tStack = <<>>
     \/ tMode = "reset" /\ tVector \in T!Exceptions /\ tStack = <<>> /\ tStage = "isr" /\ tVector >= tK
     \/ /\ tIdtr /\ ~tEnabled /\ tVector \in 0 .. 47
        /\ tVector >= 32 => tStage = "kernel"
        /\ \E flag \in BOOLEAN :
             /\ tVector >= 32 => flag
             /\ \/ tMode = "stub" /\ tStub = T!Stub(tVector) /\ tStack = Entered(tVector, flag)
                \/ /\ tMode = (IF tVector < 32 THEN "exception" ELSE "irq")
                   /\ tStack = Numbered(tVector, flag)
                \/ /\ \/ tMode = "exception_panic" /\ tVector < 32
                      \/ tMode \in {"irq_handler", "restore"} /\ tVector >= 32
                   /\ tStack = Saved \o Numbered(tVector, flag)
                \/ tMode = "iretq" /\ tVector >= 32 /\ tStack = Interrupted(flag)

TInv == Tables /\ Trapped
-------------------------------------------------------------------------------
(* Arithmetic *)

LEMMA Divided ==
  ASSUME NEW a \in Int, NEW d \in Nat \ {0}
  PROVE  a \div d \in Int /\ a % d \in 0 .. d - 1 /\ a = d * (a \div d) + (a % d)
OBVIOUS

\* The quotient is what it is by its bounds.
LEMMA Quotient ==
  ASSUME NEW d \in Nat \ {0}, NEW q \in Int, NEW r \in 0 .. d - 1
  PROVE  (d * q + r) \div d = q
<1> DEFINE a == d * q + r
           p == a \div d
           s == a % d
<1>1. a \in Int /\ a = d * q + r
  BY SMT
<1>2. p \in Int /\ s \in 0 .. d - 1 /\ a = d * p + s
  BY <1>1, Divided
<1> HIDE DEF a, p, s
<1>3. d * (q - p) = s - r
  BY <1>1, <1>2, SMT
<1>4. ASSUME q - p >= 1 PROVE FALSE
  <2>1. d * (q - p) >= d
    BY <1>2, <1>4, SMT
  <2> QED BY <1>2, <1>3, <2>1
<1>5. ASSUME q - p <= -1 PROVE FALSE
  <2>1. d * (q - p) <= -d
    BY <1>2, <1>5, SMT
  <2> QED BY <1>2, <1>3, <2>1
<1>6. p = q
  BY <1>2, <1>4, <1>5
<1> QED BY <1>6 DEF a, p

\* A gate's three pieces hold the whole of an address.
LEMMA Pieces ==
  ASSUME NEW h \in 0 .. (HALF * HALF) * (HALF * HALF) - 1
  PROVE  LET gate == T!SetIDTGate(h)
         IN  /\ T!Offset(gate) = h
             /\ gate.offset_1 < HALF /\ gate.offset_2 < HALF /\ gate.offset_3 < HALF * HALF
<1> DEFINE H == HALF
           S == H * H
           q == h \div H
           r == h % H
           q2 == q \div H
           r2 == q % H
<1>1. H \in Nat \ {0, 1} /\ S \in Nat \ {0} /\ h \in Int
  BY TrapsFit, SMT DEF T!ConstantsFit
<1>2. q \in Int /\ r \in 0 .. H - 1 /\ h = H * q + r
  BY <1>1, Divided
<1>3. q2 \in Int /\ r2 \in 0 .. H - 1 /\ q = H * q2 + r2
  <2> HIDE DEF q
  <2> QED BY <1>1, <1>2, Divided
<1> HIDE DEF q, r, q2, r2
<1>4. H * r2 + r \in 0 .. S - 1 /\ h = S * q2 + (H * r2 + r)
  <2>1. H * r2 <= H * (H - 1) /\ H * (H - 1) = S - H /\ H * r2 \in Nat
    BY <1>1, <1>3, SMT
  <2>2. H * q = S * q2 + H * r2
    BY <1>1, <1>3, SMT
  <2> QED BY <1>1, <1>2, <1>3, <2>1, <2>2
<1>5. h \div S = q2
  <2> DEFINE w == H * r2 + r
  <2>1. w \in 0 .. S - 1 /\ h = S * q2 + w
    BY <1>4
  <2> HIDE DEF w, S
  <2> QED BY <1>1, <1>3, <2>1, Quotient
<1>6. q2 < S
  <2> SUFFICES ASSUME q2 >= S PROVE FALSE
    BY <1>1, <1>3
  <2>1. S * q2 >= S * S
    BY <1>1, <1>3, SMT
  <2>2. h < S * S
    BY <1>1
  <2> HIDE DEF S
  <2>3. S * q2 \in Int /\ S * S \in Int
    BY <1>1, <1>3, SMT
  <2> QED BY <1>1, <1>4, <2>1, <2>2, <2>3
<1> DEFINE gate == T!SetIDTGate(h)
<1>7. gate.offset_1 = r /\ gate.offset_2 = r2 /\ gate.offset_3 = q2
  BY <1>5 DEF T!SetIDTGate, T!UpperHalf, q, r, r2
<1>8. T!Offset(gate) = r + H * r2 + S * q2
  BY <1>7 DEF T!Offset
<1> HIDE DEF gate, S
<1>9. H * r2 \in Int /\ S * q2 \in Int
  BY <1>1, <1>3, SMT
<1>10. T!Offset(gate) = h
  BY <1>1, <1>2, <1>4, <1>8, <1>9
<1> QED BY <1>1, <1>2, <1>3, <1>6, <1>7, <1>10 DEF gate, S
-------------------------------------------------------------------------------
(* The descriptors *)

\* What the CPU finds in the kernel's GDT.
LEMMA SegmentsRight ==
  ASSUME tGdt = [n \in 0 .. 4 |-> T!Segments[n + 1]]
  PROVE  /\ T!CodeSegment(T!KERNEL_CS, 0) /\ T!DataSegment(T!KERNEL_DS, 0)
         /\ T!CodeSegment(T!USER_CS, 3)   /\ T!DataSegment(T!USER_DS, 3)
<1> DEFINE low == (ALL_ONES \div 2^16) % 16
<1>1. ALL_ONES \in Nat
  BY TrapsFit DEF T!ConstantsFit
<1>2. low \in 0 .. 15
  BY <1>1
<1>3. /\ tGdt[1] = T!SetGate(0, ALL_ONES, 154, 10) /\ tGdt[2] = T!SetGate(0, ALL_ONES, 146, 12)
      /\ tGdt[3] = T!SetGate(0, ALL_ONES, 242, 12) /\ tGdt[4] = T!SetGate(0, ALL_ONES, 250, 10)
  BY DEF T!Segments
<1>4. /\ tGdt[1].access = 154 /\ tGdt[2].access = 146 /\ tGdt[3].access = 242 /\ tGdt[4].access = 250
      /\ tGdt[1].granularity = low + 160 /\ tGdt[4].granularity = low + 160
  BY <1>3 DEF T!SetGate, T!Flags
<1> HIDE DEF low
<1>5. ((low + 160) \div 32) % 2 = 1 /\ ((low + 160) \div 64) % 2 = 0
  BY <1>2
<1>6. /\ T!Bit(low + 160, 5) /\ ~T!Bit(low + 160, 6)
      /\ \A a \in {154, 146, 242, 250} : T!Bit(a, 7) /\ T!Bit(a, 4)
      /\ T!Bit(154, 3) /\ T!Bit(250, 3) /\ ~T!Bit(146, 3) /\ ~T!Bit(242, 3)
      /\ T!Bit(146, 1) /\ T!Bit(242, 1)
  BY <1>5 DEF T!Bit
<1>7. /\ (154 \div 32) % 4 = 0 /\ (146 \div 32) % 4 = 0 /\ (242 \div 32) % 4 = 3 /\ (250 \div 32) % 4 = 3
      /\ 8 \div 8 = 1 /\ 16 \div 8 = 2 /\ 24 \div 8 = 3 /\ 32 \div 8 = 4
  OBVIOUS
<1>8. T!CodeSegment(T!KERNEL_CS, 0)
  BY <1>4, <1>6, <1>7 DEF T!CodeSegment, T!KERNEL_CS
<1>9. T!CodeSegment(T!USER_CS, 3)
  BY <1>4, <1>6, <1>7 DEF T!CodeSegment, T!USER_CS
<1>10. T!DataSegment(T!KERNEL_DS, 0)
  BY <1>4, <1>6, <1>7 DEF T!DataSegment, T!KERNEL_DS
<1>11. T!DataSegment(T!USER_DS, 3)
  BY <1>4, <1>6, <1>7 DEF T!DataSegment, T!USER_DS
<1> QED BY <1>8, <1>9, <1>10, <1>11
-------------------------------------------------------------------------------
(* ArchInit *)

LEMMA TrapsInitially == T!Init => TInv
<1> SUFFICES ASSUME T!Init PROVE TInv
  OBVIOUS
<1>1. tGdt = [n \in 0 .. 4 |-> IF tStage # "gdt" \/ n < tK THEN T!Segments[n + 1] ELSE T!NO_DESCRIPTOR]
  BY DEF T!Init
<1>2. tIdt = [v \in 0 .. IDT_SIZE - 1 |-> IF tIdtr /\ v < tK THEN Gate(v) ELSE T!NO_GATE]
  BY DEF T!Init
<1>3. Reached
  BY DEF T!Init, Reached
<1>4. Written
  <2>1. tBase \in Placements
    BY DEF T!Init
  <2> QED BY <1>1, <1>2, <2>1 DEF Written
<1>5. Trapped
  BY DEF T!Init, Trapped
<1> QED BY <1>3, <1>4, <1>5 DEF TInv, Tables

LEMMA Widths == IDT_SIZE \in Nat /\ IDT_SIZE >= 48
BY TrapsFit DEF T!ConstantsFit

\* Descriptor by descriptor the tables become what they should be.
LEMMA TablesFill == ASSUME Tables, T!ArchInit PROVE Tables'
<1> DEFINE Segment(n, stage, j) == IF stage # "gdt" \/ n < j THEN T!Segments[n + 1] ELSE T!NO_DESCRIPTOR
           Entry(v, loaded, j) == IF loaded /\ v < j THEN Gate(v) ELSE T!NO_GATE
<1>1. /\ tGdt = [n \in 0 .. 4 |-> Segment(n, tStage, tK)]
      /\ tIdt = [v \in 0 .. IDT_SIZE - 1 |-> Entry(v, tIdtr, tK)]
  BY DEF Tables, Reached, Written
<1>2. CASE T!Descriptor
  <2>1. /\ tStage = "gdt" /\ tK \in 0 .. 4 /\ tGdt' = [tGdt EXCEPT ![tK] = T!Segments[tK + 1]]
        /\ UNCHANGED <<tBase, tIdt, tGdtr, tIdtr, tCs, tDs, tEnabled>>
        /\ \/ tK < 4 /\ tK' = tK + 1 /\ tStage' = "gdt"
           \/ tK = 4 /\ tK' = 0 /\ tStage' = "flush"
    <3>1. tStage = "gdt" /\ tK \in 0 .. 4
      BY <1>2 DEF T!Descriptor, Tables, Reached
    <3> QED BY <1>2, <3>1 DEF T!Descriptor, T!cpu
  <2>2. tGdt' = [n \in 0 .. 4 |-> Segment(n, tStage', tK')]
    <3>1. ASSUME NEW n \in 0 .. 4
          PROVE  (IF n = tK THEN T!Segments[tK + 1] ELSE tGdt[n]) = Segment(n, tStage', tK')
      BY <1>1, <2>1
    <3>2. tGdt' = [n \in 0 .. 4 |-> IF n = tK THEN T!Segments[tK + 1] ELSE tGdt[n]]
      BY <1>1, <2>1
    <3> HIDE DEF Segment
    <3> QED BY <3>1, <3>2
  <2>3. tIdt' = [v \in 0 .. IDT_SIZE - 1 |-> Entry(v, tIdtr', tK')]
    BY <1>1, <2>1 DEF Tables, Reached, Written
  <2> QED BY <2>1, <2>2, <2>3 DEF Tables, Reached, Written, Gate, T!Stub
<1>3. CASE T!Flush
  <2>1. UNCHANGED <<tK, tBase, tGdt, tIdt, tIdtr, tEnabled>> /\ tStage = "flush" /\ tStage' = "idt"
        /\ tGdtr' = TRUE /\ tCs' = T!KERNEL_CS /\ tDs' = T!KERNEL_DS
    BY <1>3 DEF T!Flush
  <2> QED BY <2>1 DEF Tables, Reached, Written, Gate, T!Stub
<1>4. CASE T!IdtInit
  <2>1. UNCHANGED <<tK, tBase, tGdt, tGdtr, tCs, tDs, tEnabled>> /\ tStage = "idt" /\ tStage' = "isr"
        /\ tIdtr' = TRUE /\ tIdt' = [v \in DOMAIN tIdt |-> T!NO_GATE]
    BY <1>4 DEF T!IdtInit, T!cpu
  <2>2. tK = 0
    BY <2>1 DEF Tables, Reached, Written
  <2>3. tIdt' = [v \in 0 .. IDT_SIZE - 1 |-> Entry(v, tIdtr', tK')]
    BY <1>1, <2>1, <2>2, Widths
  <2> QED BY <2>1, <2>2, <2>3 DEF Tables, Reached, Written, Gate, T!Stub
<1>5. CASE T!Gate
  <2>1. /\ tStage \in {"isr", "irq"} /\ tIdt' = [tIdt EXCEPT ![tK] = Gate(tK)] /\ tK' = tK + 1
        /\ tK = 31 => tStage' = "irq"
        /\ tK # 31 /\ tK = 47 => tStage' = "sti"
        /\ tK # 31 /\ tK # 47 => tStage' = tStage
        /\ UNCHANGED <<tBase, tGdt, tGdtr, tIdtr, tCs, tDs, tEnabled>>
    BY <1>5 DEF T!Gate, T!Gates, T!cpu, Gate
  <2>2. tIdtr /\ tK \in 0 .. 47 /\ tIdtr' = tIdtr
    BY <2>1 DEF Tables, Reached, Written
  <2>3. \/ tStage' = "isr" /\ tK' \in 0 .. 31
        \/ tStage' = "irq" /\ tK' \in 32 .. 47
        \/ tStage' = "sti" /\ tK' = 48
    BY <2>1, <2>2 DEF Tables, Reached, Written
  <2>4. tIdt' = [v \in 0 .. IDT_SIZE - 1 |-> Entry(v, tIdtr', tK')]
    <3>1. ASSUME NEW v \in 0 .. IDT_SIZE - 1
          PROVE  (IF v = tK THEN Gate(tK) ELSE tIdt[v]) = Entry(v, tIdtr', tK')
      BY <1>1, <2>1, <2>2
    <3>2. tIdt' = [v \in 0 .. IDT_SIZE - 1 |-> IF v = tK THEN Gate(tK) ELSE tIdt[v]]
      BY <1>1, <2>1
    <3> HIDE DEF Entry
    <3> QED BY <3>1, <3>2
  <2>5. tGdt' = [n \in 0 .. 4 |-> Segment(n, tStage', tK')]
    BY <1>1, <2>1, <2>3
  <2>6. Reached'
    <3> HIDE DEF Segment, Entry
    <3> QED BY <2>1, <2>2, <2>3 DEF Tables, Reached
  <2>7. Written'
    BY <2>1, <2>4, <2>5 DEF Tables, Written, Gate, T!Stub
  <2> QED BY <2>6, <2>7 DEF Tables
<1>6. CASE T!Sti
  <2>1. UNCHANGED <<tK, tBase, tGdt, tIdt, tGdtr, tIdtr, tCs, tDs>> /\ tStage = "sti" /\ tStage' = "kernel"
        /\ tEnabled' = TRUE
    BY <1>6 DEF T!Sti, T!tables
  <2> QED BY <2>1 DEF Tables, Reached, Written, Gate, T!Stub
<1> QED BY <1>2, <1>3, <1>4, <1>5, <1>6 DEF T!ArchInit
-------------------------------------------------------------------------------
(* The words of a trap *)

Names == {T!Fields[n] : n \in 1 .. 22}
Words == {"of", "number", "error", "selector", "flags"} \X (Names \cup Int \cup BOOLEAN)

\* The fields of struct Registers have different names.
LEMMA FieldNames ==
  ASSUME NEW n \in 1 .. 22, NEW j \in 1 .. 22, T!Fields[n] = T!Fields[j]
  PROVE  n = j
<1> DEFINE f == T!Fields
<1>1. /\ f[1] = "r15" /\ f[2] = "r14" /\ f[3] = "r13" /\ f[4] = "r12" /\ f[5] = "r11" /\ f[6] = "r10"
      /\ f[7] = "r9" /\ f[8] = "r8" /\ f[9] = "rbp" /\ f[10] = "rdi" /\ f[11] = "rsi" /\ f[12] = "rdx"
      /\ f[13] = "rcx" /\ f[14] = "rbx" /\ f[15] = "rax" /\ f[16] = "int_no" /\ f[17] = "error_code"
      /\ f[18] = "rip" /\ f[19] = "cs" /\ f[20] = "rflags" /\ f[21] = "rsp" /\ f[22] = "ss"
  BY DEF T!Fields
<1> HIDE DEF f
<1>2. ASSUME NEW m \in 1 .. 22
      PROVE  \/ m = 1 \/ m = 2 \/ m = 3 \/ m = 4 \/ m = 5 \/ m = 6 \/ m = 7 \/ m = 8 \/ m = 9
             \/ m = 10 \/ m = 11 \/ m = 12 \/ m = 13 \/ m = 14 \/ m = 15 \/ m = 16 \/ m = 17
             \/ m = 18 \/ m = 19 \/ m = 20 \/ m = 21 \/ m = 22
  OBVIOUS
<1>3. f[n] = f[j]
  BY DEF f
<1> QED BY <1>1, <1>2, <1>3

\* Where the handler in C++ looks for a field.
LEMMA FieldAt == ASSUME NEW n \in 1 .. 22 PROVE T!Registers(T!Fields[n]) = tStack[n]
<1>1. DOMAIN T!Fields = 1 .. 22
  BY DEF T!Fields
<1>2. (CHOOSE m \in DOMAIN T!Fields : T!Fields[m] = T!Fields[n]) = n
  BY <1>1, FieldNames
<1> QED BY <1>2 DEF T!Registers

\* The stubs push the general registers, and pop them, in the order of the fields.
LEMMA FieldOrder ==
  /\ DOMAIN T!PushOrder = 1 .. 15 /\ DOMAIN T!PopOrder = 1 .. 15 /\ Len(T!PopOrder) = 15
  /\ \A n \in 1 .. 15 : T!PushOrder[16 - n] = T!Fields[n] /\ T!PopOrder[n] = T!Fields[n]
<1>1. ASSUME NEW m \in 1 .. 15
      PROVE  \/ m = 1 \/ m = 2 \/ m = 3 \/ m = 4 \/ m = 5 \/ m = 6 \/ m = 7 \/ m = 8 \/ m = 9
             \/ m = 10 \/ m = 11 \/ m = 12 \/ m = 13 \/ m = 14 \/ m = 15
  OBVIOUS
<1> DEFINE f == T!Fields
           p == T!PushOrder
           o == T!PopOrder
<1>2. /\ f[1] = "r15" /\ f[2] = "r14" /\ f[3] = "r13" /\ f[4] = "r12" /\ f[5] = "r11" /\ f[6] = "r10"
      /\ f[7] = "r9" /\ f[8] = "r8" /\ f[9] = "rbp" /\ f[10] = "rdi" /\ f[11] = "rsi" /\ f[12] = "rdx"
      /\ f[13] = "rcx" /\ f[14] = "rbx" /\ f[15] = "rax"
  BY DEF T!Fields
<1>3. /\ p[15] = "r15" /\ p[14] = "r14" /\ p[13] = "r13" /\ p[12] = "r12" /\ p[11] = "r11" /\ p[10] = "r10"
      /\ p[9] = "r9" /\ p[8] = "r8" /\ p[7] = "rbp" /\ p[6] = "rdi" /\ p[5] = "rsi" /\ p[4] = "rdx"
      /\ p[3] = "rcx" /\ p[2] = "rbx" /\ p[1] = "rax"
  BY DEF T!PushOrder
<1>4. /\ o[1] = "r15" /\ o[2] = "r14" /\ o[3] = "r13" /\ o[4] = "r12" /\ o[5] = "r11" /\ o[6] = "r10"
      /\ o[7] = "r9" /\ o[8] = "r8" /\ o[9] = "rbp" /\ o[10] = "rdi" /\ o[11] = "rsi" /\ o[12] = "rdx"
      /\ o[13] = "rcx" /\ o[14] = "rbx" /\ o[15] = "rax"
  BY DEF T!PopOrder
<1>5. DOMAIN p = 1 .. 15 /\ DOMAIN o = 1 .. 15 /\ Len(o) = 15
  BY DEF T!PushOrder, T!PopOrder
<1> HIDE DEF f, p, o
<1>6. \A n \in 1 .. 15 : p[16 - n] = f[n] /\ o[n] = f[n]
  BY <1>1, <1>2, <1>3, <1>4
<1> QED BY <1>5, <1>6 DEF f, p, o

LEMMA Joined ==
  ASSUME NEW s \in Seq(Words), NEW t \in Seq(Words)
  PROVE  /\ s \o t \in Seq(Words) /\ Len(s \o t) = Len(s) + Len(t)
         /\ \A n \in 1 .. Len(s) : (s \o t)[n] = s[n]
         /\ \A n \in 1 .. Len(t) : (s \o t)[Len(s) + n] = t[n]
OBVIOUS

LEMMA Same ==
  ASSUME NEW s \in Seq(Words), NEW t \in Seq(Words), Len(s) = Len(t),
         \A n \in 1 .. Len(s) : s[n] = t[n]
  PROVE  s = t
OBVIOUS

\* Two words pushed one by one.
LEMMA Pushed ==
  ASSUME NEW a \in Words, NEW b \in Words, NEW s \in Seq(Words)
  PROVE  /\ (<<a>> \o <<>>) \o (<<b>> \o s) = <<a, b>> \o s
         /\ (<<a>> \o <<b>>) \o s = <<a, b>> \o s
<1>1. <<a>> \in Seq(Words) /\ <<b>> \in Seq(Words) /\ <<a, b>> \in Seq(Words)
  OBVIOUS
<1>2. <<a>> \o <<>> = <<a>> /\ <<a>> \o <<b>> = <<a, b>>
  <2>1. <<>> \in Seq(Words) /\ Len(<<>>) = 0 /\ Len(<<a>>) = 1 /\ Len(<<b>>) = 1 /\ Len(<<a, b>>) = 2
    OBVIOUS
  <2> DEFINE v == <<a>> \o <<>>
             w == <<a>> \o <<b>>
  <2>2. v \in Seq(Words) /\ Len(v) = 1 /\ v[1] = a
    BY <1>1, <2>1, Joined
  <2>3. w \in Seq(Words) /\ Len(w) = 2 /\ w[1] = a /\ w[2] = b
    <3>1. /\ w \in Seq(Words) /\ Len(w) = Len(<<a>>) + Len(<<b>>)
          /\ \A n \in 1 .. 1 : w[n] = <<a>>[n]
          /\ \A n \in 1 .. 1 : w[1 + n] = <<b>>[n]
      BY <1>1, <2>1, Joined
    <3> HIDE DEF w
    <3> QED BY <2>1, <3>1
  <2> HIDE DEF v, w
  <2>4. v = <<a>> /\ w = <<a, b>>
    <3>1. \A n \in 1 .. Len(v) : v[n] = <<a>>[n]
      BY <2>2
    <3>2. \A n \in 1 .. Len(w) : w[n] = <<a, b>>[n]
      BY <2>3
    <3>3. v = <<a>>
      BY <1>1, <2>1, <2>2, <3>1, Same
    <3>4. w = <<a, b>>
      BY <1>1, <2>1, <2>3, <3>2, Same
    <3> QED BY <3>3, <3>4
  <2> QED BY <2>4 DEF v, w
<1> DEFINE t == <<a>> \o (<<b>> \o s)
           u == <<a, b>> \o s
<1>3. /\ t \in Seq(Words) /\ Len(t) = 2 + Len(s) /\ t[1] = a /\ t[2] = b
      /\ \A n \in 1 .. Len(s) : t[2 + n] = s[n]
  <2> DEFINE w == <<b>> \o s
  <2>1. w \in Seq(Words) /\ Len(w) = 1 + Len(s) /\ w[1] = b /\ \A n \in 1 .. Len(s) : w[1 + n] = s[n]
    BY <1>1, Joined
  <2> HIDE DEF w
  <2>2. t = <<a>> \o w
    BY DEF w
  <2> HIDE DEF t
  <2>3. t \in Seq(Words) /\ Len(t) = 1 + Len(w) /\ t[1] = a /\ \A n \in 1 .. Len(w) : t[1 + n] = w[n]
    BY <1>1, <2>1, <2>2, Joined
  <2>4. Len(s) \in Nat
    OBVIOUS
  <2>5. ASSUME NEW n \in 1 .. Len(s) PROVE t[2 + n] = s[n]
    <3>1. 1 + n \in 1 .. Len(w) /\ 2 + n = 1 + (1 + n)
      BY <2>1, <2>4
    <3> QED BY <2>1, <2>3, <3>1
  <2>6. t[2] = b
    <3>1. 1 \in 1 .. Len(w) /\ 2 = 1 + 1
      BY <2>1, <2>4
    <3> QED BY <2>1, <2>3, <3>1
  <2> QED BY <2>1, <2>3, <2>4, <2>5, <2>6
<1>4. /\ u \in Seq(Words) /\ Len(u) = 2 + Len(s) /\ u[1] = a /\ u[2] = b
      /\ \A n \in 1 .. Len(s) : u[2 + n] = s[n]
  BY <1>1, Joined
<1> HIDE DEF t, u
<1>5. ASSUME NEW n \in 1 .. Len(t) PROVE t[n] = u[n]
  <2>1. n = 1 \/ n = 2 \/ (n - 2 \in 1 .. Len(s) /\ n = 2 + (n - 2))
    BY <1>3
  <2> QED BY <1>3, <1>4, <2>1
<1>6. t = u
  BY <1>3, <1>4, <1>5, Same
<1> QED BY <1>2, <1>6 DEF t, u

LEMMA Stacks ==
  ASSUME NEW v \in 0 .. 47, NEW flag \in BOOLEAN
  PROVE  /\ Interrupted(flag) \in Seq(Words) /\ Len(Interrupted(flag)) = 5
         /\ ErrorCode(v) \in Words /\ <<"number", T!Number(v)>> \in Words
         /\ Saved \in Seq(Words) /\ Len(Saved) = 15
<1>1. T!Own("rip") \in Words /\ T!Own("rsp") \in Words /\ T!Own("ss") \in Words
  <2>1. T!Fields[18] = "rip" /\ T!Fields[21] = "rsp" /\ T!Fields[22] = "ss"
    BY DEF T!Fields
  <2>2. "rip" \in Names /\ "rsp" \in Names /\ "ss" \in Names
    BY <2>1 DEF Names
  <2> QED BY <2>2 DEF T!Own, Words
<1>2. <<"selector", T!KERNEL_CS>> \in Words
  BY DEF Words, T!KERNEL_CS
<1>3. <<"flags", flag>> \in Words
  BY DEF Words
<1>4. Interrupted(flag) \in Seq(Words) /\ Len(Interrupted(flag)) = 5
  BY <1>1, <1>2, <1>3 DEF Interrupted
<1>5. ErrorCode(v) \in Words /\ <<"number", T!Number(v)>> \in Words
  BY DEF Words, ErrorCode, T!Number
<1>6. \A j \in 1 .. 15 : T!Own(T!Fields[j]) \in Words
  BY DEF T!Own, Words, Names
<1>7. Saved \in Seq(Words) /\ Len(Saved) = 15
  BY <1>6 DEF Saved
<1> QED BY <1>4, <1>5, <1>7

\* Once a gate is written the CPU can use it, and comes to its stub; before that it
\* cannot.
LEMMA GateFound ==
  ASSUME Tables, tIdtr, NEW v \in 0 .. 47
  PROVE  /\ v < tK => /\ T!Usable(tIdt[v]) /\ tIdt[v].selector = T!KERNEL_CS
                      /\ T!Offset(tIdt[v]) = T!Stub(v)
         /\ tK <= v => ~T!Usable(tIdt[v])
<1>1. v \in 0 .. IDT_SIZE - 1
  BY Widths
<1>2. tIdt[v] = IF v < tK THEN Gate(v) ELSE T!NO_GATE
  BY <1>1 DEF Tables, Written
<1>3. tK \in Int
  BY DEF Tables, Reached
<1>4. CASE v < tK
  <2>1. tStage # "gdt"
    BY DEF Tables, Reached
  <2>2. tGdt = [n \in 0 .. 4 |-> T!Segments[n + 1]]
    BY <2>1 DEF Tables, Written
  <2>3. T!CodeSegment(T!KERNEL_CS, 0)
    BY <2>2, SegmentsRight
  <2>4. Gate(v).selector = T!KERNEL_CS /\ Gate(v).type_attributes = 142
    BY DEF Gate, T!SetIDTGate, T!IDT_INTERRUPT_GATE
  <2>5. T!Bit(142, 7) /\ 142 % 16 = 14
    BY DEF T!Bit
  <2>6. T!Usable(Gate(v))
    BY <2>3, <2>4, <2>5 DEF T!Usable
  <2>7. T!Offset(Gate(v)) = T!Stub(v)
    <3>1. tBase \in 0 .. (HALF * HALF) * (HALF * HALF) - 48
      BY TrapsFit DEF T!ConstantsFit, Tables, Written
    <3>2. (HALF * HALF) * (HALF * HALF) \in Int
      BY TrapsFit, SMT DEF T!ConstantsFit
    <3>3. T!Stub(v) \in 0 .. (HALF * HALF) * (HALF * HALF) - 1
      BY <3>1, <3>2 DEF T!Stub
    <3> QED BY <3>3, Pieces DEF Gate
  <2> QED BY <1>2, <1>3, <1>4, <2>4, <2>6, <2>7
<1>5. CASE tK <= v
  <2>1. tIdt[v] = T!NO_GATE
    BY <1>2, <1>3, <1>5
  <2>2. T!NO_GATE.type_attributes = 0 /\ ~T!Bit(0, 7)
    BY DEF T!NO_GATE, T!Bit
  <2> QED BY <1>3, <1>5, <2>1, <2>2 DEF T!Usable
<1> QED BY <1>3, <1>4, <1>5

\* A step of a trap leaves the tables alone.
LEMMA TablesStay ==
  ASSUME Tables, UNCHANGED <<tStage, tK, tBase, tGdt, tIdt, tGdtr, tIdtr, tDs>>,
         tCs' = tCs \/ tCs' = T!KERNEL_CS, tEnabled' \in BOOLEAN, tEnabled' => tStage = "kernel"
  PROVE  Tables'
<1>1. Reached'
  BY DEF Tables, Reached
<1>2. Written'
  BY DEF Tables, Written, Gate, T!Stub
<1> QED BY <1>1, <1>2 DEF Tables

\* The CPU takes a trap: through the gate, or to the end of the machine, which is
\* only before the gate of that exception is written.
LEMMA TrapKeeps ==
  ASSUME TInv, NEW v \in 0 .. 47, T!Trap(v)
  PROVE  TInv'
<1>1. Tables /\ Trapped
  BY DEF TInv
<1>2. /\ tMode = "runs" /\ tVector' = v
      /\ v \in T!Exceptions \/ (tEnabled /\ v - 32 \in T!IrqLines)
      /\ UNCHANGED <<tStage, tK, tBase, tGdt, tIdt, tGdtr, tIdtr, tDs, tRegs>>
  BY DEF T!Trap, T!tables
<1>3. /\ DOMAIN tRegs = T!Range(T!PushOrder) /\ \A r \in DOMAIN tRegs : tRegs[r] = T!Own(r)
      /\ tStack = <<>>
  BY <1>1, <1>2 DEF Trapped
<1>4. /\ tEnabled => tStage = "kernel" /\ tK = 48
      /\ v >= 32 => tEnabled
      /\ tIdtr => tCs = T!KERNEL_CS
      /\ tIdtr /\ tK <= v => tStage = "isr" /\ v \in T!Exceptions
      /\ tK \in Int
      /\ tEnabled \in BOOLEAN /\ tIdtr \in BOOLEAN /\ (tEnabled => tIdtr)
  BY <1>1, <1>2 DEF Tables, Reached, T!Exceptions
<1>5. CASE tIdtr /\ T!Usable(tIdt[v])
  <2>1. /\ tMode' = "stub" /\ tStub' = T!Offset(tIdt[v]) /\ tStack' = T!Frame(v)
        /\ tCs' = tIdt[v].selector /\ tEnabled' = FALSE
    BY <1>5 DEF T!Trap
  <2>2. v < tK
    BY <1>1, <1>4, <1>5, GateFound
  <2>3. tCs' = T!KERNEL_CS /\ tStub' = T!Stub(v)
    BY <1>1, <1>5, <2>1, <2>2, GateFound
  <2>4. Tables'
    BY <1>1, <1>2, <2>1, <2>3, TablesStay
  <2>5. T!Frame(v) = Entered(v, tEnabled)
    <3>1. T!Frame(v) = (IF v \in T!WithErrorCode THEN <<<<"error", v>>>> ELSE <<>>) \o Interrupted(tEnabled)
      BY <1>4, <1>5 DEF T!Frame, Interrupted
    <3>2. CASE v \in T!WithErrorCode
      BY <3>1, <3>2 DEF Entered, ErrorCode
    <3>3. CASE v \notin T!WithErrorCode
      <4>1. <<>> \o Interrupted(tEnabled) = Interrupted(tEnabled)
        BY <1>4, Stacks
      <4> QED BY <3>1, <3>3, <4>1 DEF Entered
    <3> QED BY <3>2, <3>3
  <2>6. Trapped'
    <3>1. tStub' = tBase' + tVector'
      BY <1>2, <2>3 DEF T!Stub
    <3>2. tStack' = Entered(tVector', tEnabled)
      BY <1>2, <2>1, <2>5
    <3>3. /\ tIdtr' /\ ~tEnabled' /\ tVector' \in 0 .. 47 /\ tMode' = "stub"
          /\ tVector' >= 32 => tStage' = "kernel" /\ tEnabled
      BY <1>2, <1>4, <1>5, <2>1
    <3>4. DOMAIN tRegs' = T!Range(T!PushOrder) /\ \A r \in DOMAIN tRegs' : tRegs'[r] = T!Own(r)
      BY <1>2, <1>3
    <3> QED BY <1>4, <3>1, <3>2, <3>3, <3>4 DEF Trapped, T!Stub
  <2> QED BY <2>4, <2>6 DEF TInv
<1>6. CASE ~(tIdtr /\ T!Usable(tIdt[v]))
  <2>1. /\ tMode' = (IF tIdtr THEN "reset" ELSE "firmware")
        /\ UNCHANGED <<tStub, tStack, tCs, tEnabled, tRip>>
    BY <1>6 DEF T!Trap
  <2>2. Tables'
    BY <1>1, <1>2, <1>4, <2>1, TablesStay
  <2>3. tIdtr => tK <= v
    BY <1>1, <1>4, <1>6, GateFound
  <2>4. v \in T!Exceptions
    BY <1>2, <1>4, <2>3
  <2>5. Trapped'
    BY <1>2, <1>3, <1>4, <2>1, <2>3, <2>4 DEF Trapped
  <2> QED BY <2>2, <2>5 DEF TInv
<1> QED BY <1>5, <1>6
-------------------------------------------------------------------------------
\* ArchInit runs when no trap is under way.
LEMMA ArchInitKeeps == ASSUME TInv, T!ArchInit PROVE TInv'
<1>1. Tables /\ Trapped
  BY DEF TInv
<1>2. tMode = "runs" /\ UNCHANGED <<tMode, tVector, tStub, tStack>>
  BY DEF T!ArchInit, T!trap
<1>3. tRegs' = tRegs /\ tRip' = tRip
  BY DEF T!ArchInit, T!Descriptor, T!Flush, T!IdtInit, T!Gate, T!Sti, T!cpu
<1>4. Trapped'
  BY <1>1, <1>2, <1>3 DEF Trapped
<1> QED BY <1>1, <1>4, TablesFill DEF TInv

\* What a stub leaves alone.
LEMMA StubKeeps ==
  ASSUME Tables, UNCHANGED <<tStage, tK, tBase, tGdt, tIdt, tGdtr, tIdtr, tCs, tDs, tEnabled>>
  PROVE  Tables'
<1>1. tEnabled \in BOOLEAN /\ (tEnabled => tStage = "kernel")
  BY DEF Tables, Reached
<1> QED BY <1>1, TablesStay

\* The stub completes what the CPU pushed: with the error code or without, the
\* handler finds the same struct.
LEMMA PushKeeps == ASSUME TInv, T!Push PROVE TInv'
<1>1. Tables /\ Trapped
  BY DEF TInv
<1>2. /\ tMode = "stub"
      /\ UNCHANGED <<tStage, tK, tBase, tGdt, tIdt, tGdtr, tIdtr, tCs, tDs, tEnabled, tRegs, tVector>>
  BY DEF T!Push, T!tables, T!cpu
<1>3. PICK flag \in BOOLEAN :
        /\ tVector >= 32 => flag
        /\ tStub = T!Stub(tVector) /\ tStack = Entered(tVector, flag)
        /\ tIdtr /\ ~tEnabled /\ tVector \in 0 .. 47 /\ (tVector >= 32 => tStage = "kernel")
  BY <1>1, <1>2 DEF Trapped
<1>4. tBase \in Int
  BY <1>1, TrapsFit, SMT DEF Tables, Written, T!ConstantsFit
<1>5. tStub - tBase = tVector
  BY <1>3, <1>4 DEF T!Stub
<1>6. /\ tStack' = (<<<<"number", T!Number(tVector)>>>>
                      \o (IF tVector \in T!NoErrorCode THEN <<<<"error", 0>>>> ELSE <<>>)) \o tStack
      /\ tMode' = (IF tVector < 32 THEN "exception" ELSE "irq")
  BY <1>3, <1>5 DEF T!Push
<1>7. tVector \in T!NoErrorCode <=> tVector \notin T!WithErrorCode
  BY <1>3 DEF T!NoErrorCode, T!WithErrorCode
<1> DEFINE number == <<"number", T!Number(tVector)>>
           error  == ErrorCode(tVector)
           below  == Interrupted(flag)
<1>8. number \in Words /\ error \in Words /\ below \in Seq(Words) /\ Len(below) = 5
  BY <1>3, Stacks
<1>9. tStack' = <<number, error>> \o below
  <2>1. CASE tVector \in T!WithErrorCode
    <3>1. tStack = <<error>> \o below /\ tStack' = (<<number>> \o <<>>) \o tStack
      BY <1>3, <1>6, <1>7, <2>1 DEF Entered
    <3> HIDE DEF number, error, below
    <3>2. (<<number>> \o <<>>) \o (<<error>> \o below) = <<number, error>> \o below
      BY <1>8, Pushed
    <3> QED BY <3>1, <3>2
  <2>2. CASE tVector \notin T!WithErrorCode
    <3>1. tStack = below /\ tStack' = (<<number>> \o <<error>>) \o tStack
      BY <1>3, <1>6, <1>7, <2>2 DEF Entered, ErrorCode
    <3> HIDE DEF number, error, below
    <3>2. (<<number>> \o <<error>>) \o below = <<number, error>> \o below
      BY <1>8, Pushed
    <3> QED BY <3>1, <3>2
  <2> QED BY <2>1, <2>2
<1>10. tStack' = Numbered(tVector', flag)
  BY <1>2, <1>9 DEF Numbered
<1>11. DOMAIN tRegs' = T!Range(T!PushOrder) /\ \A r \in DOMAIN tRegs' : tRegs'[r] = T!Own(r)
  BY <1>1, <1>2 DEF Trapped
<1>12. Trapped'
  BY <1>2, <1>3, <1>6, <1>10, <1>11 DEF Trapped
<1> QED BY <1>1, <1>2, <1>12, StubKeeps DEF TInv
-------------------------------------------------------------------------------
\* The stack a handler is called with, word by word.
LEMMA HandlerStack ==
  ASSUME NEW v \in 0 .. 47, NEW flag \in BOOLEAN
  PROVE  LET st == Saved \o Numbered(v, flag)
         IN  /\ st \in Seq(Words) /\ Len(st) = 22
             /\ \A n \in 1 .. 15 : st[n] = T!Own(T!Fields[n])
             /\ st[16] = <<"number", T!Number(v)>> /\ st[17] = ErrorCode(v)
             /\ \A n \in 1 .. 5 : st[17 + n] = Interrupted(flag)[n]
<1> DEFINE number == <<"number", T!Number(v)>>
           error  == ErrorCode(v)
           top    == <<number, error>>
           below  == Interrupted(flag)
           frame  == top \o below
           st     == Saved \o frame
<1>1. number \in Words /\ error \in Words /\ below \in Seq(Words) /\ Len(below) = 5
  BY Stacks
<1>2. Saved \in Seq(Words) /\ Len(Saved) = 15
  BY Stacks
<1>3. frame = Numbered(v, flag)
  BY DEF Numbered
<1>4. \A n \in 1 .. 15 : Saved[n] = T!Own(T!Fields[n])
  BY DEF Saved
<1> HIDE DEF number, error, below
<1>5. top \in Seq(Words) /\ Len(top) = 2 /\ top[1] = number /\ top[2] = error
  BY <1>1
<1> HIDE DEF top
<1>6. /\ frame \in Seq(Words) /\ Len(frame) = 7
      /\ \A n \in 1 .. 2 : frame[n] = top[n]
      /\ \A n \in 1 .. 5 : frame[2 + n] = below[n]
  <2>1. /\ frame \in Seq(Words) /\ Len(frame) = Len(top) + Len(below)
        /\ \A n \in 1 .. Len(top) : frame[n] = top[n]
        /\ \A n \in 1 .. Len(below) : frame[Len(top) + n] = below[n]
    BY <1>1, <1>5, Joined
  <2> HIDE DEF frame
  <2> QED BY <1>1, <1>5, <2>1
<1> HIDE DEF frame
<1>7. /\ st \in Seq(Words) /\ Len(st) = 22
      /\ \A n \in 1 .. 15 : st[n] = Saved[n]
      /\ \A n \in 1 .. 7 : st[15 + n] = frame[n]
  <2>1. /\ st \in Seq(Words) /\ Len(st) = Len(Saved) + Len(frame)
        /\ \A n \in 1 .. Len(Saved) : st[n] = Saved[n]
        /\ \A n \in 1 .. Len(frame) : st[Len(Saved) + n] = frame[n]
    BY <1>2, <1>6, Joined
  <2> HIDE DEF st
  <2> QED BY <1>2, <1>6, <2>1
<1> HIDE DEF st
<1>8. st[16] = number /\ st[17] = error
  <2>1. 15 + 1 = 16 /\ 15 + 2 = 17
    OBVIOUS
  <2>2. st[15 + 1] = frame[1] /\ st[15 + 2] = frame[2]
    BY <1>7
  <2> QED BY <1>5, <1>6, <2>1, <2>2
<1>9. ASSUME NEW n \in 1 .. 5 PROVE st[17 + n] = below[n]
  <2>1. 2 + n \in 1 .. 7 /\ 15 + (2 + n) = 17 + n
    OBVIOUS
  <2> QED BY <1>6, <1>7, <2>1
<1> QED BY <1>3, <1>4, <1>7, <1>8, <1>9 DEF st, number, error, below

\* The stub saves every register where struct Registers has it.
LEMMA SaveKeeps == ASSUME TInv, T!Save PROVE TInv'
<1>1. Tables /\ Trapped
  BY DEF TInv
<1>2. /\ tMode \in {"exception", "irq"}
      /\ tMode' = (IF tMode = "irq" THEN "irq_handler" ELSE "exception_panic")
      /\ UNCHANGED <<tStage, tK, tBase, tGdt, tIdt, tGdtr, tIdtr, tCs, tDs, tEnabled, tRegs, tVector>>
  BY DEF T!Save, T!tables
<1>3. DOMAIN tRegs = T!Range(T!PushOrder) /\ \A r \in DOMAIN tRegs : tRegs[r] = T!Own(r)
  BY <1>1, <1>2 DEF Trapped
<1>4. PICK flag \in BOOLEAN :
        /\ tVector >= 32 => flag
        /\ tMode = (IF tVector < 32 THEN "exception" ELSE "irq")
        /\ tStack = Numbered(tVector, flag)
        /\ tIdtr /\ ~tEnabled /\ tVector \in 0 .. 47 /\ (tVector >= 32 => tStage = "kernel")
  BY <1>1, <1>2 DEF Trapped
<1> DEFINE saved == [n \in DOMAIN T!PushOrder |-> tRegs[T!PushOrder[n]]]
<1>5. T!Reverse(saved) = Saved
  <2>1. DOMAIN saved = 1 .. 15 /\ \A n \in 1 .. 15 : saved[n] = T!Own(T!PushOrder[n])
    BY <1>3, FieldOrder DEF T!Range
  <2>2. Len(saved) = 15
    BY <2>1
  <2> HIDE DEF saved
  <2>3. T!Reverse(saved) = [n \in 1 .. 15 |-> saved[(15 - n) + 1]]
    BY <2>2 DEF T!Reverse
  <2>4. ASSUME NEW n \in 1 .. 15 PROVE saved[(15 - n) + 1] = T!Own(T!Fields[n])
    <3>1. (15 - n) + 1 \in 1 .. 15 /\ (15 - n) + 1 = 16 - n
      OBVIOUS
    <3> QED BY <2>1, <3>1, FieldOrder
  <2> QED BY <2>3, <2>4 DEF Saved
<1>6. tStack' = Saved \o Numbered(tVector', flag)
  BY <1>2, <1>4, <1>5 DEF T!Save
<1>7. DOMAIN tRegs' = T!Range(T!PushOrder) /\ \A r \in DOMAIN tRegs' : tRegs'[r] = T!Own(r)
  BY <1>2, <1>3
<1>8. \/ tMode' = "exception_panic" /\ tVector' < 32
      \/ tMode' = "irq_handler" /\ tVector' >= 32
  BY <1>2, <1>4
<1>9. Trapped'
  BY <1>2, <1>4, <1>6, <1>7, <1>8 DEF Trapped
<1> QED BY <1>1, <1>2, <1>9, StubKeeps DEF TInv

\* The handler may leave anything in the registers, but not on the stack.
LEMMA HandleKeeps == ASSUME TInv, T!Handle PROVE TInv'
<1>1. Tables /\ Trapped
  BY DEF TInv
<1>2. /\ tMode = "irq_handler" /\ tMode' = "restore" /\ DOMAIN tRegs' = DOMAIN tRegs
      /\ UNCHANGED <<tStage, tK, tBase, tGdt, tIdt, tGdtr, tIdtr, tCs, tDs, tEnabled, tVector, tStack>>
  BY DEF T!Handle, T!tables
<1>3. Trapped'
  BY <1>1, <1>2 DEF Trapped
<1> QED BY <1>1, <1>2, <1>3, StubKeeps DEF TInv

\* The pops give the registers back, and drop what the stub pushed itself.
LEMMA RestoreKeeps == ASSUME TInv, T!Restore PROVE TInv'
<1>1. Tables /\ Trapped
  BY DEF TInv
<1>2. /\ tMode = "restore" /\ tMode' = "iretq"
      /\ UNCHANGED <<tStage, tK, tBase, tGdt, tIdt, tGdtr, tIdtr, tCs, tDs, tEnabled, tVector>>
  BY DEF T!Restore, T!tables
<1>3. PICK flag \in BOOLEAN :
        /\ flag /\ tVector >= 32 /\ tStack = Saved \o Numbered(tVector, flag)
        /\ tIdtr /\ ~tEnabled /\ tVector \in 0 .. 47 /\ tStage = "kernel"
  BY <1>1, <1>2 DEF Trapped
<1>4. DOMAIN tRegs = T!Range(T!PushOrder)
  BY <1>1 DEF Trapped
<1>5. /\ tStack \in Seq(Words) /\ Len(tStack) = 22
      /\ \A n \in 1 .. 15 : tStack[n] = T!Own(T!Fields[n])
      /\ \A n \in 1 .. 5 : tStack[17 + n] = Interrupted(flag)[n]
  BY <1>3, HandlerStack
<1>6. tStack' = Interrupted(flag)
  <2>1. tStack' = SubSeq(tStack, 18, 22)
    BY <1>5, FieldOrder DEF T!Restore, T!Wiped
  <2> DEFINE rest == SubSeq(tStack, 18, 22)
             below == Interrupted(flag)
  <2>2. \A n \in 18 .. 22 : tStack[n] \in Words
    <3> DEFINE s == tStack
    <3>1. s \in Seq(Words) /\ Len(s) = 22
      BY <1>5
    <3> HIDE DEF s
    <3>2. \A n \in 1 .. Len(s) : s[n] \in Words
      BY <3>1, ElementOfSeq
    <3> QED BY <3>1, <3>2 DEF s
  <2>3. rest \in Seq(Words) /\ Len(rest) = 5 /\ \A n \in 1 .. 5 : rest[n] = tStack[18 + n - 1]
    <3>1. 18 \in Int /\ 22 \in Int /\ 18 <= 22 /\ 22 - 18 + 1 = 5
      OBVIOUS
    <3> QED BY <2>2, <3>1, SubSeqProperties
  <2>4. below \in Seq(Words) /\ Len(below) = 5
    BY Stacks
  <2> HIDE DEF rest, below
  <2>5. ASSUME NEW n \in 1 .. 5 PROVE rest[n] = below[n]
    <3>1. 18 + n - 1 = 17 + n
      OBVIOUS
    <3> QED BY <1>5, <2>3, <3>1 DEF below
  <2>6. rest = below
    BY <2>3, <2>4, <2>5, Same
  <2> QED BY <2>1, <2>6 DEF rest, below
<1>7. DOMAIN tRegs' = T!Range(T!PushOrder) /\ \A r \in DOMAIN tRegs' : tRegs'[r] = T!Own(r)
  <2>1. tRegs' = [r \in DOMAIN tRegs |-> tStack[CHOOSE n \in DOMAIN T!PopOrder : T!PopOrder[n] = r]]
    BY DEF T!Restore
  <2>2. ASSUME NEW r \in T!Range(T!PushOrder)
        PROVE  tStack[CHOOSE n \in DOMAIN T!PopOrder : T!PopOrder[n] = r] = T!Own(r)
    <3> DEFINE at == CHOOSE n \in DOMAIN T!PopOrder : T!PopOrder[n] = r
    <3>1. PICK n \in 1 .. 15 : T!PushOrder[n] = r
      BY FieldOrder DEF T!Range
    <3>2. 16 - n \in 1 .. 15 /\ 16 - (16 - n) = n
      OBVIOUS
    <3>3. T!PopOrder[16 - n] = r
      BY <3>1, <3>2, FieldOrder
    <3>4. at \in 1 .. 15 /\ T!PopOrder[at] = r
      BY <3>2, <3>3, FieldOrder
    <3> HIDE DEF at
    <3>5. tStack[at] = T!Own(r)
      BY <1>5, <3>4, FieldOrder
    <3> QED BY <3>5 DEF at
  <2> QED BY <1>4, <2>1, <2>2
<1>8. Trapped'
  BY <1>2, <1>3, <1>6, <1>7 DEF Trapped
<1> QED BY <1>1, <1>2, <1>8, StubKeeps DEF TInv

\* An interrupt returns to the program as it was.
LEMMA IretqKeeps ==
  ASSUME TInv, T!Iretq
  PROVE  /\ TInv'
         /\ tMode' = "runs" /\ tEnabled' /\ tCs' = T!KERNEL_CS /\ tRegs' = tRegs
<1>1. Tables /\ Trapped
  BY DEF TInv
<1>2. /\ tMode = "iretq" /\ tVector' = -1 /\ tStack' = <<>>
      /\ UNCHANGED <<tStage, tK, tBase, tGdt, tIdt, tGdtr, tIdtr, tDs, tRegs>>
  BY DEF T!Iretq, T!tables
<1>3. PICK flag \in BOOLEAN : flag /\ tStack = Interrupted(flag) /\ tStage = "kernel"
  BY <1>1, <1>2 DEF Trapped
<1>4. /\ tStack[1] = T!Own("rip") /\ tStack[2] = <<"selector", T!KERNEL_CS>>
      /\ tStack[3] = <<"flags", flag>>
  BY <1>3 DEF Interrupted
<1>5. tMode' = "runs" /\ tRip' = "kernel" /\ tCs' = T!KERNEL_CS /\ tEnabled' = flag
  BY <1>4 DEF T!Iretq
<1>6. Tables'
  BY <1>1, <1>2, <1>3, <1>5, TablesStay
<1>7. Trapped'
  BY <1>1, <1>2, <1>5 DEF Trapped
<1> QED BY <1>2, <1>3, <1>5, <1>6, <1>7 DEF TInv
-------------------------------------------------------------------------------
(* What the traps show *)

LEMMA TrapsInductive == TInv /\ [T!Next]_(T!vars) => TInv'
<1> SUFFICES ASSUME TInv, [T!Next]_(T!vars) PROVE TInv'
  OBVIOUS
<1>1. CASE T!ArchInit
  BY <1>1, ArchInitKeeps
<1>2. CASE \E v \in 0 .. 47 : T!Trap(v)
  BY <1>2, TrapKeeps
<1>3. CASE T!Push
  BY <1>3, PushKeeps
<1>4. CASE T!Save
  BY <1>4, SaveKeeps
<1>5. CASE T!Handle
  BY <1>5, HandleKeeps
<1>6. CASE T!Restore
  BY <1>6, RestoreKeeps
<1>7. CASE T!Iretq
  BY <1>7, IretqKeeps
<1>8. CASE UNCHANGED T!vars
  <2>1. /\ UNCHANGED <<tStage, tK, tBase, tGdt, tIdt, tGdtr, tIdtr, tCs, tDs, tEnabled>>
        /\ UNCHANGED <<tRegs, tRip, tMode, tVector, tStub, tStack>>
    BY <1>8 DEF T!vars, T!tables, T!cpu, T!trap
  <2>2. Tables'
    BY <2>1, StubKeeps DEF TInv
  <2>3. Trapped'
    BY <2>1 DEF TInv, Trapped, T!Stub
  <2> QED BY <2>2, <2>3 DEF TInv
<1> QED BY <1>1, <1>2, <1>3, <1>4, <1>5, <1>6, <1>7, <1>8 DEF T!Next

\* What a descriptor holds fits the bits it has.
LEMMA TablesFit ==
  ASSUME Tables
  PROVE  /\ \A v \in DOMAIN tIdt : /\ tIdt[v].offset_1 < HALF /\ tIdt[v].offset_2 < HALF
                                   /\ tIdt[v].offset_3 < HALF * HALF
         /\ \A n \in DOMAIN tGdt : tGdt[n].granularity < 2^8 /\ tGdt[n].limit_low < 2^16
<1>1. HALF \in Nat \ {0, 1} /\ HALF * HALF \in Nat \ {0}
  BY TrapsFit, SMT DEF T!ConstantsFit
<1>2. DOMAIN tIdt = 0 .. IDT_SIZE - 1 /\ DOMAIN tGdt = 0 .. 4
  BY DEF Tables, Written
<1>3. ASSUME NEW v \in DOMAIN tIdt
      PROVE  /\ tIdt[v].offset_1 < HALF /\ tIdt[v].offset_2 < HALF
             /\ tIdt[v].offset_3 < HALF * HALF
  <2>1. CASE tIdtr /\ v < tK
    <3>1. tIdt[v] = T!SetIDTGate(T!Stub(v))
      BY <1>2, <2>1 DEF Tables, Written, Gate
    <3>2. v \in 0 .. 47
      <4>1. tK \in 0 .. 48
        BY DEF Tables, Reached
      <4>2. v \in 0 .. IDT_SIZE - 1
        BY <1>2
      <4>3. v \in Int /\ 0 <= v /\ v < tK
        BY <2>1, <4>2, Widths
      <4> QED BY <4>1, <4>3
    <3>3. T!Stub(v) \in 0 .. (HALF * HALF) * (HALF * HALF) - 1
      <4>1. tBase \in 0 .. (HALF * HALF) * (HALF * HALF) - 48
        BY TrapsFit DEF T!ConstantsFit, Tables, Written
      <4>2. (HALF * HALF) * (HALF * HALF) \in Int
        BY TrapsFit, SMT DEF T!ConstantsFit
      <4> QED BY <3>2, <4>1, <4>2 DEF T!Stub
    <3> QED BY <3>1, <3>3, Pieces
  <2>2. CASE ~(tIdtr /\ v < tK)
    <3>1. tIdt[v] = T!NO_GATE
      BY <1>2, <2>2 DEF Tables, Written
    <3>2. T!NO_GATE.offset_1 = 0 /\ T!NO_GATE.offset_2 = 0 /\ T!NO_GATE.offset_3 = 0
      BY DEF T!NO_GATE
    <3> QED BY <1>1, <3>1, <3>2
  <2> QED BY <2>1, <2>2
<1>4. ASSUME NEW limit \in Nat, NEW access, NEW flags \in {0, 10, 12}
      PROVE  LET d == T!SetGate(0, limit, access, flags)
             IN  d.granularity < 2^8 /\ d.limit_low < 2^16
  <2> DEFINE high == (limit \div 2^16) % 16
             low  == limit % 2^16
  <2>1. high \in 0 .. 15 /\ low \in Int /\ low < 2^16
    OBVIOUS
  <2>2. T!Flags(flags) \in {0, 160, 192}
    BY DEF T!Flags
  <2>3. /\ T!SetGate(0, limit, access, flags).granularity = high + T!Flags(flags)
        /\ T!SetGate(0, limit, access, flags).limit_low = low
    BY DEF T!SetGate
  <2> DEFINE sum == high + T!Flags(flags)
  <2>4. sum < 2^8
    <3> HIDE DEF high
    <3> QED BY <2>1, <2>2
  <2> HIDE DEF sum, low
  <2> QED BY <2>1, <2>3, <2>4 DEF sum
<1>5. ASSUME NEW n \in DOMAIN tGdt
      PROVE  tGdt[n].granularity < 2^8 /\ tGdt[n].limit_low < 2^16
  <2>1. 0 \in Nat /\ ALL_ONES \in Nat
    BY TrapsFit DEF T!ConstantsFit
  <2> DEFINE s == T!Segments
  <2>2. /\ s[1] = T!SetGate(0, 0, 0, 0)
        /\ s[2] = T!SetGate(0, ALL_ONES, 154, 10) /\ s[3] = T!SetGate(0, ALL_ONES, 146, 12)
        /\ s[4] = T!SetGate(0, ALL_ONES, 242, 12) /\ s[5] = T!SetGate(0, ALL_ONES, 250, 10)
    BY DEF T!Segments
  <2> HIDE DEF s
  <2>3. n + 1 = 1 \/ n + 1 = 2 \/ n + 1 = 3 \/ n + 1 = 4 \/ n + 1 = 5
    BY <1>2
  <2>4. s[n + 1].granularity < 2^8 /\ s[n + 1].limit_low < 2^16
    BY <1>4, <2>1, <2>2, <2>3
  <2>5. tGdt[n] = s[n + 1] \/ tGdt[n] = T!NO_DESCRIPTOR
    BY <1>2 DEF Tables, Written, s
  <2>6. T!NO_DESCRIPTOR.granularity = 0 /\ T!NO_DESCRIPTOR.limit_low = 0 /\ 0 < 2^8 /\ 0 < 2^16
    BY DEF T!NO_DESCRIPTOR
  <2> QED BY <2>4, <2>5, <2>6
<1> QED BY <1>3, <1>5

\* The stack never holds more than a handler is called with.
LEMMA Lengths ==
  ASSUME NEW v \in 0 .. 47, NEW flag \in BOOLEAN
  PROVE  /\ Len(Interrupted(flag)) <= 22 /\ Len(Entered(v, flag)) <= 22
         /\ Len(Numbered(v, flag)) <= 22 /\ Len(Saved \o Numbered(v, flag)) <= 22
<1> DEFINE number == <<"number", T!Number(v)>>
           error  == ErrorCode(v)
           below  == Interrupted(flag)
<1>1. number \in Words /\ error \in Words /\ below \in Seq(Words) /\ Len(below) = 5
  BY Stacks
<1>2. Numbered(v, flag) = <<number, error>> \o below
  BY DEF Numbered
<1>3. Entered(v, flag) = below \/ Entered(v, flag) = <<error>> \o below
  BY DEF Entered
<1>4. Len(Saved \o Numbered(v, flag)) <= 22
  <2> DEFINE st == Saved \o Numbered(v, flag)
  <2>1. Len(st) = 22
    BY HandlerStack, Zenon
  <2> HIDE DEF st
  <2>2. Len(st) <= 22
    BY <2>1
  <2> QED BY <2>2 DEF st
<1> HIDE DEF number, error, below
<1>5. Len(<<error>> \o below) = 6 /\ Len(<<number, error>> \o below) = 7
  <2>1. /\ <<error>> \in Seq(Words) /\ Len(<<error>>) = 1
        /\ <<number, error>> \in Seq(Words) /\ Len(<<number, error>>) = 2
    BY <1>1
  <2>2. /\ Len(<<error>> \o below) = Len(<<error>>) + Len(below)
        /\ Len(<<number, error>> \o below) = Len(<<number, error>>) + Len(below)
    BY <1>1, <2>1, Joined
  <2> QED BY <1>1, <2>1, <2>2
<1>6. Len(Entered(v, flag)) <= 22
  BY <1>1, <1>3, <1>5
<1>7. Len(Numbered(v, flag)) <= 22
  BY <1>2, <1>5
<1>8. Len(Interrupted(flag)) <= 22
  BY <1>1 DEF below
<1> QED BY <1>4, <1>6, <1>7, <1>8

LEMMA StackFits == ASSUME TInv PROVE Len(tStack) <= 22
<1>1. Trapped
  BY DEF TInv
<1>2. CASE tStack = <<>>
  BY <1>2
<1>3. CASE tStack # <<>>
  <2>1. PICK flag \in BOOLEAN :
          /\ tVector \in 0 .. 47
          /\ \/ tStack = Entered(tVector, flag) \/ tStack = Numbered(tVector, flag)
             \/ tStack = Saved \o Numbered(tVector, flag) \/ tStack = Interrupted(flag)
    BY <1>1, <1>3 DEF Trapped
  <2> QED BY <2>1, Lengths
<1> QED BY <1>2, <1>3

LEMMA DescriptorsFollow == TInv => Descriptors
<1> SUFFICES ASSUME TInv PROVE Descriptors
  OBVIOUS
<1>1. Tables /\ Trapped
  BY DEF TInv
<1>2. T!TypeOK
  <2>1. tStage \in {"gdt", "flush", "idt", "isr", "irq", "sti", "kernel"} /\ tK \in 0 .. 48
    BY <1>1 DEF Tables, Reached
  <2>2. tGdtr \in BOOLEAN /\ tIdtr \in BOOLEAN /\ tEnabled \in BOOLEAN
    BY <1>1 DEF Tables, Reached
  <2>3. tMode \in {"runs", "stub", "exception", "irq", "exception_panic", "irq_handler",
                   "restore", "iretq", "firmware", "reset", "lost"}
    BY <1>1 DEF Trapped
  <2>4. tVector \in -1 .. 47
    BY <1>1 DEF Trapped, T!Exceptions
  <2>5. {tGdtr, tIdtr, tEnabled} \subseteq BOOLEAN
    BY <2>2
  <2> QED BY <1>1, <2>1, <2>3, <2>4, <2>5, StackFits, TablesFit DEF T!TypeOK
<1>3. T!SegmentsFit
  <2>1. tGdtr => tStage # "gdt" /\ tCs = T!KERNEL_CS /\ tDs = T!KERNEL_DS
    BY <1>1 DEF Tables, Reached
  <2>2. tStage # "gdt" => tGdt = [n \in 0 .. 4 |-> T!Segments[n + 1]]
    BY <1>1 DEF Tables, Written
  <2> QED BY <2>1, <2>2, SegmentsRight DEF T!SegmentsFit
<1>4. T!NoTripleFault
  BY <1>1 DEF Trapped, T!NoTripleFault
<1> QED BY <1>2, <1>3, <1>4 DEF Descriptors

LEMMA DeliveredFollows == TInv => T!Delivered
<1> SUFFICES ASSUME TInv, tMode \in {"irq_handler", "exception_panic"} PROVE T!Delivered
  BY DEF T!Delivered
<1>1. Trapped
  BY DEF TInv
<1>2. PICK flag \in BOOLEAN :
        /\ tVector \in 0 .. 47 /\ ~tEnabled
        /\ \/ tMode = "exception_panic" /\ tVector < 32
           \/ tMode = "irq_handler" /\ tVector >= 32
        /\ tStack = Saved \o Numbered(tVector, flag)
  BY <1>1 DEF Trapped
<1>3. /\ Len(tStack) = 22
      /\ \A n \in 1 .. 15 : tStack[n] = T!Own(T!Fields[n])
      /\ tStack[16] = <<"number", T!Number(tVector)>> /\ tStack[17] = ErrorCode(tVector)
      /\ \A n \in 1 .. 5 : tStack[17 + n] = Interrupted(flag)[n]
  BY <1>2, HandlerStack
<1>4. /\ tStack[18] = T!Own("rip") /\ tStack[19] = <<"selector", T!KERNEL_CS>>
      /\ tStack[20] = <<"flags", flag>> /\ tStack[21] = T!Own("rsp") /\ tStack[22] = T!Own("ss")
  <2> DEFINE below == Interrupted(flag)
  <2>1. /\ below[1] = T!Own("rip") /\ below[2] = <<"selector", T!KERNEL_CS>>
        /\ below[3] = <<"flags", flag>> /\ below[4] = T!Own("rsp") /\ below[5] = T!Own("ss")
    BY DEF Interrupted
  <2> HIDE DEF below
  <2>2. \A n \in 1 .. 5 : tStack[17 + n] = below[n]
    BY <1>3 DEF below
  <2>3. /\ tStack[17 + 1] = below[1] /\ tStack[17 + 2] = below[2] /\ tStack[17 + 3] = below[3]
        /\ tStack[17 + 4] = below[4] /\ tStack[17 + 5] = below[5]
    BY <2>2
  <2>4. 17 + 1 = 18 /\ 17 + 2 = 19 /\ 17 + 3 = 20 /\ 17 + 4 = 21 /\ 17 + 5 = 22
    OBVIOUS
  <2> QED BY <2>1, <2>3, <2>4
<1>5. /\ T!Fields[16] = "int_no" /\ T!Fields[17] = "error_code" /\ T!Fields[18] = "rip"
      /\ T!Fields[19] = "cs" /\ T!Fields[20] = "rflags" /\ T!Fields[21] = "rsp" /\ T!Fields[22] = "ss"
  BY DEF T!Fields
<1>6. \A n \in 1 .. 22 : T!Registers(T!Fields[n]) = tStack[n]
  BY FieldAt
<1>7. /\ T!Registers("int_no") = tStack[16] /\ T!Registers("error_code") = tStack[17]
      /\ T!Registers("rip") = tStack[18] /\ T!Registers("cs") = tStack[19]
      /\ T!Registers("rflags") = tStack[20] /\ T!Registers("rsp") = tStack[21]
      /\ T!Registers("ss") = tStack[22]
  <2>1. \A n \in {16, 17, 18, 19, 20, 21, 22} : T!Registers(T!Fields[n]) = tStack[n]
    BY <1>6
  <2> QED BY <1>5, <2>1
<1>8. ASSUME NEW r \in T!Range(T!PushOrder) PROVE T!Registers(r) = T!Own(r)
  <2>1. PICK m \in 1 .. 15 : T!PushOrder[m] = r
    BY FieldOrder DEF T!Range
  <2>2. 16 - m \in 1 .. 15 /\ 16 - (16 - m) = m
    OBVIOUS
  <2>3. T!Fields[16 - m] = r
    BY <2>1, <2>2, FieldOrder
  <2> QED BY <1>3, <1>6, <2>2, <2>3
<1>9. T!Registers("int_no") = <<"number", IF tVector < 32 THEN tVector ELSE tVector - 32>>
  BY <1>3, <1>7 DEF T!Number
<1>10. (tMode = "irq_handler") = (tVector >= 32)
  BY <1>2
<1>11. T!Registers("error_code") = <<"error", IF tVector \in T!WithErrorCode THEN tVector ELSE 0>>
  BY <1>3, <1>7 DEF ErrorCode
<1>12. \A field \in T!Range(T!PushOrder) \cup {"rip", "rsp", "ss"} : T!Registers(field) = T!Own(field)
  BY <1>4, <1>7, <1>8
<1>13. T!Registers("cs") = <<"selector", T!KERNEL_CS>> /\ T!Registers("rflags")[1] = "flags"
  BY <1>4, <1>7
<1>14. ~tEnabled /\ Len(tStack) % 2 = 0
  <2>1. 22 % 2 = 0
    OBVIOUS
  <2> QED BY <1>2, <1>3, <2>1
<1> QED BY <1>9, <1>10, <1>11, <1>12, <1>13, <1>14 DEF T!Delivered

LEMMA ResumesFollows ==
  TInv /\ [T!Next]_(T!vars) =>
    (tMode = "iretq" =>
       /\ tMode' = "runs" /\ tEnabled' /\ tCs' = T!KERNEL_CS
       /\ \A r \in DOMAIN tRegs : tRegs'[r] = T!Own(r)) \/ UNCHANGED T!vars
<1> SUFFICES ASSUME TInv, T!Next, tMode = "iretq"
             PROVE  /\ tMode' = "runs" /\ tEnabled' /\ tCs' = T!KERNEL_CS
                    /\ \A r \in DOMAIN tRegs : tRegs'[r] = T!Own(r)
  OBVIOUS
<1>1. T!Iretq
  BY DEF T!Next, T!ArchInit, T!Trap, T!Push, T!Save, T!Handle, T!Restore
<1>2. \A r \in DOMAIN tRegs : tRegs[r] = T!Own(r)
  BY DEF TInv, Trapped
<1> QED BY <1>1, <1>2, IretqKeeps

\* The descriptor tables at any size of an address and of the IDT, wherever the linker
\* puts the stubs: from the far return on the kernel's selectors find their segments,
\* a gate found is the stub of its vector, and only an exception whose gate is not yet
\* written ends in a triple fault.
THEOREM DescriptorsHold == T!Spec => []Descriptors
<1>1. TInv => Descriptors
  BY DescriptorsFollow
<1> QED BY <1>1, TrapsInitially, TrapsInductive, PTL DEF T!Spec

\* Every handler finds in struct Registers the vector, the error code and the
\* interrupted program where it reads them, and an interrupt gives back every
\* register, the code segment and the interrupt flag, whatever its handler left in
\* the registers.
THEOREM TrapsTransparent == T!Spec => Transparent
<1>1. TInv => T!Delivered
  BY DeliveredFollows
<1>2. TInv /\ [T!Next]_(T!vars) =>
        [tMode = "iretq" =>
           /\ tMode' = "runs" /\ tEnabled' /\ tCs' = T!KERNEL_CS
           /\ \A r \in DOMAIN tRegs : tRegs'[r] = T!Own(r)]_(T!vars)
  BY ResumesFollows
<1> QED BY <1>1, <1>2, TrapsInitially, TrapsInductive, PTL DEF T!Spec, Transparent, T!Resumes

-------------------------------------------------------------------------------
(***************************************************************************)
(* Panic.  Reports speaks of what has been printed.  To be inductive it    *)
(* needs what has been printed to be tied to how far each report has come  *)
(* (Progress), and to reports that were begun (Begun), the two flags to    *)
(* say which were begun (Flags), and interrupts to be off since (Alone).   *)
(***************************************************************************)

ReportType == [kind : P!Kinds, pass : {P!SERIAL, P!CONSOLE}, piece : 1 .. PIECES]

\* Which reports are being made is in the flags; a panic is not the second.
Flags ==
  /\ pPanicking \in BOOLEAN /\ pExcepting \in BOOLEAN
  /\ pPanicking <=> \E k \in DOMAIN pReports : pReports[k].kind = "panic"
  /\ pExcepting <=> \E k \in DOMAIN pReports : pReports[k].kind = "exception"

\* Interrupts are off while there is a report.
Alone == pReports # << >> => pInterrupts = FALSE

\* The pieces of a report that are on the serial line: those before the current
\* one in the first pass, and all of them in the second.
Progress ==
  \A k \in DOMAIN pReports : \A n \in 1 .. PIECES :
    <<pReports[k].kind, n>> \in P!ToSet(pSerial)
      <=> pReports[k].pass = P!CONSOLE \/ n < pReports[k].piece

\* What was printed is the log, or of a report that is being made, and on the
\* screen of one that is in its second pass.
Begun ==
  /\ \A j \in DOMAIN pSerial : pSerial[j] # P!LOG =>
       \E k \in DOMAIN pReports : \E n \in 1 .. PIECES : pSerial[j] = <<pReports[k].kind, n>>
  /\ \A j \in DOMAIN pScreen : pScreen[j] # P!LOG =>
       \E k \in DOMAIN pReports : \E n \in 1 .. PIECES :
         pScreen[j] = <<pReports[k].kind, n>> /\ pReports[k].pass = P!CONSOLE

ReportPieces == P!Kinds \X (1 .. PIECES)

Printed == pSerial \in Seq(ReportPieces \cup {P!LOG}) /\ pScreen \in Seq(ReportPieces \cup {P!LOG})

PInv == P!TypeOK /\ Printed /\ Flags /\ Alone /\ Progress /\ Begun /\ P!Once /\ P!Undisturbed
--------------------------------------------------------------------------------
\* What Append does to a sequence, read by its elements.
LEMMA Appending ==
  ASSUME NEW S, NEW s \in Seq(S), NEW e \in S
  PROVE  /\ Append(s, e) \in Seq(S) /\ DOMAIN Append(s, e) = 1 .. Len(s) + 1
         /\ Append(s, e)[Len(s) + 1] = e
         /\ \A k \in 1 .. Len(s) : Append(s, e)[k] = s[k]
         /\ DOMAIN s = 1 .. Len(s) /\ Len(s) \in Nat
         /\ P!ToSet(Append(s, e)) = P!ToSet(s) \cup {e}
<1> DEFINE t == Append(s, e)
<1>1. /\ t \in Seq(S) /\ DOMAIN t = 1 .. Len(s) + 1 /\ t[Len(s) + 1] = e
      /\ \A k \in 1 .. Len(s) : t[k] = s[k]
      /\ DOMAIN s = 1 .. Len(s) /\ Len(s) \in Nat
  OBVIOUS
<1>. HIDE DEF t
<1>2. P!ToSet(t) = P!ToSet(s) \cup {e}
  <2>1. 1 .. Len(s) + 1 = (1 .. Len(s)) \cup {Len(s) + 1}
    BY <1>1
  <2>. QED  BY <1>1, <2>1 DEF P!ToSet
<1>. QED  BY <1>1, <1>2 DEF t

\* Append of what is in front of the last element replaces the last.
LEMMA Replacing ==
  ASSUME NEW S, NEW s \in Seq(S), s # << >>, NEW e \in S
  PROVE  LET t == Append(P!Front(s), e)
         IN  /\ t \in Seq(S) /\ Len(t) = Len(s) /\ t[Len(s)] = e
             /\ \A k \in 1 .. Len(s) - 1 : t[k] = s[k]
             /\ Len(s) \in Nat \ {0} /\ DOMAIN t = 1 .. Len(s) /\ DOMAIN s = 1 .. Len(s)
<1>1. Len(s) \in Nat \ {0} /\ DOMAIN s = 1 .. Len(s)
  OBVIOUS
<1> DEFINE f == P!Front(s)
<1>2. f \in Seq(S) /\ Len(f) = Len(s) - 1 /\ \A k \in 1 .. Len(s) - 1 : f[k] = s[k]
  BY <1>1 DEF P!Front
<1>. HIDE DEF f
<1>3. /\ Append(f, e) \in Seq(S) /\ Len(Append(f, e)) = Len(f) + 1
      /\ DOMAIN Append(f, e) = 1 .. Len(f) + 1
      /\ Append(f, e)[Len(f) + 1] = e /\ \A k \in 1 .. Len(f) : Append(f, e)[k] = f[k]
  BY <1>2
<1>4. Len(f) + 1 = Len(s)
  BY <1>1, <1>2
<1>. QED  BY <1>1, <1>2, <1>3, <1>4 DEF f

LEMMA Typed ==
  ASSUME P!TypeOK
  PROVE  pReports \in Seq(ReportType) /\ DOMAIN pReports = 1 .. Len(pReports) /\ Len(pReports) \in Nat
  BY DEF P!TypeOK, ReportType

\* Advance leaves the reports below the current one as they are, and this one of
\* its kind; it is at the next piece, or at the first one of the second pass, or,
\* when the CPU is halted, where it was.
LEMMA Advancing ==
  ASSUME P!ConstantsFit, P!TypeOK, pReports # << >>, P!Advance, NEW STATE top, top = Len(pReports)
  PROVE  /\ top \in Nat \ {0} /\ pReports[top] \in ReportType /\ P!Current = pReports[top]
         /\ pReports' \in Seq(ReportType)
         /\ DOMAIN pReports = 1 .. top /\ DOMAIN pReports' = 1 .. top
         /\ \A k \in 1 .. top - 1 : pReports'[k] = pReports[k]
         /\ pReports'[top] \in ReportType /\ pReports'[top].kind = pReports[top].kind
         /\ \/ /\ pReports'[top].piece = pReports[top].piece + 1
               /\ pReports'[top].pass = pReports[top].pass
            \/ /\ pReports[top].piece = PIECES /\ pReports[top].pass = P!SERIAL
               /\ pReports'[top].piece = 1 /\ pReports'[top].pass = P!CONSOLE
            \/ /\ pReports[top].pass = P!CONSOLE /\ pReports' = pReports
         /\ pCpu' \in {"runs", "halted"}
<1>. DEFINE r == P!Current
<1>1. /\ top \in Nat \ {0} /\ DOMAIN pReports = 1 .. top
      /\ pReports \in Seq(ReportType) /\ r = pReports[top] /\ r \in ReportType
  <2>1. top \in Nat \ {0} /\ pReports \in Seq(ReportType) /\ DOMAIN pReports = 1 .. top
    BY Typed
  <2>. QED  BY <2>1 DEF P!Current, P!Last
<1>2. /\ r.kind \in P!Kinds /\ r.pass \in {P!SERIAL, P!CONSOLE} /\ r.piece \in 1 .. PIECES
      /\ PIECES \in Nat \ {0} /\ pCpu \in {"runs", "halted"}
  BY <1>1 DEF ReportType, P!ConstantsFit, P!TypeOK
<1>3. CASE r.piece < PIECES
  <2> DEFINE e == [r EXCEPT !.piece = r.piece + 1]
  <2>1. e \in ReportType /\ e.kind = r.kind /\ e.pass = r.pass /\ e.piece = r.piece + 1
    BY <1>1, <1>2, <1>3 DEF ReportType
  <2>2. pReports' = Append(P!Front(pReports), e) /\ pCpu' = pCpu
    BY <1>3 DEF P!Advance
  <2>. HIDE DEF e, r
  <2>. QED  BY <1>1, <1>2, <2>1, <2>2, Replacing DEF r
<1>4. CASE ~(r.piece < PIECES) /\ r.pass = P!SERIAL
  <2> DEFINE e == [kind |-> r.kind, pass |-> P!CONSOLE, piece |-> 1]
             d == [r EXCEPT !.pass = 1 - r.pass, !.piece = 1]
  <2>1. pReports' = Append(P!Front(pReports), d) /\ pCpu' = pCpu
    BY <1>4 DEF P!Advance, P!FirstPass
  <2>2. 1 - r.pass = P!CONSOLE
    BY <1>4 DEF P!SERIAL, P!CONSOLE
  <2>3. r \in ReportType
    BY <1>1
  <2>. HIDE DEF r
  <2>4. d = e
    <3>1. PICK a, p, n : r = [kind |-> a, pass |-> p, piece |-> n]
      BY <2>3 DEF ReportType
    <3>2. r.kind = a /\ 1 - r.pass = P!CONSOLE
      BY <2>2, <3>1
    <3> DEFINE c == [r EXCEPT !.pass = P!CONSOLE]
    <3>3. c = [kind |-> a, pass |-> P!CONSOLE, piece |-> n]
      BY <3>1
    <3>4. d = [c EXCEPT !.piece = 1]
      BY <3>1, <3>2
    <3>. HIDE DEF c, d
    <3>. QED  BY <3>2, <3>3, <3>4
  <2>5. r.piece = PIECES
    BY <1>2, <1>4
  <2>6. e \in ReportType /\ e.kind = r.kind /\ e.pass = P!CONSOLE /\ e.piece = 1
    BY <1>2 DEF ReportType
  <2>. HIDE DEF d, e
  <2>. QED  BY <1>1, <1>2, <1>4, <2>1, <2>4, <2>5, <2>6, Replacing DEF r
<1>5. CASE ~(r.piece < PIECES) /\ r.pass # P!SERIAL
  <2>1. pReports' = pReports /\ pCpu' = "halted"
    BY <1>5 DEF P!Advance, P!FirstPass
  <2>. QED  BY <1>1, <1>2, <1>5, <2>1
<1>. QED  BY <1>3, <1>4, <1>5
--------------------------------------------------------------------------------
\* In an output that is silent no log line is behind a piece of a report.
Silent(out) == \A j, k \in DOMAIN out : j < k /\ out[k] = P!LOG => out[j] = P!LOG

LEMMA UndisturbedIsSilent ==
  /\ P!Undisturbed <=> Silent(pSerial) /\ Silent(pScreen)
  /\ P!Undisturbed' <=> Silent(pSerial') /\ Silent(pScreen')
  BY DEF P!Undisturbed, Silent

LEMMA StaysSilent ==
  ASSUME NEW S, NEW s \in Seq(S), NEW e \in S, Silent(s),
         e # P!LOG \/ \A j \in DOMAIN s : s[j] = P!LOG
  PROVE  Silent(Append(s, e))
<1> DEFINE t == Append(s, e)
<1>1. /\ DOMAIN t = 1 .. Len(s) + 1 /\ t[Len(s) + 1] = e
      /\ \A k \in 1 .. Len(s) : t[k] = s[k]
      /\ DOMAIN s = 1 .. Len(s) /\ Len(s) \in Nat
  BY Appending
<1>. HIDE DEF t
<1>2. Silent(t)
  BY <1>1 DEF Silent
<1>. QED  BY <1>2 DEF t

LEMMA InitPInv == P!ConstantsFit /\ P!Init => PInv
<1>. SUFFICES ASSUME P!ConstantsFit, P!Init  PROVE PInv
  OBVIOUS
<1>1. P!TypeOK
  BY DEF P!Init, P!TypeOK, P!ConstantsFit
<1>2. /\ pReports = << >> /\ pSerial = << >> /\ pScreen = << >>
      /\ DOMAIN pReports = {} /\ DOMAIN pSerial = {} /\ DOMAIN pScreen = {}
  BY DEF P!Init
<1>3. Printed
  BY <1>2 DEF Printed
<1>4. Flags /\ Alone /\ Progress
  BY <1>2 DEF P!Init, Flags, Alone, Progress
<1>5. Begun /\ P!Once /\ P!Undisturbed
  BY <1>2, UndisturbedIsSilent DEF Begun, P!Once, Silent
<1>. QED  BY <1>1, <1>3, <1>4, <1>5 DEF PInv

\* A report begins: panic or exception_panic, for the first time.
LEMMA BeginsPInv ==
  ASSUME P!ConstantsFit, PInv, NEW kind \in P!Kinds,
         \A k \in DOMAIN pReports : pReports[k].kind # kind,
         pReports' = Append(pReports, P!Report(kind)), pInterrupts' = FALSE, pCpu' = pCpu,
         pPanicking' = (IF kind = "panic" THEN TRUE ELSE pPanicking),
         pExcepting' = (IF kind = "exception" THEN TRUE ELSE pExcepting),
         UNCHANGED P!output
  PROVE  PInv'
<1>. USE DEF PInv
<1> DEFINE new == Len(pReports) + 1
<1>1. P!Report(kind) \in ReportType /\ P!Report(kind).kind = kind
        /\ P!Report(kind).pass = P!SERIAL /\ P!Report(kind).piece = 1
  BY DEF P!Report, ReportType, P!FirstPass, P!ConstantsFit
<1>2. /\ pReports' \in Seq(ReportType) /\ DOMAIN pReports = 1 .. Len(pReports)
      /\ DOMAIN pReports' = 1 .. new /\ pReports'[new] = P!Report(kind)
      /\ \A k \in DOMAIN pReports : pReports'[k] = pReports[k]
      /\ Len(pReports) \in Nat
  BY <1>1, Typed, Appending
<1>3. new \in Nat /\ DOMAIN pReports' = DOMAIN pReports \cup {new} /\ new \notin DOMAIN pReports
  BY <1>2
<1>4. pSerial' = pSerial /\ pScreen' = pScreen /\ pLogs' = pLogs
  BY DEF P!output
<1>. HIDE DEF new
<1>5. P!TypeOK'
  BY <1>1, <1>2, <1>3, <1>4 DEF P!TypeOK, ReportType
<1>6. Flags'
  <2>1. \A k \in DOMAIN pReports' : pReports'[k].kind = IF k = new THEN kind ELSE pReports[k].kind
    BY <1>1, <1>2, <1>3
  <2>2. kind \in {"panic", "exception"} /\ pPanicking \in BOOLEAN /\ pExcepting \in BOOLEAN
    BY DEF P!Kinds, Flags
  <2>3. CASE kind = "panic"
    <3>1. pPanicking' = TRUE /\ pExcepting' = pExcepting
      BY <2>3
    <3>. QED  BY <2>1, <2>2, <2>3, <3>1, <1>3 DEF Flags
  <2>4. CASE kind = "exception"
    <3>1. pPanicking' = pPanicking /\ pExcepting' = TRUE
      BY <2>4
    <3>. QED  BY <2>1, <2>2, <2>4, <3>1, <1>3 DEF Flags
  <2>. QED  BY <2>2, <2>3, <2>4
<1>7. Alone'
  BY DEF Alone
\* Nothing of this kind has been printed.
<1>8. Progress'
  <2>1. ASSUME NEW n \in 1 .. PIECES  PROVE <<kind, n>> \notin P!ToSet(pSerial)
    BY <2>1 DEF Begun, P!ToSet, P!LOG
  <2>2. ASSUME NEW k \in DOMAIN pReports, NEW n \in 1 .. PIECES
        PROVE  <<pReports'[k].kind, n>> \in P!ToSet(pSerial')
                 <=> pReports'[k].pass = P!CONSOLE \/ n < pReports'[k].piece
    BY <1>2, <1>4 DEF Progress
  <2>3. ASSUME NEW n \in 1 .. PIECES
        PROVE  <<pReports'[new].kind, n>> \in P!ToSet(pSerial')
                 <=> pReports'[new].pass = P!CONSOLE \/ n < pReports'[new].piece
    BY <1>1, <1>2, <1>4, <2>1 DEF P!SERIAL, P!CONSOLE, P!ConstantsFit
  <2>. QED  BY <1>3, <2>2, <2>3 DEF Progress
<1>9. Begun'
  BY <1>2, <1>3, <1>4 DEF Begun
<1>10. Printed' /\ P!Once' /\ P!Undisturbed'
  BY <1>4 DEF Printed, P!Once, P!Undisturbed
<1>. QED  BY <1>5, <1>6, <1>7, <1>8, <1>9, <1>10

LEMMA HaltsPInv ==
  ASSUME PInv, pCpu' \in {"runs", "halted"}, pInterrupts' = FALSE,
         UNCHANGED <<pPanicking, pExcepting, pReports, P!output>>
  PROVE  PInv'
  BY DEF PInv, P!TypeOK, Printed, Flags, Alone, Progress, Begun, P!Once, P!Undisturbed, P!output

LEMMA PanicsPInv ==
  ASSUME P!ConstantsFit, PInv, P!Panics
  PROVE  PInv'
<1>1. pReports = << >> /\ pPanicking = FALSE
  BY DEF P!Panics, PInv, Flags
<1>2. \A k \in DOMAIN pReports : pReports[k].kind # "panic"
  BY <1>1
<1>3. /\ pReports' = Append(pReports, P!Report("panic")) /\ pCpu' = pCpu /\ pInterrupts' = FALSE
      /\ pPanicking' = TRUE /\ pExcepting' = pExcepting /\ UNCHANGED P!output
  BY <1>1 DEF P!Panics, P!InterruptsOff
<1>. QED  BY <1>2, <1>3, BeginsPInv DEF P!Kinds

LEMMA FaultsPInv ==
  ASSUME P!ConstantsFit, PInv, P!Faults
  PROVE  PInv'
<1>1. pInterrupts' = FALSE /\ pPanicking' = pPanicking /\ pExcepting' = TRUE /\ UNCHANGED P!output
  BY DEF P!Faults, P!Noted
<1>2. CASE pExcepting
  <2>1. pCpu' = "halted" /\ pReports' = pReports /\ pExcepting' = pExcepting
    BY <1>1, <1>2 DEF P!Faults, P!Stopped, PInv, Flags
  <2>. QED  BY <1>1, <2>1, HaltsPInv
<1>3. CASE ~pExcepting
  <2>1. pReports' = Append(pReports, P!Report("exception")) /\ pCpu' = pCpu
    BY <1>3 DEF P!Faults
  <2>2. \A k \in DOMAIN pReports : pReports[k].kind # "exception"
    BY <1>3 DEF PInv, Flags
  <2>. QED  BY <1>1, <2>1, <2>2, BeginsPInv DEF P!Kinds
<1>. QED  BY <1>2, <1>3

\* The log is printed only before there is a report.
LEMMA LogPInv ==
  ASSUME P!ConstantsFit, PInv, P!Log
  PROVE  PInv'
<1>. USE DEF PInv
<1>1. /\ pReports = << >> /\ pLogs < MaxLog /\ pLogs' = pLogs + 1
      /\ UNCHANGED <<pCpu, pInterrupts, pPanicking, pExcepting, pReports>>
      /\ pSerial' = (IF pRoute' THEN Append(pSerial, P!LOG) ELSE pSerial)
      /\ pScreen' = Append(pScreen, P!LOG)
  BY DEF P!Log, P!OnConsole, Alone
<1>2. DOMAIN pReports = {}
  BY <1>1
<1>3. /\ \A j \in DOMAIN pSerial : pSerial[j] = P!LOG
      /\ \A j \in DOMAIN pScreen : pScreen[j] = P!LOG
  BY <1>2 DEF Begun
<1>4. ASSUME NEW s \in Seq(ReportPieces \cup {P!LOG}), \A j \in DOMAIN s : s[j] = P!LOG
      PROVE  LET t == Append(s, P!LOG)
             IN  t \in Seq(ReportPieces \cup {P!LOG}) /\ \A j \in DOMAIN t : t[j] = P!LOG
  <2> DEFINE t == Append(s, P!LOG)
  <2>1. /\ t \in Seq(ReportPieces \cup {P!LOG}) /\ DOMAIN t = 1 .. Len(s) + 1 /\ t[Len(s) + 1] = P!LOG
        /\ \A k \in 1 .. Len(s) : t[k] = s[k]
        /\ DOMAIN s = 1 .. Len(s) /\ Len(s) \in Nat
    BY Appending
  <2>. HIDE DEF t
  <2>2. \A j \in DOMAIN t : t[j] = P!LOG
    BY <1>4, <2>1
  <2>. QED  BY <2>1, <2>2 DEF t
<1>5. /\ pSerial' \in Seq(ReportPieces \cup {P!LOG}) /\ \A j \in DOMAIN pSerial' : pSerial'[j] = P!LOG
      /\ pScreen' \in Seq(ReportPieces \cup {P!LOG}) /\ \A j \in DOMAIN pScreen' : pScreen'[j] = P!LOG
  BY <1>1, <1>3, <1>4 DEF Printed
<1>6. P!TypeOK'
  BY <1>1 DEF P!TypeOK, P!ConstantsFit
<1>. QED  BY <1>1, <1>2, <1>5, <1>6 DEF Printed, Flags, Alone, Progress, Begun, P!Once, P!Undisturbed

\* keprintf changes of what is being reported only the current report, and this
\* only by Advance.
LEMMA KeptByPrinting ==
  ASSUME P!ConstantsFit, PInv, pReports # << >>, P!Advance,
         UNCHANGED <<pInterrupts, pPanicking, pExcepting, pLogs>>
  PROVE  P!TypeOK' /\ Flags' /\ Alone'
<1>. USE DEF PInv
<1> DEFINE top == Len(pReports)
<1>1. /\ top \in Nat \ {0} /\ pReports' \in Seq(ReportType)
      /\ DOMAIN pReports = 1 .. top /\ DOMAIN pReports' = 1 .. top
      /\ \A k \in 1 .. top - 1 : pReports'[k] = pReports[k]
      /\ pReports'[top].kind = pReports[top].kind /\ pCpu' \in {"runs", "halted"}
  BY Advancing
<1>. HIDE DEF top
<1>2. \A k \in DOMAIN pReports : pReports'[k].kind = pReports[k].kind
  BY <1>1
<1>3. P!TypeOK'
  BY <1>1, <1>2 DEF P!TypeOK, ReportType
<1>4. Flags'
  BY <1>1, <1>2 DEF Flags
<1>. QED  BY <1>3, <1>4 DEF Alone

\* In the second pass nothing more is due on the serial line, and the screen is.
LEMMA SecondPassPInv ==
  ASSUME P!ConstantsFit, PInv, pReports # << >>, P!Current.pass = P!CONSOLE, P!Advance,
         UNCHANGED <<pInterrupts, pPanicking, pExcepting, pLogs, pSerial>>,
         pScreen' = pScreen \/ pScreen' = Append(pScreen, P!Piece)
  PROVE  PInv'
<1>. USE DEF PInv
<1> DEFINE top == Len(pReports)
<1>1. /\ top \in Nat \ {0} /\ P!Current = pReports[top] /\ pReports[top] \in ReportType
      /\ DOMAIN pReports = 1 .. top /\ DOMAIN pReports' = 1 .. top
      /\ \A k \in 1 .. top - 1 : pReports'[k] = pReports[k]
      /\ pReports'[top].kind = pReports[top].kind
      /\ pReports'[top].pass = P!CONSOLE
  BY Advancing DEF P!SERIAL, P!CONSOLE
<1>2. pReports[top].pass = P!CONSOLE /\ P!Piece = <<pReports[top].kind, pReports[top].piece>>
        /\ pReports[top].kind \in P!Kinds /\ pReports[top].piece \in 1 .. PIECES
  BY <1>1 DEF P!Piece, ReportType
<1>. HIDE DEF top
<1>3. \A k \in DOMAIN pReports : pReports'[k].kind = pReports[k].kind
        /\ (pReports[k].pass = P!CONSOLE => pReports'[k].pass = P!CONSOLE)
  BY <1>1
<1>4. Progress'
  <2>1. ASSUME NEW k \in DOMAIN pReports', NEW n \in 1 .. PIECES
        PROVE  <<pReports'[k].kind, n>> \in P!ToSet(pSerial')
                 <=> pReports'[k].pass = P!CONSOLE \/ n < pReports'[k].piece
    <3>1. CASE k = top
      BY <1>1, <1>2, <3>1 DEF Progress
    <3>2. CASE k # top
      <4>1. k \in 1 .. top - 1
        BY <1>1, <3>2
      <4>. QED  BY <1>1, <4>1 DEF Progress
    <3>. QED  BY <3>1, <3>2
  <2>. QED  BY <2>1 DEF Progress
<1>5. P!Piece \in ReportPieces /\ P!Piece # P!LOG
  BY <1>2, P!ConstantsFit DEF ReportPieces, P!LOG, P!ConstantsFit
<1>6. Begun' /\ Printed' /\ Silent(pScreen')
  <2>1. CASE pScreen' = pScreen
    BY <1>1, <1>3, <2>1, UndisturbedIsSilent DEF Begun, Printed
  <2>2. CASE pScreen' = Append(pScreen, P!Piece)
    <3>1. /\ pScreen' \in Seq(ReportPieces \cup {P!LOG}) /\ DOMAIN pScreen' = 1 .. Len(pScreen) + 1
          /\ pScreen'[Len(pScreen) + 1] = P!Piece /\ Len(pScreen) \in Nat
          /\ DOMAIN pScreen = 1 .. Len(pScreen)
          /\ \A j \in 1 .. Len(pScreen) : pScreen'[j] = pScreen[j]
      BY <1>5, <2>2, Appending DEF Printed
    <3>2. Silent(pScreen')
      BY <1>5, <2>2, StaysSilent, UndisturbedIsSilent DEF Printed
    <3>3. top \in DOMAIN pReports'
      BY <1>1
    <3>4. Begun'
      <4>1. ASSUME NEW j \in DOMAIN pScreen', pScreen'[j] # P!LOG
            PROVE  \E k \in DOMAIN pReports' : \E n \in 1 .. PIECES :
                     pScreen'[j] = <<pReports'[k].kind, n>> /\ pReports'[k].pass = P!CONSOLE
        <5>1. CASE j = Len(pScreen) + 1
          BY <1>1, <1>2, <3>1, <3>3, <5>1
        <5>2. CASE j # Len(pScreen) + 1
          <6>1. j \in DOMAIN pScreen /\ pScreen'[j] = pScreen[j]
            BY <3>1, <5>2
          <6>. QED  BY <1>1, <1>3, <4>1, <6>1 DEF Begun
        <5>. QED  BY <5>1, <5>2
      <4>2. ASSUME NEW j \in DOMAIN pSerial', pSerial'[j] # P!LOG
            PROVE  \E k \in DOMAIN pReports' : \E n \in 1 .. PIECES :
                     pSerial'[j] = <<pReports'[k].kind, n>>
        BY <1>1, <1>3, <4>2 DEF Begun
      <4>. QED  BY <4>1, <4>2 DEF Begun
    <3>. QED  BY <3>1, <3>2, <3>4 DEF Printed
  <2>. QED  BY <2>1, <2>2
<1>. QED  BY <1>4, <1>6, KeptByPrinting, UndisturbedIsSilent DEF P!Once

\* In the first pass the current piece is new to the serial line.
LEMMA PrintSerialPInv ==
  ASSUME P!ConstantsFit, PInv, P!PrintSerial
  PROVE  PInv'
<1>. USE DEF PInv
<1> DEFINE top == Len(pReports)
           n0  == pReports[top].piece
<1>1. /\ pReports # << >> /\ P!Current.pass = P!SERIAL /\ P!Advance
      /\ pSerial' = Append(pSerial, P!Piece) /\ pScreen' = pScreen
      /\ UNCHANGED <<pInterrupts, pPanicking, pExcepting, pLogs>>
  BY DEF P!PrintSerial
<1>2. /\ top \in Nat \ {0} /\ P!Current = pReports[top] /\ pReports[top] \in ReportType
      /\ DOMAIN pReports = 1 .. top /\ DOMAIN pReports' = 1 .. top
      /\ \A k \in 1 .. top - 1 : pReports'[k] = pReports[k]
      /\ pReports'[top].kind = pReports[top].kind
      /\ \/ pReports'[top].piece = pReports[top].piece + 1 /\ pReports'[top].pass = pReports[top].pass
         \/ pReports[top].piece = PIECES /\ pReports'[top].pass = P!CONSOLE
  BY <1>1, Advancing DEF P!SERIAL, P!CONSOLE
<1>3. /\ pReports[top].pass = P!SERIAL /\ P!Piece = <<pReports[top].kind, n0>> /\ P!SERIAL # P!CONSOLE
      /\ pReports[top].kind \in P!Kinds /\ n0 \in 1 .. PIECES /\ PIECES \in Nat \ {0}
      /\ \/ pReports'[top].piece = n0 + 1 /\ pReports'[top].pass = P!SERIAL
         \/ n0 = PIECES /\ pReports'[top].pass = P!CONSOLE
  BY <1>1, <1>2 DEF P!Piece, ReportType, P!SERIAL, P!CONSOLE, P!ConstantsFit
<1>. HIDE DEF top, n0
<1>4. P!Piece \in ReportPieces /\ P!Piece # P!LOG
  BY <1>3 DEF ReportPieces, P!LOG
<1>5. /\ pSerial' \in Seq(ReportPieces \cup {P!LOG}) /\ DOMAIN pSerial' = 1 .. Len(pSerial) + 1
      /\ pSerial'[Len(pSerial) + 1] = P!Piece /\ Len(pSerial) \in Nat
      /\ DOMAIN pSerial = 1 .. Len(pSerial)
      /\ \A j \in 1 .. Len(pSerial) : pSerial'[j] = pSerial[j]
      /\ P!ToSet(pSerial') = P!ToSet(pSerial) \cup {P!Piece}
  BY <1>1, <1>4, Appending DEF Printed
<1>6. \A k \in DOMAIN pReports : pReports'[k].kind = pReports[k].kind
  BY <1>2
<1>7. P!Piece \notin P!ToSet(pSerial)
  <2>1. top \in DOMAIN pReports /\ ~(n0 < n0)
    BY <1>2, <1>3
  <2>. QED  BY <1>3, <2>1 DEF Progress, n0
<1>8. Progress'
  <2>1. ASSUME NEW k \in DOMAIN pReports', NEW n \in 1 .. PIECES
        PROVE  <<pReports'[k].kind, n>> \in P!ToSet(pSerial')
                 <=> pReports'[k].pass = P!CONSOLE \/ n < pReports'[k].piece
    <3>1. CASE k = top
      <4>1. <<pReports[top].kind, n>> \in P!ToSet(pSerial) <=> n < n0
        BY <1>2, <1>3 DEF Progress, n0
      <4>2. <<pReports[top].kind, n>> \in P!ToSet(pSerial') <=> n < n0 \/ n = n0
        BY <1>3, <1>5, <4>1
      <4>3. n < n0 \/ n = n0 <=> pReports'[top].pass = P!CONSOLE \/ n < pReports'[top].piece
        BY <1>3
      <4>. QED  BY <1>2, <3>1, <4>2, <4>3
    <3>2. CASE k # top
      <4>1. k \in 1 .. top - 1 /\ k \in DOMAIN pReports /\ top \in DOMAIN pReports
        BY <1>2, <3>2
      <4>2. pReports[k].kind # pReports[top].kind
        BY <3>2, <4>1 DEF P!TypeOK
      <4>3. <<pReports[k].kind, n>> # P!Piece
        BY <1>3, <4>2
      <4>. QED  BY <1>2, <1>5, <4>1, <4>3 DEF Progress
    <3>. QED  BY <3>1, <3>2
  <2>. QED  BY <2>1 DEF Progress
<1>9. Begun'
  <2>1. ASSUME NEW j \in DOMAIN pSerial', pSerial'[j] # P!LOG
        PROVE  \E k \in DOMAIN pReports' : \E n \in 1 .. PIECES : pSerial'[j] = <<pReports'[k].kind, n>>
    <3>1. CASE j = Len(pSerial) + 1
      <4>1. top \in DOMAIN pReports'
        BY <1>2
      <4>. QED  BY <1>2, <1>3, <1>5, <3>1, <4>1
    <3>2. CASE j # Len(pSerial) + 1
      <4>1. j \in DOMAIN pSerial /\ pSerial'[j] = pSerial[j]
        BY <1>5, <3>2
      <4>. QED  BY <1>2, <1>6, <2>1, <4>1 DEF Begun
    <3>. QED  BY <3>1, <3>2
\* The current report has nothing on the screen yet, and the others are as they were.
  <2>2. ASSUME NEW j \in DOMAIN pScreen', pScreen'[j] # P!LOG
        PROVE  \E k \in DOMAIN pReports' : \E n \in 1 .. PIECES :
                 pScreen'[j] = <<pReports'[k].kind, n>> /\ pReports'[k].pass = P!CONSOLE
    <3>1. PICK k \in DOMAIN pReports, n \in 1 .. PIECES :
            pScreen[j] = <<pReports[k].kind, n>> /\ pReports[k].pass = P!CONSOLE
      BY <1>1, <2>2 DEF Begun
    <3>2. k \in 1 .. top - 1
      BY <1>2, <1>3, <3>1
    <3>. QED  BY <1>1, <1>2, <3>1, <3>2
  <2>. QED  BY <2>1, <2>2 DEF Begun
<1>10. P!Once'
  <2>1. ASSUME NEW j \in DOMAIN pSerial', NEW k \in DOMAIN pSerial', j # k, pSerial'[j] = pSerial'[k]
        PROVE  pSerial'[j] = P!LOG
    <3>1. CASE j \in DOMAIN pSerial /\ k \in DOMAIN pSerial
      BY <1>5, <2>1, <3>1 DEF P!Once
    <3>2. CASE j \notin DOMAIN pSerial \/ k \notin DOMAIN pSerial
      <4>1. \E i \in DOMAIN pSerial : pSerial[i] = P!Piece
        BY <1>5, <2>1, <3>2
      <4>. QED  BY <1>7, <4>1 DEF P!ToSet
    <3>. QED  BY <3>1, <3>2
  <2>. QED  BY <2>1 DEF P!Once
<1>11. Printed' /\ P!Undisturbed'
  <2>1. Silent(pSerial')
    BY <1>1, <1>4, StaysSilent, UndisturbedIsSilent DEF Printed
  <2>. QED  BY <1>1, <1>5, <2>1, UndisturbedIsSilent DEF Printed
<1>. QED  BY <1>1, <1>8, <1>9, <1>10, <1>11, KeptByPrinting

LEMMA PrintConsolePInv ==
  ASSUME P!ConstantsFit, PInv, P!PrintConsole
  PROVE  PInv'
<1>1. pRoute' = FALSE
  BY DEF P!PrintConsole, P!RouteOff
<1>2. pSerial' = pSerial /\ pScreen' = Append(pScreen, P!Piece)
  BY <1>1 DEF P!PrintConsole, P!OnConsole
<1>. QED  BY <1>2, SecondPassPInv DEF P!PrintConsole

LEMMA PrintLostPInv ==
  ASSUME P!ConstantsFit, PInv, P!PrintLost
  PROVE  PInv'
  BY SecondPassPInv DEF P!PrintLost, P!output

LEMMA StepPInv == P!ConstantsFit /\ PInv /\ [P!Next]_P!vars => PInv'
<1>. SUFFICES ASSUME P!ConstantsFit, PInv, [P!Next]_P!vars  PROVE PInv'
  OBVIOUS
<1>1. CASE P!VMMInit \/ P!ConsoleInit \/ P!Halted \/ UNCHANGED P!vars
  <2>1. UNCHANGED <<pCpu, pInterrupts, pPanicking, pExcepting, pReports, pSerial, pScreen, pLogs>>
    BY <1>1 DEF P!VMMInit, P!ConsoleInit, P!Halted, P!vars, P!output
  <2>2. P!TypeOK' /\ Printed' /\ Flags' /\ Alone'
    BY <2>1 DEF PInv, P!TypeOK, Printed, Flags, Alone
  <2>3. Progress' /\ Begun' /\ P!Once'
    BY <2>1 DEF PInv, Progress, Begun, P!Once
  <2>4. P!Undisturbed'
    BY <2>1, UndisturbedIsSilent DEF PInv
  <2>. QED  BY <2>2, <2>3, <2>4 DEF PInv
<1>. QED  BY <1>1, LogPInv, PanicsPInv, FaultsPInv, PrintSerialPInv, PrintConsolePInv,
             PrintLostPInv DEF P!Next, P!Printing
--------------------------------------------------------------------------------
\* PInv holds in every state, for reports of any number of pieces.
THEOREM PanicInvariance == P!FairSpec => []PInv
  BY PanicFits, InitPInv, StepPInv, PTL DEF P!FairSpec

\* Whatever faults on the way, a report is on the serial line, whole and once, before
\* any of it is on the screen, none is made in the midst of another of its kind, and
\* no log line comes after its first piece: panic turns interrupts off and keprintf
\* the routing to the serial line.
THEOREM ReportsArrive == P!FairSpec => []Reports
<1>1. PInv => P!SerialFirst
  <2>. SUFFICES ASSUME PInv, NEW j \in DOMAIN pScreen, NEW n \in 1 .. PIECES, pScreen[j] # P!LOG
                PROVE  <<pScreen[j][1], n>> \in P!ToSet(pSerial)
    BY DEF P!SerialFirst
  <2>1. PICK k \in DOMAIN pReports, m \in 1 .. PIECES :
          pScreen[j] = <<pReports[k].kind, m>> /\ pReports[k].pass = P!CONSOLE
    BY DEF PInv, Begun
  <2>2. pScreen[j][1] = pReports[k].kind
    BY <2>1
  <2>. QED  BY <2>1, <2>2 DEF PInv, Progress
<1>2. PInv => Reports
  BY <1>1 DEF PInv, Reports, P!Reports
<1>. QED  BY <1>2, PanicInvariance, PTL
===============================================================================
