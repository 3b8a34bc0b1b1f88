----------------------------- MODULE MC_Interrupts -----------------------------
(***************************************************************************)
(* The three modules about interrupts and exceptions for TLC, side by      *)
(* side: the first state chooses the one that moves, the variable `part`,  *)
(* and the others stay at their beginning.  Irq is extended, with its own  *)
(* names; the variables of the others have a letter in front.              *)
(***************************************************************************)
EXTENDS Irq

CONSTANTS
  HALF, ALL_ONES, Placements, IDT_SIZE,    \* Traps
  PIECES, MaxLog                           \* Panic

VARIABLES
  part,
  tStage, tK, tBase, tGdt, tIdt, tGdtr, tIdtr, tCs, tDs, tEnabled, tRegs, tRip,
  tMode, tVector, tStub, tStack,
  pCpu, pInterrupts, pPaging, pConsole, pRoute, pPanicking, pExcepting, pReports,
  pSerial, pScreen, pLogs

traps == <<tStage, tK, tBase, tGdt, tIdt, tGdtr, tIdtr, tCs, tDs, tEnabled, tRegs, tRip,
           tMode, tVector, tStub, tStack>>
panic == <<pCpu, pInterrupts, pPaging, pConsole, pRoute, pPanicking, pExcepting, pReports,
           pSerial, pScreen, pLogs>>
all   == <<part, vars, traps, panic>>
--------------------------------------------------------------------------------
T == INSTANCE Traps WITH
       stage <- tStage, k <- tK, base <- tBase, gdt <- tGdt, idt <- tIdt,
       gdtr <- tGdtr, idtr <- tIdtr, cs <- tCs, ds <- tDs, enabled <- tEnabled,
       regs <- tRegs, rip <- tRip, mode <- tMode, vector <- tVector,
       stub <- tStub, stack <- tStack

P == INSTANCE Panic WITH
       cpu <- pCpu, interrupts <- pInterrupts, paging <- pPaging, console <- pConsole,
       ROUTE_TO_COM <- pRoute, panicking <- pPanicking, excepting <- pExcepting,
       reports <- pReports, serial <- pSerial, screen <- pScreen, logs <- pLogs

ASSUME TrapsFit == T!ConstantsFit
ASSUME PanicFits == P!ConstantsFit

\* Of the others one first state is enough.
PartsInit ==
  /\ part \in {"irq", "traps", "panic"}
  /\ Init   /\ (part # "irq"   => service1 = {})
  /\ T!Init /\ (part # "traps" => tBase = 0)
  /\ P!Init /\ (part # "panic" => ~pInterrupts)

TrapsMoves == part = "traps" /\ T!Next /\ UNCHANGED <<part, vars, panic>>
PanicMoves == part = "panic" /\ P!Next /\ UNCHANGED <<part, vars, traps>>
IrqMoves   == part = "irq" /\ Next /\ UNCHANGED <<part, traps, panic>>

\* The reports of Traps end here, and a machine that was reset.
Over ==
  /\ part = "traps" /\ tMode \in {"exception_panic", "firmware", "reset"}
  /\ UNCHANGED all

PartsNext == IrqMoves \/ TrapsMoves \/ PanicMoves \/ Over

PartsSpec ==
  /\ PartsInit /\ [][PartsNext]_all
  /\ WF_vars(part = "irq" /\ Install) /\ WF_vars(part = "irq" /\ Handler)
  /\ SF_vars(part = "irq" /\ Interrupt)
  /\ WF_panic(part = "panic" /\ (P!Printing \/ P!FaultsInReport))
--------------------------------------------------------------------------------
\* Irq is well typed, and devices are served: each request is answered, and the handler that is installed
\* for it runs.
Served == []TypeOK /\ Answered /\ Handled

\* The kernel's selectors find the segments they are named for, and the machine is
\* lost only to an exception before its gate is there.
Descriptors == T!TypeOK /\ T!SegmentsFit /\ T!NoTripleFault

\* A trap is transparent: the handler finds in Registers what it reads there, and an
\* interrupted program goes on as it was.
Transparent == []T!Delivered /\ T!Resumes

\* A report is on the serial line first, once and undisturbed: Reports of Panic.
Reports == P!Reports

\* Whoever begins to report halts: Halts of Panic.
Halts == P!Halts
================================================================================
