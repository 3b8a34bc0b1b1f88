------------------------------- MODULE Traps -------------------------------
(***************************************************************************)
(* Descriptor tables and the way through them: x86_64::ArchInit fills GDT  *)
(* and IDT descriptor by descriptor, and at any time the CPU may raise an  *)
(* exception, or an interrupt once they are enabled, decode what it finds  *)
(* there, and run a stub of isr.S or irq.S that saves the registers for a  *)
(* handler in C++.                                                         *)
(*                                                                         *)
(* What the controllers and irq_handler do is module Irq, what             *)
(* exception_panic does is module Panic.  A stack is a sequence whose head *)
(* is the word pushed last; the CPU aligns it before it pushes.            *)
(***************************************************************************)
EXTENDS Integers, Sequences, SequencesExt

CONSTANTS
  HALF,        \* 2^16: offset_1 and offset_2 of a gate are below it
  ALL_ONES,    \* the limit 0xFFFFFFFF
  Placements,  \* addresses the stubs may start at
  IDT_SIZE     \* 256

\* what the constants must be
ConstantsFit ==
  /\ HALF \in Nat \ {0, 1} /\ ALL_ONES \in Nat
  /\ IDT_SIZE \in Nat /\ IDT_SIZE >= 48
  /\ Placements \subseteq 0 .. (HALF * HALF) * (HALF * HALF) - 48

VARIABLES
  stage, k,        \* where ArchInit is; the next descriptor it writes
  base,            \* where the linker placed the stubs
  gdt, idt,
  gdtr, idtr,      \* TRUE when the register has the kernel's table
  cs, ds,
  enabled, regs, rip,   \* the interrupt flag, the general registers, who is running
  mode,            \* "runs", where a trap is, or what became of the machine
  vector,          \* of the trap
  stub,            \* the address the CPU jumped to
  stack            \* what the trap has pushed

tables == <<base, gdt, idt, gdtr, idtr>>
cpu    == <<cs, ds, enabled, regs, rip>>
trap   == <<mode, vector, stub, stack>>
vars   == <<stage, k, tables, cpu, trap>>

\* A word of the interrupted program.
Own(name) == <<"of", name>>

\* The registers in the order they are pushed, and struct Registers, from the word
\* pushed last.
PushOrder ==
  <<"rax", "rbx", "rcx", "rdx", "rsi", "rdi", "rbp",
    "r8", "r9", "r10", "r11", "r12", "r13", "r14", "r15">>
PopOrderSwapped ==
  <<"r15", "r14", "r13", "r12", "r11", "r10", "r9", "r8",
    "rbp", "rsi", "rdi", "rdx", "rcx", "rbx", "rax">>
PopOrder ==
  <<"r15", "r14", "r13", "r12", "r11", "r10", "r9", "r8",
    "rbp", "rdi", "rsi", "rdx", "rcx", "rbx", "rax">>
Fields ==
  <<"r15", "r14", "r13", "r12", "r11", "r10", "r9", "r8",
    "rbp", "rdi", "rsi", "rdx", "rcx", "rbx", "rax",
    "int_no", "error_code", "rip", "cs", "rflags", "rsp", "ss">>
Registers(field) == stack[CHOOSE i \in DOMAIN Fields : Fields[i] = field]
Wiped == 2

Exceptions == 0 .. 31
IrqLines   == 0 .. 15
Bit(n, i)  == (n \div 2^i) % 2 = 1
-----------------------------------------------------------------------------
(* The descriptors as the kernel writes them *)

NO_DESCRIPTOR == [limit_low |-> 0, base_low |-> 0, base_middle |-> 0,
                  access |-> 0, granularity |-> 0, base_high |-> 0]
NO_GATE == [offset_1 |-> 0, selector |-> 0, type_attributes |-> 0,
            offset_2 |-> 0, offset_3 |-> 0]

Flags(granularity) == (granularity % 16) * 16

SetGate(at, limit, access, granularity) ==
  [limit_low |-> limit % 2^16, base_low |-> at % 2^16,
   base_middle |-> (at \div 2^16) % 2^8, base_high |-> (at \div 2^24) % 2^8,
   granularity |-> ((limit \div 2^16) % 16) + Flags(granularity), access |-> access]

\* null; code and data of the kernel; data and code of the user
Segments ==
  <<SetGate(0, 0, 0, 0),
    SetGate(0, ALL_ONES, 154, 10), SetGate(0, ALL_ONES, 146, 12),
    SetGate(0, ALL_ONES, 242, 12), SetGate(0, ALL_ONES, 250, 10)>>

KERNEL_CS == 8
KERNEL_DS == 16
USER_DS   == 24
USER_CS   == 32
IDT_INTERRUPT_GATE == 142

UpperHalf(offset) == offset \div (HALF * HALF)
SetIDTGate(handler) ==
  [offset_1 |-> handler % HALF, offset_2 |-> (handler \div HALF) % HALF,
   offset_3 |-> UpperHalf(handler), selector |-> KERNEL_CS,
   type_attributes |-> IDT_INTERRUPT_GATE]

\* isr0 to isr31, and behind them irq0 to irq15
Stub(v) == base + v
-----------------------------------------------------------------------------
(* x86_64::ArchInit *)

Init ==
  /\ stage = "gdt" /\ k = 0
  /\ base \in Placements
  /\ gdt = [i \in 0 .. 4 |-> NO_DESCRIPTOR] /\ idt = [v \in 0 .. IDT_SIZE - 1 |-> NO_GATE]
  /\ gdtr = FALSE /\ idtr = FALSE
  /\ cs = 0 /\ ds = 0              \* the firmware's
  /\ enabled = FALSE                    \* the loader's cli
  /\ regs = [r \in Range(PushOrder) |-> Own(r)] /\ rip = "kernel"
  /\ mode = "runs" /\ vector = -1 /\ stub = 0 /\ stack = <<>>

Descriptor ==
  /\ stage = "gdt"
  /\ gdt' = [gdt EXCEPT ![k] = Segments[k + 1]]
  /\ IF k < 4 THEN k' = k + 1 /\ UNCHANGED stage ELSE k' = 0 /\ stage' = "flush"
  /\ UNCHANGED <<base, idt, gdtr, idtr, cpu>>

\* lgdt, and a far return to load cs
Flush ==
  /\ stage = "flush" /\ stage' = "idt"
  /\ gdtr' = TRUE /\ cs' = KERNEL_CS /\ ds' = KERNEL_DS
  /\ UNCHANGED <<k, base, gdt, idt, idtr, enabled, regs, rip>>

IdtInit ==
  /\ stage = "idt" /\ stage' = "isr"
  /\ idt' = [v \in DOMAIN idt |-> NO_GATE] /\ idtr' = TRUE
  /\ UNCHANGED <<k, base, gdt, gdtr, cpu>>

\* ISR::install and, after remap, IRQ::install
GatesBut(last) == last - 1
Gates(last)    == last

Gate ==
  /\ stage \in {"isr", "irq"}
  /\ idt' = [idt EXCEPT ![k] = SetIDTGate(Stub(k))]
  /\ k' = k + 1
  /\ stage' = CASE k = Gates(31) -> "irq" [] k = Gates(47) -> "sti" [] OTHER -> stage
  /\ UNCHANGED <<base, gdt, gdtr, idtr, cpu>>

Sti ==
  /\ stage = "sti" /\ stage' = "kernel"
  /\ enabled' = TRUE
  /\ UNCHANGED <<k, tables, cs, ds, regs, rip>>

ArchInit == mode = "runs" /\ (Descriptor \/ Flush \/ IdtInit \/ Gate \/ Sti) /\ UNCHANGED trap
-----------------------------------------------------------------------------
(* The CPU *)

\* A selector of the ring it asks for that finds a present 64-bit code segment.
CodeSegment(selector, ring) ==
  LET d == gdt[selector \div 8]
  IN  /\ selector \div 8 \in 1 .. 4
      /\ Bit(d.access, 7) /\ Bit(d.access, 4) /\ Bit(d.access, 3)
      /\ (d.access \div 32) % 4 = ring
      /\ Bit(d.granularity, 5) /\ ~Bit(d.granularity, 6)

DataSegment(selector, ring) ==
  LET d == gdt[selector \div 8]
  IN  /\ selector \div 8 \in 1 .. 4
      /\ Bit(d.access, 7) /\ Bit(d.access, 4) /\ ~Bit(d.access, 3) /\ Bit(d.access, 1)
      /\ (d.access \div 32) % 4 = ring

Usable(gate) ==
  Bit(gate.type_attributes, 7) /\ gate.type_attributes % 16 = 14 /\ CodeSegment(gate.selector, 0)

Offset(gate) == gate.offset_1 + HALF * gate.offset_2 + (HALF * HALF) * gate.offset_3

\* The exceptions for which the CPU pushes an error code.
WithErrorCode == {8, 10, 11, 12, 13, 14, 17, 21, 29, 30}

Frame(v) ==
  (IF v \in WithErrorCode THEN <<<<"error", v>>>> ELSE <<>>)
    \o <<Own("rip"), <<"selector", cs>>, <<"flags", enabled>>, Own("rsp"), Own("ss")>>

\* A trap: through the firmware's table as long as there is no other, and when
\* the gate is of no use to the end of the machine, a triple fault.
Trap(v) ==
  /\ mode = "runs" /\ rip = "kernel"
  /\ v \in Exceptions \/ (enabled /\ v - 32 \in IrqLines)
  /\ vector' = v
  /\ IF idtr /\ Usable(idt[v])
     THEN /\ mode' = "stub" /\ stub' = Offset(idt[v]) /\ stack' = Frame(v)
          /\ cs' = idt[v].selector /\ enabled' = FALSE /\ rip' = "stub"
     ELSE /\ mode' = IF idtr THEN "reset" ELSE "firmware"
          /\ UNCHANGED <<stub, stack, cs, enabled, rip>>
  /\ UNCHANGED <<stage, k, tables, ds, regs>>
-----------------------------------------------------------------------------
(* The stubs *)

\* the vectors whose stub pushes a 0 in place of an error code: the macro
\* NO_ERROR_CODE_ISR_STUB, and IRQ_STUB
NoErrorCode == (0 .. 47) \ {8, 10, 11, 12, 13, 14, 17, 21, 29, 30}

Number(v) == IF v < 32 THEN v ELSE v - 32

Push ==
  /\ mode = "stub"
  /\ LET v == stub - base
     IN  IF v \in 0 .. 47
         THEN /\ stack' = <<<<"number", Number(v)>>>>
                             \o (IF v \in NoErrorCode THEN <<<<"error", 0>>>> ELSE <<>>) \o stack
              /\ mode' = IF v < 32 THEN "exception" ELSE "irq"
         ELSE mode' = "lost" /\ UNCHANGED stack
  /\ UNCHANGED <<stage, k, tables, cpu, vector, stub>>

\* common_handler and common_handler_irq, up to the call
Save ==
  /\ mode \in {"exception", "irq"}
  /\ stack' = Reverse([i \in DOMAIN PushOrder |-> regs[PushOrder[i]]]) \o stack
  /\ rip' = "handler"
  /\ mode' = IF mode = "irq" THEN "irq_handler" ELSE "exception_panic"
  /\ UNCHANGED <<stage, k, tables, cs, ds, enabled, regs, vector, stub>>

\* The handler may leave anything in the registers.
Handle ==
  /\ mode = "irq_handler" /\ mode' = "restore"
  /\ regs' = [r \in DOMAIN regs |-> Own("handler")]
  /\ UNCHANGED <<stage, k, tables, cs, ds, enabled, rip, vector, stub, stack>>

\* the pops, and the two words of the stub
Restore ==
  /\ mode = "restore" /\ mode' = "iretq"
  /\ regs' = [r \in DOMAIN regs |-> stack[CHOOSE i \in DOMAIN PopOrder : PopOrder[i] = r]]
  /\ stack' = SubSeq(stack, Len(PopOrder) + Wiped + 1, Len(stack))
  /\ UNCHANGED <<stage, k, tables, cs, ds, enabled, rip, vector, stub>>

Iretq ==
  /\ mode = "iretq"
  /\ IF stack[1] = Own("rip") /\ stack[2][1] = "selector" /\ stack[3][1] = "flags"
     THEN /\ mode' = "runs" /\ rip' = "kernel"
          /\ cs' = stack[2][2] /\ enabled' = stack[3][2]
     ELSE mode' = "lost" /\ UNCHANGED <<cs, enabled, rip>>
  /\ vector' = -1 /\ stub' = 0 /\ stack' = <<>>
  /\ UNCHANGED <<stage, k, tables, ds, regs>>

Next ==
  \/ ArchInit
  \/ \E v \in 0 .. 47 : Trap(v)
  \/ Push \/ Save \/ Handle \/ Restore \/ Iretq

Spec == Init /\ [][Next]_vars
-----------------------------------------------------------------------------
TypeOK ==
  /\ stage \in {"gdt", "flush", "idt", "isr", "irq", "sti", "kernel"} /\ k \in 0 .. 48
  /\ \A v \in DOMAIN idt : idt[v].offset_1 < HALF /\ idt[v].offset_2 < HALF
                           /\ idt[v].offset_3 < HALF * HALF
  /\ \A i \in DOMAIN gdt : gdt[i].granularity < 2^8 /\ gdt[i].limit_low < 2^16
  /\ {gdtr, idtr, enabled} \subseteq BOOLEAN
  /\ mode \in {"runs", "stub", "exception", "irq", "exception_panic", "irq_handler",
               "restore", "iretq", "firmware", "reset", "lost"}
  /\ vector \in -1 .. 47 /\ Len(stack) <= 22

\* From the far return on, the selectors the kernel names find the segments they
\* are named for, of the right ring and, for code, in 64-bit mode.
SegmentsFit ==
  gdtr => /\ cs = KERNEL_CS /\ ds = KERNEL_DS
          /\ CodeSegment(KERNEL_CS, 0) /\ DataSegment(KERNEL_DS, 0)
          /\ CodeSegment(USER_CS, 3)   /\ DataSegment(USER_DS, 3)

\* The machine is lost to a trap only before the gate of that exception is
\* written: never afterwards, and never to an interrupt.
NoTripleFault ==
  /\ mode # "lost"
  /\ mode = "reset" => stage = "isr" /\ vector \in Exceptions /\ vector >= k

\* A handler finds in Registers what it reads there: its vector or line, the error
\* code where the CPU gives one, and the interrupted program.  It runs with
\* interrupts off, and the stack is aligned for the call as C++ expects, which
\* takes an even number of words.
Delivered ==
  mode \in {"irq_handler", "exception_panic"} =>
    /\ Registers("int_no") = <<"number", IF vector < 32 THEN vector ELSE vector - 32>>
    /\ (mode = "irq_handler") = (vector >= 32)
    /\ Registers("error_code") = <<"error", IF vector \in WithErrorCode THEN vector ELSE 0>>
    /\ \A field \in Range(PushOrder) \cup {"rip", "rsp", "ss"} : Registers(field) = Own(field)
    /\ Registers("cs") = <<"selector", KERNEL_CS>> /\ Registers("rflags")[1] = "flags"
    /\ ~enabled /\ Len(stack) % 2 = 0

\* An interrupt leaves no trace: back in the kernel its registers are its own and
\* interrupts are enabled as they were.
Resumes ==
  [][mode = "iretq" =>
       /\ mode' = "runs" /\ enabled' /\ cs' = KERNEL_CS
       /\ \A r \in DOMAIN regs : regs'[r] = Own(r)]_vars
=============================================================================
