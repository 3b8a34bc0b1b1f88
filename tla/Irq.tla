---------------------------------- MODULE Irq ----------------------------------
(***************************************************************************)
(* Hardware interrupts: the two interrupt controllers (8259A) as           *)
(* IRQ::remap sets them up, the CPU's interrupt flag, and irq_handler      *)
(* from its gate to iretq.                                                 *)
(*                                                                         *)
(* The first controller has the lines 0 to 7, the second, which hangs at   *)
(* line 2 of the first, has 8 to 15.  A handler that is installed does not *)
(* enable interrupts; the repository installs none.                        *)
(***************************************************************************)
EXTENDS Integers, FiniteSets, FiniteSetsExt

CONSTANTS Lines,       \* the lines that devices use
          MaxRaised    \* bound: how often a device raises its line

ASSUME IrqAssumption == Lines \subseteq (0 .. 15) \ {2} /\ MaxRaised \in Nat

CASCADE == 2
NO_IRQ  == -1

VARIABLES
  pc,           \* of the CPU: "boot", "kernel", or where irq_handler is
  int_no,       \* r->int_no, or NO_IRQ
  request,      \* IRR of both: the lines that ask for service
  service1, service2,   \* ISR of each: the lines being served
  routines,     \* irq_routines: the lines with a handler
  raised,       \* how often each line was raised
  called        \* the lines whose handler ran since the line was last raised

vars == <<pc, int_no, request, service1, service2, routines, raised, called>>
-------------------------------------------------------------------------------
Master == 0 .. 7
Slave  == 8 .. 15

\* The line by which the first controller knows a request: the second's all come
\* in at line 2, as ICW3 says.  Lower lines come first.
Rank(n) == IF n \in Slave THEN CASCADE ELSE n

\* A controller forwards a request only above what it is serving already.
Above(n, serving) == \A s \in serving : n < s
Pending ==
  {n \in request : Above(Rank(n), service1) /\ (n \in Slave => Above(n, service2))}
Ahead(m, n) == Rank(m) < Rank(n) \/ (Rank(m) = Rank(n) /\ m < n)

\* EOI ends the first in rank of what a controller serves.
Ended(serving) == IF serving = {} THEN {} ELSE serving \ {Min(serving)}

Init ==
  /\ pc = "boot" /\ int_no = NO_IRQ
  /\ request = {} /\ service1 \in {{}, {0}} /\ service2 = {}   \* left by the firmware
  /\ routines = {} /\ raised = [n \in Lines |-> 0] /\ called = {}

\* IRQ::install and the sti of ArchInit.  The first word that remap sends to a
\* controller clears it, and the last leaves no line masked.
Install ==
  /\ pc = "boot"
  /\ service1' = {} /\ service2' = {} /\ request' = {} /\ called' = {}
  /\ pc' = "kernel"
  /\ UNCHANGED <<int_no, routines, raised>>

InstallIRQHandler(n) ==
  /\ pc = "kernel" /\ n \notin routines
  /\ routines' = routines \cup {n}
  /\ UNCHANGED <<pc, int_no, request, service1, service2, raised, called>>

UninstallIRQHandler(n) ==
  /\ pc = "kernel" /\ n \in routines
  /\ routines' = routines \ {n}
  /\ UNCHANGED <<pc, int_no, request, service1, service2, raised, called>>

\* A device's edge.  A second one before the first is served is the same.
Raise(n) ==
  /\ raised[n] < MaxRaised
  /\ raised' = [raised EXCEPT ![n] = @ + 1]
  /\ request' = request \cup {n} /\ called' = called \ {n}
  /\ UNCHANGED <<pc, int_no, service1, service2, routines>>

\* The CPU, with interrupts enabled, is given the first line that is pending.
Enter(n) == pc' = "handler" /\ int_no' = n

Interrupt ==
  /\ pc = "kernel"
  /\ \E n \in Pending :
       /\ \A m \in Pending \ {n} : Ahead(n, m)
       /\ Enter(n)
       /\ request' = request \ {n}
       /\ service1' = service1 \cup {Rank(n)}
       /\ service2' = IF n \in Slave THEN service2 \cup {n} ELSE service2
  /\ UNCHANGED <<routines, raised, called>>

\* A line that fell again before the CPU asked for its number: a controller
\* then answers its last line, and does not count it as being served.
Spurious ==
  /\ pc = "kernel"
  /\ \/ Enter(7) /\ UNCHANGED service1
     \/ Enter(15) /\ service1' = service1 \cup {CASCADE}
  /\ UNCHANGED <<request, service2, routines, raised, called>>

\* irq_handler: the routine, if there is one, then EOI to the controllers.
CallRoutine ==
  /\ pc = "handler"
  /\ called' = IF int_no \in routines THEN called \cup ({int_no} \cap Lines) ELSE called
  /\ pc' = "eoi2"
  /\ UNCHANGED <<int_no, request, service1, service2, routines, raised>>

FromSlaveLate(n) == n > 8
FromSlave(n)     == n >= 8

Eoi2 ==
  /\ pc = "eoi2"
  /\ service2' = IF FromSlave(int_no) THEN Ended(service2) ELSE service2
  /\ pc' = "eoi1"
  /\ UNCHANGED <<int_no, request, service1, routines, raised, called>>

ToMasterOnly(n) == ~FromSlave(n)
ToMaster(n)     == TRUE

Eoi1 ==
  /\ pc = "eoi1"
  /\ service1' = IF ToMaster(int_no) THEN Ended(service1) ELSE service1
  /\ pc' = "iret"
  /\ UNCHANGED <<int_no, request, service2, routines, raised, called>>

Iret ==
  /\ pc = "iret"
  /\ pc' = "kernel" /\ int_no' = NO_IRQ
  /\ UNCHANGED <<request, service1, service2, routines, raised, called>>

Handler == CallRoutine \/ Eoi2 \/ Eoi1 \/ Iret

Next ==
  \/ Install \/ Interrupt \/ Spurious \/ Handler
  \/ \E n \in Lines : InstallIRQHandler(n) \/ UninstallIRQHandler(n) \/ Raise(n)

Spec == Init /\ [][Next]_vars

\* The CPU goes on executing, and takes an interrupt again and again when one
\* is there and it has them enabled.
FairSpec == Spec /\ WF_vars(Install) /\ WF_vars(Handler) /\ SF_vars(Interrupt)
-------------------------------------------------------------------------------
TypeOK ==
  /\ pc \in {"boot", "kernel", "handler", "eoi2", "eoi1", "iret"}
  /\ int_no \in (0 .. 15) \cup {NO_IRQ}
  /\ (int_no = NO_IRQ) <=> (pc \in {"boot", "kernel"})
  /\ request \subseteq Lines /\ routines \subseteq Lines /\ called \subseteq Lines
  /\ service1 \subseteq Master /\ service2 \subseteq Slave
  /\ raised \in [Lines -> 0 .. MaxRaised]

\* What a controller serves is what irq_handler handles, at both controllers
\* and until each got its EOI: back in the kernel neither serves anything, so
\* none holds a later interrupt back, and no EOI ends another's service.  This
\* is so after interrupts that were spurious as well.
Acknowledged ==
  pc # "boot" =>
    /\ service1 \subseteq IF pc \in {"handler", "eoi2", "eoi1"} THEN {Rank(int_no)} ELSE {}
    /\ service2 \subseteq IF pc \in {"handler", "eoi2"} THEN {int_no} ELSE {}

\* When devices do not raise their lines for ever, each request is answered: no
\* interrupt is left waiting at a controller that was not acknowledged.
Answered == \A n \in Lines : n \in request ~> n \notin request

\* And a handler that stays installed runs for it.
Handled ==
  \A n \in Lines :
    (pc # "boot" /\ n \in request \cap routines) ~> (n \in called \/ n \notin routines)
===============================================================================
