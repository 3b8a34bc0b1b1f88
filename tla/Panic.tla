--------------------------------- MODULE Panic ---------------------------------
(***************************************************************************)
(* How the kernel dies: panic, which ASSERT and PANIC call, and            *)
(* exception_panic, where every CPU exception ends, with the output they   *)
(* make through keprintf to the serial line and then to the console.       *)
(*                                                                         *)
(* A report is printed in pieces, one call of keprintf or kveprintf each.  *)
(* Printing may itself fault: an argument of the message may be bad, and   *)
(* there is no console before console_init.                                *)
(***************************************************************************)
EXTENDS Integers, Sequences, SequencesExt

CONSTANTS PIECES,    \* of a report: 3 in panic, 10 or 11 in exception_panic
          MaxLog     \* bound: how many lines the kernel prints with kprintf

\* what the constants must be
ConstantsFit == PIECES \in Nat \ {0} /\ MaxLog \in Nat

VARIABLES
  cpu,            \* "runs" or "halted"
  interrupts,     \* the CPU's interrupt flag
  paging,         \* VMM::init has run, and page 0 is not mapped
  console,        \* console_init has been called
  ROUTE_TO_COM,
  panicking,      \* the flag inside panic, and the one inside exception_panic
  excepting,
  reports,        \* the reports being made, each in the midst of the one before
  serial, screen, \* what was printed: <<kind of report, piece>>, or a log line
  logs            \* how many log lines there were

vars == <<cpu, interrupts, paging, console, ROUTE_TO_COM, panicking, excepting, reports,
          serial, screen, logs>>
output == <<serial, screen, logs>>
-------------------------------------------------------------------------------
SERIAL  == 1    \* the passes of a report: the variable i of its loop
CONSOLE == 0

FirstPass    == SERIAL

LOG == <<"log", 0>>

Report(kind) == [kind |-> kind, pass |-> FirstPass, piece |-> 1]
Current == Last(reports)
Piece   == <<Current.kind, Current.piece>>
Running == cpu = "runs"

Init ==
  /\ cpu = "runs" /\ interrupts \in BOOLEAN /\ paging = FALSE /\ console = FALSE
  /\ ROUTE_TO_COM = TRUE
  /\ panicking = FALSE /\ excepting = FALSE /\ reports = << >>
  /\ serial = << >> /\ screen = << >> /\ logs = 0

\* _start on its way.
VMMInit ==
  /\ Running /\ reports = << >> /\ ~paging
  /\ paging' = TRUE
  /\ UNCHANGED <<cpu, interrupts, console, ROUTE_TO_COM, panicking, excepting, reports, output>>

ConsoleInit ==
  /\ Running /\ reports = << >> /\ paging /\ ~console
  /\ console' = TRUE
  /\ UNCHANGED <<cpu, interrupts, paging, ROUTE_TO_COM, panicking, excepting, reports, output>>

\* conout prints on the screen, and before that on the serial line.
OnConsole(what) ==
  /\ serial' = IF ROUTE_TO_COM' THEN Append(serial, what) ELSE serial
  /\ screen' = Append(screen, what)

\* kprintf, by the kernel or by an interrupt handler.
Log ==
  /\ Running /\ (reports = << >> \/ interrupts)
  /\ console /\ logs < MaxLog
  /\ UNCHANGED ROUTE_TO_COM
  /\ OnConsole(LOG) /\ logs' = logs + 1
  /\ UNCHANGED <<cpu, interrupts, paging, console, panicking, excepting, reports>>

InterruptsOff == FALSE

\* panic.  A second call would halt at once.
Panics ==
  /\ Running /\ reports = << >>
  /\ interrupts' = InterruptsOff
  /\ IF panicking THEN cpu' = "halted" /\ UNCHANGED reports
                  ELSE cpu' = cpu /\ reports' = Append(reports, Report("panic"))
  /\ panicking' = TRUE
  /\ UNCHANGED <<paging, console, ROUTE_TO_COM, excepting, output>>

Noted == TRUE

Again   == "runs"     \* a handler that returns: the instruction faults again
Stopped == "halted"

\* An exception: its gate clears the interrupt flag, exception_panic reports it
\* unless one is being reported already.
Faults ==
  /\ Running
  /\ interrupts' = FALSE
  /\ IF excepting THEN cpu' = Stopped /\ UNCHANGED reports
                  ELSE cpu' = cpu /\ reports' = Append(reports, Report("exception"))
  /\ excepting' = Noted
  /\ UNCHANGED <<paging, console, ROUTE_TO_COM, panicking, output>>

\* What the report does next: a piece, the next pass, or halt.
Advance ==
  LET r == Current
  IN  IF r.piece < PIECES
        THEN reports' = Append(Front(reports), [r EXCEPT !.piece = @ + 1]) /\ UNCHANGED cpu
      ELSE IF r.pass = FirstPass
        THEN /\ reports' = Append(Front(reports), [r EXCEPT !.pass = 1 - @, !.piece = 1])
             /\ UNCHANGED cpu
      ELSE cpu' = "halted" /\ UNCHANGED reports

RouteKept == ROUTE_TO_COM
RouteOff  == FALSE

\* keprintf and kveprintf.
PrintSerial ==
  /\ Running /\ reports # << >> /\ Current.pass = SERIAL
  /\ ROUTE_TO_COM' = RouteOff
  /\ serial' = Append(serial, Piece) /\ Advance
  /\ UNCHANGED <<interrupts, paging, console, panicking, excepting, screen, logs>>

PrintConsole ==
  /\ Running /\ reports # << >> /\ Current.pass = CONSOLE /\ console
  /\ ROUTE_TO_COM' = RouteOff
  /\ OnConsole(Piece) /\ Advance
  /\ UNCHANGED <<interrupts, paging, console, panicking, excepting, logs>>

\* Without a console print_char takes address 0 for its object.  Once VMM::init
\* has run it must fault; before that it may print nothing that is seen.
PrintLost ==
  /\ Running /\ reports # << >> /\ Current.pass = CONSOLE /\ ~console /\ ~paging
  /\ ROUTE_TO_COM' = RouteOff
  /\ Advance
  /\ UNCHANGED <<interrupts, paging, console, panicking, excepting, output>>

FaultsInReport == reports # << >> /\ Faults

Halted == cpu = "halted" /\ UNCHANGED vars

Printing == PrintSerial \/ PrintConsole \/ PrintLost

Next == VMMInit \/ ConsoleInit \/ Log \/ Panics \/ Faults \/ Printing \/ Halted

\* A report goes on printing, whatever else happens.
FairSpec == Init /\ [][Next]_vars /\ WF_vars(Printing \/ FaultsInReport)
-------------------------------------------------------------------------------
Kinds == {"panic", "exception"}

\* Among the types: no report is made in the midst of another of its kind.
TypeOK ==
  /\ cpu \in {"runs", "halted"} /\ logs \in 0 .. MaxLog
  /\ reports \in Seq([kind : Kinds, pass : {SERIAL, CONSOLE}, piece : 1 .. PIECES])
  /\ \A j, k \in DOMAIN reports : j # k => reports[j].kind # reports[k].kind

\* Of a report the serial line has every piece before the screen has the first,
\* so that a report which dies for want of a console has been read.
SerialFirst ==
  \A k \in DOMAIN screen : \A piece \in 1 .. PIECES :
    screen[k] # LOG => <<screen[k][1], piece>> \in ToSet(serial)

\* The serial line has each piece of a report once, although the console
\* otherwise repeats there what it prints.
Once == \A j, k \in DOMAIN serial : j # k /\ serial[j] = serial[k] => serial[j] = LOG

\* Nothing else is printed once a report has begun: the log ends, although
\* interrupt handlers may print.
Undisturbed ==
  \A out \in {serial, screen} : \A j, k \in DOMAIN out : j < k /\ out[k] = LOG => out[j] = LOG

\* A report is on the serial line before it is on the screen, once, and with nothing
\* else in its midst.
Reports == TypeOK /\ SerialFirst /\ Once /\ Undisturbed

\* Whoever begins to report halts, with whatever faults on the way.
Halts == reports # << >> ~> cpu = "halted"
===============================================================================
