-------------------------------- MODULE Loader --------------------------------
(***************************************************************************)
(* The boot loader: efi_main, LoadBMPFile and handover, with the firmware  *)
(* they call.  What matters of the firmware is what the loader has from it *)
(* and whether its memory map has changed since the loader read it.        *)
(*                                                                         *)
(* One step is one stage of efi_main or LoadBMPFile, or one call that      *)
(* handover makes; each may fail where the code looks at the result.       *)
(***************************************************************************)
EXTENDS Integers

CONSTANTS ATTEMPTS,    \* 3 in the code
          SLACK,       \* descriptors the buffer has to spare, 4 in the code
          MaxEvents    \* bound: how often the firmware's map changes by itself

ASSUME LoaderAssumption == ATTEMPTS \in Nat \ {0} /\ SLACK \in Nat /\ MaxEvents \in Nat

VARIABLES
  pc,
  err,
  owned,     \* what the loader has from the firmware and has not given back
  attempt, buffers,          \* the loop of handover; attempts whose mmap is allocated
  size,      \* the descriptors there is room for in mmap
  info,      \* bootInfo->mmap: the attempt of the buffer, and what was owned in it
  entries,   \* the descriptors of the firmware's memory map
  fresh,     \* the key is that of the map as it is
  events

firmware == <<entries, fresh, events>>
vars == <<pc, err, owned, attempt, buffers, size, info, firmware>>
-------------------------------------------------------------------------------
Errors == {"OUT_OF_RESOURCES", "LOAD_ERROR", "OTHER"}
OOR    == {"OUT_OF_RESOURCES"}
KEEP   == {}    \* the failure leaves err as it is

\* A stage: what it acquires and releases when it succeeds, what it sets err to
\* then (or ""), where it goes, and what it releases when it fails, the errors
\* it may fail with, and where it goes with them.
Stage(gets, drops, ok, next, lost, fails, to) ==
  [gets |-> gets, drops |-> drops, ok |-> ok, next |-> next, lost |-> lost,
   fails |-> fails, to |-> to]

\* The error that is preset before the image is checked, kept until the font.
PresetLate == ""
Preset     == "LOAD_ERROR"

Stages ==
 [protocol  |-> Stage({"protocol"}, {}, "SUCCESS", "root", {}, Errors, "out"),
  root      |-> Stage({"root"}, {}, "SUCCESS", "kernel", {}, Errors, "out"),
  kernel    |-> Stage({"kernel"}, {}, "SUCCESS", "fileInfo", {}, Errors, "out"),
  fileInfo  |-> Stage({"fileInfo"}, {}, "", "raw", {}, OOR, "out"),
  raw       |-> Stage({"raw"}, {"fileInfo"}, Preset, "check", {"fileInfo"}, OOR, "out"),
  check     |-> Stage({}, {}, "", "place", {}, KEEP, "out"),
  place     |-> Stage({"image"}, {}, "", "segments", {}, OOR, "out"),
  segments  |-> Stage({}, {}, "", "font", {}, KEEP, "out"),
  \* LoadBMPFile, whose err becomes that of efi_main
  font      |-> Stage({"fontFile"}, {}, "SUCCESS", "fontSize", {}, Errors, "fontOut"),
  fontSize  |-> Stage({}, {}, "", "fontPool", {}, {"LOAD_ERROR"}, "fontOut"),
  fontPool  |-> Stage({"fontInfo"}, {}, "SUCCESS", "fontInfo", {}, Errors, "fontOut"),
  fontInfo  |-> Stage({}, {}, "SUCCESS", "fontPages", {}, Errors, "fontOut"),
  fontPages |-> Stage({"font"}, {}, "SUCCESS", "fontRead", {}, Errors, "fontOut"),
  fontRead  |-> Stage({}, {}, "SUCCESS", "fontOut", {"font"}, Errors, "fontOut"),
  \* efi_main again
  gop       |-> Stage({}, {}, "SUCCESS", "bootInfo", {}, Errors, "out"),
  bootInfo  |-> Stage({"bootInfo"}, {}, "SUCCESS", "stack", {}, Errors, "out"),
  \* handover
  stack     |-> Stage({"stack"}, {}, "", "query", {}, OOR, "out")]

\* Memory that comes or goes changes the firmware's map.
Takes(new) == owned' = new /\ (new # owned => fresh' = FALSE) /\ (new = owned => fresh' = fresh)

Init ==
  /\ pc = "protocol" /\ err = "SUCCESS" /\ owned = {}
  /\ attempt = 0 /\ buffers = {} /\ size = 0 /\ info = [buffer |-> 0, listed |-> {}]
  /\ entries = 1 /\ fresh = FALSE /\ events = 0

Succeed ==
  /\ pc \in DOMAIN Stages
  /\ LET s == Stages[pc]
     IN  /\ Takes((owned \ s.drops) \cup s.gets)
         /\ err' = IF s.ok = "" THEN err ELSE s.ok
         /\ pc' = s.next
  /\ UNCHANGED <<attempt, buffers, size, info, entries, events>>

Fail ==
  /\ pc \in DOMAIN Stages
  /\ LET s == Stages[pc]
     IN  /\ Takes(owned \ s.lost)
         /\ err' \in IF s.fails = KEEP THEN {err} ELSE s.fails
         /\ pc' = s.to
  /\ UNCHANGED <<attempt, buffers, size, info, entries, events>>

\* The end of LoadBMPFile, with or without an error.
FontOut ==
  /\ pc = "fontOut"
  /\ Takes(owned \ {"fontInfo", "fontFile"})
  /\ pc' = IF err = "SUCCESS" THEN "gop" ELSE "out"
  /\ UNCHANGED <<err, attempt, buffers, size, info, entries, events>>
-------------------------------------------------------------------------------
HandoverReturns(e) == err' = e /\ pc' = "out"

\* The size of the map, with room for some more descriptors.
Query ==
  /\ pc = "query"
  /\ \/ pc' = "pool" /\ size' = entries + SLACK /\ UNCHANGED err
     \/ HandoverReturns("LOAD_ERROR") /\ UNCHANGED size
  /\ UNCHANGED <<owned, attempt, buffers, info, firmware>>

\* AllocatePool may itself split a range of memory.
Pool ==
  /\ pc = "pool"
  /\ \/ /\ buffers' = buffers \cup {attempt} /\ pc' = "read"
        /\ entries' \in entries .. entries + 1 /\ fresh' = FALSE
        /\ UNCHANGED err
     \/ HandoverReturns("OUT_OF_RESOURCES") /\ UNCHANGED <<buffers, entries, fresh>>
  /\ UNCHANGED <<owned, attempt, size, info, events>>

FilledOnce(t) == IF attempt = 0 THEN t ELSE info
Filled(t)     == t

ReadMap ==
  /\ pc = "read"
  /\ \/ /\ entries <= size
        /\ fresh' = TRUE /\ pc' = "exit"
        /\ info' = Filled([buffer |-> attempt, listed |-> owned])
     \/ pc' = "free" /\ UNCHANGED <<fresh, info>>
  /\ UNCHANGED <<err, owned, attempt, buffers, size, entries, events>>

\* ExitBootServices accepts the key of the current map only.
ExitBoot ==
  /\ pc = "exit"
  /\ pc' = IF fresh THEN "kernel entered" ELSE "free"
  /\ UNCHANGED <<err, owned, attempt, buffers, size, info, firmware>>

Freed == {attempt}

SameAttempt == attempt
NextAttempt == attempt + 1

TriedAll(n) == n = ATTEMPTS

FreeMap ==
  /\ pc = "free"
  /\ buffers' = buffers \ Freed /\ fresh' = FALSE
  /\ IF TriedAll(NextAttempt)
       THEN HandoverReturns("LOAD_ERROR") /\ UNCHANGED attempt
       ELSE attempt' = NextAttempt /\ pc' = "query" /\ UNCHANGED err
  /\ UNCHANGED <<owned, size, info, entries, events>>

\* The label out of efi_main.
Out ==
  /\ pc = "out"
  /\ Takes(owned \ {"protocol", "raw"})
  /\ pc' = "returned"
  /\ UNCHANGED <<err, attempt, buffers, size, info, entries, events>>

\* The firmware's own work, on a timer, changes its map.
Event ==
  /\ pc \notin {"kernel entered", "returned"} /\ events < MaxEvents
  /\ events' = events + 1 /\ fresh' = FALSE
  /\ entries' \in entries .. entries + 1
  /\ UNCHANGED <<pc, err, owned, attempt, buffers, size, info>>

Ended == pc \in {"kernel entered", "returned"} /\ UNCHANGED vars

Work == Succeed \/ Fail \/ FontOut \/ Query \/ Pool \/ ReadMap \/ ExitBoot \/ FreeMap \/ Out

Next == Work \/ Event \/ Ended

\* The loader is the only program of the machine, and its calls return.
FairSpec == Init /\ [][Next]_vars /\ WF_vars(Work)
-------------------------------------------------------------------------------
TypeOK ==
  /\ pc \in DOMAIN Stages \cup {"fontOut", "query", "pool", "read", "exit", "free", "out",
                                "kernel entered", "returned"}
  /\ err \in Errors \cup {"SUCCESS"}
  /\ owned \subseteq UNION {Stages[s].gets : s \in DOMAIN Stages}
  /\ attempt \in 0 .. ATTEMPTS - 1
  /\ buffers \subseteq 0 .. ATTEMPTS - 1
  /\ info.buffer \in 0 .. ATTEMPTS - 1 /\ entries \in 1 .. 1 + events + attempt + 1

\* The kernel is entered with everything it was promised in place: the map it
\* is given is in memory that was not freed, and lists, as the loader's, all
\* that the loader had when boot services ended, so that the kernel does not
\* take its own image, stack, font or boot information for free memory.
HandsOver ==
  pc = "kernel entered" =>
    /\ {"image", "font", "bootInfo", "stack"} \subseteq info.listed
    /\ info.listed = owned
    /\ info.buffer \in buffers

\* When efi_main returns, the firmware is told of an error: no way to the label
\* `out` leaves err at the success of an earlier call.
SaysWhy == pc = "returned" => err # "SUCCESS"

\* And every pool, and the font's file, is given back by then, at whatever stage it
\* ended.  (Other file handles, and pages of later use, are not, nor does the code say so.)
PoolsReleased ==
  pc = "returned" => buffers = {} /\ owned \cap {"raw", "fileInfo", "fontInfo", "fontFile"} = {}

\* LoadBMPFile that fails keeps no page: what it had for the font when the read
\* came short has gone back before it returns.
FontReleased == pc = "fontOut" /\ err # "SUCCESS" => "font" \notin owned

\* Loader is well typed; when efi_main returns, it says why, and the pools are
\* given back; and so are a font's pages that could not be filled.
Leaves == TypeOK /\ SaysWhy /\ PoolsReleased /\ FontReleased

\* The loader comes to an end, however often the map changes under its hands.
Ends == <>(pc \in {"kernel entered", "returned"})
===============================================================================
