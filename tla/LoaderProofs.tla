----------------------------- MODULE LoaderProofs -----------------------------
(***************************************************************************)
(* Proofs about Loader: whatever the firmware refuses, and however often   *)
(* its memory map changes, the kernel is entered only with all it was      *)
(* promised (HandsOver), and efi_main returns only with an error and with  *)
(* its pools, and pages of a font it could not read, given back (Leaves).  *)
(*                                                                         *)
(* Neither is inductive: that nothing is missing at the end is so because  *)
(* of what each stage before it has acquired, so LInv says of every place  *)
(* in the code what the loader has there and what err is.                  *)
(*                                                                         *)
(* About ElfImage: the image entered is the one in the file, if the file   *)
(* is as the loader takes it for granted (Loads).  What is needed beside   *)
(* it says, up to the header a pass has come to, which range has been      *)
(* measured and which segment each byte is from (EInv).                    *)
(* About Mem: the bytes arrive (Bytes), because those not copied yet, or   *)
(* not set, are as they were when the call began (MInv).                   *)
(*                                                                         *)
(* About LoaderText: what the user is told is so (Shows).  The walk has no *)
(* partition and no broken node behind it, and what PrintInt has in buf    *)
(* and what is left of the number make up the number (TellsInv).  Most of  *)
(* the proof is about digits: what their value is, and that the digits of  *)
(* a number, of a byte and of a GUID's numbers have the value they are of. *)
(***************************************************************************)
EXTENDS MC_Loader, WellFoundedInduction, TLAPS

\* The places in the code of handover's loop, after the stage "stack".
Handover == {"query", "pool", "read", "exit", "free", "kernel entered"}

\* What efi_main has once its kernel, and once the font, is in memory.
Kernel == {"protocol", "root", "kernel", "raw", "image"}
Loaded == Kernel \cup {"font"}

\* What LoadBMPFile gives back at its end, and what is then left.
FontPools == {"fontInfo", "fontFile"}

\* What the loader has at the beginning of each stage.
Holdings ==
 [protocol  |-> {},
  root      |-> {"protocol"},
  kernel    |-> {"protocol", "root"},
  fileInfo  |-> {"protocol", "root", "kernel"},
  raw       |-> {"protocol", "root", "kernel", "fileInfo"},
  check     |-> {"protocol", "root", "kernel", "raw"},
  place     |-> {"protocol", "root", "kernel", "raw"},
  segments  |-> Kernel,
  font      |-> Kernel,
  fontSize  |-> Kernel \cup {"fontFile"},
  fontPool  |-> Kernel \cup {"fontFile"},
  fontInfo  |-> Kernel \cup FontPools,
  fontPages |-> Kernel \cup FontPools,
  fontRead  |-> Loaded \cup FontPools,
  gop       |-> Loaded,
  bootInfo  |-> Loaded,
  stack     |-> Loaded \cup {"bootInfo"}]

All == Loaded \cup {"bootInfo", "stack"}

Held ==
  /\ pc \in DOMAIN Stages => owned = Holdings[pc]
  /\ pc \in Handover => owned = All
  /\ pc = "fontOut" => Kernel \subseteq owned /\ owned \subseteq Loaded \cup FontPools
  /\ pc = "out" => owned \subseteq All
  /\ pc = "returned" => owned \subseteq All \ {"raw"}

\* An error is known wherever efi_main may go on to its end without setting one;
\* and LoadBMPFile has the font at its end exactly if it ends without an error.
Known ==
  /\ pc \in {"check", "place", "segments", "out", "returned"} => err # "SUCCESS"
  /\ pc = "fontOut" => (err = "SUCCESS" <=> "font" \in owned)

\* From Pool to FreeMap the attempt has its buffer, and no other has; and what
\* ExitBootServices is asked with is what was read into it.
Buffered ==
  /\ buffers = IF pc \in {"read", "exit", "free", "kernel entered"} THEN {attempt} ELSE {}
  /\ pc \in {"exit", "kernel entered"} => info.buffer = attempt /\ info.listed = owned

\* The map grows with each event, and with each attempt once.
Growth ==
  /\ events \in Nat
  /\ pc \in DOMAIN Stages \cup {"fontOut", "query", "pool"} => entries <= 1 + events + attempt

LInv == TypeOK /\ Held /\ Known /\ Buffered /\ Growth
-------------------------------------------------------------------------------
\* What the tables are made of: the stages, and all that a stage may acquire.
Names ==
  {"protocol", "root", "kernel", "fileInfo", "raw", "check", "place", "segments", "font",
   "fontSize", "fontPool", "fontInfo", "fontPages", "fontRead", "gop", "bootInfo", "stack"}

Things == All \cup FontPools \cup {"fileInfo"}

LEMMA Domains == DOMAIN Stages = Names /\ DOMAIN Holdings = Names
  BY DEF Stages, Holdings, Names

LEMMA Order ==
  /\ Stages["protocol"].next = "root"
  /\ Stages["root"].next = "kernel"
  /\ Stages["kernel"].next = "fileInfo"
  /\ Stages["fileInfo"].next = "raw"
  /\ Stages["raw"].next = "check"
  /\ Stages["check"].next = "place"
  /\ Stages["place"].next = "segments"
  /\ Stages["segments"].next = "font"
  /\ Stages["font"].next = "fontSize"
  /\ Stages["fontSize"].next = "fontPool"
  /\ Stages["fontPool"].next = "fontInfo"
  /\ Stages["fontInfo"].next = "fontPages"
  /\ Stages["fontPages"].next = "fontRead"
  /\ Stages["fontRead"].next = "fontOut"
  /\ Stages["gop"].next = "bootInfo"
  /\ Stages["bootInfo"].next = "stack"
  /\ Stages["stack"].next = "query"
  BY DEF Stages, Stage

\* What a stage acquires is among Things.
Acquires(s) == Stages[s].gets \subseteq Things

LEMMA Acquired == \A s \in Names : Acquires(s)
<1>. USE DEF Acquires, Stages, Stage, Things, All, Loaded, Kernel, FontPools
<1>1. Acquires("protocol")  OBVIOUS
<1>2. Acquires("root")  OBVIOUS
<1>3. Acquires("kernel")  OBVIOUS
<1>4. Acquires("fileInfo")  OBVIOUS
<1>5. Acquires("raw")  OBVIOUS
<1>6. Acquires("check")  OBVIOUS
<1>7. Acquires("place")  OBVIOUS
<1>8. Acquires("segments")  OBVIOUS
<1>9. Acquires("font")  OBVIOUS
<1>10. Acquires("fontSize")  OBVIOUS
<1>11. Acquires("fontPool")  OBVIOUS
<1>12. Acquires("fontInfo")  OBVIOUS
<1>13. Acquires("fontPages")  OBVIOUS
<1>14. Acquires("fontRead")  OBVIOUS
<1>15. Acquires("gop")  OBVIOUS
<1>16. Acquires("bootInfo")  OBVIOUS
<1>17. Acquires("stack")  OBVIOUS
<1>. HIDE DEF Acquires, Stages, Stage, Things, All, Loaded, Kernel, FontPools
<1>. QED  BY <1>1, <1>2, <1>3, <1>4, <1>5, <1>6, <1>7, <1>8, <1>9, <1>10, <1>11, <1>12, <1>13, <1>14, <1>15, <1>16, <1>17 DEF Names

LEMMA AllThings == UNION {Stages[s].gets : s \in DOMAIN Stages} = Things
<1>1. \A x \in Things : \E s \in Names : x \in Stages[s].gets
  BY DEF Names, Stages, Stage, Things, All, Loaded, Kernel, FontPools
<1>. QED  BY <1>1, Acquired, Domains DEF Acquires

\* A stage that succeeds leads to the next one, and the last ones out of
\* LoadBMPFile and into handover,
LEMMA Leading ==
  ASSUME NEW s \in Names
  PROVE  /\ Stages[s].next \in Names \cup {"fontOut", "query"}
         /\ Stages[s].next = "query" <=> s = "stack"
         /\ Stages[s].next = "fontOut" <=> s = "fontRead"
  BY Order DEF Names

\* with an error where one will be needed,
Presets(s) ==
  /\ Stages[s].ok \in Errors \cup {"SUCCESS", ""}
  /\ Stages[s].next \in {"check", "place", "segments"}
       => Stages[s].ok = "LOAD_ERROR" \/ (Stages[s].ok = "" /\ s \in {"check", "place"})
  /\ Stages[s].next = "fontOut" => Stages[s].ok = "SUCCESS"

LEMMA Presetting == \A s \in Names : Presets(s)
<1>. USE DEF Presets, Stages, Stage, Errors, Preset
<1>1. Presets("protocol")  OBVIOUS
<1>2. Presets("root")  OBVIOUS
<1>3. Presets("kernel")  OBVIOUS
<1>4. Presets("fileInfo")  OBVIOUS
<1>5. Presets("raw")  OBVIOUS
<1>6. Presets("check")  OBVIOUS
<1>7. Presets("place")  OBVIOUS
<1>8. Presets("segments")  OBVIOUS
<1>9. Presets("font")  OBVIOUS
<1>10. Presets("fontSize")  OBVIOUS
<1>11. Presets("fontPool")  OBVIOUS
<1>12. Presets("fontInfo")  OBVIOUS
<1>13. Presets("fontPages")  OBVIOUS
<1>14. Presets("fontRead")  OBVIOUS
<1>15. Presets("gop")  OBVIOUS
<1>16. Presets("bootInfo")  OBVIOUS
<1>17. Presets("stack")  OBVIOUS
<1>. HIDE DEF Presets, Stages, Stage, Errors, Preset
<1>. QED  BY <1>1, <1>2, <1>3, <1>4, <1>5, <1>6, <1>7, <1>8, <1>9, <1>10, <1>11, <1>12, <1>13, <1>14, <1>15, <1>16, <1>17 DEF Names

\* and with what is to be there.
Leaving(s) == (Holdings[s] \ Stages[s].drops) \cup Stages[s].gets

Gathers(s) ==
  Leaving(s) = IF s = "fontRead" THEN Loaded \cup FontPools
               ELSE IF s = "stack" THEN All ELSE Holdings[Stages[s].next]

LEMMA Gathering == \A s \in Names : Gathers(s)
<1>. USE DEF Gathers, Leaving, Stages, Stage, Holdings, All, Loaded, Kernel, FontPools
<1>1. Gathers("protocol")  OBVIOUS
<1>2. Gathers("root")  OBVIOUS
<1>3. Gathers("kernel")  OBVIOUS
<1>4. Gathers("fileInfo")  OBVIOUS
<1>5. Gathers("raw")  OBVIOUS
<1>6. Gathers("check")  OBVIOUS
<1>7. Gathers("place")  OBVIOUS
<1>8. Gathers("segments")  OBVIOUS
<1>9. Gathers("font")  OBVIOUS
<1>10. Gathers("fontSize")  OBVIOUS
<1>11. Gathers("fontPool")  OBVIOUS
<1>12. Gathers("fontInfo")  OBVIOUS
<1>13. Gathers("fontPages")  OBVIOUS
<1>14. Gathers("fontRead")  OBVIOUS
<1>15. Gathers("gop")  OBVIOUS
<1>16. Gathers("bootInfo")  OBVIOUS
<1>17. Gathers("stack")  OBVIOUS
<1>. HIDE DEF Gathers, Leaving, Stages, Stage, Holdings, All, Loaded, Kernel, FontPools
<1>. QED  BY <1>1, <1>2, <1>3, <1>4, <1>5, <1>6, <1>7, <1>8, <1>9, <1>10, <1>11, <1>12, <1>13, <1>14, <1>15, <1>16, <1>17 DEF Names

\* A stage that fails does so with an error, that of an earlier stage at the two
\* which set none, and leads to one of the two labels.
Excuses(s) ==
  /\ Stages[s].fails \subseteq Errors
  /\ Stages[s].fails = KEEP => s \in {"check", "segments"}

LEMMA Excusing == \A s \in Names : Excuses(s)
<1>. USE DEF Excuses, Stages, Stage, Errors, OOR, KEEP
<1>1. Excuses("protocol")  OBVIOUS
<1>2. Excuses("root")  OBVIOUS
<1>3. Excuses("kernel")  OBVIOUS
<1>4. Excuses("fileInfo")  OBVIOUS
<1>5. Excuses("raw")  OBVIOUS
<1>6. Excuses("check")  OBVIOUS
<1>7. Excuses("place")  OBVIOUS
<1>8. Excuses("segments")  OBVIOUS
<1>9. Excuses("font")  OBVIOUS
<1>10. Excuses("fontSize")  OBVIOUS
<1>11. Excuses("fontPool")  OBVIOUS
<1>12. Excuses("fontInfo")  OBVIOUS
<1>13. Excuses("fontPages")  OBVIOUS
<1>14. Excuses("fontRead")  OBVIOUS
<1>15. Excuses("gop")  OBVIOUS
<1>16. Excuses("bootInfo")  OBVIOUS
<1>17. Excuses("stack")  OBVIOUS
<1>. HIDE DEF Excuses, Stages, Stage, Errors, OOR, KEEP
<1>. QED  BY <1>1, <1>2, <1>3, <1>4, <1>5, <1>6, <1>7, <1>8, <1>9, <1>10, <1>11, <1>12, <1>13, <1>14, <1>15, <1>16, <1>17 DEF Names

Retreats(s) ==
  LET left == Holdings[s] \ Stages[s].lost
  IN  \/ Stages[s].to = "out" /\ left \subseteq All
      \/ Stages[s].to = "fontOut" /\ Kernel \subseteq left /\ left \subseteq Kernel \cup FontPools

LEMMA Retreating == \A s \in Names : Retreats(s)
<1>. USE DEF Retreats, Stages, Stage, Holdings, All, Loaded, Kernel, FontPools
<1>1. Retreats("protocol")  OBVIOUS
<1>2. Retreats("root")  OBVIOUS
<1>3. Retreats("kernel")  OBVIOUS
<1>4. Retreats("fileInfo")  OBVIOUS
<1>5. Retreats("raw")  OBVIOUS
<1>6. Retreats("check")  OBVIOUS
<1>7. Retreats("place")  OBVIOUS
<1>8. Retreats("segments")  OBVIOUS
<1>9. Retreats("font")  OBVIOUS
<1>10. Retreats("fontSize")  OBVIOUS
<1>11. Retreats("fontPool")  OBVIOUS
<1>12. Retreats("fontInfo")  OBVIOUS
<1>13. Retreats("fontPages")  OBVIOUS
<1>14. Retreats("fontRead")  OBVIOUS
<1>15. Retreats("gop")  OBVIOUS
<1>16. Retreats("bootInfo")  OBVIOUS
<1>17. Retreats("stack")  OBVIOUS
<1>. HIDE DEF Retreats, Stages, Stage, Holdings, All, Loaded, Kernel, FontPools
<1>. QED  BY <1>1, <1>2, <1>3, <1>4, <1>5, <1>6, <1>7, <1>8, <1>9, <1>10, <1>11, <1>12, <1>13, <1>14, <1>15, <1>16, <1>17 DEF Names

\* What is in order at each place of the code.
Places == Names \cup Handover \cup {"fontOut", "out", "returned"}

LEMMA Typing ==
  TypeOK <=> /\ pc \in Places
             /\ err \in Errors \cup {"SUCCESS"}
             /\ owned \subseteq Things
             /\ attempt \in 0 .. ATTEMPTS - 1
             /\ buffers \subseteq 0 .. ATTEMPTS - 1
             /\ info.buffer \in 0 .. ATTEMPTS - 1
             /\ entries \in 1 .. 1 + events + attempt + 1
  BY Domains, AllThings DEF TypeOK, Places, Handover

LEMMA InitLInv == Init => LInv
<1>. SUFFICES ASSUME Init  PROVE LInv
  OBVIOUS
<1>1. TypeOK
  BY Typing, LoaderAssumption DEF Init, Places, Names
<1>2. Holdings["protocol"] = {}
  BY DEF Holdings
<1>. QED  BY <1>1, <1>2, Domains, LoaderAssumption
          DEF Init, LInv, Held, Known, Buffered, Growth, Handover, Names

LEMMA TypingNext ==
  TypeOK' <=> /\ pc' \in Places
              /\ err' \in Errors \cup {"SUCCESS"}
              /\ owned' \subseteq Things
              /\ attempt' \in 0 .. ATTEMPTS - 1
              /\ buffers' \subseteq 0 .. ATTEMPTS - 1
              /\ info'.buffer \in 0 .. ATTEMPTS - 1
              /\ entries' \in 1 .. 1 + events' + attempt' + 1
  BY Domains, AllThings DEF TypeOK, Places, Handover

LEMMA SucceedLInv ==
  ASSUME LInv, Succeed
  PROVE  LInv'
<1>. USE DEF LInv
<1>1. pc \in Names /\ owned = Holdings[pc] /\ owned' = Leaving(pc) /\ pc' = Stages[pc].next
  BY Domains DEF Succeed, Held, Takes, Leaving
<1>2. UNCHANGED <<attempt, buffers, size, info, entries, events>>
  BY DEF Succeed
<1>3. err' = IF Stages[pc].ok = "" THEN err ELSE Stages[pc].ok
  BY DEF Succeed
<1>4. pc' \in Names \cup {"fontOut", "query"}
  BY <1>1, Leading
<1>5. err' \in Errors \cup {"SUCCESS"}
  BY <1>1, <1>3, Presetting, Typing DEF Presets
<1>6. pc' \in {"check", "place", "segments"} => err' # "SUCCESS"
  BY <1>1, <1>3, Presetting DEF Presets, Known
<1>7. owned' = IF pc = "fontRead" THEN Loaded \cup FontPools
               ELSE IF pc = "stack" THEN All ELSE Holdings[Stages[pc].next]
  BY <1>1, Gathering DEF Gathers
<1>8. owned' = IF pc' = "fontOut" THEN Loaded \cup FontPools
               ELSE IF pc' = "query" THEN All ELSE Holdings[pc']
  BY <1>1, <1>7, Leading
<1>9. owned' \subseteq Things
  BY <1>1, Typing, Acquired DEF Leaving, Acquires
<1>10. TypeOK'
  BY <1>2, <1>4, <1>5, <1>9, Typing, TypingNext DEF Places, Handover
<1>11. Held'
  BY <1>4, <1>8, Domains DEF Held, Handover, Names, Loaded
<1>12. Known'
  <2>1. pc' = "fontOut" => err' = "SUCCESS" /\ "font" \in owned'
    BY <1>1, <1>3, <1>8, Presetting DEF Presets, Loaded
  <2> QED BY <1>4, <1>6, <2>1 DEF Known, Names
<1>13. Buffered' /\ Growth'
  BY <1>1, <1>2, <1>4, Domains DEF Buffered, Growth, Names
<1>. QED  BY <1>10, <1>11, <1>12, <1>13

LEMMA FailLInv ==
  ASSUME LInv, Fail
  PROVE  LInv'
<1>. USE DEF LInv
<1>1. pc \in Names /\ owned = Holdings[pc] /\ owned' = Holdings[pc] \ Stages[pc].lost
        /\ pc' = Stages[pc].to
  BY Domains DEF Fail, Held, Takes
<1>2. UNCHANGED <<attempt, buffers, size, info, entries, events>>
  BY DEF Fail
<1>3. err' \in Errors
  <2>1. CASE Stages[pc].fails = KEEP
    <3>1. err' = err
      BY <2>1 DEF Fail
    <3>2. pc \in {"check", "segments"}
      BY <1>1, <2>1, Excusing DEF Excuses
    <3>. QED  BY <3>1, <3>2, Typing DEF Known
  <2>2. CASE Stages[pc].fails # KEEP
    BY <1>1, <2>2, Excusing DEF Excuses, Fail
  <2>. QED  BY <2>1, <2>2
<1>4. \/ pc' = "out" /\ owned' \subseteq All
      \/ pc' = "fontOut" /\ Kernel \subseteq owned' /\ owned' \subseteq Kernel \cup FontPools
  BY <1>1, Retreating DEF Retreats
<1>7. Kernel \cup FontPools \subseteq Loaded \cup FontPools /\ "font" \notin Kernel \cup FontPools
  BY DEF Loaded, Kernel, FontPools
<1>5. TypeOK'
  BY <1>1, <1>2, <1>3, <1>4, Typing, TypingNext DEF Places
<1>6. "SUCCESS" \notin Errors
  BY DEF Errors
<1>. QED  BY <1>1, <1>2, <1>3, <1>4, <1>5, <1>6, <1>7, Domains
          DEF Held, Known, Buffered, Growth, Handover, Names

LEMMA FontOutLInv ==
  ASSUME LInv, FontOut
  PROVE  LInv'
<1>. USE DEF LInv
<1>1. owned' = owned \ FontPools /\ pc = "fontOut"
        /\ UNCHANGED <<err, attempt, buffers, size, info, entries, events>>
  BY DEF FontOut, Takes, FontPools
<1>2. pc' = IF err = "SUCCESS" THEN "gop" ELSE "out"
  BY DEF FontOut
<1>3. owned' \subseteq Loaded
  BY <1>1 DEF Held
<1>4. TypeOK'
  BY <1>1, <1>2, Typing, TypingNext DEF Places, Names
<1>5. CASE err = "SUCCESS"
  <2>1. owned' = Loaded
    BY <1>1, <1>3, <1>5 DEF Held, Known, Loaded, Kernel, FontPools
  <2>2. Holdings["gop"] = Loaded
    BY DEF Holdings
  <2>. QED  BY <1>1, <1>2, <1>4, <1>5, <2>1, <2>2, Domains
            DEF Held, Known, Buffered, Growth, Handover, Names
<1>6. CASE err # "SUCCESS"
  BY <1>1, <1>2, <1>3, <1>4, <1>6, Domains
     DEF Held, Known, Buffered, Growth, Handover, Names, All
<1>. QED  BY <1>5, <1>6

LEMMA QueryLInv ==
  ASSUME LInv, Query
  PROVE  LInv'
<1>. USE DEF LInv
<1>1. TypeOK'
  BY Typing, TypingNext DEF Query, HandoverReturns, firmware, Places, Handover, Errors
<1>. QED  BY <1>1, Domains
          DEF Query, HandoverReturns, firmware, Held, Known, Buffered, Growth, Handover, Names

LEMMA PoolLInv ==
  ASSUME LInv, Pool
  PROVE  LInv'
<1>. USE DEF LInv
<1>1. pc = "pool" /\ UNCHANGED <<owned, attempt, size, info, events>>
        /\ attempt \in 0 .. ATTEMPTS - 1 /\ entries \in 1 .. 1 + events + attempt /\ events \in Nat
  BY Typing, LoaderAssumption DEF Pool, Growth
<1>2. CASE buffers' = buffers \cup {attempt} /\ pc' = "read" /\ err' = err
             /\ entries' \in entries .. entries + 1
  <2>1. entries' \in 1 .. 1 + events' + attempt' + 1
    BY <1>1, <1>2, LoaderAssumption
  <2>2. TypeOK'
    BY <1>1, <1>2, <2>1, Typing, TypingNext DEF Places, Handover
  <2>. QED  BY <1>1, <1>2, <2>1, <2>2, Domains DEF Held, Known, Buffered, Growth, Handover, Names
<1>3. CASE HandoverReturns("OUT_OF_RESOURCES") /\ UNCHANGED <<buffers, entries, fresh>>
  <2>1. TypeOK'
    BY <1>1, <1>3, Typing, TypingNext DEF HandoverReturns, Places, Errors
  <2>. QED  BY <1>1, <1>3, <2>1, Domains
            DEF HandoverReturns, Held, Known, Buffered, Growth, Handover, Names
<1>. QED  BY <1>2, <1>3 DEF Pool

LEMMA ReadMapLInv ==
  ASSUME LInv, ReadMap
  PROVE  LInv'
<1>. USE DEF LInv
<1>1. pc = "read" /\ UNCHANGED <<err, owned, attempt, buffers, size, entries, events>>
  BY DEF ReadMap
<1>2. \/ pc' = "exit" /\ info' = [buffer |-> attempt, listed |-> owned]
      \/ pc' = "free" /\ info' = info
  BY DEF ReadMap, Filled
<1>3. /\ info'.buffer \in 0 .. ATTEMPTS - 1
      /\ pc' = "exit" => info'.buffer = attempt' /\ info'.listed = owned'
      /\ pc' \in {"exit", "free"}
  BY <1>1, <1>2, Typing
<1>4. TypeOK'
  BY <1>1, <1>2, <1>3, Typing, TypingNext DEF Places, Handover
<1>. QED  BY <1>1, <1>3, <1>4, Domains DEF Held, Known, Buffered, Growth, Handover, Names

LEMMA ExitBootLInv ==
  ASSUME LInv, ExitBoot
  PROVE  LInv'
<1>. USE DEF LInv
<1>1. pc = "exit" /\ pc' \in {"kernel entered", "free"}
        /\ UNCHANGED <<err, owned, attempt, buffers, size, info, entries, events>>
  BY DEF ExitBoot, firmware
<1>2. TypeOK'
  BY <1>1, Typing, TypingNext DEF Places, Handover
<1>. QED  BY <1>1, <1>2, Domains DEF Held, Known, Buffered, Growth, Handover, Names

LEMMA FreeMapLInv ==
  ASSUME LInv, FreeMap
  PROVE  LInv'
<1>. USE DEF LInv
<1>1. pc = "free" /\ buffers' = {} /\ UNCHANGED <<owned, size, info, entries, events>>
  BY DEF FreeMap, Freed, Buffered
<1>2. /\ events \in Nat /\ attempt \in 0 .. ATTEMPTS - 1 /\ ATTEMPTS \in Nat \ {0}
      /\ entries \in 1 .. 1 + events + attempt + 1
  BY Typing, LoaderAssumption DEF Growth
<1>3. CASE attempt + 1 = ATTEMPTS
  <2>1. err' = "LOAD_ERROR" /\ pc' = "out" /\ attempt' = attempt
    BY <1>3 DEF FreeMap, TriedAll, NextAttempt, HandoverReturns
  <2>2. TypeOK'
    BY <1>1, <2>1, Typing, TypingNext DEF Places, Errors
  <2>. QED  BY <1>1, <2>1, <2>2, Domains DEF Held, Known, Buffered, Growth, Handover, Names
\* Another attempt: the map has grown by no more than one for each so far.
<1>4. CASE attempt + 1 # ATTEMPTS
  <2>1. attempt' = attempt + 1 /\ pc' = "query" /\ err' = err
    BY <1>4 DEF FreeMap, TriedAll, NextAttempt
  <2>2. attempt' \in 0 .. ATTEMPTS - 1 /\ entries' \in 1 .. 1 + events' + attempt'
    BY <1>1, <1>2, <1>4, <2>1
  <2>3. TypeOK'
    BY <1>1, <1>2, <2>1, <2>2, Typing, TypingNext DEF Places, Handover
  <2>. QED  BY <1>1, <1>2, <2>1, <2>2, <2>3, Domains
            DEF Held, Known, Buffered, Growth, Handover, Names
<1>. QED  BY <1>3, <1>4

LEMMA OutLInv ==
  ASSUME LInv, Out
  PROVE  LInv'
<1>. USE DEF LInv
<1>1. pc = "out" /\ pc' = "returned" /\ owned' = owned \ {"protocol", "raw"}
        /\ UNCHANGED <<err, attempt, buffers, size, info, entries, events>>
  BY DEF Out, Takes
<1>2. TypeOK'
  BY <1>1, Typing, TypingNext DEF Places
<1>. QED  BY <1>1, <1>2, Domains DEF Held, Known, Buffered, Growth, Handover, Names

LEMMA EventLInv ==
  ASSUME LInv, Event
  PROVE  LInv'
<1>. USE DEF LInv
<1>1. UNCHANGED <<pc, err, owned, attempt, buffers, size, info>>
  BY DEF Event
<1>2. events' = events + 1 /\ entries' \in entries .. entries + 1
  BY DEF Event
<1>3. /\ events \in Nat /\ attempt \in 0 .. ATTEMPTS - 1 /\ ATTEMPTS \in Nat \ {0}
      /\ entries \in 1 .. 1 + events + attempt + 1
  BY Typing, LoaderAssumption DEF Growth
<1>4. /\ events' \in Nat /\ entries' \in 1 .. 1 + events' + attempt' + 1
      /\ entries <= 1 + events + attempt => entries' <= 1 + events' + attempt'
  BY <1>1, <1>2, <1>3
<1>5. TypeOK'
  BY <1>1, <1>3, <1>4, Typing, TypingNext
<1>. QED  BY <1>1, <1>4, <1>5, Domains DEF Held, Known, Buffered, Growth

LEMMA StepLInv == LInv /\ [Next]_vars => LInv'
<1>. SUFFICES ASSUME LInv, [Next]_vars  PROVE LInv'
  OBVIOUS
<1>1. CASE UNCHANGED vars
  BY <1>1 DEF vars, firmware, LInv, TypeOK, Held, Known, Buffered, Growth
<1>. QED  BY <1>1, SucceedLInv, FailLInv, FontOutLInv, QueryLInv, PoolLInv, ReadMapLInv,
             ExitBootLInv, FreeMapLInv, OutLInv, EventLInv DEF Next, Work, Ended
-------------------------------------------------------------------------------
\* LInv holds of every state of the loader, whatever ATTEMPTS and SLACK are, and
\* however often the firmware's map changes.
THEOREM LoaderInvariance == FairSpec => []LInv
  BY InitLInv, StepLInv, PTL DEF FairSpec

\* The kernel is entered with its image, stack, font and boot information, listed
\* as the loader's in the map of the last attempt, which is in memory that was not
\* freed: handover fills in bootInfo->mmap in every attempt anew.
THEOREM KernelGetsAll == FairSpec => []HandsOver
<1>1. ASSUME LInv, pc = "kernel entered"
      PROVE  owned = All /\ buffers = {attempt} /\ info.buffer = attempt /\ info.listed = owned
  BY <1>1 DEF LInv, Held, Buffered, Handover
<1>2. LInv => HandsOver
  BY <1>1 DEF HandsOver, All, Loaded, Kernel
<1>. QED  BY <1>2, LoaderInvariance, PTL

\* efi_main returns only with an error for the firmware, and with every pool and the
\* font's file given back, at whatever stage it gave up; LoadBMPFile that fails has
\* given back the font's pages.  The other pages and file handles it keeps.
THEOREM ReturnsClean == FairSpec => []Leaves
<1>1. LInv => Leaves
  BY DEF LInv, Leaves, SaysWhy, PoolsReleased, FontReleased, Known, Held, Buffered, All, Loaded, Kernel
<1>. QED  BY <1>1, LoaderInvariance, PTL
-------------------------------------------------------------------------------
(* The image: what the two passes over the program headers have done, up to i *)

Loadable(n) == n \in DOMAIN ePhdr /\ ~E!Skipped(ePhdr[n])

\* The header of this index has a byte for address a.
Lies(n, a) ==
  Loadable(n) /\ a \in ePhdr[n].vaddr .. ePhdr[n].vaddr + ePhdr[n].filesz - 1
Byte(n, a) == E!FileByte(ePhdr[n].offset + (a - ePhdr[n].vaddr))

\* The range measured so far holds the segments seen so far.
Covers(last) ==
  \A n \in 1 .. last : Loadable(n) => eVmin <= ePhdr[n].vaddr /\ E!End(ePhdr[n]) <= eVmax

\* At a each segment has been copied up to the last, and no later one lies there.
Layered(a, last) ==
  \/ eImage[a] = E!ZERO /\ \A n \in 1 .. last : ~Lies(n, a)
  \/ \E n \in 1 .. last : /\ Lies(n, a) /\ eImage[a] = Byte(n, a)
                          /\ \A m \in 1 .. last : Lies(m, a) => m <= n

Pages == eVmin .. eVmax - 1

Measuring ==
  /\ ~ePlaced /\ Covers(eI - 1) /\ eVmax + PAGE_SIZE - 1 < Top
  /\ (\A n \in 1 .. eI - 1 : ~Loadable(n)) => eVmin = Top - 1 /\ eVmax = 0

WholePages ==
  /\ eVmin % PAGE_SIZE = 0 /\ eVmax % PAGE_SIZE = 0
  /\ Covers(Len(ePhdr)) /\ \E n \in 1 .. Len(ePhdr) : Loadable(n)

Placed ==
  /\ WholePages
  /\ \A a \in E!Addresses \ Pages : eImage[a] = E!GARBAGE
  /\ \A a \in E!Addresses : eImage[a] # E!BESIDE

Untouched == \A a \in E!Addresses : eImage[a] = E!GARBAGE

Copying ==
  /\ ePlaced
  /\ \A n \in 1 .. eI - 1 : Loadable(n) => ~E!Wrong(ePhdr[n])
  /\ \A a \in Pages : Layered(a, eI - 1)

EInv ==
  /\ E!TypeOK /\ ePc # "astray"
  /\ ePc = "measure" => Measuring
  /\ ePc = "place" => ~ePlaced /\ WholePages /\ eI = 1
  /\ ~ePlaced => Untouched
  /\ ePlaced => Placed
  /\ ePc \in {"copy", "loaded"} => Copying
  /\ ePc = "loaded" => eI = Len(ePhdr) + 1
  /\ ePc = "out" => \/ \A n \in 1 .. Len(ePhdr) : ~Loadable(n)
                    \/ ~ePlaced
                    \/ \E n \in 1 .. Len(ePhdr) : Loadable(n) /\ E!Wrong(ePhdr[n])

\* What is known of every file, and of those that are as the loader takes them.
FileInv == E!TypeOK /\ (E!Granted => EInv)

LEMMA ImageConstants ==
  /\ PAGE_SIZE \in Nat \ {0} /\ Top \in Nat \ {0, 1} /\ Top % PAGE_SIZE = 0
  /\ FileSizes \subseteq 0 .. Top - 1 /\ MaxHeaders \in Nat
  /\ E!Addresses = 0 .. Top - 1
BY ImageFits DEF E!ConstantsFit, E!Addresses

LEMMA HeaderFields ==
  ASSUME NEW p \in Headers
  PROVE  /\ p.vaddr \in 0 .. Top - 1 /\ p.memsz \in 0 .. Top - 1
         /\ p.offset \in 0 .. Top - 1 /\ p.filesz \in 0 .. Top - 1
         /\ p.vaddr \in Nat /\ p.memsz \in Nat /\ p.offset \in Nat /\ p.filesz \in Nat
         /\ p.load \in BOOLEAN
<1>1. /\ p.vaddr \in E!Addresses /\ p.memsz \in E!Addresses
      /\ p.offset \in E!Addresses /\ p.filesz \in E!Addresses /\ p.load \in BOOLEAN
  BY ImageFits DEF E!ConstantsFit
<1> QED BY <1>1, ImageConstants

\* Sums of naturals below a limit are words.
LEMMA BelowTop ==
  ASSUME NEW t \in Nat \ {0}, NEW x \in Nat, NEW y \in Nat, x + y < t
  PROVE  x + y \in 0 .. t - 1 /\ x + y \in Nat
OBVIOUS

\* Words wrap once, in either direction.
LEMMA Wraps ==
  ASSUME NEW t \in Nat \ {0}, NEW x \in Int
  PROVE  /\ x % t \in 0 .. t - 1
         /\ x \in 0 .. t - 1 => x % t = x
         /\ x < 0 /\ x + t >= 0 => x % t = x + t
<1>1. x % t \in 0 .. t - 1 /\ x \div t \in Int /\ x = t * (x \div t) + (x % t)
  BY SMT
<1> DEFINE q == x \div t
           m == x % t
<1>2. m \in 0 .. t - 1 /\ q \in Int /\ x = t * q + m
  BY <1>1
<1> HIDE DEF q, m
<1>3. ASSUME x \in 0 .. t - 1 PROVE m = x
  <2>1. q < 1
    <3> SUFFICES ASSUME q >= 1 PROVE FALSE
      BY <1>2
    <3>1. t * q >= t /\ t * q \in Int
      BY <1>2, SMT
    <3> QED BY <1>2, <1>3, <3>1
  <2>2. q > -1
    <3> SUFFICES ASSUME q <= -1 PROVE FALSE
      BY <1>2
    <3>1. t * q <= -t /\ t * q \in Int
      BY <1>2, SMT
    <3> QED BY <1>2, <1>3, <3>1
  <2>3. q = 0
    BY <1>2, <2>1, <2>2
  <2> QED BY <1>2, <2>3
<1>4. ASSUME x < 0, x + t >= 0 PROVE m = x + t
  <2>1. q < 0
    <3> SUFFICES ASSUME q >= 0 PROVE FALSE
      BY <1>2
    <3>1. t * q >= 0 /\ t * q \in Int
      BY <1>2, SMT
    <3> QED BY <1>2, <1>4, <3>1
  <2>2. q > -2
    <3> SUFFICES ASSUME q <= -2 PROVE FALSE
      BY <1>2
    <3>1. t * q <= -2 * t /\ t * q \in Int
      BY <1>2, SMT
    <3> QED BY <1>2, <1>4, <3>1
  <2>3. q = -1
    BY <1>2, <2>1, <2>2
  <2>4. t * q = -t
    BY <2>3
  <2> QED BY <1>2, <2>4
<1> QED BY <1>2, <1>3, <1>4 DEF m

LEMMA HeaderAt ==
  ASSUME E!TypeOK, NEW n \in 1 .. Len(ePhdr)
  PROVE  /\ ePhdr[n] \in Headers /\ n \in DOMAIN ePhdr
         /\ Loadable(n) <=> ~E!Skipped(ePhdr[n])
BY DEF E!TypeOK, Loadable

\* What is loadable is all of Segments.
LEMMA SegmentsAre ==
  ASSUME E!TypeOK
  PROVE  /\ \A p : p \in E!Segments <=> \E n \in 1 .. Len(ePhdr) : Loadable(n) /\ ePhdr[n] = p
         /\ \A a : E!Over(a) = {n \in 1 .. Len(ePhdr) : Lies(n, a)}
<1>1. DOMAIN ePhdr = 1 .. Len(ePhdr)
  BY DEF E!TypeOK
<1>2. \A p : p \in E!Segments <=> \E n \in 1 .. Len(ePhdr) : Loadable(n) /\ ePhdr[n] = p
  BY <1>1 DEF E!Segments, Loadable
<1>3. \A n \in 1 .. Len(ePhdr) : ePhdr[n] \in E!Segments <=> Loadable(n)
  BY <1>1, <1>2 DEF Loadable
<1> QED BY <1>1, <1>2, <1>3 DEF E!Over, Lies

\* Rounding down to a page, and up where that does not wrap.
LEMMA RoundingDown ==
  ASSUME NEW n \in Nat
  PROVE  /\ E!AlignDown(n) \in 0 .. n /\ E!AlignDown(n) % PAGE_SIZE = 0
         /\ n < E!AlignDown(n) + PAGE_SIZE
<1> DEFINE P == PAGE_SIZE
           q == n \div P
           m == n % P
<1>1. P \in Nat \ {0}
  BY ImageConstants
<1>2. q \in Nat /\ m \in 0 .. P - 1 /\ n = P * q + m
  BY <1>1, SMT
<1>3. E!AlignDown(n) = q * P
  BY DEF E!AlignDown
<1> HIDE DEF q, m
<1>4. q * P = P * q /\ q * P \in Nat
  BY <1>1, <1>2, SMT
<1>5. (q * P) % P = 0
  BY <1>1, <1>2, SMT
<1>6. q * P <= n /\ n < q * P + P
  BY <1>1, <1>2, <1>4
<1> QED BY <1>3, <1>4, <1>5, <1>6

LEMMA Rounding ==
  ASSUME NEW n \in Nat, n + PAGE_SIZE - 1 < Top
  PROVE  /\ E!AlignDown(n) \in 0 .. n /\ E!AlignDown(n) % PAGE_SIZE = 0
         /\ E!AlignUp(n) \in n .. Top - 1 /\ E!AlignUp(n) % PAGE_SIZE = 0
<1> DEFINE up == n + PAGE_SIZE - 1
<1>1. /\ PAGE_SIZE \in Nat \ {0} /\ Top \in Nat \ {0}
      /\ up \in Nat /\ up \in 0 .. Top - 1 /\ n <= up
  BY ImageConstants
<1>2. E!AlignUp(n) = E!AlignDown(up % Top)
  BY DEF E!AlignUp
<1>3. n < E!AlignDown(up) + 1 /\ E!AlignDown(up) <= up /\ E!AlignDown(up) % PAGE_SIZE = 0
      /\ E!AlignDown(up) \in Nat
  <2>1. E!AlignDown(up) \in 0 .. up /\ n + PAGE_SIZE - 1 < E!AlignDown(up) + PAGE_SIZE
        /\ E!AlignDown(up) % PAGE_SIZE = 0
    BY <1>1, RoundingDown
  <2> HIDE DEF up
  <2> QED BY <1>1, <2>1
<1> HIDE DEF up
<1>4. up % Top = up
  BY <1>1, Wraps
<1>5. E!AlignUp(n) \in n .. Top - 1 /\ E!AlignUp(n) % PAGE_SIZE = 0
  BY <1>1, <1>2, <1>3, <1>4
<1> QED BY <1>5, RoundingDown

LEMMA OnePage == 0 + PAGE_SIZE - 1 < Top
<1>1. PAGE_SIZE \in Nat \ {0} /\ Top \in Nat \ {0} /\ Top % PAGE_SIZE = 0
  BY ImageConstants
<1>2. ASSUME Top < PAGE_SIZE PROVE FALSE
  <2>1. Top \in 0 .. PAGE_SIZE - 1 /\ Top \in Int
    BY <1>1, <1>2
  <2>2. Top % PAGE_SIZE = Top
    BY <1>1, <2>1, Wraps
  <2> QED BY <1>1, <2>2
<1> QED BY <1>1, <1>2

\* What the loader reads, and the sums it makes, are what the file says.
LEMMA AsGranted ==
  ASSUME E!TypeOK, E!Granted, NEW n \in 1 .. Len(ePhdr)
  PROVE  /\ E!Read(n) = {ePhdr[n]}
         /\ Loadable(n) =>
              /\ ePhdr[n].vaddr + ePhdr[n].memsz + PAGE_SIZE - 1 < Top
              /\ E!End(ePhdr[n]) = ePhdr[n].vaddr + ePhdr[n].memsz
              /\ ePhdr[n].offset + ePhdr[n].filesz < Top
              /\ E!PastFile(ePhdr[n]) <=> ePhdr[n].offset + ePhdr[n].filesz > eFileSize
<1> DEFINE p == ePhdr[n]
<1>1. n \in DOMAIN ePhdr /\ p \in Headers
  BY HeaderAt
<1>2. E!Read(n) = {p}
  BY <1>1 DEF E!Granted, E!TableInFile, E!Read
<1>3. Top \in Nat \ {0} /\ PAGE_SIZE \in Nat \ {0}
  BY ImageConstants
<1>4. p.vaddr \in Nat /\ p.memsz \in Nat /\ p.offset \in Nat /\ p.filesz \in Nat
  BY <1>1, HeaderFields
<1>5. ASSUME Loadable(n)
      PROVE  /\ p.vaddr + p.memsz + PAGE_SIZE - 1 < Top
             /\ E!End(p) = p.vaddr + p.memsz
             /\ p.offset + p.filesz < Top
             /\ E!PastFile(p) <=> p.offset + p.filesz > eFileSize
  <2>1. p \in E!Segments
    BY <1>1, <1>5 DEF E!Segments, Loadable
  <2>2. p.vaddr + p.memsz + PAGE_SIZE - 1 < Top /\ p.offset + p.filesz < Top
    BY <2>1 DEF E!Granted, E!NothingWraps
  <2> HIDE DEF p
  <2>3. p.vaddr + p.memsz < Top
    BY <1>3, <1>4, <2>2
  <2>5. /\ p.vaddr + p.memsz \in 0 .. Top - 1 /\ p.offset + p.filesz \in 0 .. Top - 1
        /\ p.vaddr + p.memsz \in Int /\ p.offset + p.filesz \in Int
    BY <1>3, <1>4, <2>2, <2>3, BelowTop
  <2>4. (p.vaddr + p.memsz) % Top = p.vaddr + p.memsz
        /\ (p.offset + p.filesz) % Top = p.offset + p.filesz
    BY <1>3, <2>5, Wraps
  <2> QED BY <2>2, <2>4 DEF E!End, E!PastFile
<1> QED BY <1>2, <1>5

\* A range of addresses that does not wrap, as the loader counts it off.
LEMMA CountedOff ==
  ASSUME NEW first \in 0 .. Top - 1, NEW n \in 0 .. Top - 1, first + n <= Top
  PROVE  {a \in E!Addresses : (a - first) % Top < n} = first .. first + n - 1
<1>1. Top \in Nat \ {0} /\ E!Addresses = 0 .. Top - 1
  BY ImageConstants
<1>2. ASSUME NEW a \in 0 .. Top - 1
      PROVE  (a - first) % Top < n <=> a \in first .. first + n - 1
  <2>1. a - first \in Int
    OBVIOUS
  <2>2. CASE a >= first
    <3>1. a - first \in 0 .. Top - 1
      BY <1>1, <2>2
    <3>2. (a - first) % Top = a - first
      BY <1>1, <2>1, <3>1, Wraps
    <3> QED BY <1>1, <2>2, <3>2
  <2>3. CASE a < first
    <3>1. a - first < 0 /\ (a - first) + Top >= 0
      BY <1>1, <2>3
    <3>2. (a - first) % Top = (a - first) + Top
      BY <1>1, <2>1, <3>1, Wraps
    <3> QED BY <1>1, <2>3, <3>2
  <2> QED BY <1>1, <2>2, <2>3
<1>3. \A a \in first .. first + n - 1 : a \in 0 .. Top - 1
  BY <1>1
<1> QED BY <1>1, <1>2, <1>3

\* Every step keeps the types, whatever is read from beside the file.
LEMMA ImageTyped == ASSUME E!TypeOK, E!Next PROVE E!TypeOK'
<1>1. /\ Top \in Nat \ {0} /\ PAGE_SIZE \in Nat \ {0} /\ E!Addresses = 0 .. Top - 1
      /\ Len(ePhdr) \in Nat /\ eI \in 1 .. Len(ePhdr) + 1 /\ eImage \in [E!Addresses -> Int]
      /\ eVmin \in 0 .. Top - 1 /\ eVmax \in 0 .. Top - 1 /\ eFileSize \in Nat
  <2>1. E!Addresses = 0 .. Top - 1 /\ Top \in Nat \ {0}
    BY ImageConstants
  <2>2. eFileSize \in 0 .. Top - 1
    BY ImageConstants DEF E!TypeOK
  <2> QED BY <2>1, <2>2, ImageConstants DEF E!TypeOK
<1>2. ASSUME NEW p \in E!Read(eI), eI <= Len(ePhdr) PROVE p \in Headers
  <2>1. eI \in 1 .. Len(ePhdr)
    BY <1>1, <1>2
  <2>2. ePhdr[eI] \in Headers
    BY <2>1, HeaderAt
  <2> QED BY <1>2, <2>2 DEF E!Read
<1>3. ASSUME NEW o \in Int PROVE E!FileByte(o) \in Int
  BY DEF E!FileByte, E!BESIDE
<1>4. CASE E!Measure
  <2>1. PICK p \in E!Read(eI) :
          /\ eI <= Len(ePhdr)
          /\ eVmin' = IF ~E!Skipped(p) /\ p.vaddr < eVmin THEN p.vaddr ELSE eVmin
          /\ eVmax' = IF ~E!Skipped(p) /\ E!End(p) > eVmax THEN E!End(p) ELSE eVmax
    BY <1>4 DEF E!Measure
  <2>2. p.vaddr \in 0 .. Top - 1 /\ E!End(p) \in 0 .. Top - 1
    <3>1. p.vaddr \in 0 .. Top - 1 /\ p.vaddr + p.memsz \in Int
      BY <1>2, <2>1, HeaderFields
    <3> QED BY <1>1, <3>1, Wraps DEF E!End
  <2>3. eVmin' \in 0 .. Top - 1 /\ eVmax' \in 0 .. Top - 1
    BY <1>1, <2>1, <2>2
  <2>4. eI' \in 1 .. Len(ePhdr) + 1
    BY <1>1, <1>4, <2>1 DEF E!Measure
  <2>5. UNCHANGED <<ePc, ePhdr, eTable, eFileSize, ePlaced, eImage>>
    BY <1>4 DEF E!Measure, E!file
  <2> QED BY <1>1, <2>3, <2>4, <2>5 DEF E!TypeOK, E!Addresses
<1>5. CASE E!Measured
  <2>1. E!AlignDown(eVmin) \in 0 .. Top - 1 /\ E!AlignUp(eVmax) \in 0 .. Top - 1
    <3>1. E!AlignDown(eVmin) \in 0 .. eVmin
      <4>1. eVmin \in Nat
        BY <1>1
      <4> QED BY <4>1, RoundingDown
    <3>2. (eVmax + PAGE_SIZE - 1) % Top \in 0 .. Top - 1
      <4>1. eVmax + PAGE_SIZE - 1 \in Int
        BY <1>1
      <4> QED BY <1>1, <4>1, Wraps
    <3> DEFINE w == (eVmax + PAGE_SIZE - 1) % Top
    <3>3. E!AlignUp(eVmax) = E!AlignDown(w)
      BY DEF E!AlignUp
    <3> HIDE DEF w
    <3>4. w \in 0 .. Top - 1
      BY <3>2 DEF w
    <3>5. E!AlignDown(w) \in 0 .. w
      <4>1. w \in Nat
        BY <1>1, <3>4
      <4> QED BY <4>1, RoundingDown
    <3> QED BY <1>1, <3>1, <3>3, <3>4, <3>5
  <2>2. /\ ePc' \in {"out", "place"} /\ eI' = 1
        /\ eVmin' \in {eVmin, E!AlignDown(eVmin)} /\ eVmax' \in {eVmax, E!AlignUp(eVmax)}
        /\ UNCHANGED <<ePhdr, eTable, eFileSize, ePlaced, eImage>>
    BY <1>5 DEF E!Measured, E!file
  <2>3. eVmin' \in 0 .. Top - 1 /\ eVmax' \in 0 .. Top - 1 /\ eI' \in 1 .. Len(ePhdr) + 1
    <3>1. eVmin' \in 0 .. Top - 1
      BY <1>1, <2>1, <2>2, Zenon
    <3>2. eVmax' \in 0 .. Top - 1
      BY <1>1, <2>1, <2>2, Zenon
    <3>3. 1 \in 1 .. Len(ePhdr) + 1
      BY <1>1
    <3> QED BY <2>2, <3>1, <3>2, <3>3
  <2> QED BY <1>1, <2>2, <2>3 DEF E!TypeOK, E!Addresses
<1>6. CASE E!Place
  <2>1. /\ ePc' \in {"copy", "out"} /\ ePlaced' \in {TRUE, ePlaced}
        /\ UNCHANGED <<ePhdr, eTable, eFileSize, eI, eVmin, eVmax>>
        /\ \/ eImage' = eImage
           \/ eImage' = [a \in E!Addresses |-> IF a \in E!Asked THEN E!ZERO ELSE eImage[a]]
    BY <1>6 DEF E!Place, E!file, E!PagesCleared
  <2>2. eImage' \in [E!Addresses -> Int]
    BY <1>1, <2>1 DEF E!ZERO
  <2> QED BY <1>1, <2>1, <2>2 DEF E!TypeOK, E!Addresses
<1>7. CASE E!Copy
  <2>1. PICK p \in E!Read(eI) :
          /\ eI <= Len(ePhdr) /\ ePc' \in {ePc, "out", "astray"}
          /\ \/ eImage' = eImage
             \/ eImage' = [a \in E!Addresses |->
                             IF a \in E!Target(p) THEN E!Source(p, a) ELSE eImage[a]]
    BY <1>7 DEF E!Copy
  <2>2. ASSUME NEW a \in E!Addresses PROVE E!Source(p, a) \in Int
    <3>1. p.offset + (a - p.vaddr) \in Int
      BY <1>1, <1>2, <2>1, HeaderFields
    <3>2. (p.offset + (a - p.vaddr)) % Top \in Int
      BY <1>1, <3>1, Wraps
    <3> QED BY <1>3, <3>2 DEF E!Source
  <2>3. eImage' \in [E!Addresses -> Int]
    BY <1>1, <2>1, <2>2
  <2>4. /\ eI' \in 1 .. Len(ePhdr) + 1
        /\ UNCHANGED <<ePhdr, eTable, eFileSize, eVmin, eVmax, ePlaced>>
    BY <1>1, <1>7, <2>1 DEF E!Copy, E!file
  <2> QED BY <1>1, <2>1, <2>3, <2>4 DEF E!TypeOK, E!Addresses
<1>8. CASE E!Copied
  BY <1>8 DEF E!Copied, E!file, E!TypeOK
<1> QED BY <1>4, <1>5, <1>6, <1>7, <1>8 DEF E!Next

LEMMA ImageInitially == E!Init => EInv
<1> SUFFICES ASSUME E!Init PROVE EInv
  OBVIOUS
<1>1. PICK k \in 1 .. MaxHeaders : ePhdr \in [1 .. k -> Headers]
  BY DEF E!Init
<1>2. k \in Nat \ {0}
  BY ImageConstants
<1>3. ePhdr \in Seq(Headers) /\ Len(ePhdr) = k
  BY <1>1, <1>2
<1>4. /\ Top \in Nat \ {0, 1} /\ E!Addresses = 0 .. Top - 1 /\ PAGE_SIZE \in Nat
      /\ 0 + PAGE_SIZE - 1 < Top
  BY ImageConstants, OnePage
<1>5. E!TypeOK
  <2>1. /\ ePc = "measure" /\ eI = 1 /\ eFileSize \in FileSizes /\ eVmin = Top - 1 /\ eVmax = 0
        /\ eTable \in Tables
        /\ ePlaced = FALSE /\ eImage = [a \in E!Addresses |-> -1]
    BY DEF E!Init, E!GARBAGE
  <2>2. eImage \in [E!Addresses -> Int]
    BY <2>1
  <2>3. eI \in 1 .. Len(ePhdr) + 1 /\ eVmin \in E!Addresses /\ eVmax \in E!Addresses
    BY <1>2, <1>3, <1>4, <2>1
  <2> QED BY <1>3, <2>1, <2>2, <2>3 DEF E!TypeOK
<1>6. ePc = "measure" /\ ~ePlaced /\ eI = 1 /\ eVmin = Top - 1 /\ eVmax = 0
  BY DEF E!Init
<1>7. Measuring
  BY <1>4, <1>6 DEF Measuring, Covers
<1>8. Untouched
  BY DEF E!Init, Untouched
<1> QED BY <1>4, <1>5, <1>6, <1>7, <1>8 DEF EInv

\* Another header widens the range by what it needs.
LEMMA MeasureKeeps == ASSUME EInv, E!Granted, E!Measure PROVE EInv'
<1> DEFINE p == ePhdr[eI]
<1>0. ePc = "measure" /\ E!TypeOK /\ Measuring /\ eI \in 1 .. Len(ePhdr) /\ ~ePlaced
  BY DEF E!Measure, EInv, E!TypeOK, Measuring
<1>1. /\ ePc = "measure" /\ eI <= Len(ePhdr) /\ eI' = eI + 1
      /\ eVmin' = IF ~E!Skipped(p) /\ p.vaddr < eVmin THEN p.vaddr ELSE eVmin
      /\ eVmax' = IF ~E!Skipped(p) /\ E!End(p) > eVmax THEN E!End(p) ELSE eVmax
      /\ UNCHANGED <<ePc, ePhdr, eTable, eFileSize, ePlaced, eImage>>
  <2>1. E!Read(eI) = {p}
    BY <1>0, AsGranted
  <2> QED BY <2>1 DEF E!Measure, E!file
<1>2. E!TypeOK /\ Measuring /\ eI \in 1 .. Len(ePhdr) /\ ~ePlaced
  BY <1>0
<1>3. /\ Len(ePhdr) \in Nat /\ eVmin \in 0 .. Top - 1 /\ eVmax \in 0 .. Top - 1
      /\ Top \in Nat \ {0} /\ PAGE_SIZE \in Nat /\ eVmax + PAGE_SIZE - 1 < Top
  BY <1>2, ImageConstants DEF E!TypeOK, Measuring
<1>4. p \in Headers /\ (Loadable(eI) <=> ~E!Skipped(p))
  BY <1>2, HeaderAt
<1>5. /\ p.vaddr \in Nat
      /\ Loadable(eI) => /\ E!End(p) \in Nat /\ p.vaddr <= E!End(p)
                         /\ E!End(p) + PAGE_SIZE - 1 < Top /\ p.vaddr < Top
  <2>1. p.vaddr \in Nat /\ p.memsz \in Nat /\ p.vaddr \in 0 .. Top - 1
    BY <1>4, HeaderFields
  <2>2. Loadable(eI) => /\ p.vaddr + p.memsz + PAGE_SIZE - 1 < Top
                        /\ E!End(p) = p.vaddr + p.memsz
    BY <1>2, AsGranted
  <2> HIDE DEF p
  <2> QED BY <1>3, <2>1, <2>2
<1> HIDE DEF p
<1>6. /\ eVmin' \in 0 .. eVmin /\ eVmax' \in Nat /\ eVmax' >= eVmax
      /\ eVmax' + PAGE_SIZE - 1 < Top
      /\ Loadable(eI) => eVmin' <= p.vaddr /\ E!End(p) <= eVmax'
      /\ ~Loadable(eI) => eVmin' = eVmin /\ eVmax' = eVmax
  <2>1. CASE Loadable(eI)
    BY <1>1, <1>3, <1>4, <1>5, <2>1
  <2>2. CASE ~Loadable(eI)
    BY <1>1, <1>3, <1>4, <2>2
  <2> QED BY <2>1, <2>2
<1>7. \A n : Loadable(n)' <=> Loadable(n)
  BY <1>1 DEF Loadable, E!Skipped
<1>8. E!TypeOK'
  BY <1>2, ImageTyped DEF E!Next
<1>9. ASSUME NEW n \in 1 .. eI, Loadable(n)
      PROVE  eVmin' <= ePhdr[n].vaddr /\ E!End(ePhdr[n]) <= eVmax'
  <2>1. CASE n = eI
    BY <1>6, <1>9, <2>1 DEF p
  <2>2. CASE n # eI
    <3>1. n \in 1 .. eI - 1 /\ n \in 1 .. Len(ePhdr)
      BY <1>2, <1>3, <2>2
    <3>2. eVmin <= ePhdr[n].vaddr /\ E!End(ePhdr[n]) <= eVmax
      BY <1>2, <1>9, <3>1 DEF Measuring, Covers
    <3>3. ePhdr[n] \in Headers
      BY <1>2, <3>1, HeaderAt
    <3>4. ePhdr[n].vaddr \in Nat /\ E!End(ePhdr[n]) \in Nat
      <4>1. ePhdr[n].vaddr \in Nat /\ ePhdr[n].memsz \in Nat
        BY <3>3, HeaderFields
      <4>2. E!End(ePhdr[n]) = ePhdr[n].vaddr + ePhdr[n].memsz
        BY <1>2, <1>9, <3>1, AsGranted
      <4> QED BY <4>1, <4>2
    <3> QED BY <1>3, <1>6, <3>2, <3>4
  <2> QED BY <2>1, <2>2
<1>10. (\A n \in 1 .. eI : ~Loadable(n)) => eVmin' = Top - 1 /\ eVmax' = 0
  BY <1>2, <1>3, <1>6 DEF Measuring
<1>11. eI' - 1 = eI
  BY <1>1, <1>2, <1>3
<1>12. Measuring'
  <2>1. \A n \in 1 .. eI' - 1 : Loadable(n)' => eVmin' <= ePhdr'[n].vaddr /\ E!End(ePhdr'[n]) <= eVmax'
    BY <1>1, <1>7, <1>9, <1>11
  <2>2. (\A n \in 1 .. eI' - 1 : ~Loadable(n)') => eVmin' = Top - 1 /\ eVmax' = 0
    BY <1>7, <1>10, <1>11
  <2>3. ~ePlaced' /\ eVmax' + PAGE_SIZE - 1 < Top
    BY <1>1, <1>2, <1>6
  <2> QED BY <2>1, <2>2, <2>3 DEF Measuring, Covers
<1> QED BY <1>1, <1>2, <1>8, <1>12 DEF EInv, Untouched

\* The range is rounded to pages; without a segment there is none.
LEMMA MeasuredKeeps == ASSUME EInv, E!Granted, E!Measured PROVE EInv'
<1>1. /\ ePc = "measure" /\ eI > Len(ePhdr) /\ eI' = 1
      /\ UNCHANGED <<ePhdr, eTable, eFileSize, ePlaced, eImage>>
      /\ \/ eVmin > eVmax /\ ePc' = "out" /\ UNCHANGED <<eVmin, eVmax>>
         \/ /\ eVmin <= eVmax /\ ePc' = "place"
            /\ eVmin' = E!AlignDown(eVmin) /\ eVmax' = E!AlignUp(eVmax)
  BY ImageConstants DEF E!Measured, E!file, EInv, E!TypeOK
<1>2. E!TypeOK /\ Measuring /\ ~ePlaced /\ E!TypeOK'
  BY <1>1, ImageTyped DEF EInv, Measuring, E!Next
<1>3. /\ Len(ePhdr) \in Nat /\ eI = Len(ePhdr) + 1 /\ eVmin \in 0 .. Top - 1 /\ eVmax \in 0 .. Top - 1
      /\ Top \in Nat \ {0, 1} /\ eVmax + PAGE_SIZE - 1 < Top /\ PAGE_SIZE \in Nat \ {0}
  <2>1. /\ Top \in Nat \ {0, 1} /\ PAGE_SIZE \in Nat \ {0} /\ E!Addresses = 0 .. Top - 1
    BY ImageConstants
  <2>2. /\ Len(ePhdr) \in Nat /\ eI \in 1 .. Len(ePhdr) + 1
        /\ eVmin \in E!Addresses /\ eVmax \in E!Addresses
    BY <1>2 DEF E!TypeOK
  <2>3. eI = Len(ePhdr) + 1
    BY <1>1, <2>2
  <2>4. eVmax + PAGE_SIZE - 1 < Top
    BY <1>2 DEF Measuring
  <2> QED BY <2>1, <2>2, <2>3, <2>4
<1>4. Covers(Len(ePhdr))
  BY <1>2, <1>3 DEF Measuring
<1>5. ASSUME NEW n \in 1 .. Len(ePhdr), Loadable(n)
      PROVE  /\ ePhdr[n].vaddr \in Nat /\ E!End(ePhdr[n]) \in Nat /\ ePhdr[n].vaddr <= E!End(ePhdr[n])
             /\ eVmin <= ePhdr[n].vaddr /\ E!End(ePhdr[n]) <= eVmax
  <2>1. ePhdr[n] \in Headers
    BY <1>2, HeaderAt
  <2>2. E!End(ePhdr[n]) = ePhdr[n].vaddr + ePhdr[n].memsz
    BY <1>2, <1>5, AsGranted
  <2>3. ePhdr[n].vaddr \in Nat /\ ePhdr[n].memsz \in Nat
    BY <2>1, HeaderFields
  <2> QED BY <1>4, <1>5, <2>2, <2>3 DEF Covers
<1>6. \A n : Loadable(n)' <=> Loadable(n)
  BY <1>1 DEF Loadable, E!Skipped
<1>7. CASE eVmin > eVmax /\ ePc' = "out" /\ UNCHANGED <<eVmin, eVmax>>
  <2>1. \A n \in 1 .. Len(ePhdr) : ~Loadable(n)
    BY <1>3, <1>5, <1>7
  <2> QED BY <1>1, <1>2, <1>6, <1>7, <2>1 DEF EInv, Untouched
<1>8. CASE /\ eVmin <= eVmax /\ ePc' = "place"
           /\ eVmin' = E!AlignDown(eVmin) /\ eVmax' = E!AlignUp(eVmax)
  <2>1. /\ eVmin' \in 0 .. eVmin /\ eVmin' % PAGE_SIZE = 0
        /\ eVmax' \in eVmax .. Top - 1 /\ eVmax' % PAGE_SIZE = 0
    <3>1. eVmin + PAGE_SIZE - 1 < Top
      BY <1>3, <1>8
    <3> QED BY <1>3, <1>8, <3>1, Rounding
  <2>2. \E n \in 1 .. Len(ePhdr) : Loadable(n)
    BY <1>2, <1>3, <1>8 DEF Measuring
  <2>3. ASSUME NEW n \in 1 .. Len(ePhdr), Loadable(n)
        PROVE  eVmin' <= ePhdr[n].vaddr /\ E!End(ePhdr[n]) <= eVmax'
    <3>1. /\ ePhdr[n].vaddr \in Nat /\ E!End(ePhdr[n]) \in Nat
          /\ eVmin <= ePhdr[n].vaddr /\ E!End(ePhdr[n]) <= eVmax
      BY <1>5, <2>3
    <3>2. eVmin \in Int /\ eVmax \in Int /\ eVmin' \in Int /\ eVmax' \in Int
      BY <1>3, <2>1
    <3>3. eVmin' <= eVmin /\ eVmax <= eVmax'
      BY <1>3, <2>1
    <3> QED BY <3>1, <3>2, <3>3
  <2>4. WholePages'
    <3>1. \A n \in 1 .. Len(ePhdr') : Loadable(n)' => eVmin' <= ePhdr'[n].vaddr /\ E!End(ePhdr'[n]) <= eVmax'
      BY <1>1, <1>6, <2>3
    <3>2. \E n \in 1 .. Len(ePhdr') : Loadable(n)'
      BY <1>1, <1>6, <2>2
    <3> QED BY <2>1, <3>1, <3>2 DEF WholePages, Covers
  <2> QED BY <1>1, <1>2, <1>8, <2>4 DEF EInv, Untouched
<1> QED BY <1>1, <1>7, <1>8

\* The pages asked for are those between vmin and vmax.
LEMMA AskedFor == ASSUME E!TypeOK, E!Granted, WholePages PROVE E!Asked = Pages
<1>1. /\ Top \in Nat \ {0, 1} /\ E!Addresses = 0 .. Top - 1
      /\ eVmin \in 0 .. Top - 1 /\ eVmax \in 0 .. Top - 1
  BY ImageConstants DEF E!TypeOK
<1>2. eVmin <= eVmax
  <2>1. PICK n \in 1 .. Len(ePhdr) :
          /\ ePhdr[n] \in Headers /\ eVmin <= ePhdr[n].vaddr
          /\ ePhdr[n].vaddr + ePhdr[n].memsz <= eVmax
    BY AsGranted, HeaderAt DEF WholePages, Covers
  <2>2. ePhdr[n].vaddr \in Nat /\ ePhdr[n].memsz \in Nat
    BY <2>1, HeaderFields
  <2> QED BY <1>1, <2>1, <2>2
<1> DEFINE length == eVmax - eVmin
<1>3. length \in 0 .. Top - 1 /\ eVmin + length = eVmax /\ eVmin + length <= Top
      /\ length \in Int
  BY <1>1, <1>2
<1>4. E!Asked = {a \in E!Addresses : (a - eVmin) % Top < length % Top}
  BY DEF E!Asked
<1> HIDE DEF length
<1>5. length % Top = length
  BY <1>1, <1>3, Wraps
<1>6. E!Asked = eVmin .. eVmin + length - 1
  BY <1>1, <1>3, <1>4, <1>5, CountedOff
<1>7. eVmin + length - 1 = eVmax - 1
  <2>1. eVmin \in Int /\ eVmax \in Int
    BY <1>1
  <2> QED BY <1>3, <2>1
<1> QED BY <1>6, <1>7, Zenon DEF Pages

\* The firmware gives the pages, and they are cleared; or refuses them.
LEMMA PlaceKeeps == ASSUME EInv, E!Granted, E!Place PROVE EInv'
<1>0. E!TypeOK /\ E!TypeOK' /\ ~ePlaced /\ WholePages /\ eI = 1
  BY ImageTyped DEF EInv, E!Place, E!Next
<1>1. /\ ePc = "place" /\ UNCHANGED <<ePhdr, eTable, eFileSize, eI, eVmin, eVmax>>
      /\ \/ /\ ePlaced' = TRUE /\ ePc' = "copy"
            /\ eImage' = [a \in E!Addresses |-> IF a \in Pages THEN E!ZERO ELSE eImage[a]]
         \/ ePc' = "out" /\ UNCHANGED <<ePlaced, eImage>>
  <2>1. E!Asked = Pages
    BY <1>0, AskedFor
  <2> QED BY <2>1 DEF E!Place, E!file, E!PagesCleared
<1>2. E!TypeOK /\ ~ePlaced /\ WholePages /\ eI = 1
  BY <1>0
<1>3. \A n : Loadable(n)' <=> Loadable(n)
  BY <1>1 DEF Loadable, E!Skipped
<1>4. CASE ePc' = "out" /\ UNCHANGED <<ePlaced, eImage>>
  <2> QED BY <1>0, <1>1, <1>4 DEF EInv, Untouched
<1>5. CASE /\ ePlaced' = TRUE /\ ePc' = "copy"
           /\ eImage' = [a \in E!Addresses |-> IF a \in Pages THEN E!ZERO ELSE eImage[a]]
  <2>1. ASSUME NEW a \in E!Addresses
        PROVE  eImage'[a] = IF a \in Pages THEN E!ZERO ELSE E!GARBAGE
    BY <1>2, <1>5 DEF EInv, Untouched
  <2>2. E!TypeOK'
    BY <1>0
  <2>3. Pages' = Pages
    BY <1>1 DEF Pages
  <2>5. WholePages'
    BY <1>1, <1>2, <1>3 DEF WholePages, Covers, Loadable
  <2>6. Placed'
    <3>1. \A a \in E!Addresses \ Pages : eImage'[a] = E!GARBAGE
      BY <2>1
    <3>2. \A a \in E!Addresses : eImage'[a] # E!BESIDE
      BY <2>1 DEF E!ZERO, E!GARBAGE, E!BESIDE
    <3> QED BY <2>3, <2>5, <3>1, <3>2 DEF Placed, E!Addresses, E!GARBAGE, E!BESIDE
  <2>7. Copying'
    <3>1. Pages \subseteq E!Addresses
      BY <1>2, ImageConstants DEF Pages, E!Addresses, E!TypeOK
    <3>2. 1 .. eI' - 1 = {}
      BY <1>1, <1>2
    <3>3. \A a \in Pages : eImage'[a] = E!ZERO
      BY <2>1, <3>1
    <3> QED BY <1>5, <2>3, <3>2, <3>3 DEF Copying, Layered
  <2> QED BY <1>2, <1>5, <2>2, <2>6, <2>7 DEF EInv
<1> QED BY <1>1, <1>4, <1>5

\* What the second pass does with a header that it copies.
LEMMA CopyKeeps == ASSUME EInv, E!Granted, E!Copy PROVE EInv'
<1>1. /\ ePc = "copy" /\ E!TypeOK /\ E!TypeOK' /\ ePlaced /\ Placed /\ WholePages /\ Copying
  BY ImageTyped DEF E!Copy, E!Next, EInv, Copying, Placed
<1>2. PICK j \in 1 .. Len(ePhdr) : j = eI
  BY <1>1 DEF E!Copy, E!TypeOK
<1> DEFINE p == ePhdr[j]
           Here == p.vaddr .. p.vaddr + p.filesz - 1
           Copies == [a \in E!Addresses |-> IF a \in Here THEN Byte(j, a) ELSE eImage[a]]
<1>3. eI' = j + 1 /\ UNCHANGED <<ePhdr, eTable, eFileSize, eVmin, eVmax, ePlaced>>
  BY <1>2 DEF E!Copy, E!file
<1>5. /\ Len(ePhdr) \in Nat /\ eFileSize \in Nat /\ Top \in Nat \ {0}
      /\ eVmin \in 0 .. Top - 1 /\ eVmax \in 0 .. Top - 1 /\ eImage \in [E!Addresses -> Int]
      /\ E!Addresses = 0 .. Top - 1
  <2>1. Top \in Nat \ {0} /\ E!Addresses = 0 .. Top - 1 /\ eFileSize \in 0 .. Top - 1
    BY <1>1, ImageConstants DEF E!TypeOK
  <2>2. /\ Len(ePhdr) \in Nat /\ eVmin \in E!Addresses /\ eVmax \in E!Addresses
        /\ eImage \in [E!Addresses -> Int]
    BY <1>1 DEF E!TypeOK
  <2>3. eFileSize \in Nat
    BY <2>1
  <2> QED BY <2>1, <2>2, <2>3
<1>6. /\ p \in Headers /\ (Loadable(j) <=> ~E!Skipped(p))
      /\ \A a : Lies(j, a) <=> Loadable(j) /\ a \in Here
  BY <1>1, HeaderAt DEF Lies
<1>7. p.vaddr \in Nat /\ p.memsz \in Nat /\ p.offset \in Nat /\ p.filesz \in Nat
      /\ p.vaddr \in 0 .. Top - 1 /\ p.filesz \in 0 .. Top - 1
  BY <1>6, HeaderFields
\* As numbers.
<1>19. /\ eFileSize \in Nat /\ Top \in Nat /\ eVmin \in Int /\ eVmax \in Int
       /\ p.vaddr \in Int /\ p.memsz \in Int /\ p.offset \in Int /\ p.filesz \in Int
       /\ p.vaddr >= 0 /\ p.memsz >= 0 /\ p.offset >= 0 /\ p.filesz >= 0
  <2> HIDE DEF p
  <2> QED BY <1>5, <1>7
<1>17. \/ E!Skipped(p) /\ UNCHANGED <<ePc, eImage>>
       \/ ~E!Skipped(p) /\ E!Wrong(p) /\ ePc' = "out" /\ UNCHANGED eImage
       \/ /\ ~E!Skipped(p) /\ ~E!Wrong(p)
          /\ ePc' = IF E!Target(p) \subseteq E!Asked THEN ePc ELSE "astray"
          /\ eImage' = [a \in E!Addresses |->
                          IF a \in E!Target(p) THEN E!Source(p, a) ELSE eImage[a]]
  <2>1. E!Read(j) = {p}
    BY <1>1, AsGranted
  <2> HIDE DEF p
  <2> QED BY <1>2, <2>1 DEF E!Copy
\* What is copied lies in the file, and in the pages.
<1>18. ASSUME ~E!Skipped(p), ~E!Wrong(p)
       PROVE  /\ p.offset + p.filesz <= eFileSize /\ p.filesz <= p.memsz
              /\ p.offset + p.filesz < Top
              /\ E!Target(p) = Here /\ E!Target(p) \subseteq E!Asked
              /\ \A a \in Here : E!Source(p, a) = Byte(j, a)
  <2>1. Loadable(j)
    BY <1>6, <1>18
  <2>2. /\ p.vaddr + p.memsz + PAGE_SIZE - 1 < Top /\ E!End(p) = p.vaddr + p.memsz
        /\ p.offset + p.filesz < Top /\ (E!PastFile(p) <=> p.offset + p.filesz > eFileSize)
    BY <1>1, <2>1, AsGranted
  <2>3. eVmin <= p.vaddr /\ p.vaddr + p.memsz <= eVmax
    BY <1>1, <2>1, <2>2 DEF WholePages, Covers
  <2>4. PAGE_SIZE \in Nat \ {0} /\ E!Asked = Pages
    BY <1>1, AskedFor, ImageConstants
  <2>5. p.offset + p.filesz \in Nat /\ p.offset + p.filesz <= eFileSize /\ p.filesz <= p.memsz
    <3>1. ~E!PastFile(p) /\ ~(p.filesz > p.memsz)
      BY <1>18 DEF E!Wrong, E!TooLong
    <3> HIDE DEF p
    <3> QED BY <1>19, <2>2, <3>1
  <2>6. p.vaddr + p.filesz <= Top
    <3> HIDE DEF p
    <3> QED BY <1>19, <2>2, <2>4, <2>5
  <2>7. E!Target(p) = Here
    <3>1. E!Target(p) = {a \in E!Addresses : (a - p.vaddr) % Top < p.filesz}
      BY DEF E!Target
    <3> HIDE DEF p
    <3> QED BY <1>7, <2>6, <3>1, CountedOff
  <2>8. Here \subseteq Pages
    <3> SUFFICES ASSUME NEW a \in Here PROVE a \in Pages
      OBVIOUS
    <3>1. a \in Int /\ p.vaddr <= a /\ a < p.vaddr + p.filesz
      BY <1>7
    <3> HIDE DEF p, Here
    <3>2. eVmin \in Int /\ eVmax \in Int
      BY <1>5
    <3>3. eVmin <= a /\ a < eVmax
      BY <1>7, <2>3, <2>5, <3>1, <3>2
    <3> QED BY <3>1, <3>2, <3>3 DEF Pages
  <2>9. ASSUME NEW a \in Here PROVE E!Source(p, a) = Byte(j, a)
    <3>1. a \in Int /\ p.vaddr <= a /\ a < p.vaddr + p.filesz
      BY <1>7
    <3> DEFINE o == p.offset + (a - p.vaddr)
    <3>2. E!Source(p, a) = E!FileByte(o % Top) /\ Byte(j, a) = E!FileByte(o)
      BY DEF E!Source, Byte
    <3>3. o \in 0 .. Top - 1 /\ o \in Int
      <4> HIDE DEF p, Here
      <4>1. a - p.vaddr \in Nat /\ a - p.vaddr < p.filesz
        BY <1>7, <3>1
      <4> QED BY <1>19, <2>2, <4>1
    <3> HIDE DEF o
    <3>4. o % Top = o
      BY <1>5, <3>3, Wraps
    <3> QED BY <3>2, <3>4
  <2> QED BY <2>2, <2>4, <2>5, <2>7, <2>8, <2>9
<1>4. \/ E!Skipped(p) /\ UNCHANGED <<ePc, eImage>>
      \/ ~E!Skipped(p) /\ E!Wrong(p) /\ ePc' = "out" /\ UNCHANGED eImage
      \/ ~E!Skipped(p) /\ ~E!Wrong(p) /\ ePc' = ePc /\ eImage' = Copies
  <2>1. ASSUME ~E!Skipped(p), ~E!Wrong(p)
        PROVE  /\ Copies = [a \in E!Addresses |->
                             IF a \in E!Target(p) THEN E!Source(p, a) ELSE eImage[a]]
               /\ E!Target(p) \subseteq E!Asked
    <3>1. /\ E!Target(p) = Here /\ E!Target(p) \subseteq E!Asked
          /\ \A a \in Here : E!Source(p, a) = Byte(j, a)
      BY <1>18, <2>1
    <3> HIDE DEF p, Here
    <3> QED BY <3>1
  <2> HIDE DEF Copies, p
  <2> QED BY <1>17, <2>1
<1>8. Pages' = Pages /\ Pages \subseteq E!Addresses
  BY <1>3, <1>5 DEF Pages
<1>9. /\ \A n : Loadable(n)' <=> Loadable(n)
      /\ \A n, a : Lies(n, a)' <=> Lies(n, a)
      /\ \A n, a : Byte(n, a)' = Byte(n, a)
      /\ \A n : E!Wrong(ePhdr[n])' <=> E!Wrong(ePhdr[n])
  BY <1>3 DEF Loadable, Lies, Byte, E!Skipped, E!FileByte, E!Wrong, E!PastFile, E!TooLong
<1>10. WholePages'
  BY <1>1, <1>3, <1>9 DEF WholePages, Covers, Loadable
<1>11. eI' - 1 = j /\ eI - 1 = j - 1 /\ \A n \in 1 .. j : n = j \/ n \in 1 .. j - 1
  BY <1>2, <1>3, <1>5
<1> DEFINE After(a) ==
      \/ eImage'[a] = E!ZERO /\ \A n \in 1 .. j : ~Lies(n, a)
      \/ \E n \in 1 .. j : /\ Lies(n, a) /\ eImage'[a] = Byte(n, a)
                           /\ \A m \in 1 .. j : Lies(m, a) => m <= n
<1> HIDE DEF p, Here, Copies
\* What holds at an address that this header has no byte for.
<1>12. ASSUME NEW a \in Pages, ~Lies(j, a), eImage'[a] = eImage[a]
       PROVE  After(a)
  <2>1. \/ eImage[a] = E!ZERO /\ \A n \in 1 .. j - 1 : ~Lies(n, a)
        \/ \E n \in 1 .. j - 1 : /\ Lies(n, a) /\ eImage[a] = Byte(n, a)
                                 /\ \A m \in 1 .. j - 1 : Lies(m, a) => m <= n
    BY <1>1, <1>11 DEF Copying, Layered
  <2>2. \A n \in 1 .. j - 1 : n \in 1 .. j
    OBVIOUS
  <2> QED BY <1>11, <1>12, <2>1, <2>2
<1>13. ASSUME \A a \in Pages : After(a), Loadable(j) => ~E!Wrong(p)
       PROVE  Copying'
  <2>1. \A n \in 1 .. j : Loadable(n) => ~E!Wrong(ePhdr[n])
    BY <1>1, <1>11, <1>13 DEF Copying, p
  <2>2. \A n \in 1 .. eI' - 1 : Loadable(n)' => ~E!Wrong(ePhdr[n])'
    BY <1>9, <1>11, <2>1
  <2>3. \A a \in Pages' :
          \/ eImage'[a] = E!ZERO /\ \A n \in 1 .. eI' - 1 : ~Lies(n, a)'
          \/ \E n \in 1 .. eI' - 1 : /\ Lies(n, a)' /\ eImage'[a] = Byte(n, a)'
                                     /\ \A m \in 1 .. eI' - 1 : Lies(m, a)' => m <= n
    BY <1>8, <1>9, <1>11, <1>13
  <2> QED BY <1>1, <1>3, <2>2, <2>3 DEF Copying, Layered
<1>14. CASE E!Skipped(p) /\ UNCHANGED <<ePc, eImage>>
  <2>1. ~Loadable(j) /\ \A a : ~Lies(j, a)
    BY <1>6, <1>14
  <2>2. Copying'
    BY <1>12, <1>13, <1>14, <2>1
  <2>3. E!TypeOK'
    BY <1>1
  <2>4. Placed'
    BY <1>1, <1>3, <1>8, <1>10, <1>14 DEF Placed, E!Addresses, E!GARBAGE, E!BESIDE
  <2> QED BY <1>1, <1>3, <1>14, <2>2, <2>3, <2>4 DEF EInv
<1>15. CASE ~E!Skipped(p) /\ E!Wrong(p) /\ ePc' = "out" /\ UNCHANGED eImage
  <2>1. Loadable(j)' /\ E!Wrong(ePhdr[j])'
    BY <1>6, <1>9, <1>15 DEF p
  <2>2. E!TypeOK'
    BY <1>1
  <2>3. Placed'
    BY <1>1, <1>3, <1>8, <1>10, <1>15 DEF Placed, E!Addresses, E!GARBAGE, E!BESIDE
  <2>4. \E n \in 1 .. Len(ePhdr') : Loadable(n)' /\ E!Wrong(ePhdr[n])'
    BY <1>3, <2>1
  <2> QED BY <1>1, <1>3, <1>15, <2>2, <2>3, <2>4 DEF EInv
<1>16. CASE ~E!Skipped(p) /\ ~E!Wrong(p) /\ ePc' = ePc /\ eImage' = Copies
  <2>1. Loadable(j) /\ \A a : Lies(j, a) <=> a \in Here
    BY <1>6, <1>16
  <2>2. p.offset + p.filesz <= eFileSize /\ Here \subseteq Pages
    <3>1. E!Asked = Pages
      BY <1>1, AskedFor
    <3> QED BY <1>16, <1>18, <3>1
  <2>5. ASSUME NEW a \in Here PROVE Byte(j, a) \in Int /\ Byte(j, a) # E!BESIDE
    <3>1. a \in Int /\ p.vaddr <= a /\ a < p.vaddr + p.filesz
      BY <1>7 DEF Here
    <3> DEFINE o == p.offset + (a - p.vaddr)
    <3>2. o \in Nat /\ o < eFileSize
      <4>1. a - p.vaddr \in Nat /\ a - p.vaddr < p.filesz
        BY <1>7, <3>1
      <4> QED BY <1>19, <2>2, <4>1
    <3>3. Byte(j, a) = E!FileByte(o)
      BY DEF Byte, p
    <3> HIDE DEF o
    <3> QED BY <1>5, <3>2, <3>3 DEF E!FileByte, E!BESIDE
  <2>6. /\ eImage' \in [E!Addresses -> Int]
        /\ \A a \in E!Addresses : eImage'[a] = IF a \in Here THEN Byte(j, a) ELSE eImage[a]
    BY <1>5, <1>16, <2>5 DEF Copies
  <2>7. ASSUME NEW a \in Pages PROVE After(a)
    <3>1. CASE a \in Here
      <4>1. eImage'[a] = Byte(j, a) /\ Lies(j, a)
        BY <1>8, <2>1, <2>6, <3>1
      <4>2. j \in 1 .. j /\ \A m \in 1 .. j : m <= j
        OBVIOUS
      <4> QED BY <4>1, <4>2
    <3>2. CASE a \notin Here
      BY <1>8, <1>12, <2>1, <2>6, <3>2
    <3> QED BY <3>1, <3>2
  <2>8. Copying'
    BY <1>13, <1>16, <2>7
  <2>9. E!TypeOK'
    BY <1>1
  <2>10. Placed'
    <3>1. \A a \in E!Addresses \ Pages : eImage'[a] = E!GARBAGE
      BY <1>1, <2>2, <2>6 DEF Placed
    <3>2. \A a \in E!Addresses : eImage'[a] # E!BESIDE
      BY <1>1, <2>5, <2>6 DEF Placed
    <3> QED BY <1>3, <1>8, <1>10, <3>1, <3>2 DEF Placed, E!Addresses, E!GARBAGE, E!BESIDE
  <2> QED BY <1>1, <1>3, <1>16, <2>8, <2>9, <2>10 DEF EInv
<1> QED BY <1>4, <1>14, <1>15, <1>16

LEMMA CopiedKeeps == ASSUME EInv, E!Granted, E!Copied PROVE EInv'
<1>1. /\ ePc = "copy" /\ ePc' = "loaded" /\ eI > Len(ePhdr)
      /\ UNCHANGED <<ePhdr, eTable, eFileSize, eI, eVmin, eVmax, ePlaced, eImage>>
  BY DEF E!Copied, E!file
<1>2. E!TypeOK /\ ePlaced /\ Placed /\ Copying
  BY <1>1 DEF EInv, Copying
<1>3. eI = Len(ePhdr) + 1
  BY <1>1, <1>2 DEF E!TypeOK
<1>4. E!TypeOK'
  BY <1>1, <1>2 DEF E!TypeOK
<1>5. Placed'
  BY <1>1, <1>2 DEF Placed, WholePages, Covers, Loadable, Pages, E!Addresses, E!GARBAGE, E!BESIDE
<1>6. Copying'
  <2>1. /\ \A n : Loadable(n)' <=> Loadable(n)
        /\ \A n, a : Lies(n, a)' <=> Lies(n, a)
        /\ \A n, a : Byte(n, a)' = Byte(n, a)
        /\ \A n : E!Wrong(ePhdr[n])' <=> E!Wrong(ePhdr[n])
    BY <1>1 DEF Loadable, Lies, Byte, E!Skipped, E!FileByte, E!Wrong, E!PastFile, E!TooLong
  <2>2. Pages' = Pages
    BY <1>1 DEF Pages
  <2> QED BY <1>1, <1>2, <2>1, <2>2 DEF Copying, Layered
<1> QED BY <1>1, <1>2, <1>3, <1>4, <1>5, <1>6 DEF EInv

\* Whether a file is as the loader takes it is settled by the file.
LEMMA Unchanging ==
  ASSUME UNCHANGED <<ePhdr, eTable, eFileSize>>
  PROVE  E!Granted' <=> E!Granted
BY DEF E!Granted, E!TableInFile, E!InFile, E!At, E!NothingWraps, E!Segments, E!Skipped

LEMMA ImageInductive == FileInv /\ [E!Next]_(E!vars) => FileInv'
<1> SUFFICES ASSUME FileInv, [E!Next]_(E!vars) PROVE FileInv'
  OBVIOUS
<1>1. CASE UNCHANGED E!vars
  <2>1. UNCHANGED <<ePc, ePhdr, eTable, eFileSize, eI, eVmin, eVmax, ePlaced, eImage>>
    BY <1>1 DEF E!vars
  <2>2. /\ \A n : Loadable(n)' <=> Loadable(n)
        /\ \A n, a : Lies(n, a)' <=> Lies(n, a)
        /\ \A n, a : Byte(n, a)' = Byte(n, a)
        /\ \A n : E!Wrong(ePhdr[n])' <=> E!Wrong(ePhdr[n])
        /\ Pages' = Pages
    BY <2>1 DEF Loadable, Lies, Byte, Pages, E!Skipped, E!FileByte,
                E!Wrong, E!PastFile, E!TooLong
  <2>3. E!TypeOK' <=> E!TypeOK
    BY <2>1 DEF E!TypeOK
  <2>4. WholePages' <=> WholePages
    BY <2>1, <2>2 DEF WholePages, Covers
  <2>5. (Measuring' <=> Measuring) /\ (Untouched' <=> Untouched)
    BY <2>1, <2>2 DEF Measuring, Covers, Untouched
  <2>6. (Placed' <=> Placed) /\ (Copying' <=> Copying)
    BY <2>1, <2>2, <2>4 DEF Placed, Copying, Layered
  <2>7. EInv' <=> EInv
    BY <2>1, <2>2, <2>3, <2>4, <2>5, <2>6 DEF EInv
  <2>8. E!Granted' <=> E!Granted
    BY <2>1, Unchanging
  <2> QED BY <2>3, <2>7, <2>8 DEF FileInv
<1>2. CASE E!Next
  <2>1. UNCHANGED <<ePhdr, eTable, eFileSize>>
    BY <1>2 DEF E!Next, E!Measure, E!Measured, E!Place, E!Copy, E!Copied, E!file
  <2>2. E!Granted' <=> E!Granted
    BY <2>1, Unchanging
  <2>3. E!TypeOK'
    BY <1>2, ImageTyped DEF FileInv
  <2>4. ASSUME E!Granted PROVE EInv'
    BY <1>2, <2>4, MeasureKeeps, MeasuredKeeps, PlaceKeeps, CopyKeeps, CopiedKeeps
       DEF E!Next, FileInv
  <2> QED BY <2>2, <2>3, <2>4 DEF FileInv
<1> QED BY <1>1, <1>2

\* Of the segments with a byte for an address the last in the file's order is found.
LEMMA LastFound ==
  ASSUME E!TypeOK, NEW a, Layered(a, Len(ePhdr))
  PROVE  eImage[a] = E!Meant(a)
<1>1. E!Over(a) = {n \in 1 .. Len(ePhdr) : Lies(n, a)}
  BY SegmentsAre
<1>2. CASE eImage[a] = E!ZERO /\ \A n \in 1 .. Len(ePhdr) : ~Lies(n, a)
  <2>1. E!Over(a) = {}
    BY <1>1, <1>2
  <2> QED BY <1>2, <2>1 DEF E!Meant
<1>3. ASSUME NEW n \in 1 .. Len(ePhdr), Lies(n, a), eImage[a] = Byte(n, a),
             \A m \in 1 .. Len(ePhdr) : Lies(m, a) => m <= n
      PROVE  eImage[a] = E!Meant(a)
  <2>1. n \in E!Over(a) /\ \A m \in E!Over(a) : m \in Int /\ m <= n
    BY <1>1, <1>3
  <2> DEFINE last == CHOOSE m \in E!Over(a) : \A o \in E!Over(a) : o <= m
  <2>2. last \in E!Over(a) /\ \A o \in E!Over(a) : o <= last
    BY <2>1
  <2>3. last = n
    <3> HIDE DEF last
    <3> QED BY <2>1, <2>2
  <2>4. E!Over(a) # {}
    BY <2>1
  <2> QED BY <1>3, <2>3, <2>4 DEF E!Meant, Byte
<1> QED BY <1>2, <1>3 DEF Layered

LEMMA LoadsFollows == FileInv => Loads
<1> SUFFICES ASSUME E!TypeOK, E!Granted, EInv PROVE E!Image /\ E!Inside /\ E!Verdict
  BY DEF FileInv, Loads
<1>1. E!TypeOK
  OBVIOUS
<1>2. Len(ePhdr) \in Nat /\ eFileSize \in Nat
  <2>1. eFileSize \in 0 .. Top - 1 /\ Top \in Nat
    BY ImageConstants DEF E!TypeOK
  <2> QED BY <2>1 DEF E!TypeOK
<1>3. E!Image
  <2> SUFFICES ASSUME ePc = "loaded", NEW a \in Pages PROVE eImage[a] = E!Meant(a)
    BY DEF E!Image, Pages
  <2>1. eI - 1 = Len(ePhdr)
    BY <1>2 DEF EInv
  <2>2. Layered(a, eI - 1)
    BY DEF EInv, Copying
  <2> QED BY <1>1, <2>1, <2>2, LastFound
<1>4. E!Inside
  <2> SUFFICES ASSUME ePlaced PROVE E!Inside
    BY DEF E!Inside, EInv
  <2>1. Placed /\ WholePages
    BY DEF EInv, Placed
  <2>2. \A p \in E!Segments : eVmin <= p.vaddr /\ p.vaddr + p.memsz <= eVmax
    <3>1. \A n \in 1 .. Len(ePhdr) : Loadable(n) => eVmin <= ePhdr[n].vaddr /\ ePhdr[n].vaddr + ePhdr[n].memsz <= eVmax
      BY <2>1, AsGranted DEF WholePages, Covers
    <3> QED BY <3>1, SegmentsAre
  <2> QED BY <2>1, <2>2 DEF Placed, WholePages, E!Inside, EInv, Pages
<1>5. E!Verdict
  <2> DEFINE fits == \A p \in E!Segments : p.offset + p.filesz <= eFileSize /\ p.filesz <= p.memsz
  <2>1. ASSUME NEW n \in 1 .. Len(ePhdr), Loadable(n)
        PROVE  E!Wrong(ePhdr[n]) <=>
                 ~(/\ ePhdr[n].offset + ePhdr[n].filesz <= eFileSize
                   /\ ePhdr[n].filesz <= ePhdr[n].memsz)
    <3>1. ePhdr[n] \in Headers
      BY <1>1, HeaderAt
    <3>2. E!PastFile(ePhdr[n]) <=> ePhdr[n].offset + ePhdr[n].filesz > eFileSize
      BY <2>1, AsGranted
    <3>3. /\ ePhdr[n].offset \in Nat /\ ePhdr[n].filesz \in Nat /\ ePhdr[n].memsz \in Nat
      BY <3>1, HeaderFields
    <3> QED BY <1>2, <3>2, <3>3 DEF E!Wrong, E!TooLong
  <2>2. fits <=> \A n \in 1 .. Len(ePhdr) : Loadable(n) => ~E!Wrong(ePhdr[n])
    BY <1>1, <2>1, SegmentsAre
  <2>3. E!Segments = {} <=> \A n \in 1 .. Len(ePhdr) : ~Loadable(n)
    BY <1>1, SegmentsAre
  <2>4. ePc = "loaded" => E!Segments # {} /\ fits
    <3> SUFFICES ASSUME ePc = "loaded" PROVE E!Segments # {} /\ fits
      OBVIOUS
    <3>1. eI - 1 = Len(ePhdr) /\ Copying /\ WholePages
      BY <1>2 DEF EInv, Copying, Placed
    <3> HIDE DEF fits
    <3> QED BY <2>2, <2>3, <3>1 DEF Copying, WholePages
  <2>5. ePc = "out" => E!Segments = {} \/ ~ePlaced \/ ~fits
    <3> HIDE DEF fits
    <3> QED BY <2>2, <2>3 DEF EInv
  <2> QED BY <2>4, <2>5 DEF E!Verdict
<1> QED BY <1>3, <1>4, <1>5

\* Of a file with its table of headers in it and no sum that wraps, whatever its
\* headers are and in whatever order, and whatever sizes pages and memory are: the
\* image that is entered is the one in the file, inside the pages that were asked
\* for, and exactly the files that do not fit are refused.  Of the others nothing
\* is promised: the code does not check for either.
THEOREM ImageLoads == E!Spec => []Loads
<1>1. FileInv => Loads
  BY LoadsFollows
<1>2. E!Init => FileInv
  BY ImageInitially DEF FileInv, EInv
<1> QED BY <1>1, <1>2, ImageInductive, PTL DEF E!Spec

-------------------------------------------------------------------------------
(* The loops over bytes: how far each has come *)

\* The byte at a was copied from its place in the source, or is as it was.
CopiedFrom(a, first, end) ==
  mMemory[a] = mBefore[IF a \in first .. end - 1 THEN mSrc + (a - mDest) ELSE a]

\* The byte at a has been set, or is as it was.
SetBefore(a, end) ==
  mMemory[a] = IF a \in mDest .. end - 1 THEN M!AsByte(mVal) ELSE mBefore[a]

Disjoint == mRoutine = "memcpy" => ~(mSrc < mDest /\ mDest < mSrc + mLength)

SameUpTo(n) == \A m \in 0 .. n - 1 : mMemory[mDest + m] = mMemory[mSrc + m]

MInv ==
  /\ M!TypeOK
  /\ mPc \in {"forward", "backward"} => mRoutine \in M!Movers
  /\ mPc = "fill" => mRoutine \in M!Setters
  /\ mPc = "compare" => mRoutine \in M!Comparers /\ mResult = 0 /\ SameUpTo(mDone)
  /\ mPc = "forward" /\ Disjoint =>
       /\ mDest <= mSrc \/ mDest >= mSrc + mLength
       /\ \A a \in M!Addresses : CopiedFrom(a, mDest, mDest + mDone)
  /\ mPc = "backward" =>
       /\ mSrc <= mDest
       /\ \A a \in M!Addresses : CopiedFrom(a, mDest + mLength - mDone, mDest + mLength)
  /\ mPc = "fill" => \A a \in M!Addresses : SetBefore(a, mDest + mDone)
  /\ mPc = "returned" => M!Moves /\ M!Sets /\ M!Orders

LEMMA MemoryConstants == Cells \in Nat \ {0} /\ BYTE \in Nat \ {0, 1} /\ Fills \subseteq Nat
BY MemoryFits DEF M!ConstantsFit

\* Who loops where.
LEMMA Routines ==
  /\ M!Movers \cap M!Setters = {} /\ M!Movers \cap M!Comparers = {} /\ M!Setters \cap M!Comparers = {}
  /\ "none" \notin M!Movers /\ "none" \notin M!Comparers /\ "memcpy" \in M!Movers
BY DEF M!Movers, M!Setters, M!Comparers

LEMMA MemTypes ==
  M!TypeOK <=>
    /\ mMemory \in [M!Addresses -> 0 .. BYTE - 1] /\ mBefore \in [M!Addresses -> 0 .. BYTE - 1]
    /\ mPc \in {"idle", "returned", "forward", "backward", "fill", "compare"}
    /\ mRoutine \in M!Movers \cup M!Setters \cup M!Comparers \cup {"none"}
    /\ mLength \in 0 .. Cells
    /\ mSrc \in 0 .. Cells - mLength /\ mDest \in 0 .. Cells - mLength
    /\ mVal \in Fills \cup {0}
    /\ mDone \in 0 .. mLength /\ mResult \in 1 - BYTE .. BYTE - 1
BY DEF M!TypeOK

LEMMA MemTypesNext ==
  M!TypeOK' <=>
    /\ mMemory' \in [M!Addresses -> 0 .. BYTE - 1] /\ mBefore' \in [M!Addresses -> 0 .. BYTE - 1]
    /\ mPc' \in {"idle", "returned", "forward", "backward", "fill", "compare"}
    /\ mRoutine' \in M!Movers \cup M!Setters \cup M!Comparers \cup {"none"}
    /\ mLength' \in 0 .. Cells
    /\ mSrc' \in 0 .. Cells - mLength' /\ mDest' \in 0 .. Cells - mLength'
    /\ mVal' \in Fills \cup {0}
    /\ mDone' \in 0 .. mLength' /\ mResult' \in 1 - BYTE .. BYTE - 1
BY DEF M!TypeOK, M!Addresses

LEMMA MemInitially == M!Init => MInv
<1> SUFFICES ASSUME M!Init PROVE MInv
  OBVIOUS
<1>1. /\ mMemory \in [M!Addresses -> 0 .. BYTE - 1] /\ mBefore = mMemory
      /\ mPc = "idle" /\ mRoutine = "none" /\ mSrc = 0 /\ mDest = 0 /\ mLength = 0 /\ mVal = 0
      /\ mDone = 0 /\ mResult = 0
  BY DEF M!Init
<1>2. 0 \in 0 .. Cells /\ 0 \in 0 .. Cells - 0 /\ 0 \in 0 .. 0 /\ 0 \in 1 - BYTE .. BYTE - 1
  BY MemoryConstants
<1>3. M!TypeOK
  BY <1>1, <1>2, MemTypes
<1> QED BY <1>1, <1>3 DEF MInv

\* A call chooses its loop.
LEMMA CallKeeps == ASSUME MInv, M!Call PROVE MInv'
<1>1. M!TypeOK
  BY DEF MInv
<1>2. PICK r \in M!Movers \cup M!Setters \cup M!Comparers, n \in 0 .. Cells :
        /\ mRoutine' = r /\ mLength' = n
        /\ mDest' \in 0 .. Cells - n
        /\ mSrc' \in IF r \in M!Setters THEN {mDest'} ELSE 0 .. Cells - n
        /\ mVal' \in IF r \in M!Setters THEN Fills ELSE {0}
        /\ mPc' = M!Loop(r, mSrc', mDest')
        /\ mDone' = 0 /\ mResult' = 0 /\ mBefore' = mMemory /\ mMemory' = mMemory
  BY DEF M!Call
<1>a. mSrc' \in 0 .. Cells - n /\ mDest' \in 0 .. Cells - n /\ mVal' \in Fills \cup {0}
  BY <1>2, MemoryConstants
<1>3. /\ n \in Nat /\ mSrc' \in Nat /\ mDest' \in Nat
      /\ mLength' = n /\ mDone' = 0 /\ mRoutine' = r
  BY <1>2, <1>a, MemoryConstants
<1>b. PICK s \in Nat, d \in Nat : mSrc' = s /\ mDest' = d
  BY <1>3
<1>4. \/ r \in M!Setters /\ mPc' = "fill"
      \/ r \in M!Comparers /\ mPc' = "compare"
      \/ r = "memcpy" /\ mPc' = "forward"
      \/ r \in M!Movers \ {"memcpy"} /\ mDest' < mSrc' /\ mPc' = "forward"
      \/ r \in M!Movers \ {"memcpy"} /\ ~(mDest' < mSrc') /\ mPc' = "backward"
  <2>1. CASE r \in M!Setters
    BY <1>2, <2>1, Routines DEF M!Loop
  <2>2. CASE r \in M!Comparers
    BY <1>2, <2>2, Routines DEF M!Loop
  <2>3. CASE r \in M!Movers
    BY <1>2, <2>3, Routines DEF M!Loop, M!Starts
  <2> QED BY <1>2, <2>1, <2>2, <2>3
<1>5. M!TypeOK'
  <2>1. mPc' \in {"idle", "returned", "forward", "backward", "fill", "compare"}
    BY <1>4
  <2>2. 0 \in 0 .. n /\ 0 \in 1 - BYTE .. BYTE - 1
    BY <1>3, MemoryConstants
  <2>3. mMemory \in [M!Addresses -> 0 .. BYTE - 1]
    BY <1>1, MemTypes
  <2> QED BY <1>2, <1>a, <1>3, <2>1, <2>2, <2>3, MemTypesNext
<1>6. mPc' = "forward" /\ Disjoint' => mDest' <= mSrc' \/ mDest' >= mSrc' + mLength'
  <2> SUFFICES ASSUME mPc' = "forward", Disjoint' PROVE d <= s \/ d >= s + n
    BY <1>3, <1>b
  <2>1. CASE r = "memcpy"
    <3>1. ~(s < d /\ d < s + n)
      BY <1>3, <1>b, <2>1 DEF Disjoint
    <3> QED BY <1>3, <3>1
  <2>2. CASE r # "memcpy"
    BY <1>4, <1>b, <2>2
  <2> QED BY <2>1, <2>2
<1>7. mPc' = "backward" => mSrc' <= mDest'
  BY <1>4, <1>b
\* Nothing has been copied yet.
<1>8. ASSUME NEW a \in M!Addresses
      PROVE  /\ CopiedFrom(a, mDest, mDest + mDone)' /\ CopiedFrom(a, mDest + mLength - mDone, mDest + mLength)'
             /\ SetBefore(a, mDest + mDone)'
  <2>1. mDest' .. (mDest' + mDone') - 1 = {}
    <3>1. d .. (d + 0) - 1 = {}
      OBVIOUS
    <3> QED BY <1>3, <1>b, <3>1
  <2>2. (mDest' + mLength' - mDone') .. (mDest' + mLength') - 1 = {}
    <3>1. (d + n - 0) .. (d + n) - 1 = {}
      BY <1>3
    <3> QED BY <1>3, <1>b, <3>1
  <2>3. mMemory'[a] = mBefore'[a]
    BY <1>2
  <2> QED BY <2>1, <2>2, <2>3 DEF CopiedFrom, SetBefore
<1>9. SameUpTo(mDone)'
  <2>1. 0 .. mDone' - 1 = {}
    BY <1>2
  <2> QED BY <2>1 DEF SameUpTo
<1> QED BY <1>2, <1>4, <1>5, <1>6, <1>7, <1>8, <1>9, Routines DEF MInv, M!Addresses

\* A byte stored within the destination.
LEMMA Stored ==
  ASSUME M!TypeOK, mDone < mLength, NEW k \in 0 .. mLength - 1, NEW b \in 0 .. BYTE - 1, M!Store(k, b)
  PROVE  /\ M!TypeOK' /\ mDone' = mDone + 1
         /\ UNCHANGED <<mPc, mRoutine, mSrc, mDest, mLength, mVal, mBefore, mResult>>
         /\ \A a \in M!Addresses : mMemory'[a] = IF a = mDest + k THEN b ELSE mMemory[a]
<1>1. /\ mDone' = mDone + 1
      /\ mMemory' = [mMemory EXCEPT ![mDest + k] = b]
      /\ UNCHANGED <<mPc, mRoutine, mSrc, mDest, mLength, mVal, mBefore, mResult>>
  BY DEF M!Store, M!args
<1>2. mLength \in Nat /\ mDone \in Nat /\ mMemory \in [M!Addresses -> 0 .. BYTE - 1]
  BY MemTypes, MemoryConstants
<1>3. /\ mMemory' \in [M!Addresses -> 0 .. BYTE - 1]
      /\ \A a \in M!Addresses : mMemory'[a] = IF a = mDest + k THEN b ELSE mMemory[a]
  BY <1>1, <1>2
<1>4. mDone' \in 0 .. mLength
  BY <1>1, <1>2
<1> QED BY <1>1, <1>3, <1>4, MemTypes, MemTypesNext

LEMMA Numbers ==
  ASSUME M!TypeOK
  PROVE  /\ Cells \in Nat /\ mLength \in 0 .. Cells /\ mDone \in 0 .. mLength /\ mLength \in Nat
         /\ mDone \in Nat /\ mSrc \in Nat /\ mDest \in Nat
         /\ mSrc + mLength <= Cells /\ mDest + mLength <= Cells
BY MemTypes, MemoryConstants

\* Forwards, no byte of the source is overwritten before it is read.
LEMMA ForwardKeeps == ASSUME MInv, M!Forward PROVE MInv'
<1>1. M!TypeOK /\ mPc = "forward" /\ mDone < mLength /\ mRoutine \in M!Movers
  BY DEF MInv, M!Forward, M!More
<1>2. PICK s \in Nat, d \in Nat, len \in Nat, j \in Nat :
        s = mSrc /\ d = mDest /\ len = mLength /\ j = mDone
  BY <1>1, Numbers
<1>3. Cells \in Nat /\ s + len <= Cells /\ d + len <= Cells /\ j < len
  BY <1>1, <1>2, Numbers
<1>4. s + j \in M!Addresses /\ d + j \in M!Addresses
  BY <1>3 DEF M!Addresses
<1>5. PICK b \in 0 .. BYTE - 1 : b = mMemory[s + j]
  BY <1>1, <1>4, MemTypes
<1>6. M!Store(j, b)
  BY <1>2, <1>5 DEF M!Forward
<1>7. j \in 0 .. mLength - 1
  BY <1>2, <1>3
<1>8. /\ M!TypeOK' /\ mDone' = j + 1
      /\ UNCHANGED <<mPc, mRoutine, mSrc, mDest, mLength, mVal, mBefore, mResult>>
      /\ \A a \in M!Addresses : mMemory'[a] = IF a = d + j THEN b ELSE mMemory[a]
  BY <1>1, <1>2, <1>6, <1>7, Stored
<1>9. Disjoint' <=> Disjoint
  BY <1>8 DEF Disjoint
<1>10. ASSUME Disjoint, NEW a \in M!Addresses
       PROVE  CopiedFrom(a, mDest, mDest + mDone)'
  <2>1. d <= s \/ d >= s + len
    BY <1>1, <1>2, <1>10 DEF MInv
  <2>2. \A x \in M!Addresses : mMemory[x] = mBefore[IF x \in d .. (d + j) - 1 THEN s + (x - d) ELSE x]
    BY <1>1, <1>2, <1>10 DEF MInv, CopiedFrom
  <2>3. b = mBefore[s + j]
    <3>1. s + j \notin d .. (d + j) - 1
      BY <1>3, <2>1
    <3> QED BY <1>4, <1>5, <2>2, <3>1
  <2>4. a \in Int
    BY DEF M!Addresses
  <2>5. mMemory'[a] = mBefore[IF a \in d .. (d + (j + 1)) - 1 THEN s + (a - d) ELSE a]
    <3>1. CASE a = d + j
      <4>1. a \in d .. (d + (j + 1)) - 1 /\ s + (a - d) = s + j
        BY <3>1
      <4> QED BY <1>8, <2>3, <3>1, <4>1
    <3>2. CASE a # d + j
      <4>1. a \in d .. (d + (j + 1)) - 1 <=> a \in d .. (d + j) - 1
        BY <2>4, <3>2
      <4> QED BY <1>8, <2>2, <3>2, <4>1
    <3> QED BY <3>1, <3>2
  <2> QED BY <1>2, <1>8, <2>5 DEF CopiedFrom
<1>11. Disjoint => mDest' <= mSrc' \/ mDest' >= mSrc' + mLength'
  BY <1>1, <1>8 DEF MInv
<1> QED BY <1>1, <1>8, <1>9, <1>10, <1>11 DEF MInv, M!Addresses

\* Backwards neither.
LEMMA BackwardKeeps == ASSUME MInv, M!Backward PROVE MInv'
<1>1. M!TypeOK /\ mPc = "backward" /\ mDone < mLength /\ mRoutine \in M!Movers
  BY DEF MInv, M!Backward, M!More
<1>2. PICK s \in Nat, d \in Nat, len \in Nat, j \in Nat :
        s = mSrc /\ d = mDest /\ len = mLength /\ j = mDone
  BY <1>1, Numbers
<1>3. Cells \in Nat /\ s + len <= Cells /\ d + len <= Cells /\ j < len
  BY <1>1, <1>2, Numbers
<1> DEFINE k == len - 1 - j
<1>4. k \in 0 .. len - 1 /\ s + k \in M!Addresses /\ d + k \in M!Addresses
  BY <1>3 DEF M!Addresses
<1>5. PICK b \in 0 .. BYTE - 1 : b = mMemory[s + k]
  BY <1>1, <1>4, MemTypes
<1>6. M!Store(k, b)
  BY <1>2, <1>5 DEF M!Backward
<1>7. k \in 0 .. mLength - 1 /\ k \in Int /\ k = len - 1 - j
  BY <1>2, <1>4
<1> HIDE DEF k
<1>8. /\ M!TypeOK' /\ mDone' = j + 1
      /\ UNCHANGED <<mPc, mRoutine, mSrc, mDest, mLength, mVal, mBefore, mResult>>
      /\ \A a \in M!Addresses : mMemory'[a] = IF a = d + k THEN b ELSE mMemory[a]
  BY <1>1, <1>2, <1>6, <1>7, Stored
<1>9. ASSUME NEW a \in M!Addresses
      PROVE  CopiedFrom(a, mDest + mLength - mDone, mDest + mLength)'
  <2>1. s <= d
    BY <1>1, <1>2 DEF MInv
  <2>2. \A x \in M!Addresses :
          mMemory[x] = mBefore[IF x \in (d + len - j) .. (d + len) - 1 THEN s + (x - d) ELSE x]
    BY <1>1, <1>2 DEF MInv, CopiedFrom
  <2>3. b = mBefore[s + k]
    <3>1. s + k \notin (d + len - j) .. (d + len) - 1
      BY <1>3, <1>7, <2>1
    <3> QED BY <1>4, <1>5, <2>2, <3>1
  <2>4. a \in Int
    BY DEF M!Addresses
  <2>5. mMemory'[a] = mBefore[IF a \in (d + len - (j + 1)) .. (d + len) - 1 THEN s + (a - d) ELSE a]
    <3>1. CASE a = d + k
      <4>1. a \in (d + len - (j + 1)) .. (d + len) - 1 /\ s + (a - d) = s + k
        BY <1>3, <1>7, <3>1
      <4> QED BY <1>8, <2>3, <3>1, <4>1
    <3>2. CASE a # d + k
      <4>1. a \in (d + len - (j + 1)) .. (d + len) - 1 <=> a \in (d + len - j) .. (d + len) - 1
        BY <1>3, <1>7, <2>4, <3>2
      <4> QED BY <1>8, <2>2, <3>2, <4>1
    <3> QED BY <3>1, <3>2
  <2> QED BY <1>2, <1>8, <2>5 DEF CopiedFrom
<1>10. mSrc' <= mDest'
  BY <1>1, <1>8 DEF MInv
<1> QED BY <1>1, <1>8, <1>9, <1>10 DEF MInv, M!Addresses

\* A byte more has been set.
LEMMA FillKeeps == ASSUME MInv, M!Fill PROVE MInv'
<1>1. /\ M!TypeOK /\ mPc = "fill" /\ mDone < mLength /\ mRoutine \in M!Setters
      /\ \A a \in M!Addresses : SetBefore(a, mDest + mDone)
  BY DEF MInv, M!Fill, M!More
<1>2. PICK d \in Nat, j \in 0 .. mLength - 1 : d = mDest /\ j = mDone /\ j \in Nat
  BY <1>1, Numbers
<1>3. PICK b \in 0 .. BYTE - 1 : b = M!AsByte(mVal)
  <2>1. mVal \in Nat
    <3>1. mVal \in Fills \cup {0}
      BY <1>1, MemTypes
    <3> QED BY <3>1, MemoryConstants
  <2>2. mVal % BYTE \in 0 .. BYTE - 1
    BY <2>1, MemoryConstants, SMT
  <2> QED BY <2>2 DEF M!AsByte
<1>4. M!Store(j, b)
  BY <1>2, <1>3 DEF M!Fill
<1>5. /\ M!TypeOK' /\ mDone' = j + 1
      /\ UNCHANGED <<mPc, mRoutine, mSrc, mDest, mLength, mVal, mBefore, mResult>>
      /\ \A a \in M!Addresses : mMemory'[a] = IF a = d + j THEN b ELSE mMemory[a]
  BY <1>1, <1>2, <1>4, Stored
<1>6. ASSUME NEW a \in M!Addresses PROVE SetBefore(a, mDest + mDone)'
  <2>1. a \in Int
    BY DEF M!Addresses
  <2>2. mMemory[a] = IF a \in d .. (d + j) - 1 THEN b ELSE mBefore[a]
    BY <1>1, <1>2, <1>3 DEF SetBefore
  <2>3. a \in d .. (d + (j + 1)) - 1 <=> a = d + j \/ a \in d .. (d + j) - 1
    BY <1>2, <2>1
  <2>4. mMemory'[a] = IF a \in d .. (d + (j + 1)) - 1 THEN b ELSE mBefore[a]
    BY <1>5, <2>2, <2>3
  <2>5. M!AsByte(mVal)' = b
    BY <1>3, <1>5 DEF M!AsByte
  <2> QED BY <1>2, <1>5, <2>4, <2>5 DEF SetBefore
<1> QED BY <1>1, <1>5, <1>6 DEF MInv, M!Addresses

\* The sign of what memcmp returns is the order of the two bytes.
LEMMA Ordered ==
  ASSUME NEW x \in 0 .. BYTE - 1, NEW y \in 0 .. BYTE - 1
  PROVE  /\ M!Difference(x, y) \in 1 - BYTE .. BYTE - 1
         /\ M!Difference(x, y) = 0 <=> x = y
         /\ M!Difference(x, y) < 0 <=> x < y
<1>1. BYTE \in Nat \ {0, 1}
  BY MemoryConstants
<1>2. CASE mRoutine = "Mem::memcmp"
  <2>1. M!Difference(x, y) = IF x < y THEN -1 ELSE IF x = y THEN 0 ELSE 1
    BY <1>2 DEF M!Difference, M!Unsigned
  <2> QED BY <1>1, <2>1
<1>3. CASE mRoutine # "Mem::memcmp"
  <2>1. M!Difference(x, y) = x - y
    BY <1>3 DEF M!Difference, M!Unsigned
  <2> QED BY <1>1, <2>1
<1> QED BY <1>2, <1>3

LEMMA CompareKeeps == ASSUME MInv, M!Compare PROVE MInv'
<1>1. /\ M!TypeOK /\ mPc = "compare" /\ mDone < mLength /\ mRoutine \in M!Comparers
      /\ mRoutine \notin M!Movers /\ SameUpTo(mDone)
  BY Routines DEF MInv, M!Compare, M!More
<1>2. PICK s \in Nat, d \in Nat, len \in Nat, j \in Nat :
        s = mSrc /\ d = mDest /\ len = mLength /\ j = mDone
  BY <1>1, Numbers
<1>3. Cells \in Nat /\ s + len <= Cells /\ d + len <= Cells /\ j < len
  BY <1>1, <1>2, Numbers
<1>4. s + j \in M!Addresses /\ d + j \in M!Addresses
  BY <1>3 DEF M!Addresses
<1>5. PICK x \in 0 .. BYTE - 1, y \in 0 .. BYTE - 1 : x = mMemory[d + j] /\ y = mMemory[s + j]
  BY <1>1, <1>4, MemTypes
<1>6. PICK r \in 1 - BYTE .. BYTE - 1 : r = M!Difference(x, y)
  BY Ordered
<1>7. (r = 0 <=> x = y) /\ (r < 0 <=> x < y) /\ r \in Int
  BY <1>6, Ordered, MemoryConstants
<1>8. /\ mResult' = r /\ mDone' = j + 1
      /\ mPc' = IF r = 0 THEN "compare" ELSE "returned"
      /\ UNCHANGED <<mMemory, mRoutine, mSrc, mDest, mLength, mVal, mBefore>>
  BY <1>1, <1>2, <1>5, <1>6 DEF M!Compare, M!args
<1>9. M!TypeOK'
  <2>1. mDone' \in 0 .. mLength
    BY <1>2, <1>3, <1>8
  <2>2. mPc' \in {"idle", "returned", "forward", "backward", "fill", "compare"}
    BY <1>8
  <2> QED BY <1>1, <1>6, <1>8, <2>1, <2>2, MemTypes, MemTypesNext
<1>10. \A m \in 0 .. j - 1 : mMemory[d + m] = mMemory[s + m]
  BY <1>1, <1>2 DEF SameUpTo
<1>11. CASE r = 0
  <2>1. \A m \in 0 .. (j + 1) - 1 : mMemory[d + m] = mMemory[s + m]
    <3>1. \A m \in 0 .. (j + 1) - 1 : m \in 0 .. j - 1 \/ m = j
      OBVIOUS
    <3> QED BY <1>5, <1>7, <1>10, <1>11, <3>1
  <2>2. SameUpTo(mDone)'
    BY <1>2, <1>8, <2>1 DEF SameUpTo
  <2> QED BY <1>1, <1>8, <1>9, <1>11, <2>2 DEF MInv
<1>12. CASE r # 0
  <2> DEFINE differ == {m \in 0 .. len - 1 : mMemory[d + m] # mMemory[s + m]}
  <2>1. j \in differ
    BY <1>3, <1>5, <1>7, <1>12
  <2>2. ASSUME NEW m \in differ, \A o \in differ : m <= o
        PROVE  r < 0 <=> mMemory[d + m] < mMemory[s + m]
    <3>1. m \in 0 .. len - 1 /\ m \notin 0 .. j - 1 /\ m <= j
      BY <1>10, <2>1, <2>2
    <3>2. m = j
      BY <3>1
    <3> QED BY <1>5, <1>7, <3>2
  <2>3. M!Orders'
    <3>1. M!Orders' <=>
            (mRoutine' \in M!Comparers /\ mPc' = "returned" =>
               /\ mResult' = 0 <=> differ = {}
               /\ \A m \in differ : (\A o \in differ : m <= o) =>
                    (mResult' < 0 <=> mMemory'[mDest' + m] < mMemory'[mSrc' + m]))
      BY <1>2, <1>8 DEF M!Orders
    <3>2. differ # {}
      BY <2>1
    <3> HIDE DEF differ
    <3> QED BY <1>2, <1>8, <1>12, <2>2, <3>1, <3>2
  <2>4. M!Moves' /\ M!Sets'
    BY <1>1, <1>8, Routines DEF M!Moves, M!Sets
  <2> QED BY <1>8, <1>9, <1>12, <2>3, <2>4 DEF MInv
<1> QED BY <1>11, <1>12

\* A routine returns when its loop has been over all bytes.
LEMMA ReturnKeeps == ASSUME MInv, M!Return PROVE MInv'
<1>1. /\ M!TypeOK /\ mPc \in {"forward", "backward", "fill", "compare"} /\ ~(mDone < mLength)
      /\ mPc' = "returned"
      /\ UNCHANGED <<mMemory, mRoutine, mSrc, mDest, mLength, mVal, mBefore, mDone, mResult>>
  BY MemTypes DEF MInv, M!Return, M!More, M!args
<1>2. PICK s \in Nat, d \in Nat, len \in Nat :
        s = mSrc /\ d = mDest /\ len = mLength /\ len = mDone
  BY <1>1, Numbers
<1>3. M!TypeOK'
  BY <1>1, MemTypes, MemTypesNext
<1>4. ASSUME mRoutine \in M!Movers, Disjoint, NEW a \in M!Addresses
      PROVE  mMemory[a] = mBefore[IF a \in d .. (d + len) - 1 THEN s + (a - d) ELSE a]
  <2>1. mPc \in {"forward", "backward"}
    BY <1>1, <1>4, Routines DEF MInv
  <2>2. CASE mPc = "forward"
    BY <1>2, <1>4, <2>2 DEF MInv, CopiedFrom
  <2>3. CASE mPc = "backward"
    <3>1. mMemory[a] = mBefore[IF a \in (d + len - len) .. (d + len) - 1 THEN s + (a - d) ELSE a]
      BY <1>2, <2>3 DEF MInv, CopiedFrom
    <3>2. d + len - len = d
      OBVIOUS
    <3> QED BY <3>1, <3>2
  <2> QED BY <2>1, <2>2, <2>3
<1>5. M!Moves'
  <2> SUFFICES ASSUME mRoutine \in M!Movers, Disjoint, NEW a \in M!Addresses
               PROVE  mMemory[a] = mBefore[IF a \in mDest .. mDest + mLength - 1
                                           THEN mSrc + (a - mDest) ELSE a]
    BY <1>1 DEF M!Moves, Disjoint, M!Addresses
  <2>1. d .. (d + len) - 1 = d .. d + len - 1
    <3>1. (d + len) - 1 = d + len - 1
      OBVIOUS
    <3> QED BY <3>1
  <2> QED BY <1>2, <1>4, <2>1
<1>6. M!Orders'
  <2> SUFFICES ASSUME mRoutine \in M!Comparers PROVE M!Orders'
    BY <1>1 DEF M!Orders
  <2>1. mPc = "compare"
    BY <1>1, Routines DEF MInv
  <2>2. mResult = 0 /\ \A m \in 0 .. len - 1 : mMemory[d + m] = mMemory[s + m]
    BY <1>2, <2>1 DEF MInv, SameUpTo
  <2>3. {m \in 0 .. len - 1 : mMemory[d + m] # mMemory[s + m]} = {}
    BY <2>2
  <2> QED BY <1>1, <1>2, <2>2, <2>3 DEF M!Orders
<1>7. M!Sets'
  <2> SUFFICES ASSUME mRoutine \in M!Setters, NEW a \in M!Addresses
               PROVE  mMemory[a] = IF a \in mDest .. mDest + mLength - 1 THEN mVal % BYTE ELSE mBefore[a]
    BY <1>1 DEF M!Sets, M!Addresses
  <2>1. mPc = "fill"
    BY <1>1, Routines DEF MInv
  <2>2. mMemory[a] = IF a \in d .. (d + len) - 1 THEN mVal % BYTE ELSE mBefore[a]
    BY <1>2, <2>1 DEF MInv, SetBefore, M!AsByte
  <2>3. (d + len) - 1 = d + len - 1
    OBVIOUS
  <2> QED BY <1>2, <2>2, <2>3
<1> QED BY <1>1, <1>3, <1>5, <1>6, <1>7 DEF MInv

LEMMA GoOnKeeps == ASSUME MInv, M!GoOn PROVE MInv'
<1>1. M!TypeOK
  BY DEF MInv
<1>2. /\ mPc' = "idle" /\ mRoutine' = "none" /\ mSrc' = 0 /\ mDest' = 0 /\ mLength' = 0 /\ mVal' = 0
      /\ mDone' = 0 /\ mResult' = 0 /\ mBefore' = mMemory /\ mMemory' = mMemory
  BY DEF M!GoOn
<1>3. 0 \in 0 .. Cells /\ 0 \in 0 .. Cells - 0 /\ 0 \in 0 .. 0 /\ 0 \in 1 - BYTE .. BYTE - 1
  BY MemoryConstants
<1>4. mMemory \in [M!Addresses -> 0 .. BYTE - 1]
  BY <1>1, MemTypes
<1>5. M!TypeOK'
  BY <1>2, <1>3, <1>4, MemTypesNext
<1> QED BY <1>2, <1>5 DEF MInv

LEMMA MemInductive == MInv /\ [M!Next]_(M!vars) => MInv'
<1> SUFFICES ASSUME MInv, [M!Next]_(M!vars) PROVE MInv'
  OBVIOUS
<1>1. CASE UNCHANGED M!vars
  <2>1. UNCHANGED <<mMemory, mPc, mRoutine, mSrc, mDest, mLength, mVal, mDone, mResult, mBefore>>
    BY <1>1 DEF M!vars
  <2>2. M!TypeOK'
    BY <2>1, MemTypes, MemTypesNext DEF MInv
  <2>3. (M!Moves' <=> M!Moves) /\ (M!Orders' <=> M!Orders)
    BY <2>1 DEF M!Moves, M!Orders, M!Addresses
  <2>4. M!Sets' <=> M!Sets
    BY <2>1 DEF M!Sets, M!Addresses
  <2>5. (Disjoint' <=> Disjoint) /\ (SameUpTo(mDone)' <=> SameUpTo(mDone))
    BY <2>1 DEF Disjoint, SameUpTo
  <2>6. \A a \in M!Addresses :
          /\ CopiedFrom(a, mDest, mDest + mDone)' <=> CopiedFrom(a, mDest, mDest + mDone)
          /\ CopiedFrom(a, mDest + mLength - mDone, mDest + mLength)'
               <=> CopiedFrom(a, mDest + mLength - mDone, mDest + mLength)
          /\ SetBefore(a, mDest + mDone)' <=> SetBefore(a, mDest + mDone)
    BY <2>1 DEF CopiedFrom, SetBefore, M!AsByte
  <2> QED BY <2>1, <2>2, <2>3, <2>4, <2>5, <2>6 DEF MInv, M!Addresses
<1> QED BY <1>1, CallKeeps, ForwardKeeps, BackwardKeeps, FillKeeps, CompareKeeps, ReturnKeeps,
           GoOnKeeps DEF M!Next

\* In memory of any size, with bytes of any width, whatever the overlap: the bytes
\* arrive as they were, memset sets its range and nothing else, and memcmp orders
\* bytes as unsigned.
THEOREM BytesInOrder == M!Spec => []Bytes
<1>1. MInv => Bytes
  <2> SUFFICES ASSUME MInv PROVE M!Moves /\ M!Sets /\ M!Orders /\ M!TypeOK
    BY DEF Bytes
  <2>1. mPc # "returned" => M!Moves /\ M!Sets /\ M!Orders
    BY DEF M!Moves, M!Sets, M!Orders
  <2> QED BY <2>1 DEF MInv
<1> QED BY <1>1, MemInitially, MemInductive, PTL DEF M!Spec

-------------------------------------------------------------------------------
(* LoaderText: numbers, and what its recursive functions compute *)

\* The least number of a set, and with it induction over a set of numbers.
LEMMA LeastNumber ==
  ASSUME NEW S \in SUBSET Nat, S # {}
  PROVE  \E m \in S : \A n \in S : m <= n
<1> DEFINE R == OpToRel(<, Nat)
<1>1. \A m, n \in Nat : <<n, m>> \in R <=> n < m
  BY DEF OpToRel
<1>2. IsWellFoundedOn(R, Nat)
  BY NatLessThanWellFounded
<1> HIDE DEF R
<1>3. PICK m \in S : \A n \in S : ~ (<<n, m>> \in R)
  BY <1>2, WFMin
<1>4. ASSUME NEW n \in S PROVE m <= n
  <2>1. m \in Nat /\ n \in Nat
    OBVIOUS
  <2>2. ~ (n < m)
    BY <1>1, <1>3, <2>1
  <2> QED BY <2>1, <2>2
<1> QED BY <1>4

LEMMA Induction ==
  ASSUME NEW S \in SUBSET Nat, 0 \in S, \A n \in S : n + 1 \in S
  PROVE  \A n \in Nat : n \in S
<1> SUFFICES ASSUME Nat \ S # {} PROVE FALSE
  OBVIOUS
<1>1. PICK m \in Nat \ S : \A n \in Nat \ S : m <= n
  BY LeastNumber
<1>2. m - 1 \in S
  BY <1>1
<1> QED BY <1>1, <1>2

LEMMA Divided ==
  ASSUME NEW a \in Int, NEW d \in Nat \ {0}
  PROVE  a \div d \in Int /\ a % d \in 0 .. d - 1 /\ a = d * (a \div d) + (a % d)
OBVIOUS

LEMMA Quotients ==
  ASSUME NEW n \in Nat, NEW d \in Nat \ {0}
  PROVE  n \div d \in Nat /\ n % d \in Nat /\ n % d < d
<1> DEFINE q == n \div d
           r == n % d
<1>1. q \in Int /\ r \in 0 .. d - 1 /\ n = d * q + r
  BY Divided
<1> HIDE DEF q, r
<1>2. q >= 0
  <2> SUFFICES ASSUME q <= -1 PROVE FALSE
    BY <1>1
  <2>1. d * q <= d * (-1)
    BY <1>1, SMT
  <2> QED BY <1>1, <2>1, SMT
<1> QED BY <1>1, <1>2 DEF q, r

\* A quotient and a remainder are all there is of either.
LEMMA QuotientIs ==
  ASSUME NEW a \in Nat, NEW d \in Nat \ {0}, NEW q \in Int, NEW r \in 0 .. d - 1, a = d * q + r
  PROVE  a \div d = q /\ a % d = r
<1> DEFINE x == a \div d
           y == a % d
<1>1. x \in Int /\ y \in 0 .. d - 1 /\ a = d * x + y
  BY Divided
<1> HIDE DEF x, y
<1>2. d * (x - q) = r - y /\ x - q \in Int
  BY <1>1
<1> DEFINE z == x - q
<1>3. z \in Int /\ d * z < d /\ d * z > 0 - d
  BY <1>1, <1>2
<1>4. z = 0
  <2> HIDE DEF z
  <2>1. z >= 1 => d * z >= d
    BY <1>3
  <2>2. z <= -1 => d * z <= 0 - d
    BY <1>3
  <2> QED BY <1>3, <2>1, <2>2
<1>5. x = q
  BY <1>1, <1>4
<1>6. y = r
  BY <1>1, <1>5
<1> QED BY <1>5, <1>6 DEF x, y

\* Power's function is what its definition says.
LEMMA PowerExists ==
  ASSUME NEW base \in Nat \ {0}, NEW n \in Nat
  PROVE  \E p : p = [k \in 0 .. n |-> IF k = 0 THEN 1 ELSE base * p[k - 1]]
<1> DEFINE S == {m \in Nat : \E p : p = [k \in 0 .. m |-> IF k = 0 THEN 1 ELSE base * p[k - 1]]}
<1>1. 0 \in S
  <2> DEFINE p == [k \in 0 .. 0 |-> 1]
  <2>1. p = [k \in 0 .. 0 |-> IF k = 0 THEN 1 ELSE base * p[k - 1]]
    OBVIOUS
  <2> QED BY <2>1
<1>2. ASSUME NEW m \in S PROVE m + 1 \in S
  <2>1. PICK p : p = [k \in 0 .. m |-> IF k = 0 THEN 1 ELSE base * p[k - 1]]
    BY <1>2
  <2> DEFINE h == [k \in 0 .. m + 1 |-> IF k = m + 1 THEN base * p[m] ELSE p[k]]
  <2>2. ASSUME NEW k \in 0 .. m + 1
        PROVE  h[k] = IF k = 0 THEN 1 ELSE base * h[k - 1]
    <3>1. CASE k = m + 1
      BY <3>1
    <3>2. CASE k # m + 1
      <4>1. k \in 0 .. m /\ h[k] = p[k]
        BY <3>2
      <4>2. k # 0 => h[k - 1] = p[k - 1]
        BY <4>1
      <4>3. p[k] = IF k = 0 THEN 1 ELSE base * p[k - 1]
        BY <2>1, <4>1
      <4> QED BY <4>1, <4>2, <4>3
    <3> QED BY <3>1, <3>2
  <2>3. h = [k \in 0 .. m + 1 |-> IF k = 0 THEN 1 ELSE base * h[k - 1]]
    BY <2>2
  <2> HIDE DEF h
  <2> QED BY <2>3
<1> HIDE DEF S
<1>3. S \in SUBSET Nat
  BY DEF S
<1>4. n \in S
  BY <1>1, <1>2, <1>3, Induction
<1> QED BY <1>4 DEF S

LEMMA PowerPositive ==
  ASSUME NEW base \in Nat \ {0}, NEW n \in Nat
  PROVE  T!Power(base, n) \in Nat \ {0}
<1> DEFINE p == CHOOSE p : p = [k \in 0 .. n |-> IF k = 0 THEN 1 ELSE base * p[k - 1]]
<1>1. p = [k \in 0 .. n |-> IF k = 0 THEN 1 ELSE base * p[k - 1]]
  BY PowerExists
<1>2. T!Power(base, n) = p[n]
  BY DEF T!Power
<1> HIDE DEF p
<1> DEFINE S == {m \in Nat : m <= n => p[m] \in Nat \ {0}}
<1>3. 0 \in S
  BY <1>1
<1>4. ASSUME NEW m \in S PROVE m + 1 \in S
  <2>1. CASE m + 1 <= n
    <3>1. m \in 0 .. n /\ m + 1 \in 0 .. n /\ p[m] \in Nat \ {0}
      BY <2>1, <1>4
    <3>2. p[m + 1] = base * p[m]
      BY <1>1, <3>1
    <3>3. \A a, b \in Nat \ {0} : a * b \in Nat \ {0}
      BY SMT
    <3> QED BY <3>1, <3>2, <3>3
  <2> QED BY <2>1
<1> HIDE DEF S
<1>5. S \in SUBSET Nat
  BY DEF S
<1>6. n \in S
  BY <1>3, <1>4, <1>5, Induction
<1> QED BY <1>2, <1>6 DEF S

LEMMA PowerStep ==
  ASSUME NEW base \in Nat \ {0}, NEW n \in Nat
  PROVE  T!Power(base, 0) = 1 /\ T!Power(base, n + 1) = base * T!Power(base, n)
<1> DEFINE P(m) == CHOOSE p : p = [k \in 0 .. m |-> IF k = 0 THEN 1 ELSE base * p[k - 1]]
<1>1. \A m \in Nat : P(m) = [k \in 0 .. m |-> IF k = 0 THEN 1 ELSE base * P(m)[k - 1]]
  BY PowerExists
<1>2. \A m \in Nat : T!Power(base, m) = P(m)[m]
  BY DEF T!Power
<1> HIDE DEF P
<1>3. \A m \in Nat : \A k \in 0 .. m : P(m)[k] = IF k = 0 THEN 1 ELSE base * P(m)[k - 1]
  BY <1>1
<1> DEFINE S == {k \in Nat : k <= n => P(n)[k] = P(n + 1)[k]}
<1>4. 0 \in S
  <2>1. 0 \in 0 .. n /\ 0 \in 0 .. n + 1 /\ n + 1 \in Nat
    OBVIOUS
  <2>2. P(n)[0] = 1 /\ P(n + 1)[0] = 1
    BY <1>3, <2>1
  <2> QED BY <2>2
<1>5. ASSUME NEW k \in S PROVE k + 1 \in S
  <2>1. k \in Nat /\ n + 1 \in Nat
    BY <1>5
  <2>2. CASE k + 1 <= n
    <3>1. k + 1 \in 0 .. n /\ k + 1 \in 0 .. n + 1 /\ k + 1 # 0 /\ (k + 1) - 1 = k
      BY <2>1, <2>2
    <3>2. P(n)[k + 1] = base * P(n)[k] /\ P(n + 1)[k + 1] = base * P(n + 1)[k]
      BY <1>3, <2>1, <3>1
    <3>3. P(n)[k] = P(n + 1)[k]
      BY <1>5, <2>2
    <3> QED BY <2>1, <3>2, <3>3
  <2> QED BY <2>1, <2>2
<1>6. S \in SUBSET Nat
  OBVIOUS
<1> HIDE DEF S
<1>7. n \in S
  BY <1>4, <1>5, <1>6, Induction
<1>8. P(n)[n] = P(n + 1)[n]
  BY <1>7 DEF S
<1>9. P(n + 1)[n + 1] = base * P(n + 1)[n]
  <2>1. n + 1 \in 0 .. n + 1 /\ n + 1 # 0 /\ (n + 1) - 1 = n /\ n + 1 \in Nat
    OBVIOUS
  <2> QED BY <1>3, <2>1
<1>10. P(0)[0] = 1
  BY <1>3
<1>11. 0 \in Nat /\ n + 1 \in Nat
  OBVIOUS
<1> QED BY <1>2, <1>8, <1>9, <1>10, <1>11

LEMMA PowersGrow ==
  ASSUME NEW base \in Nat \ {0}, NEW m \in Nat, NEW n \in Nat, m <= n
  PROVE  T!Power(base, m) <= T!Power(base, n)
<1> DEFINE S == {k \in Nat : T!Power(base, m) <= T!Power(base, m + k)}
<1>1. 0 \in S
  <2>1. m + 0 = m /\ T!Power(base, m) \in Nat
    BY PowerPositive
  <2> QED BY <2>1
<1>2. ASSUME NEW k \in S PROVE k + 1 \in S
  <2>1. k \in Nat /\ m + k \in Nat /\ m + (k + 1) = (m + k) + 1
    BY <1>2
  <2> DEFINE x == T!Power(base, m)
             y == T!Power(base, m + k)
             z == T!Power(base, (m + k) + 1)
  <2>2. x \in Nat /\ y \in Nat /\ x <= y
    BY <1>2, <2>1, PowerPositive
  <2>3. z = base * y
    BY <2>1, PowerStep
  <2> HIDE DEF x, y, z
  <2>4. base * y >= y
    BY <2>2, SMT
  <2>5. base * y \in Nat
    BY <2>2, SMT
  <2>6. x <= z
    BY <2>2, <2>3, <2>4, <2>5
  <2> QED BY <2>1, <2>6 DEF x, z
<1>3. S \in SUBSET Nat
  OBVIOUS
<1> HIDE DEF S
<1>4. n - m \in S
  <2>1. n - m \in Nat
    OBVIOUS
  <2> QED BY <1>1, <1>2, <1>3, <2>1, Induction
<1>5. m + (n - m) = n
  OBVIOUS
<1> QED BY <1>4, <1>5 DEF S

\* The function of ValueOf is what its definition says.
Adds(f, s, base) ==
  f = [k \in 0 .. Len(s) |-> IF k = 0 THEN 0 ELSE f[k - 1] * base + s[k]]

LEMMA ValueExists ==
  ASSUME NEW s, NEW base, Len(s) \in Nat
  PROVE  \E f : Adds(f, s, base)
<1> DEFINE n == Len(s)
           S == {m \in Nat : \E f : f = [k \in 0 .. m |-> IF k = 0 THEN 0 ELSE f[k - 1] * base + s[k]]}
<1>1. 0 \in S
  <2> DEFINE f == [k \in 0 .. 0 |-> 0]
  <2>1. f = [k \in 0 .. 0 |-> IF k = 0 THEN 0 ELSE f[k - 1] * base + s[k]]
    OBVIOUS
  <2> QED BY <2>1
<1>2. ASSUME NEW m \in S PROVE m + 1 \in S
  <2>1. PICK f : f = [k \in 0 .. m |-> IF k = 0 THEN 0 ELSE f[k - 1] * base + s[k]]
    BY <1>2
  <2> DEFINE h == [k \in 0 .. m + 1 |-> IF k = m + 1 THEN f[m] * base + s[k] ELSE f[k]]
  <2>2. ASSUME NEW k \in 0 .. m + 1
        PROVE  h[k] = IF k = 0 THEN 0 ELSE h[k - 1] * base + s[k]
    <3>1. CASE k = m + 1
      <4>1. k # 0 /\ k - 1 = m /\ m \in 0 .. m + 1 /\ m # m + 1
        BY <3>1
      <4>2. h[k - 1] = f[m]
        BY <4>1
      <4>3. h[k] = f[m] * base + s[k]
        BY <3>1
      <4> QED BY <4>1, <4>2, <4>3
    <3>2. CASE k # m + 1
      <4>1. k \in 0 .. m /\ h[k] = f[k]
        BY <3>2
      <4>2. k # 0 => h[k - 1] = f[k - 1]
        BY <4>1
      <4>3. f[k] = IF k = 0 THEN 0 ELSE f[k - 1] * base + s[k]
        BY <2>1, <4>1
      <4> QED BY <4>1, <4>2, <4>3
    <3> QED BY <3>1, <3>2
  <2>3. h = [k \in 0 .. m + 1 |-> IF k = 0 THEN 0 ELSE h[k - 1] * base + s[k]]
    BY <2>2
  <2> HIDE DEF h
  <2>4. m + 1 \in Nat
    BY <1>2
  <2> QED BY <2>3, <2>4
<1>3. S \in SUBSET Nat
  OBVIOUS
<1> HIDE DEF S
<1>4. n \in S
  BY <1>1, <1>2, <1>3, Induction
<1> QED BY <1>4 DEF S, Adds

AddsUp(f, n, s, base) ==
  f[0] = 0 /\ \A k \in 1 .. n : f[k] = f[k - 1] * base + s[k]

LEMMA ValueIs ==
  ASSUME NEW s, NEW base, NEW n \in Nat, Len(s) = n
  PROVE  \E f : T!ValueOf(s, base) = f[n] /\ AddsUp(f, n, s, base)
<1> DEFINE f == CHOOSE f : f = [k \in 0 .. Len(s) |-> IF k = 0 THEN 0 ELSE f[k - 1] * base + s[k]]
<1>1. f = [k \in 0 .. Len(s) |-> IF k = 0 THEN 0 ELSE f[k - 1] * base + s[k]]
  BY ValueExists DEF Adds
<1>2. T!ValueOf(s, base) = f[n]
  BY DEF T!ValueOf
<1> HIDE DEF f
<1>3. \A k \in 0 .. n : f[k] = IF k = 0 THEN 0 ELSE f[k - 1] * base + s[k]
  BY <1>1
<1>4. f[0] = 0 /\ \A k \in 1 .. n : f[k] = f[k - 1] * base + s[k]
  BY <1>3
<1> QED BY <1>2, <1>4 DEF AddsUp

LEMMA NestedQuotients ==
  ASSUME NEW a \in Nat, NEW d \in Nat \ {0}, NEW e \in Nat \ {0}
  PROVE  a \div (d * e) = (a \div d) \div e
<1> DEFINE q == a \div d
           r == a % d
           x == q \div e
           y == q % e
           t == d * y + r
           c == d * e
<1>1. q \in Nat /\ r \in 0 .. d - 1 /\ a = d * q + r
  <2>1. q \in Nat
    BY Quotients
  <2> QED BY <2>1, Divided
<1> HIDE DEF q, r
<1>2. x \in Nat /\ y \in 0 .. e - 1 /\ q = e * x + y
  <2>1. x \in Nat
    BY <1>1, Quotients
  <2> QED BY <1>1, <2>1, Divided
<1> HIDE DEF x, y
<1>3. c \in Nat \ {0}
  BY SMT
<1>4. d * y \in Nat /\ d * y <= d * (e - 1) /\ d * (e - 1) = c - d
  BY <1>2, SMT
<1>5. t \in 0 .. c - 1
  BY <1>1, <1>3, <1>4
<1>6. d * q = d * (e * x) + d * y
  BY <1>1, <1>2, SMT
<1>7. d * (e * x) = c * x /\ c * x \in Nat
  BY <1>2, SMT
<1>8. a = c * x + t
  BY <1>1, <1>4, <1>6, <1>7
<1> HIDE DEF c, t
<1>9. a \div c = x
  BY <1>2, <1>3, <1>5, <1>8, QuotientIs
<1> QED BY <1>9 DEF c, x, q

LEMMA TextConstants ==
  /\ NIB \in Nat \ {0} /\ NIB >= 2 /\ WORD \in Nat \ {0} /\ WORD >= 2
  /\ BufSize \in Nat /\ BufSize > 2 /\ BufSize - 2 \in Nat
  /\ T!Power(NIB, WORD) \div 2 < T!Power(10, BufSize - 2)
  /\ HARDDRIVE \in Nat /\ HARDDRIVE >= 4
  /\ \A path \in Paths :
       /\ Len(path) \in Nat \ {0} /\ DOMAIN path = 1 .. Len(path)
       /\ \A k \in DOMAIN path :
            /\ path[k].type = "end" <=> k = Len(path)
            /\ path[k].len \in Nat
            /\ path[k].signature \in [1 .. 16 -> 0 .. NIB * NIB - 1]
BY TextFits DEF T!ConstantsFit

\* Digits are added in front.
InFront(x, s, n, u) ==
  /\ Len(s) = n /\ Len(u) = n + 1 /\ u[1] = x
  /\ \A k \in 1 .. n : s[k] \in Nat /\ u[k + 1] = s[k]

LEMMA ValueFirst ==
  ASSUME NEW n \in Nat, NEW base \in Nat \ {0}, NEW s, NEW u, NEW x \in Nat, InFront(x, s, n, u)
  PROVE  /\ T!ValueOf(s, base) \in Nat
         /\ T!ValueOf(u, base) = x * T!Power(base, n) + T!ValueOf(s, base)
<1> USE DEF InFront
<1>1. PICK f : T!ValueOf(s, base) = f[n] /\ AddsUp(f, n, s, base)
  BY ValueIs
<1>0. n + 1 \in Nat
  OBVIOUS
<1>2. PICK g : T!ValueOf(u, base) = g[n + 1] /\ AddsUp(g, n + 1, u, base)
  BY <1>0, ValueIs
<1> DEFINE P(m) == T!Power(base, m)
<1>3. P(0) = 1 /\ \A m \in Nat : P(m) \in Nat /\ P(m + 1) = base * P(m)
  BY PowerPositive, PowerStep
<1> DEFINE S == {m \in Nat : m <= n => f[m] \in Nat /\ g[m + 1] = x * P(m) + f[m]}
<1> HIDE DEF P
<1>4. 0 \in S
  <2>1. 1 \in 1 .. n + 1 /\ 1 - 1 = 0
    OBVIOUS
  <2>2. g[1] = g[0] * base + u[1]
    BY <1>2, <2>1 DEF AddsUp
  <2>3. g[1] = x
    BY <1>2, <2>2 DEF AddsUp
  <2>4. x * 1 + 0 = x /\ 0 + 1 = 1
    OBVIOUS
  <2>6. f[0] = 0
    BY <1>1 DEF AddsUp
  <2>5. x * P(0) + f[0] = x
    BY <1>3, <2>4, <2>6
  <2> QED BY <2>3, <2>4, <2>5, <2>6
<1>5. ASSUME NEW m \in S PROVE m + 1 \in S
  <2>1. m \in Nat
    BY <1>5
  <2>2. CASE m + 1 <= n
    <3> DEFINE j == m + 1
               c == s[j]
               p == P(m)
    <3>1. j \in 1 .. n /\ j + 1 \in 1 .. n + 1 /\ j - 1 = m /\ (j + 1) - 1 = j /\ j \in Nat
      BY <2>1, <2>2
    <3>2. f[m] \in Nat /\ g[j] = x * p + f[m]
      BY <1>5, <2>2
    <3> HIDE DEF j
    <3>3. f[j] = f[m] * base + c /\ c \in Nat /\ u[j + 1] = c
      BY <1>1, <3>1 DEF AddsUp
    <3>4. g[j + 1] = g[j] * base + u[j + 1]
      BY <1>2, <3>1 DEF AddsUp
    <3>5. P(j) = base * p /\ p \in Nat
      BY <1>3, <2>1 DEF j
    <3> HIDE DEF c, p
    <3> DEFINE a == f[m]
    <3>6. a \in Nat
      BY <3>2
    <3> HIDE DEF a
    <3>7. (x * p + a) * base = x * (base * p) + a * base
      BY <3>5, <3>6, SMT
    <3>8. a * base \in Nat /\ x * (base * p) \in Nat
      BY <3>5, <3>6, SMT
    <3>9. (x * (base * p) + a * base) + c = x * (base * p) + (a * base + c) /\ a * base + c \in Nat
      BY <3>3, <3>8
    <3>10. f[j] \in Nat /\ g[j + 1] = x * P(j) + f[j]
      BY <3>2, <3>3, <3>4, <3>5, <3>7, <3>9 DEF a
    <3> QED BY <3>1, <3>10 DEF j
  <2> QED BY <2>1, <2>2
<1>6. S \in SUBSET Nat
  OBVIOUS
<1> HIDE DEF S
<1>7. n \in S
  BY <1>4, <1>5, <1>6, Induction
<1>8. f[n] \in Nat /\ g[n + 1] = x * P(n) + f[n]
  BY <1>7 DEF S
<1> QED BY <1>1, <1>2, <1>8 DEF P

\* The digit behind the last is that of the number without its last.
LEMMA DigitStep ==
  ASSUME NEW v \in Nat, NEW d \in Nat
  PROVE  /\ T!Digit(v, d) \in 0 .. NIB - 1
         /\ T!Digit(v, 0) = v % NIB
         /\ T!Digit(v, d + 1) = T!Digit(v \div NIB, d)
<1> DEFINE p == T!Power(NIB, d)
<1>1. NIB \in Nat \ {0} /\ p \in Nat \ {0} /\ T!Power(NIB, 0) = 1 /\ T!Power(NIB, d + 1) = NIB * p
  BY TextConstants, PowerPositive, PowerStep
<1>2. T!Digit(v, d) = (v \div p) % NIB
  BY DEF T!Digit
<1> HIDE DEF p
<1>3. v \div p \in Nat
  BY <1>1, Quotients
<1>4. (v \div p) % NIB \in 0 .. NIB - 1
  <2> DEFINE q == v \div p
  <2>1. q \in Int
    BY <1>3
  <2> HIDE DEF q
  <2>2. q % NIB \in 0 .. NIB - 1
    BY <1>1, <2>1, Divided
  <2> QED BY <2>2 DEF q
<1>5. v \div 1 = v
  <2>1. v = 1 * v + 0 /\ 0 \in 0 .. 1 - 1 /\ 1 \in Nat \ {0} /\ v \in Int
    OBVIOUS
  <2> QED BY <2>1, QuotientIs
<1>6. T!Digit(v, 0) = v % NIB
  BY <1>1, <1>5 DEF T!Digit
<1>7. v \div (NIB * p) = (v \div NIB) \div p
  BY <1>1, NestedQuotients
<1>8. T!Digit(v, d + 1) = ((v \div NIB) \div p) % NIB
  BY <1>1, <1>7 DEF T!Digit
<1>9. T!Digit(v \div NIB, d) = ((v \div NIB) \div p) % NIB
  BY DEF T!Digit, p
<1> QED BY <1>2, <1>4, <1>6, <1>8, <1>9

\* The digits of PrintHex read back.
LEMMA HexReads ==
  ASSUME NEW n \in Nat, NEW v \in Nat, v < T!Power(NIB, n), NEW s,
         Len(s) = n, \A k \in 1 .. n : s[k] = T!Digit(v, n - k)
  PROVE  T!ValueOf(s, NIB) = v
<1>1. PICK f : T!ValueOf(s, NIB) = f[n] /\ AddsUp(f, n, s, NIB)
  BY ValueIs
<1> DEFINE P(m) == T!Power(NIB, m)
<1>2. NIB \in Nat \ {0} /\ P(0) = 1 /\ \A m \in Nat : P(m) \in Nat \ {0} /\ P(m + 1) = NIB * P(m)
  BY TextConstants, PowerPositive, PowerStep
<1>3. \A m \in Nat : T!Digit(v, m) = (v \div P(m)) % NIB
  BY DEF T!Digit
<1>4. v < P(n)
  OBVIOUS
<1> HIDE DEF P
<1> DEFINE S == {m \in Nat : m <= n => f[m] = v \div P(n - m)}
<1>5. 0 \in S
  <2> DEFINE p == P(n)
  <2>1. p \in Nat \ {0} /\ v < p
    BY <1>2, <1>4
  <2> HIDE DEF p
  <2>4. v = p * 0 + v /\ v \in 0 .. p - 1 /\ 0 \in Int
    BY <2>1
  <2>2. v \div p = 0
    BY <2>1, <2>4, QuotientIs
  <2>3. n - 0 = n
    OBVIOUS
  <2> QED BY <1>1, <2>2, <2>3 DEF p, AddsUp
<1>6. ASSUME NEW m \in S PROVE m + 1 \in S
  <2>1. m \in Nat
    BY <1>6
  <2>2. CASE m + 1 <= n
    <3> DEFINE j == m + 1
               e == n - j
               p == P(e)
               q == v \div p
    <3>1. j \in 1 .. n /\ j - 1 = m /\ e \in Nat /\ n - m = e + 1
      BY <2>1, <2>2
    <3>2. f[m] = v \div P(e + 1)
      BY <1>6, <2>2, <3>1
    <3> HIDE DEF j, e
    <3>3. f[j] = f[m] * NIB + s[j] /\ s[j] = (v \div P(e)) % NIB
      BY <1>1, <1>3, <3>1 DEF e, AddsUp
    <3>10. P(e + 1) = NIB * p /\ p \in Nat \ {0}
      BY <1>2, <3>1
    <3> HIDE DEF p
    <3>11. NIB * p = p * NIB
      BY <1>2, <3>10, SMT
    <3>4. P(e + 1) = NIB * p /\ p \in Nat \ {0} /\ NIB * p = p * NIB
      BY <3>10, <3>11
    <3>5. v \div (p * NIB) = q \div NIB
      BY <1>2, <3>4, NestedQuotients
    <3>6. q \in Nat
      BY <3>4, Quotients
    <3> HIDE DEF q
    <3>12. q \in Int
      BY <3>6
    <3>7. q = NIB * (q \div NIB) + (q % NIB) /\ q \div NIB \in Int
      BY <1>2, <3>12, Divided
    <3>8. NIB * (q \div NIB) = (q \div NIB) * NIB
      BY <1>2, <3>7, SMT
    <3>9. f[j] = q
      BY <3>2, <3>3, <3>4, <3>5, <3>7, <3>8 DEF q, p
    <3> QED BY <3>1, <3>9 DEF j, e, p, q
  <2> QED BY <2>1, <2>2
<1>7. S \in SUBSET Nat
  OBVIOUS
<1> HIDE DEF S
<1>8. n \in S
  BY <1>5, <1>6, <1>7, Induction
<1>9. f[n] = v \div P(n - n)
  BY <1>8 DEF S
<1>10. n - n = 0 /\ v \div 1 = v
  <2>1. v = 1 * v + 0 /\ 0 \in 0 .. 1 - 1 /\ 1 \in Nat \ {0} /\ v \in Int
    OBVIOUS
  <2> QED BY <2>1, QuotientIs
<1> QED BY <1>1, <1>2, <1>9, <1>10

-------------------------------------------------------------------------------
(* The UUID: two digits for each byte *)

Pair(v, j) == NIB * T!Digit(v, 2 * j + 1) + T!Digit(v, 2 * j)

\* The last byte of a number, and the bytes before it.
LEMMA LastByte ==
  ASSUME NEW w \in Nat, NEW b \in 0 .. NIB * NIB - 1, NEW v, v = w * (NIB * NIB) + b
  PROVE  v \in Nat /\ Pair(v, 0) = b /\ \A j \in Nat : Pair(v, j + 1) = Pair(w, j)
<1> DEFINE B == NIB * NIB
           h == b \div NIB
           l == b % NIB
           y == w * NIB + h
<1>1. NIB \in Nat \ {0} /\ NIB >= 2
  BY TextConstants
<1>2. B \in Nat /\ b \in Nat /\ b < B
  <2>1. B \in Nat
    BY <1>1, SMT
  <2> HIDE DEF B
  <2>2. b \in 0 .. B - 1
    BY DEF B
  <2> QED BY <2>1, <2>2
<1> HIDE DEF B
<1>3. h \in Nat /\ l \in 0 .. NIB - 1 /\ b = NIB * h + l
  <2>1. h \in Nat
    BY <1>1, <1>2, Quotients
  <2>2. b \in Int
    BY <1>2
  <2> QED BY <1>1, <2>1, <2>2, Divided
<1> HIDE DEF h, l
<1>4. h \in 0 .. NIB - 1
  <2> SUFFICES ASSUME h >= NIB PROVE FALSE
    BY <1>1, <1>3
  <2>1. NIB * h >= NIB * NIB /\ NIB * h \in Nat
    BY <1>1, <1>3, SMT
  <2> QED BY <1>1, <1>2, <1>3, <2>1 DEF B
<1>5. y \in Nat /\ w * NIB \in Nat
  BY <1>1, <1>3, SMT
<1>6. v \in Nat /\ v = NIB * y + l
  <2>1. w * (NIB * NIB) = NIB * (w * NIB) /\ w * (NIB * NIB) \in Nat
    BY <1>1, SMT
  <2>2. NIB * y = NIB * (w * NIB) + NIB * h /\ NIB * y \in Nat
    BY <1>1, <1>3, <1>5, SMT
  <2> HIDE DEF y
  <2>3. NIB * h \in Nat
    BY <1>1, <1>3, SMT
  <2> QED BY <1>1, <1>2, <1>3, <2>1, <2>2, <2>3
<1>7. v \div NIB = y /\ v % NIB = l
  <2> HIDE DEF y
  <2>1. y \in Int
    BY <1>5
  <2> QED BY <1>1, <1>3, <1>6, <2>1, QuotientIs
<1>8. y \div NIB = w /\ y % NIB = h
  <2>1. w * NIB = NIB * w
    BY <1>1, SMT
  <2>2. y = NIB * w + h
    BY <2>1
  <2> HIDE DEF y
  <2>3. w \in Int
    OBVIOUS
  <2> QED BY <1>1, <1>4, <1>5, <2>2, <2>3, QuotientIs
<1> HIDE DEF y
<1>9. T!Digit(v, 0) = l /\ T!Digit(v, 0 + 1) = h
  <2>1. T!Digit(v, 0) = v % NIB /\ T!Digit(v, 0 + 1) = T!Digit(v \div NIB, 0)
    BY <1>6, DigitStep
  <2>2. T!Digit(y, 0) = y % NIB
    BY <1>5, DigitStep
  <2> QED BY <1>7, <1>8, <2>1, <2>2
<1>10. ASSUME NEW d \in Nat PROVE T!Digit(v, d + 2) = T!Digit(w, d)
  <2>1. d + 1 \in Nat /\ (d + 1) + 1 = d + 2
    OBVIOUS
  <2>2. T!Digit(v, (d + 1) + 1) = T!Digit(y, d + 1)
    BY <1>6, <1>7, <2>1, DigitStep
  <2>3. T!Digit(y, d + 1) = T!Digit(w, d)
    BY <1>5, <1>8, DigitStep
  <2> QED BY <2>1, <2>2, <2>3
<1>11. Pair(v, 0) = b
  <2>1. 2 * 0 = 0 /\ 2 * 0 + 1 = 0 + 1
    OBVIOUS
  <2> QED BY <1>3, <1>9, <2>1 DEF Pair
<1>12. ASSUME NEW j \in Nat PROVE Pair(v, j + 1) = Pair(w, j)
  <2>1. 2 * (j + 1) = 2 * j + 2 /\ 2 * (j + 1) + 1 = (2 * j + 1) + 2 /\ 2 * j \in Nat /\ 2 * j + 1 \in Nat
    OBVIOUS
  <2>2. T!Digit(v, 2 * j + 2) = T!Digit(w, 2 * j)
    BY <1>10, <2>1
  <2>3. T!Digit(v, (2 * j + 1) + 2) = T!Digit(w, 2 * j + 1)
    BY <1>10, <2>1
  <2> QED BY <2>1, <2>2, <2>3 DEF Pair
<1> QED BY <1>6, <1>11, <1>12

\* The bytes of a number that lies in memory with its last byte first.
LEMMA NumberBytes ==
  ASSUME NEW sig \in [1 .. 16 -> 0 .. NIB * NIB - 1], NEW from \in 1 .. 16, NEW to \in from .. 16
  PROVE  /\ T!Number(sig, from, to) \in Nat
         /\ \A j \in 0 .. to - from : Pair(T!Number(sig, from, to), j) = sig[from + j]
<1> DEFINE m == to + 1 - from
           s == [k \in 1 .. m |-> sig[to + 1 - k]]
           B == NIB * NIB
<1>1. m \in Nat /\ Len(s) = m /\ \A k \in 1 .. m : s[k] = sig[to + 1 - k] /\ s[k] \in 0 .. B - 1
  <2> HIDE DEF B
  <2>1. sig \in [1 .. 16 -> 0 .. B - 1]
    BY DEF B
  <2>2. m \in Nat
    OBVIOUS
  <2>3. \A k \in 1 .. m : to + 1 - k \in 1 .. 16
    OBVIOUS
  <2> QED BY <2>1, <2>2, <2>3
<1>2. T!Number(sig, from, to) = T!ValueOf(s, B)
  BY DEF T!Number
<1> HIDE DEF s, m, B
<1>3. PICK f : T!ValueOf(s, B) = f[m] /\ AddsUp(f, m, s, B)
  BY <1>1, ValueIs
<1> DEFINE Right(t) == f[t] \in Nat /\ \A j \in 0 .. t - 1 : Pair(f[t], j) = s[t - j]
           S == {t \in Nat : t <= m => Right(t)}
<1>4. 0 \in S
  BY <1>3 DEF AddsUp
<1>5. ASSUME NEW t \in S PROVE t + 1 \in S
  <2>1. t \in Nat
    BY <1>5
  <2>2. CASE t + 1 <= m
    <3> DEFINE q == t + 1
    <3>1. q \in 1 .. m /\ q - 1 = t /\ q \in Nat
      BY <1>1, <2>1, <2>2
    <3>2. f[t] \in Nat /\ \A j \in 0 .. t - 1 : Pair(f[t], j) = s[t - j]
      BY <1>1, <1>5, <2>1, <2>2
    <3> HIDE DEF q
    <3>3. f[q] = f[t] * B + s[q] /\ s[q] \in 0 .. B - 1
      BY <1>1, <1>3, <3>1 DEF AddsUp
    <3>4. f[q] = f[t] * (NIB * NIB) + s[q] /\ s[q] \in 0 .. NIB * NIB - 1
      BY <3>3 DEF B
    <3>5. f[q] \in Nat /\ Pair(f[q], 0) = s[q] /\ \A j \in Nat : Pair(f[q], j + 1) = Pair(f[t], j)
      <4> DEFINE a == f[t]
                 b == s[q]
                 v == f[q]
      <4>1. a \in Nat /\ b \in 0 .. NIB * NIB - 1 /\ v = a * (NIB * NIB) + b
        BY <3>2, <3>4
      <4> HIDE DEF a, b, v
      <4>2. v \in Nat /\ Pair(v, 0) = b /\ \A j \in Nat : Pair(v, j + 1) = Pair(a, j)
        BY <4>1, LastByte
      <4> QED BY <4>2 DEF a, b, v
    <3>6. ASSUME NEW j \in 0 .. q - 1 PROVE Pair(f[q], j) = s[q - j]
      <4>1. CASE j = 0
        BY <3>1, <3>5, <4>1
      <4>2. CASE j # 0
        <5> DEFINE c == j - 1
        <5>1. c \in Nat /\ c + 1 = j /\ c \in 0 .. t - 1 /\ t - c = q - j
          BY <2>1, <3>1, <4>2
        <5> HIDE DEF c
        <5>2. Pair(f[q], c + 1) = Pair(f[t], c)
          BY <3>5, <5>1
        <5>3. Pair(f[t], c) = s[t - c]
          BY <3>2, <5>1
        <5> QED BY <5>1, <5>2, <5>3
      <4> QED BY <4>1, <4>2
    <3>7. Right(q)
      BY <3>5, <3>6
    <3> QED BY <3>1, <3>7 DEF q
  <2> QED BY <2>1, <2>2
<1>6. S \in SUBSET Nat
  OBVIOUS
<1> HIDE DEF S, Right
<1>7. m \in S
  BY <1>1, <1>4, <1>5, <1>6, Induction
<1>8. f[m] \in Nat /\ \A j \in 0 .. m - 1 : Pair(f[m], j) = s[m - j]
  BY <1>1, <1>7 DEF S, Right
<1>9. ASSUME NEW j \in 0 .. to - from PROVE Pair(f[m], j) = sig[from + j]
  <2>1. j \in 0 .. m - 1 /\ m - j \in 1 .. m /\ to + 1 - (m - j) = from + j
    BY DEF m
  <2>2. s[m - j] = sig[to + 1 - (m - j)]
    BY <1>1, <2>1
  <2> QED BY <1>8, <2>1, <2>2
<1> QED BY <1>2, <1>3, <1>8, <1>9

\* What stands behind another sequence.
LEMMA Behind ==
  ASSUME NEW C, NEW s \in Seq(C), NEW t \in Seq(C)
  PROVE  /\ s \o t \in Seq(C) /\ Len(s \o t) = Len(s) + Len(t)
         /\ \A k \in 1 .. Len(s) : (s \o t)[k] = s[k]
         /\ \A k \in 1 .. Len(t) : (s \o t)[Len(s) + k] = t[k]
OBVIOUS

LEMMA IsSequence ==
  ASSUME NEW C, NEW n \in Nat, NEW s \in [1 .. n -> C]
  PROVE  s \in Seq(C) /\ Len(s) = n
OBVIOUS

Chars == {T!DASH, T!MINUS, T!X, T!NUL} \cup 0 .. NIB - 1 \cup 0 .. 9

LEMMA SomeChars ==
  /\ T!DASH \in Chars /\ T!MINUS \in Chars /\ T!X \in Chars /\ T!NUL \in Chars
  /\ \A c \in 0 .. NIB - 1 : c \in Chars
  /\ \A c \in 0 .. 9 : c \in Chars
BY DEF Chars

LEMMA HexIsText ==
  ASSUME NEW v \in Nat, NEW n \in Nat
  PROVE  /\ T!Hex(v, n) \in Seq(Chars) /\ Len(T!Hex(v, n)) = n
         /\ \A k \in 1 .. n : T!Hex(v, n)[k] = T!Digit(v, n - k)
                              /\ T!Hex(v, n)[k] \in 0 .. NIB - 1
<1>1. T!Hex(v, n) = [k \in 1 .. n |-> T!Digit(v, n - k)]
  BY DEF T!Hex
<1>2. \A k \in 1 .. n : T!Digit(v, n - k) \in 0 .. NIB - 1
  <2> TAKE k \in 1 .. n
  <2>1. n - k \in Nat
    OBVIOUS
  <2> QED BY <2>1, DigitStep
<1>3. \A k \in 1 .. n : T!Digit(v, n - k) \in Chars
  BY <1>2, SomeChars
<1> QED BY <1>1, <1>2, <1>3

LEMMA BytesIsText ==
  ASSUME NEW sig \in [1 .. 16 -> 0 .. NIB * NIB - 1], NEW from \in 1 .. 16, NEW to \in from .. 16
  PROVE  /\ T!Bytes(sig, from, to) \in Seq(Chars)
         /\ Len(T!Bytes(sig, from, to)) = 2 * (to + 1 - from)
         /\ \A c \in 0 .. to - from :
              /\ T!Bytes(sig, from, to)[2 * c + 1] \in 0 .. NIB - 1
              /\ T!Bytes(sig, from, to)[2 * c + 2] \in 0 .. NIB - 1
              /\ NIB * T!Bytes(sig, from, to)[2 * c + 1] + T!Bytes(sig, from, to)[2 * c + 2]
                   = sig[from + c]
<1> DEFINE n == 2 * (to + 1 - from)
           s == T!Bytes(sig, from, to)
<1>1. s = [k \in 1 .. n |-> T!Digit(sig[from + (k - 1) \div 2], k % 2)]
  BY DEF T!Bytes
<1>2. NIB * NIB \in Nat
  <2>1. NIB \in Nat
    BY TextConstants
  <2> QED BY <2>1, SMT
<1>3. \A c \in 0 .. to - from : sig[from + c] \in 0 .. NIB * NIB - 1
  <2> TAKE c \in 0 .. to - from
  <2>1. from + c \in 1 .. 16
    OBVIOUS
  <2> QED BY <2>1
<1>4. n \in Nat
  OBVIOUS
<1> HIDE DEF s
<1>5. ASSUME NEW k \in 1 .. n PROVE s[k] \in 0 .. NIB - 1
  <2> DEFINE c == (k - 1) \div 2
             b == sig[from + c]
             d == k % 2
  <2>1. c \in 0 .. to - from /\ d \in Nat
    OBVIOUS
  <2>2. s[k] = T!Digit(b, d)
    BY <1>1
  <2>3. b \in Nat
    <3> HIDE DEF c
    <3>1. b \in 0 .. NIB * NIB - 1
      BY <1>3, <2>1
    <3> QED BY <1>2, <3>1
  <2> HIDE DEF b, d
  <2>4. T!Digit(b, d) \in 0 .. NIB - 1
    BY <2>1, <2>3, DigitStep
  <2> QED BY <2>2, <2>4
<1>6. s \in Seq(Chars) /\ Len(s) = n
  <2>1. \A k \in 1 .. n : s[k] \in Chars
    BY <1>5, SomeChars
  <2> HIDE DEF n
  <2>2. s = [k \in 1 .. n |-> s[k]] /\ n \in Nat
    BY <1>1, <1>4
  <2>3. s \in [1 .. n -> Chars]
    BY <2>1, <2>2
  <2> QED BY <1>4, <2>3, IsSequence
<1>7. ASSUME NEW c \in 0 .. to - from
      PROVE  /\ s[2 * c + 1] \in 0 .. NIB - 1 /\ s[2 * c + 2] \in 0 .. NIB - 1
             /\ NIB * s[2 * c + 1] + s[2 * c + 2] = sig[from + c]
  <2> DEFINE b == sig[from + c]
             x == 2 * c + 1
             y == 2 * c + 2
  <2>1. /\ x \in 1 .. n /\ (x - 1) \div 2 = c /\ x % 2 = 1
        /\ y \in 1 .. n /\ (y - 1) \div 2 = c /\ y % 2 = 0
    OBVIOUS
  <2> HIDE DEF x, y, n
  <2>2. s[x] = T!Digit(b, 1) /\ s[y] = T!Digit(b, 0)
    BY <1>1, <2>1
  <2>3. b \in 0 .. NIB * NIB - 1
    BY <1>3
  <2> HIDE DEF b
  <2>4. 0 \in Nat /\ b = 0 * (NIB * NIB) + b
    BY <1>2, <2>3
  <2>5. Pair(b, 0) = b
    BY <2>3, <2>4, LastByte
  <2>6. 2 * 0 + 1 = 1 /\ 2 * 0 = 0
    OBVIOUS
  <2>7. NIB * T!Digit(b, 1) + T!Digit(b, 0) = b
    BY <2>5, <2>6 DEF Pair
  <2>8. s[x] \in 0 .. NIB - 1 /\ s[y] \in 0 .. NIB - 1
    BY <1>5, <2>1
  <2> QED BY <2>2, <2>7, <2>8 DEF b, x, y
<1> QED BY <1>6, <1>7 DEF s

\* The two digits at place p of a text are those of a byte.
Shown(u, p, byte) ==
  {u[p], u[p + 1]} \subseteq 0 .. NIB - 1 /\ NIB * u[p] + u[p + 1] = byte

\* The places of a number's bytes within its own digits.
LEMMA HexShows ==
  ASSUME NEW sig \in [1 .. 16 -> 0 .. NIB * NIB - 1], NEW from \in 1 .. 16, NEW to \in from .. 16,
         NEW n, n = 2 * (to + 1 - from), NEW j \in 0 .. to - from
  PROVE  Shown(T!Hex(T!Number(sig, from, to), n), n - 1 - 2 * j, sig[from + j])
<1> DEFINE v == T!Number(sig, from, to)
           u == T!Hex(v, n)
           p == n - 1 - 2 * j
           b == sig[from + j]
<1>1. v \in Nat /\ Pair(v, j) = b
  BY NumberBytes
<1>2. n \in Nat /\ p \in 1 .. n /\ p + 1 \in 1 .. n /\ n - p = 2 * j + 1 /\ n - (p + 1) = 2 * j
  OBVIOUS
<1> HIDE DEF v, u, p, b
<1>3. \A k \in 1 .. n : u[k] = T!Digit(v, n - k) /\ u[k] \in 0 .. NIB - 1
  BY <1>1, <1>2, HexIsText DEF u
<1>4. u[p] = T!Digit(v, 2 * j + 1) /\ u[p + 1] = T!Digit(v, 2 * j)
  BY <1>2, <1>3
<1>5. u[p] \in 0 .. NIB - 1 /\ u[p + 1] \in 0 .. NIB - 1
  BY <1>2, <1>3
<1>6. NIB * u[p] + u[p + 1] = b
  BY <1>1, <1>4 DEF Pair
<1> QED BY <1>5, <1>6 DEF Shown, u, v, p, b

LEMMA BytesShow ==
  ASSUME NEW sig \in [1 .. 16 -> 0 .. NIB * NIB - 1], NEW from \in 1 .. 16, NEW to \in from .. 16,
         NEW c \in 0 .. to - from
  PROVE  Shown(T!Bytes(sig, from, to), 2 * c + 1, sig[from + c])
<1> DEFINE s == T!Bytes(sig, from, to)
<1>1. /\ s[2 * c + 1] \in 0 .. NIB - 1 /\ s[2 * c + 2] \in 0 .. NIB - 1
      /\ NIB * s[2 * c + 1] + s[2 * c + 2] = sig[from + c]
  BY BytesIsText
<1> HIDE DEF s
<1>2. (2 * c + 1) + 1 = 2 * c + 2
  OBVIOUS
<1>3. Shown(s, 2 * c + 1, sig[from + c])
  BY <1>1, <1>2 DEF Shown
<1> QED BY <1>3 DEF s

LEMMA ShownBehind ==
  ASSUME NEW u, NEW s, NEW l \in Nat, NEW n \in Nat, \A k \in 1 .. n : u[l + k] = s[k],
         NEW p \in 1 .. n, p + 1 \in 1 .. n, NEW byte, Shown(s, p, byte)
  PROVE  Shown(u, l + p, byte)
<1>1. u[l + p] = s[p] /\ u[l + (p + 1)] = s[p + 1] /\ l + (p + 1) = (l + p) + 1
  OBVIOUS
<1> QED BY <1>1 DEF Shown

Starts(u, s)    == \A k \in 1 .. Len(s) : u[k] = s[k]
Piece(u, l, s)  == \A k \in 1 .. Len(s) : u[l + k] = s[k]

LEMMA Pieces ==
  ASSUME NEW C, NEW s \in Seq(C), NEW t \in Seq(C), NEW u, Starts(u, s \o t)
  PROVE  Starts(u, s) /\ Piece(u, Len(s), t)
<1>1. /\ Len(s \o t) = Len(s) + Len(t) /\ Len(s) \in Nat /\ Len(t) \in Nat
      /\ \A k \in 1 .. Len(s) : (s \o t)[k] = s[k]
      /\ \A k \in 1 .. Len(t) : (s \o t)[Len(s) + k] = t[k]
  BY Behind
<1> DEFINE r == s \o t
<1> HIDE DEF r
<1>2. \A k \in 1 .. Len(s) + Len(t) : u[k] = r[k]
  BY <1>1 DEF Starts, r
<1>3. \A k \in 1 .. Len(s) : u[k] = s[k]
  BY <1>1, <1>2 DEF r
<1>4. \A k \in 1 .. Len(t) : u[Len(s) + k] = t[k]
  BY <1>1, <1>2 DEF r
<1> QED BY <1>3, <1>4 DEF Starts, Piece

\* The text of a GUID.
Dashes(u) == \A k \in {9, 14, 19, 24} : u[k] = T!DASH

Stands(u, l, n, s) == \A k \in 1 .. n : u[l + k] = s[k]

LEMMA GuidPieces ==
  ASSUME NEW sig \in [1 .. 16 -> 0 .. NIB * NIB - 1], NEW u, u = T!GuidToString(sig)
  PROVE  /\ u \in Seq(Chars) /\ Len(u) = 37 /\ u[37] = T!NUL /\ Dashes(u)
         /\ Stands(u, 0, 8, T!Hex(T!Number(sig, 1, 4), 8))
         /\ Stands(u, 9, 4, T!Hex(T!Number(sig, 5, 6), 4))
         /\ Stands(u, 14, 4, T!Hex(T!Number(sig, 7, 8), 4))
         /\ Stands(u, 19, 4, T!Bytes(sig, 9, 10))
         /\ Stands(u, 24, 12, T!Bytes(sig, 11, 16))
<1> DEFINE h1 == T!Hex(T!Number(sig, 1, 4), 8)
           h2 == T!Hex(T!Number(sig, 5, 6), 4)
           h3 == T!Hex(T!Number(sig, 7, 8), 4)
           b1 == T!Bytes(sig, 9, 10)
           b2 == T!Bytes(sig, 11, 16)
           d  == <<T!DASH>>
           z  == <<T!NUL>>
           a2 == h1 \o d
           a3 == a2 \o h2
           a4 == a3 \o d
           a5 == a4 \o h3
           a6 == a5 \o d
           a7 == a6 \o b1
           a8 == a7 \o d
           a9 == a8 \o b2
           a10 == a9 \o z
           C  == Chars
<1>1. u = a10
  BY DEF T!GuidToString
<1>2. h1 \in Seq(C) /\ Len(h1) = 8
  <2>1. T!Number(sig, 1, 4) \in Nat
    BY NumberBytes
  <2> QED BY <2>1, HexIsText
<1>3. h2 \in Seq(C) /\ Len(h2) = 4
  <2>1. T!Number(sig, 5, 6) \in Nat
    BY NumberBytes
  <2> QED BY <2>1, HexIsText
<1>4. h3 \in Seq(C) /\ Len(h3) = 4
  <2>1. T!Number(sig, 7, 8) \in Nat
    BY NumberBytes
  <2> QED BY <2>1, HexIsText
<1>5. b1 \in Seq(C) /\ Len(b1) = 4
  <2> DEFINE from == 9
             to   == 10
  <2>1. from \in 1 .. 16 /\ to \in from .. 16
    OBVIOUS
  <2> HIDE DEF from, to
  <2>2. T!Bytes(sig, from, to) \in Seq(C) /\ Len(T!Bytes(sig, from, to)) = 2 * (to + 1 - from)
    BY <2>1, BytesIsText
  <2> QED BY <2>2 DEF from, to
<1>6. b2 \in Seq(C) /\ Len(b2) = 12
  <2> DEFINE from == 11
             to   == 16
  <2>1. from \in 1 .. 16 /\ to \in from .. 16
    OBVIOUS
  <2> HIDE DEF from, to
  <2>2. T!Bytes(sig, from, to) \in Seq(C) /\ Len(T!Bytes(sig, from, to)) = 2 * (to + 1 - from)
    BY <2>1, BytesIsText
  <2> QED BY <2>2 DEF from, to
<1>7. d \in Seq(C) /\ Len(d) = 1 /\ d[1] = T!DASH /\ z \in Seq(C) /\ Len(z) = 1 /\ z[1] = T!NUL
  BY SomeChars
<1> HIDE DEF h1, h2, h3, b1, b2, d, z, C
<1>8. a2 \in Seq(C) /\ Len(a2) = 9
  <2>1. a2 \in Seq(C) /\ Len(a2) = Len(h1) + Len(d)
    BY <1>2, <1>7, Behind
  <2> QED BY <1>2, <1>7, <2>1
<1> HIDE DEF a2
<1>9. a3 \in Seq(C) /\ Len(a3) = 13
  <2>1. a3 \in Seq(C) /\ Len(a3) = Len(a2) + Len(h2)
    BY <1>8, <1>3, Behind
  <2> QED BY <1>8, <1>3, <2>1
<1> HIDE DEF a3
<1>10. a4 \in Seq(C) /\ Len(a4) = 14
  <2>1. a4 \in Seq(C) /\ Len(a4) = Len(a3) + Len(d)
    BY <1>9, <1>7, Behind
  <2> QED BY <1>9, <1>7, <2>1
<1> HIDE DEF a4
<1>11. a5 \in Seq(C) /\ Len(a5) = 18
  <2>1. a5 \in Seq(C) /\ Len(a5) = Len(a4) + Len(h3)
    BY <1>10, <1>4, Behind
  <2> QED BY <1>10, <1>4, <2>1
<1> HIDE DEF a5
<1>12. a6 \in Seq(C) /\ Len(a6) = 19
  <2>1. a6 \in Seq(C) /\ Len(a6) = Len(a5) + Len(d)
    BY <1>11, <1>7, Behind
  <2> QED BY <1>11, <1>7, <2>1
<1> HIDE DEF a6
<1>13. a7 \in Seq(C) /\ Len(a7) = 23
  <2>1. a7 \in Seq(C) /\ Len(a7) = Len(a6) + Len(b1)
    BY <1>12, <1>5, Behind
  <2> QED BY <1>12, <1>5, <2>1
<1> HIDE DEF a7
<1>14. a8 \in Seq(C) /\ Len(a8) = 24
  <2>1. a8 \in Seq(C) /\ Len(a8) = Len(a7) + Len(d)
    BY <1>13, <1>7, Behind
  <2> QED BY <1>13, <1>7, <2>1
<1> HIDE DEF a8
<1>15. a9 \in Seq(C) /\ Len(a9) = 36
  <2>1. a9 \in Seq(C) /\ Len(a9) = Len(a8) + Len(b2)
    BY <1>14, <1>6, Behind
  <2> QED BY <1>14, <1>6, <2>1
<1> HIDE DEF a9
<1>16. a10 \in Seq(C) /\ Len(a10) = 37
  <2>2. a9 \in Seq(C) /\ z \in Seq(C)
    BY <1>15, <1>7
  <2>1. a10 \in Seq(C) /\ Len(a10) = Len(a9) + Len(z)
    BY <2>2, Behind
  <2> QED BY <1>15, <1>7, <2>1
<1> HIDE DEF a10
<1>17. Starts(u, a10)
  BY <1>1 DEF Starts
<1>18. Starts(u, a9) /\ Piece(u, Len(a9), z)
  BY <1>17, <1>15, <1>7, Pieces DEF a10
<1>19. Starts(u, a8) /\ Piece(u, Len(a8), b2)
  BY <1>18, <1>14, <1>6, Pieces DEF a9
<1>20. Starts(u, a7) /\ Piece(u, Len(a7), d)
  BY <1>19, <1>13, <1>7, Pieces DEF a8
<1>21. Starts(u, a6) /\ Piece(u, Len(a6), b1)
  BY <1>20, <1>12, <1>5, Pieces DEF a7
<1>22. Starts(u, a5) /\ Piece(u, Len(a5), d)
  BY <1>21, <1>11, <1>7, Pieces DEF a6
<1>23. Starts(u, a4) /\ Piece(u, Len(a4), h3)
  BY <1>22, <1>10, <1>4, Pieces DEF a5
<1>24. Starts(u, a3) /\ Piece(u, Len(a3), d)
  BY <1>23, <1>9, <1>7, Pieces DEF a4
<1>25. Starts(u, a2) /\ Piece(u, Len(a2), h2)
  BY <1>24, <1>8, <1>3, Pieces DEF a3
<1>26. Starts(u, h1) /\ Piece(u, Len(h1), d)
  BY <1>25, <1>2, <1>7, Pieces DEF a2
<1>27. u \in Seq(C) /\ Len(u) = 37
  BY <1>1, <1>16
<1>28. \A k \in 1 .. 8 : u[0 + k] = h1[k]
  <2>1. \A k \in 1 .. 8 : u[k] = h1[k]
    BY <1>26, <1>2 DEF Starts
  <2>2. \A k \in 1 .. 8 : 0 + k = k
    OBVIOUS
  <2> QED BY <2>1, <2>2
<1>29. u[37] = T!NUL
  <2>1. \A k \in 1 .. 1 : u[36 + k] = z[k]
    BY <1>18, <1>15, <1>7 DEF Piece
  <2>2. u[36 + 1] = z[1]
    BY <2>1
  <2> QED BY <1>7, <2>2
<1>30. \A k \in 1 .. 12 : u[24 + k] = b2[k]
  BY <1>19, <1>14, <1>6 DEF Piece
<1>31. u[24] = T!DASH
  <2>1. \A k \in 1 .. 1 : u[23 + k] = d[k]
    BY <1>20, <1>13, <1>7 DEF Piece
  <2>2. u[23 + 1] = d[1]
    BY <2>1
  <2> QED BY <1>7, <2>2
<1>32. \A k \in 1 .. 4 : u[19 + k] = b1[k]
  BY <1>21, <1>12, <1>5 DEF Piece
<1>33. u[19] = T!DASH
  <2>1. \A k \in 1 .. 1 : u[18 + k] = d[k]
    BY <1>22, <1>11, <1>7 DEF Piece
  <2>2. u[18 + 1] = d[1]
    BY <2>1
  <2> QED BY <1>7, <2>2
<1>34. \A k \in 1 .. 4 : u[14 + k] = h3[k]
  BY <1>23, <1>10, <1>4 DEF Piece
<1>35. u[14] = T!DASH
  <2>1. \A k \in 1 .. 1 : u[13 + k] = d[k]
    BY <1>24, <1>9, <1>7 DEF Piece
  <2>2. u[13 + 1] = d[1]
    BY <2>1
  <2> QED BY <1>7, <2>2
<1>36. \A k \in 1 .. 4 : u[9 + k] = h2[k]
  BY <1>25, <1>8, <1>3 DEF Piece
<1>37. u[9] = T!DASH
  <2>1. \A k \in 1 .. 1 : u[8 + k] = d[k]
    BY <1>26, <1>2, <1>7 DEF Piece
  <2>2. u[8 + 1] = d[1]
    BY <2>1
  <2> QED BY <1>7, <2>2
<1>38. Dashes(u)
  BY <1>31, <1>33, <1>35, <1>37 DEF Dashes
<1>39. /\ Stands(u, 0, 8, h1) /\ Stands(u, 9, 4, h2) /\ Stands(u, 14, 4, h3)
       /\ Stands(u, 19, 4, b1) /\ Stands(u, 24, 12, b2)
  BY <1>28, <1>30, <1>32, <1>34, <1>36 DEF Stands
<1> QED BY <1>27, <1>29, <1>38, <1>39 DEF h1, h2, h3, b1, b2, C

LEMMA HexPiece ==
  ASSUME NEW sig \in [1 .. 16 -> 0 .. NIB * NIB - 1], NEW from \in 1 .. 16, NEW to \in from .. 16,
         NEW n, n = 2 * (to + 1 - from), NEW u, NEW l \in Nat,
         \A k \in 1 .. n : u[l + k] = T!Hex(T!Number(sig, from, to), n)[k]
  PROVE  \A j \in 0 .. to - from : Shown(u, l + (n - 1 - 2 * j), sig[from + j])
<1> TAKE j \in 0 .. to - from
<1> DEFINE s == T!Hex(T!Number(sig, from, to), n)
           p == n - 1 - 2 * j
           b == sig[from + j]
<1>1. Shown(s, p, b)
  BY HexShows
<1>2. n \in Nat /\ p \in 1 .. n /\ p + 1 \in 1 .. n /\ \A k \in 1 .. n : u[l + k] = s[k]
  OBVIOUS
<1> HIDE DEF s, p, b
<1>3. Shown(u, l + p, b)
  BY <1>1, <1>2, ShownBehind
<1> QED BY <1>3 DEF p, b

LEMMA BytesPiece ==
  ASSUME NEW sig \in [1 .. 16 -> 0 .. NIB * NIB - 1], NEW from \in 1 .. 16, NEW to \in from .. 16,
         NEW n, n = 2 * (to + 1 - from), NEW u, NEW l \in Nat,
         \A k \in 1 .. n : u[l + k] = T!Bytes(sig, from, to)[k]
  PROVE  \A j \in 0 .. to - from : Shown(u, l + (2 * j + 1), sig[from + j])
<1> TAKE j \in 0 .. to - from
<1> DEFINE s == T!Bytes(sig, from, to)
           p == 2 * j + 1
           b == sig[from + j]
<1>1. Shown(s, p, b)
  BY BytesShow
<1>2. n \in Nat /\ p \in 1 .. n /\ p + 1 \in 1 .. n /\ \A k \in 1 .. n : u[l + k] = s[k]
  OBVIOUS
<1> HIDE DEF s, p, b
<1>3. Shown(u, l + p, b)
  BY <1>1, <1>2, ShownBehind
<1> QED BY <1>3 DEF p, b

\* Each byte's digits stand where the text form of a GUID has them.
LEMMA GuidShows ==
  ASSUME NEW sig \in [1 .. 16 -> 0 .. NIB * NIB - 1], NEW u, u = T!GuidToString(sig)
  PROVE  \A b \in 1 .. 16 : Shown(u, T!Place[b], sig[T!Order[b]])
<1> DEFINE At(p, b) == Shown(u, p, sig[b])
<1>1. \A j \in 0 .. 3 : Shown(u, 0 + (8 - 1 - 2 * j), sig[1 + j])
  <2> DEFINE from == 1
             to   == 4
             n    == 8
             l    == 0
  <2>1. /\ from \in 1 .. 16 /\ to \in from .. 16 /\ n = 2 * (to + 1 - from) /\ l \in Nat
        /\ to - from = 3
    OBVIOUS
  <2>2. \A k \in 1 .. n : u[l + k] = T!Hex(T!Number(sig, from, to), n)[k]
    <3>1. Stands(u, l, n, T!Hex(T!Number(sig, from, to), n))
      BY GuidPieces
    <3> HIDE DEF l, n, from, to
    <3> QED BY <3>1 DEF Stands
  <2> HIDE DEF from, to, n, l
  <2>3. \A j \in 0 .. to - from : Shown(u, l + (n - 1 - 2 * j), sig[from + j])
    BY <2>1, <2>2, HexPiece
  <2> QED BY <2>1, <2>3 DEF from, to, n, l
<1>2. \A j \in 0 .. 1 : Shown(u, 9 + (4 - 1 - 2 * j), sig[5 + j])
  <2> DEFINE from == 5
             to   == 6
             n    == 4
             l    == 9
  <2>1. /\ from \in 1 .. 16 /\ to \in from .. 16 /\ n = 2 * (to + 1 - from) /\ l \in Nat
        /\ to - from = 1
    OBVIOUS
  <2>2. \A k \in 1 .. n : u[l + k] = T!Hex(T!Number(sig, from, to), n)[k]
    <3>1. Stands(u, l, n, T!Hex(T!Number(sig, from, to), n))
      BY GuidPieces
    <3> HIDE DEF l, n, from, to
    <3> QED BY <3>1 DEF Stands
  <2> HIDE DEF from, to, n, l
  <2>3. \A j \in 0 .. to - from : Shown(u, l + (n - 1 - 2 * j), sig[from + j])
    BY <2>1, <2>2, HexPiece
  <2> QED BY <2>1, <2>3 DEF from, to, n, l
<1>3. \A j \in 0 .. 1 : Shown(u, 14 + (4 - 1 - 2 * j), sig[7 + j])
  <2> DEFINE from == 7
             to   == 8
             n    == 4
             l    == 14
  <2>1. /\ from \in 1 .. 16 /\ to \in from .. 16 /\ n = 2 * (to + 1 - from) /\ l \in Nat
        /\ to - from = 1
    OBVIOUS
  <2>2. \A k \in 1 .. n : u[l + k] = T!Hex(T!Number(sig, from, to), n)[k]
    <3>1. Stands(u, l, n, T!Hex(T!Number(sig, from, to), n))
      BY GuidPieces
    <3> HIDE DEF l, n, from, to
    <3> QED BY <3>1 DEF Stands
  <2> HIDE DEF from, to, n, l
  <2>3. \A j \in 0 .. to - from : Shown(u, l + (n - 1 - 2 * j), sig[from + j])
    BY <2>1, <2>2, HexPiece
  <2> QED BY <2>1, <2>3 DEF from, to, n, l
<1>4. \A j \in 0 .. 1 : Shown(u, 19 + (2 * j + 1), sig[9 + j])
  <2> DEFINE from == 9
             to   == 10
             n    == 4
             l    == 19
  <2>1. /\ from \in 1 .. 16 /\ to \in from .. 16 /\ n = 2 * (to + 1 - from) /\ l \in Nat
        /\ to - from = 1
    OBVIOUS
  <2>2. \A k \in 1 .. n : u[l + k] = T!Bytes(sig, from, to)[k]
    <3>1. Stands(u, l, n, T!Bytes(sig, from, to))
      BY GuidPieces
    <3> HIDE DEF l, n, from, to
    <3> QED BY <3>1 DEF Stands
  <2> HIDE DEF from, to, n, l
  <2>3. \A j \in 0 .. to - from : Shown(u, l + (2 * j + 1), sig[from + j])
    BY <2>1, <2>2, BytesPiece
  <2> QED BY <2>1, <2>3 DEF from, to, n, l
<1>5. \A j \in 0 .. 5 : Shown(u, 24 + (2 * j + 1), sig[11 + j])
  <2> DEFINE from == 11
             to   == 16
             n    == 12
             l    == 24
  <2>1. /\ from \in 1 .. 16 /\ to \in from .. 16 /\ n = 2 * (to + 1 - from) /\ l \in Nat
        /\ to - from = 5
    OBVIOUS
  <2>2. \A k \in 1 .. n : u[l + k] = T!Bytes(sig, from, to)[k]
    <3>1. Stands(u, l, n, T!Bytes(sig, from, to))
      BY GuidPieces
    <3> HIDE DEF l, n, from, to
    <3> QED BY <3>1 DEF Stands
  <2> HIDE DEF from, to, n, l
  <2>3. \A j \in 0 .. to - from : Shown(u, l + (2 * j + 1), sig[from + j])
    BY <2>1, <2>2, BytesPiece
  <2> QED BY <2>1, <2>3 DEF from, to, n, l
<1>6. At(1, 4)
  <2>1. 3 \in 0 .. 15 /\ 0 + (8 - 1 - 2 * 3) = 1 /\ 1 + 3 = 4
    OBVIOUS
  <2>2. Shown(u, 0 + (8 - 1 - 2 * 3), sig[1 + 3])
    BY <1>1
  <2> QED BY <2>1, <2>2
<1>7. At(3, 3)
  <2>1. 2 \in 0 .. 15 /\ 0 + (8 - 1 - 2 * 2) = 3 /\ 1 + 2 = 3
    OBVIOUS
  <2>2. Shown(u, 0 + (8 - 1 - 2 * 2), sig[1 + 2])
    BY <1>1
  <2> QED BY <2>1, <2>2
<1>8. At(5, 2)
  <2>1. 1 \in 0 .. 15 /\ 0 + (8 - 1 - 2 * 1) = 5 /\ 1 + 1 = 2
    OBVIOUS
  <2>2. Shown(u, 0 + (8 - 1 - 2 * 1), sig[1 + 1])
    BY <1>1
  <2> QED BY <2>1, <2>2
<1>9. At(7, 1)
  <2>1. 0 \in 0 .. 15 /\ 0 + (8 - 1 - 2 * 0) = 7 /\ 1 + 0 = 1
    OBVIOUS
  <2>2. Shown(u, 0 + (8 - 1 - 2 * 0), sig[1 + 0])
    BY <1>1
  <2> QED BY <2>1, <2>2
<1>10. At(10, 6)
  <2>1. 1 \in 0 .. 15 /\ 9 + (4 - 1 - 2 * 1) = 10 /\ 5 + 1 = 6
    OBVIOUS
  <2>2. Shown(u, 9 + (4 - 1 - 2 * 1), sig[5 + 1])
    BY <1>2
  <2> QED BY <2>1, <2>2
<1>11. At(12, 5)
  <2>1. 0 \in 0 .. 15 /\ 9 + (4 - 1 - 2 * 0) = 12 /\ 5 + 0 = 5
    OBVIOUS
  <2>2. Shown(u, 9 + (4 - 1 - 2 * 0), sig[5 + 0])
    BY <1>2
  <2> QED BY <2>1, <2>2
<1>12. At(15, 8)
  <2>1. 1 \in 0 .. 15 /\ 14 + (4 - 1 - 2 * 1) = 15 /\ 7 + 1 = 8
    OBVIOUS
  <2>2. Shown(u, 14 + (4 - 1 - 2 * 1), sig[7 + 1])
    BY <1>3
  <2> QED BY <2>1, <2>2
<1>13. At(17, 7)
  <2>1. 0 \in 0 .. 15 /\ 14 + (4 - 1 - 2 * 0) = 17 /\ 7 + 0 = 7
    OBVIOUS
  <2>2. Shown(u, 14 + (4 - 1 - 2 * 0), sig[7 + 0])
    BY <1>3
  <2> QED BY <2>1, <2>2
<1>14. At(20, 9)
  <2>1. 0 \in 0 .. 15 /\ 19 + (2 * 0 + 1) = 20 /\ 9 + 0 = 9
    OBVIOUS
  <2>2. Shown(u, 19 + (2 * 0 + 1), sig[9 + 0])
    BY <1>4
  <2> QED BY <2>1, <2>2
<1>15. At(22, 10)
  <2>1. 1 \in 0 .. 15 /\ 19 + (2 * 1 + 1) = 22 /\ 9 + 1 = 10
    OBVIOUS
  <2>2. Shown(u, 19 + (2 * 1 + 1), sig[9 + 1])
    BY <1>4
  <2> QED BY <2>1, <2>2
<1>16. At(25, 11)
  <2>1. 0 \in 0 .. 15 /\ 24 + (2 * 0 + 1) = 25 /\ 11 + 0 = 11
    OBVIOUS
  <2>2. Shown(u, 24 + (2 * 0 + 1), sig[11 + 0])
    BY <1>5
  <2> QED BY <2>1, <2>2
<1>17. At(27, 12)
  <2>1. 1 \in 0 .. 15 /\ 24 + (2 * 1 + 1) = 27 /\ 11 + 1 = 12
    OBVIOUS
  <2>2. Shown(u, 24 + (2 * 1 + 1), sig[11 + 1])
    BY <1>5
  <2> QED BY <2>1, <2>2
<1>18. At(29, 13)
  <2>1. 2 \in 0 .. 15 /\ 24 + (2 * 2 + 1) = 29 /\ 11 + 2 = 13
    OBVIOUS
  <2>2. Shown(u, 24 + (2 * 2 + 1), sig[11 + 2])
    BY <1>5
  <2> QED BY <2>1, <2>2
<1>19. At(31, 14)
  <2>1. 3 \in 0 .. 15 /\ 24 + (2 * 3 + 1) = 31 /\ 11 + 3 = 14
    OBVIOUS
  <2>2. Shown(u, 24 + (2 * 3 + 1), sig[11 + 3])
    BY <1>5
  <2> QED BY <2>1, <2>2
<1>20. At(33, 15)
  <2>1. 4 \in 0 .. 15 /\ 24 + (2 * 4 + 1) = 33 /\ 11 + 4 = 15
    OBVIOUS
  <2>2. Shown(u, 24 + (2 * 4 + 1), sig[11 + 4])
    BY <1>5
  <2> QED BY <2>1, <2>2
<1>21. At(35, 16)
  <2>1. 5 \in 0 .. 15 /\ 24 + (2 * 5 + 1) = 35 /\ 11 + 5 = 16
    OBVIOUS
  <2>2. Shown(u, 24 + (2 * 5 + 1), sig[11 + 5])
    BY <1>5
  <2> QED BY <2>1, <2>2
<1> HIDE DEF At
<1>22. \A b \in 1 .. 16 : At(T!Place[b], T!Order[b])
  <2> TAKE b \in 1 .. 16
  <2>1. CASE b = 1
    <3>1. T!Place[1] = 1 /\ T!Order[1] = 4
      BY DEF T!Place, T!Order
    <3> QED BY <1>6, <2>1, <3>1
  <2>2. CASE b = 2
    <3>1. T!Place[2] = 3 /\ T!Order[2] = 3
      BY DEF T!Place, T!Order
    <3> QED BY <1>7, <2>2, <3>1
  <2>3. CASE b = 3
    <3>1. T!Place[3] = 5 /\ T!Order[3] = 2
      BY DEF T!Place, T!Order
    <3> QED BY <1>8, <2>3, <3>1
  <2>4. CASE b = 4
    <3>1. T!Place[4] = 7 /\ T!Order[4] = 1
      BY DEF T!Place, T!Order
    <3> QED BY <1>9, <2>4, <3>1
  <2>5. CASE b = 5
    <3>1. T!Place[5] = 10 /\ T!Order[5] = 6
      BY DEF T!Place, T!Order
    <3> QED BY <1>10, <2>5, <3>1
  <2>6. CASE b = 6
    <3>1. T!Place[6] = 12 /\ T!Order[6] = 5
      BY DEF T!Place, T!Order
    <3> QED BY <1>11, <2>6, <3>1
  <2>7. CASE b = 7
    <3>1. T!Place[7] = 15 /\ T!Order[7] = 8
      BY DEF T!Place, T!Order
    <3> QED BY <1>12, <2>7, <3>1
  <2>8. CASE b = 8
    <3>1. T!Place[8] = 17 /\ T!Order[8] = 7
      BY DEF T!Place, T!Order
    <3> QED BY <1>13, <2>8, <3>1
  <2>9. CASE b = 9
    <3>1. T!Place[9] = 20 /\ T!Order[9] = 9
      BY DEF T!Place, T!Order
    <3> QED BY <1>14, <2>9, <3>1
  <2>10. CASE b = 10
    <3>1. T!Place[10] = 22 /\ T!Order[10] = 10
      BY DEF T!Place, T!Order
    <3> QED BY <1>15, <2>10, <3>1
  <2>11. CASE b = 11
    <3>1. T!Place[11] = 25 /\ T!Order[11] = 11
      BY DEF T!Place, T!Order
    <3> QED BY <1>16, <2>11, <3>1
  <2>12. CASE b = 12
    <3>1. T!Place[12] = 27 /\ T!Order[12] = 12
      BY DEF T!Place, T!Order
    <3> QED BY <1>17, <2>12, <3>1
  <2>13. CASE b = 13
    <3>1. T!Place[13] = 29 /\ T!Order[13] = 13
      BY DEF T!Place, T!Order
    <3> QED BY <1>18, <2>13, <3>1
  <2>14. CASE b = 14
    <3>1. T!Place[14] = 31 /\ T!Order[14] = 14
      BY DEF T!Place, T!Order
    <3> QED BY <1>19, <2>14, <3>1
  <2>15. CASE b = 15
    <3>1. T!Place[15] = 33 /\ T!Order[15] = 15
      BY DEF T!Place, T!Order
    <3> QED BY <1>20, <2>15, <3>1
  <2>16. CASE b = 16
    <3>1. T!Place[16] = 35 /\ T!Order[16] = 16
      BY DEF T!Place, T!Order
    <3> QED BY <1>21, <2>16, <3>1
  <2> QED BY <2>1, <2>2, <2>3, <2>4, <2>5, <2>6, <2>7, <2>8, <2>9, <2>10, <2>11, <2>12, <2>13, <2>14, <2>15, <2>16
<1> QED BY <1>22 DEF At

(* LoaderText: the walk along the device path, and the digits of PrintInt *)

\* Where the walk has come to, no partition and no broken node behind it.
OnPath(path) ==
  /\ tCall = <<"uuid", path>> /\ tStatus = "NOT_FOUND"
  /\ tN \in 1 .. Len(path)
  /\ \A k \in 1 .. tN - 1 :
       path[k].type # "end" /\ ~T!TooShort(path[k]) /\ ~T!Partition(path[k])

\* How many digits of a number are in buf, and these digits; with what is left of
\* the number they are the number.
Count == BufSize - 1 - tI
Digits == [k \in 1 .. Count |-> tBuf[tI + k - 1]]
Amount(v) == IF v < 0 THEN 0 - v ELSE v

Printing(v) ==
  /\ tCall = <<"int", v>> /\ Amount(v) < T!Power(10, BufSize - 2)
  /\ tI \in 1 .. BufSize - 1
  /\ tBuf[BufSize - 1] = T!NUL
  /\ \A c \in tI .. BufSize - 2 : tBuf[c] \in 0 .. 9
  /\ Amount(v) = tRest * T!Power(10, Count) + T!ValueOf(Digits, 10)

TellsInv ==
  /\ T!TypeOK /\ tI \in 0 .. BufSize
  /\ tPc = "idle" => tN = 1 /\ tI = BufSize /\ tStatus = "NOT_FOUND"
  /\ tPc = "walk" => \E path \in Paths : OnPath(path)
  /\ tPc \in {"digits", "sign"} => \E v \in Int : Printing(v)
  /\ tPc = "digits" => tRest # 0 \/ Count = 0
  /\ tPc = "sign" => tRest = 0 /\ Count > 0 /\ (Count > 1 => tBuf[tI] # 0)
  /\ T!Uuid /\ T!ReadsBack

LEMMA TextTypes ==
  T!TypeOK <=>
    /\ tPc \in {"idle", "walk", "digits", "sign", "done"}
    /\ tCall[1] = "uuid" /\ tPc = "walk" => tN \in 1 .. Len(tCall[2])
    /\ tRest \in 0 .. T!Power(NIB, WORD) - 1
    /\ tI \in Int /\ DOMAIN tBuf = tI .. BufSize - 1
    /\ tStatus \in {"SUCCESS", "NOT_FOUND", "INVALID_PARAMETER"}
    /\ tText \in Seq(Chars)
BY DEF T!TypeOK, T!Values, Chars

LEMMA TextTypesNext ==
  T!TypeOK' <=>
    /\ tPc' \in {"idle", "walk", "digits", "sign", "done"}
    /\ tCall'[1] = "uuid" /\ tPc' = "walk" => tN' \in 1 .. Len(tCall'[2])
    /\ tRest' \in 0 .. T!Power(NIB, WORD) - 1
    /\ tI' \in Int /\ DOMAIN (tBuf') = tI' .. BufSize - 1
    /\ tStatus' \in {"SUCCESS", "NOT_FOUND", "INVALID_PARAMETER"}
    /\ tText' \in Seq(Chars)
BY DEF T!TypeOK, T!Values, Chars

\* Before the end of a call there is nothing to show.
LEMMA NothingShown ==
  /\ tPc # "done" /\ tI \in 0 .. BufSize => T!Uuid /\ T!ReadsBack
  /\ tPc' # "done" /\ tI' \in 0 .. BufSize => T!Uuid' /\ T!ReadsBack'
BY DEF T!Uuid, T!ReadsBack

LEMMA TextInitially == T!Init => TellsInv
<1> SUFFICES ASSUME T!Init PROVE TellsInv
  OBVIOUS
<1>1. /\ tPc = "idle" /\ tCall = <<"none">> /\ tN = 1 /\ tRest = 0 /\ tI = BufSize
      /\ tBuf = [c \in {} |-> T!NUL] /\ tStatus = "NOT_FOUND" /\ tText = <<>>
  BY DEF T!Init, T!EndOfBuf
<1>2. BufSize \in Nat /\ NIB \in Nat \ {0} /\ WORD \in Nat
  BY TextConstants
<1>3. T!Power(NIB, WORD) \in Nat \ {0}
  BY <1>2, PowerPositive
<1>4. BufSize .. BufSize - 1 = {}
  BY <1>2
<1>5. <<>> \in Seq(Chars)
  OBVIOUS
<1>8. DOMAIN tBuf = tI .. BufSize - 1 /\ tI \in 0 .. BufSize
  BY <1>1, <1>2, <1>4
<1>9. tRest \in 0 .. T!Power(NIB, WORD) - 1
  BY <1>1, <1>3
<1>6. T!TypeOK
  BY <1>1, <1>5, <1>8, <1>9, TextTypes
<1>7. T!Uuid /\ T!ReadsBack
  BY <1>1, <1>8, NothingShown
<1> QED BY <1>1, <1>6, <1>7, <1>8 DEF TellsInv

LEMMA GetKeeps == ASSUME TellsInv, T!GetDiskPartUUID PROVE TellsInv'
<1>1. /\ T!TypeOK /\ tPc = "idle" /\ tN = 1 /\ tI = BufSize /\ tStatus = "NOT_FOUND"
      /\ UNCHANGED <<tN, tRest, tI, tBuf, tStatus, tText>>
  BY DEF TellsInv, T!GetDiskPartUUID
<1>2. BufSize \in Nat
  BY TextConstants
<1>3. tI' \in 0 .. BufSize
  BY <1>1, <1>2
<1>4. CASE \E path \in Paths : tCall' = <<"uuid", path>> /\ tPc' = "walk"
  <2>1. PICK path \in Paths : tCall' = <<"uuid", path>> /\ tPc' = "walk"
    BY <1>4
  <2>2. tCall'[1] = "uuid" /\ tCall'[2] = path
    BY <2>1
  <2>3. Len(path) \in Nat \ {0}
    BY TextConstants
  <2>4. tN' \in 1 .. Len(path)
    BY <1>1, <2>3
  <2>5. OnPath(path)'
    <3>1. 1 .. tN' - 1 = {}
      BY <1>1
    <3> QED BY <1>1, <2>1, <2>4, <3>1 DEF OnPath
  <2>6. T!TypeOK'
    BY <1>1, <2>1, <2>2, <2>4, TextTypes, TextTypesNext
  <2>7. T!Uuid' /\ T!ReadsBack'
    BY <1>3, <2>1, NothingShown
  <2> QED BY <1>3, <2>1, <2>5, <2>6, <2>7 DEF TellsInv
<1>5. CASE tCall' = <<"uuid", <<>> >> /\ tPc' = "done"
  <2>1. T!TypeOK'
    BY <1>1, <1>5, TextTypes, TextTypesNext
  <2>2. T!ReadsBack'
    BY <1>3, <1>5 DEF T!ReadsBack
  <2>3. T!Uuid'
    <3>1. tCall'[2] = <<>> /\ DOMAIN <<>> = {}
      BY <1>5
    <3> QED BY <1>1, <1>5, <3>1 DEF T!Uuid
  <2> QED BY <1>3, <1>5, <2>1, <2>2, <2>3 DEF TellsInv
<1> QED BY <1>4, <1>5 DEF T!GetDiskPartUUID

\* The first of a set of places on a path, or the place behind the path.
First(S, path) == IF S = {} THEN Len(path) + 1 ELSE T!Min(S)

LEMMA FirstIs ==
  ASSUME NEW path, NEW S \in SUBSET Nat, NEW m \in S, \A k \in S : m <= k
  PROVE  First(S, path) = m
<1>1. T!Min(S) = CHOOSE x \in S : \A y \in S : x <= y
  BY DEF T!Min
<1>2. \E x \in S : \A y \in S : x <= y
  OBVIOUS
<1> DEFINE x == CHOOSE x \in S : \A y \in S : x <= y
<1>3. x \in S /\ \A y \in S : x <= y
  BY <1>2
<1> HIDE DEF x
<1>4. x <= m /\ m <= x /\ x \in Nat /\ m \in Nat
  BY <1>3
<1>5. x = m
  BY <1>4
<1> QED BY <1>1, <1>5 DEF x, First

LEMMA FirstAfter ==
  ASSUME NEW path, NEW len \in Nat, Len(path) = len, NEW m \in 0 .. len,
         NEW S \in SUBSET Nat, \A k \in S : m < k
  PROVE  m < First(S, path) /\ First(S, path) \in Nat
<1>1. CASE S = {}
  BY <1>1 DEF First
<1>2. CASE S # {}
  <2>1. PICK k \in S : \A l \in S : k <= l
    BY <1>2, LeastNumber
  <2>2. First(S, path) = k
    BY <2>1, FirstIs
  <2> QED BY <2>1, <2>2
<1> QED BY <1>1, <1>2

Broken(path)     == {k \in DOMAIN path : path[k].type # "end" /\ path[k].len < 4}
Partitions(path) ==
  {k \in DOMAIN path : /\ path[k].type = "media" /\ path[k].subtype = "harddrive"
                       /\ path[k].len >= HARDDRIVE /\ path[k].signatureType = "guid"}

\* Uuid says this of a path and the text of a partition's GUID.
GuidIn(u, sig) ==
  /\ Len(u) = 37 /\ u[37] = T!NUL
  /\ \A k \in {9, 14, 19, 24} : u[k] = T!DASH
  /\ \A b \in 1 .. 16 :
       /\ {u[T!Place[b]], u[T!Place[b] + 1]} \subseteq 0 .. NIB - 1
       /\ NIB * u[T!Place[b]] + u[T!Place[b] + 1] = sig[T!Order[b]]

LEMMA GuidReads ==
  ASSUME NEW sig \in [1 .. 16 -> 0 .. NIB * NIB - 1], NEW u, u = T!GuidToString(sig)
  PROVE  GuidIn(u, sig)
<1>1. Len(u) = 37 /\ u[37] = T!NUL
  BY GuidPieces
<1>2. Dashes(u)
  BY GuidPieces
<1>3. \A b \in 1 .. 16 : Shown(u, T!Place[b], sig[T!Order[b]])
  BY GuidShows
<1>4. \A b \in 1 .. 16 :
        /\ {u[T!Place[b]], u[T!Place[b] + 1]} \subseteq 0 .. NIB - 1
        /\ NIB * u[T!Place[b]] + u[T!Place[b] + 1] = sig[T!Order[b]]
  BY <1>3 DEF Shown
<1> QED BY <1>1, <1>2, <1>4 DEF GuidIn, Dashes

LEMMA UuidIs ==
  ASSUME NEW path, tCall' = <<"uuid", path>>,
         tStatus' = "SUCCESS" <=> First(Partitions(path), path) < First(Broken(path), path),
         tStatus' = "INVALID_PARAMETER" <=> First(Broken(path), path) < First(Partitions(path), path),
         tStatus' = "SUCCESS" =>
           GuidIn(tText', path[First(Partitions(path), path)].signature)
  PROVE  T!Uuid'
<1> DEFINE c == tCall'[2]
<1>1. c = path
  OBVIOUS
<1>2. /\ First(Partitions(path), path) = First(Partitions(c), c)
      /\ First(Broken(path), path) = First(Broken(c), c)
  BY <1>1
<1>3. /\ tStatus' = "SUCCESS" <=> First(Partitions(c), c) < First(Broken(c), c)
      /\ tStatus' = "INVALID_PARAMETER" <=> First(Broken(c), c) < First(Partitions(c), c)
      /\ tStatus' = "SUCCESS" => GuidIn(tText', c[First(Partitions(c), c)].signature)
  BY <1>1, <1>2
<1> QED BY <1>3 DEF T!Uuid, First, Partitions, Broken, GuidIn

LEMMA WalkKeeps == ASSUME TellsInv, T!Walk PROVE TellsInv'
<1>1. T!TypeOK /\ tI \in 0 .. BufSize /\ tPc = "walk" /\ UNCHANGED <<tCall, tRest, tI, tBuf>>
  BY DEF TellsInv, T!Walk
<1>2. PICK path \in Paths : OnPath(path)
  BY <1>1 DEF TellsInv
<1>3. /\ tCall = <<"uuid", path>> /\ tStatus = "NOT_FOUND" /\ tN \in 1 .. Len(path)
      /\ T!Node = path[tN] /\ tCall' = <<"uuid", path>>
  BY <1>1, <1>2 DEF OnPath, T!Node
<1> DEFINE len == Len(path)
<1>4. /\ len \in Nat \ {0} /\ DOMAIN path = 1 .. len /\ HARDDRIVE \in Nat /\ HARDDRIVE >= 4
      /\ \A k \in 1 .. len : /\ path[k].type = "end" <=> k = len
                             /\ path[k].len \in Nat
                             /\ path[k].signature \in [1 .. 16 -> 0 .. NIB * NIB - 1]
  BY TextConstants
<1> HIDE DEF len
<1>5. \A k \in 1 .. tN - 1 :
        path[k].type # "end" /\ ~T!TooShort(path[k]) /\ ~T!Partition(path[k])
  BY <1>2 DEF OnPath
<1>6. tN \in 1 .. len /\ len \in Nat
  BY <1>3, <1>4 DEF len
<1>7. \A k \in Broken(path) : ~(k \in 1 .. tN - 1)
  BY <1>5 DEF Broken, T!TooShort
<1>8. \A k \in Partitions(path) : ~(k \in 1 .. tN - 1)
  BY <1>5 DEF Partitions, T!Partition, T!LongEnough
<1>9. Broken(path) \in SUBSET Nat /\ Partitions(path) \in SUBSET Nat
  BY <1>4 DEF Broken, Partitions
<1>10. /\ \A k \in Broken(path) : k \in Nat /\ tN <= k
       /\ \A k \in Partitions(path) : k \in Nat /\ tN <= k
  <2>1. \A k \in 1 .. len : ~(k \in 1 .. tN - 1) => k \in Nat /\ tN <= k
    BY <1>6
  <2>2. \A k \in Broken(path) : k \in 1 .. len
    BY <1>4 DEF Broken
  <2>3. \A k \in Partitions(path) : k \in 1 .. len
    BY <1>4 DEF Partitions
  <2> QED BY <1>7, <1>8, <2>1, <2>2, <2>3
<1>11. ASSUME NEW S \in SUBSET Nat, \A k \in S : tN <= k, tN \notin S
       PROVE  tN < First(S, path)
  <2>1. \A k \in S : tN < k
    <3> TAKE k \in S
    <3>1. k # tN /\ k \in Nat /\ tN <= k /\ tN \in Nat
      BY <1>6, <1>11
    <3> QED BY <3>1
  <2>2. tN \in 0 .. len /\ Len(path) = len
    BY <1>6 DEF len
  <2> QED BY <1>6, <2>1, <2>2, FirstAfter
<1>12. T!ReadsBack'
  BY <1>1, <1>3 DEF T!ReadsBack
<1>13. tI' \in 0 .. BufSize
  BY <1>1
<1>14. CASE T!Node.type = "end" /\ tPc' = "done" /\ UNCHANGED <<tN, tStatus, tText>>
  <2>1. tN = len
    BY <1>3, <1>4, <1>6, <1>14
  <2>2. Broken(path) = {}
    <3>1. ASSUME NEW k \in Broken(path) PROVE FALSE
      <4>1. k \in 1 .. len /\ path[k].type # "end" /\ tN <= k
        BY <1>4, <1>10 DEF Broken
      <4>2. k = len
        BY <2>1, <4>1, <1>4
      <4> QED BY <1>4, <4>1, <4>2
    <3> QED BY <3>1
  <2>3. Partitions(path) = {}
    <3>1. ASSUME NEW k \in Partitions(path) PROVE FALSE
      <4>1. k \in 1 .. len /\ path[k].type = "media" /\ tN <= k
        BY <1>4, <1>10 DEF Partitions
      <4>2. k = len
        BY <2>1, <4>1, <1>4
      <4> QED BY <1>4, <4>1, <4>2
    <3> QED BY <3>1
  <2>4. First(Partitions(path), path) = First(Broken(path), path) /\ First(Broken(path), path) = len + 1
    BY <2>2, <2>3 DEF First, len
  <2>5. ~(len + 1 < len + 1)
    BY <1>4
  <2>6. T!Uuid'
    BY <1>3, <1>14, <2>4, <2>5, UuidIs
  <2>7. T!TypeOK'
    BY <1>1, <1>14, TextTypes, TextTypesNext
  <2> QED BY <1>12, <1>13, <1>14, <2>6, <2>7 DEF TellsInv
<1>15. CASE /\ T!Node.type # "end" /\ T!TooShort(T!Node)
            /\ tPc' = "done" /\ tStatus' = "INVALID_PARAMETER" /\ UNCHANGED <<tN, tText>>
  <2>1. path[tN].type # "end" /\ path[tN].len < 4 /\ tN \in DOMAIN path
    BY <1>3, <1>4, <1>6, <1>15 DEF T!TooShort
  <2>2. tN \in Broken(path)
    BY <2>1 DEF Broken
  <2>3. First(Broken(path), path) = tN
    BY <1>9, <1>10, <2>2, FirstIs
  <2>4. tN \notin Partitions(path)
    <3>1. path[tN].len \in Nat
      BY <1>4, <1>6
    <3>2. ~(path[tN].len >= HARDDRIVE)
      BY <1>4, <2>1, <3>1
    <3> QED BY <3>2 DEF Partitions
  <2> DEFINE f == First(Partitions(path), path)
  <2>5. tN < f /\ f \in Nat
    <3>1. tN < f
      BY <1>9, <1>10, <1>11, <2>4
    <3>2. 0 \in 0 .. len /\ Len(path) = len
      BY <1>6 DEF len
    <3>3. \A k \in Partitions(path) : 0 < k
      BY <1>6, <1>10
    <3>4. f \in Nat
      BY <1>6, <1>9, <3>2, <3>3, FirstAfter
    <3> QED BY <3>1, <3>4
  <2>6. tN < f /\ ~(f < tN)
    <3> HIDE DEF f
    <3> QED BY <1>6, <2>5
  <2>7. T!Uuid'
    BY <1>3, <1>15, <2>3, <2>6, UuidIs
  <2>8. T!TypeOK'
    BY <1>1, <1>15, TextTypes, TextTypesNext
  <2> QED BY <1>12, <1>13, <1>15, <2>7, <2>8 DEF TellsInv
<1>16. CASE /\ T!Node.type # "end" /\ ~T!TooShort(T!Node) /\ ~T!Partition(T!Node)
            /\ tN' = T!After(T!Node) /\ UNCHANGED <<tPc, tStatus, tText>>
  <2>1. path[tN].len \in Nat /\ path[tN].len # 0 /\ tN # len
    BY <1>3, <1>4, <1>6, <1>16 DEF T!TooShort
  <2>2. tN' = tN + 1
    BY <1>3, <1>16, <2>1 DEF T!After
  <2>3. tN' \in 1 .. len
    BY <1>6, <2>1, <2>2
  <2>4. \A k \in 1 .. tN' - 1 : k \in 1 .. tN - 1 \/ k = tN
    BY <1>6, <2>2
  <2>5. \A k \in 1 .. tN' - 1 :
          path[k].type # "end" /\ ~T!TooShort(path[k]) /\ ~T!Partition(path[k])
    BY <1>3, <1>5, <1>16, <2>4
  <2>6. OnPath(path)'
    <3>1. tCall' = <<"uuid", path>> /\ tStatus' = "NOT_FOUND" /\ tN' \in 1 .. Len(path)
      BY <1>3, <1>16, <2>3 DEF len
    <3>2. \A k \in 1 .. tN' - 1 :
            /\ path[k].type # "end"
            /\ ~(path[k].len < 4)
            /\ ~(/\ path[k].type = "media" /\ path[k].subtype = "harddrive"
                 /\ path[k].len >= HARDDRIVE /\ path[k].signatureType = "guid")
      BY <2>5 DEF T!TooShort, T!Partition, T!LongEnough
    <3> QED BY <3>1, <3>2 DEF OnPath, T!TooShort, T!Partition, T!LongEnough
  <2>7. T!TypeOK'
    <3>1. tCall'[2] = path
      BY <1>3
    <3>2. tN' \in 1 .. Len(tCall'[2])
      BY <2>3, <3>1 DEF len
    <3> QED BY <1>1, <1>16, <3>2, TextTypes, TextTypesNext
  <2>8. T!Uuid'
    BY <1>1, <1>13, <1>16, NothingShown
  <2> QED BY <1>1, <1>12, <1>13, <1>16, <2>6, <2>7, <2>8 DEF TellsInv
<1>17. CASE /\ T!Node.type # "end" /\ ~T!TooShort(T!Node) /\ T!Partition(T!Node)
            /\ tPc' = "done" /\ tStatus' = "SUCCESS"
            /\ tText' = T!GuidToString(T!Node.signature) /\ UNCHANGED tN
  <2>1. tN \in DOMAIN path
    BY <1>4, <1>6
  <2>2. tN \in Partitions(path) /\ tN \notin Broken(path)
    BY <1>3, <1>17, <2>1 DEF Partitions, Broken, T!Partition, T!LongEnough, T!TooShort
  <2>3. First(Partitions(path), path) = tN
    BY <1>9, <1>10, <2>2, FirstIs
  <2> DEFINE f == First(Broken(path), path)
  <2>4. tN < f
    BY <1>9, <1>10, <1>11, <2>2
  <2>5. f \in Nat
    <3>1. 0 \in 0 .. len /\ Len(path) = len
      BY <1>6 DEF len
    <3>2. \A k \in Broken(path) : 0 < k
      BY <1>6, <1>10
    <3> QED BY <1>6, <1>9, <3>1, <3>2, FirstAfter
  <2>6. tN < f /\ ~(f < tN)
    <3> HIDE DEF f
    <3> QED BY <1>6, <2>4, <2>5
  <2>7. path[tN].signature \in [1 .. 16 -> 0 .. NIB * NIB - 1]
    BY <1>4, <1>6
  <2>8. tText' = T!GuidToString(path[tN].signature)
    BY <1>3, <1>17
  <2>12. GuidIn(tText', path[tN].signature)
    BY <2>7, <2>8, GuidReads
  <2>9. T!Uuid'
    BY <1>3, <1>17, <2>3, <2>6, <2>12, UuidIs
  <2>10. tText' \in Seq(Chars)
    BY <2>7, <2>8, GuidPieces
  <2>11. T!TypeOK'
    BY <1>1, <1>17, <2>10, TextTypes, TextTypesNext
  <2> QED BY <1>12, <1>13, <1>17, <2>9, <2>11 DEF TellsInv
<1> QED BY <1>14, <1>15, <1>16, <1>17 DEF T!Walk

LEMMA SubSeqIs ==
  ASSUME NEW C, NEW s \in Seq(C), NEW a \in 1 .. Len(s), NEW b \in a - 1 .. Len(s)
  PROVE  /\ Len(SubSeq(s, a, b)) = b + 1 - a
         /\ SubSeq(s, a, b) = [k \in 1 .. b + 1 - a |-> s[a + k - 1]]
<1>1. SubSeq(s, a, b) = [k \in 1 .. (1 + b) - a |-> s[(a + k) - 1]]
  OBVIOUS
<1>2. Len(s) \in Nat /\ (1 + b) - a \in Nat /\ (1 + b) - a = b + 1 - a
  OBVIOUS
<1>3. \A k \in 1 .. b + 1 - a : (a + k) - 1 = a + k - 1
  OBVIOUS
<1>4. Len([k \in 1 .. (1 + b) - a |-> s[(a + k) - 1]]) = (1 + b) - a
  BY <1>2
<1> QED BY <1>1, <1>2, <1>3, <1>4

LEMMA HexKeeps == ASSUME TellsInv, T!PrintHex PROVE TellsInv'
<1>1. /\ T!TypeOK /\ tPc = "idle" /\ tPc' = "done" /\ tI \in 0 .. BufSize
      /\ UNCHANGED <<tN, tRest, tI, tBuf, tStatus>>
  BY DEF TellsInv, T!PrintHex
<1>2. PICK v \in 0 .. T!Power(NIB, WORD) - 1 :
        tCall' = <<"hex", v>> /\ tText' = <<0, T!X>> \o T!Hex(v, WORD) \o <<T!NUL>>
  BY DEF T!PrintHex, T!Values
<1> DEFINE h == T!Hex(v, WORD)
           u == tText'
           a == <<0, T!X>>
           z == <<T!NUL>>
           w == a \o h
           C == Chars
<1>3. WORD \in Nat /\ WORD >= 2 /\ NIB \in Nat \ {0} /\ T!Power(NIB, WORD) \in Nat
  BY TextConstants, PowerPositive
<1>4. v \in Nat /\ v < T!Power(NIB, WORD)
  BY <1>3
<1>5. /\ h \in Seq(C) /\ Len(h) = WORD
      /\ \A k \in 1 .. WORD : h[k] = T!Digit(v, WORD - k) /\ h[k] \in 0 .. NIB - 1
  BY <1>3, <1>4, HexIsText
<1>6. 0 \in C /\ T!X \in C /\ T!NUL \in C
  BY SomeChars
<1> HIDE DEF h, C
<1>7. a \in Seq(C) /\ Len(a) = 2 /\ z \in Seq(C) /\ Len(z) = 1 /\ a[1] = 0 /\ a[2] = T!X /\ z[1] = T!NUL
  BY <1>6
<1> HIDE DEF a, z
<1>8. /\ w \in Seq(C) /\ Len(w) = 2 + WORD
      /\ \A k \in 1 .. 2 : w[k] = a[k]
      /\ \A k \in 1 .. WORD : w[2 + k] = h[k]
  <2>1. a \in Seq(C) /\ h \in Seq(C)
    BY <1>5, <1>7
  <2>2. /\ w \in Seq(C) /\ Len(w) = Len(a) + Len(h)
        /\ \A k \in 1 .. Len(a) : w[k] = a[k]
        /\ \A k \in 1 .. Len(h) : w[Len(a) + k] = h[k]
    BY ONLY <2>1
  <2> HIDE DEF w
  <2> QED BY <1>5, <1>7, <2>2
<1> HIDE DEF w
<1>9. u = w \o z
  BY <1>2 DEF w, a, h, z
<1>10. /\ u \in Seq(C) /\ Len(u) = 2 + WORD + 1
       /\ \A k \in 1 .. 2 + WORD : u[k] = w[k]
       /\ \A k \in 1 .. 1 : u[(2 + WORD) + k] = z[k]
  <2> HIDE DEF u
  <2> DEFINE y == w \o z
  <2>1. w \in Seq(C) /\ z \in Seq(C)
    BY <1>7, <1>8
  <2>2. /\ y \in Seq(C) /\ Len(y) = Len(w) + Len(z)
        /\ \A k \in 1 .. Len(w) : y[k] = w[k]
        /\ \A k \in 1 .. Len(z) : y[Len(w) + k] = z[k]
    BY ONLY <2>1
  <2>3. u = y
    BY <1>9
  <2> HIDE DEF y
  <2> QED BY <1>7, <1>8, <2>2, <2>3
<1> HIDE DEF u
<1>11. u[1] = 0 /\ u[2] = T!X
  <2>1. 1 \in 1 .. 2 /\ 2 \in 1 .. 2 /\ 1 \in 1 .. 2 + WORD /\ 2 \in 1 .. 2 + WORD
    BY <1>3
  <2> QED BY <1>7, <1>8, <1>10, <2>1
<1>12. u[WORD + 3] = T!NUL
  <2>1. (2 + WORD) + 1 = WORD + 3 /\ 1 \in 1 .. 1
    BY <1>3
  <2> QED BY <1>7, <1>10, <2>1
<1> DEFINE d == SubSeq(u, 3, Len(u) - 1)
<1>13. d = [k \in 1 .. WORD |-> u[3 + k - 1]] /\ Len(d) = WORD
  <2>1. 3 \in 1 .. Len(u) /\ Len(u) - 1 \in 3 - 1 .. Len(u) /\ (Len(u) - 1) + 1 - 3 = WORD
    BY <1>3, <1>10
  <2> QED BY <1>10, <2>1, SubSeqIs
<1> HIDE DEF d
<1>14. \A k \in 1 .. WORD : d[k] = h[k]
  <2> TAKE k \in 1 .. WORD
  <2>1. d[k] = u[3 + k - 1]
    BY <1>13
  <2>2. 3 + k - 1 = 2 + k /\ 2 + k \in 1 .. 2 + WORD
    BY <1>3
  <2>3. u[2 + k] = w[2 + k] /\ w[2 + k] = h[k]
    BY <1>8, <1>10, <2>2
  <2> QED BY <2>1, <2>2, <2>3
<1>15. \A k \in 1 .. WORD : d[k] = T!Digit(v, WORD - k)
  BY <1>5, <1>14
<1>16. T!ValueOf(d, NIB) = v
  BY <1>3, <1>4, <1>13, <1>15, HexReads
<1>17. \A k \in 1 .. WORD : d[k] \in 0 .. NIB - 1
  BY <1>5, <1>14
<1>18. tCall'[1] = "hex" /\ tCall'[2] = v
  BY <1>2
<1>19. T!ReadsBack'
  <2>1. tI' \in 0 .. BufSize
    BY <1>1
  <2>2. tCall'[1] # "int"
    BY <1>18
  <2> QED BY <1>11, <1>12, <1>13, <1>16, <1>17, <1>18, <2>1, <2>2 DEF T!ReadsBack, d, u
<1>20. T!Uuid'
  BY <1>18 DEF T!Uuid
<1>21. T!TypeOK'
  BY <1>1, <1>10, TextTypes, TextTypesNext DEF u, C
<1> QED BY <1>1, <1>19, <1>20, <1>21 DEF TellsInv

\* The magnitude of an integer is less than half of the values there are, or just half.
LEMMA MagnitudeIs ==
  ASSUME NEW u \in 0 .. T!Power(NIB, WORD) - 1, NEW v, v = u - T!Power(NIB, WORD) \div 2
  PROVE  /\ v \in Int /\ T!Magnitude(v) = Amount(v)
         /\ Amount(v) \in 0 .. T!Power(NIB, WORD) - 1
         /\ Amount(v) < T!Power(10, BufSize - 2)
<1> DEFINE p == T!Power(NIB, WORD)
           q == T!Power(10, BufSize - 2)
           h == p \div 2
<1>1. p \in Nat \ {0} /\ q \in Nat \ {0} /\ h < q
  BY TextConstants, PowerPositive
<1>2. p >= 2
  <2>1. NIB \in Nat \ {0} /\ NIB >= 2 /\ WORD - 1 \in Nat /\ (WORD - 1) + 1 = WORD
    BY TextConstants
  <2> DEFINE r == T!Power(NIB, WORD - 1)
  <2>2. r \in Nat \ {0} /\ p = NIB * r
    BY <2>1, PowerPositive, PowerStep
  <2> HIDE DEF r, p
  <2>3. NIB * r >= NIB
    BY <2>1, <2>2, SMT
  <2> QED BY <1>1, <2>1, <2>2, <2>3
<1> HIDE DEF p, q
<1>3. h \in Nat /\ 2 * h <= p /\ p <= 2 * h + 1
  BY <1>1
<1>4. v = u - h /\ u \in 0 .. p - 1
  BY DEF p
<1> HIDE DEF h
<1>5. v \in Int /\ v >= 0 - h /\ v <= h
  BY <1>1, <1>3, <1>4
<1>6. Amount(v) \in 0 .. h
  BY <1>3, <1>5 DEF Amount
<1>7. h < p
  BY <1>1, <1>2, <1>3
<1>8. ASSUME v < 0 PROVE (0 - v) % p = 0 - v
  <2>1. 0 - v \in Nat /\ 0 - v \in 0 .. p - 1 /\ 0 - v = p * 0 + (0 - v) /\ 0 \in Int
    BY <1>1, <1>3, <1>5, <1>7, <1>8
  <2> QED BY <1>1, <2>1, QuotientIs
<1>9. T!Magnitude(v) = Amount(v)
  BY <1>8 DEF T!Magnitude, Amount, p
<1>10. Amount(v) \in 0 .. p - 1 /\ Amount(v) < q
  BY <1>1, <1>3, <1>6, <1>7
<1> QED BY <1>5, <1>9, <1>10 DEF p, q

LEMMA NoDigits == ASSUME NEW s, Len(s) = 0 PROVE T!ValueOf(s, 10) = 0
<1>1. 0 \in Nat
  OBVIOUS
<1>2. PICK f : T!ValueOf(s, 10) = f[0] /\ AddsUp(f, 0, s, 10)
  BY <1>1, ValueIs
<1> QED BY <1>2 DEF AddsUp

LEMMA IntKeeps == ASSUME TellsInv, T!PrintInt PROVE TellsInv'
<1>1. /\ T!TypeOK /\ tPc = "idle" /\ tI = BufSize /\ tPc' = "digits"
      /\ tI' = tI - 1 /\ tBuf' = [c \in {tI - 1} |-> T!NUL] /\ UNCHANGED <<tN, tStatus, tText>>
  BY DEF TellsInv, T!PrintInt
<1>2. PICK u \in 0 .. T!Power(NIB, WORD) - 1 :
        \E v : /\ v = u - T!Power(NIB, WORD) \div 2
               /\ tCall' = <<"int", v>> /\ tRest' = T!Magnitude(v)
  BY DEF T!PrintInt, T!Values
<1>2a. PICK v : /\ v = u - T!Power(NIB, WORD) \div 2
                /\ tCall' = <<"int", v>> /\ tRest' = T!Magnitude(v)
  BY <1>2
<1>3. BufSize \in Nat /\ BufSize > 2
  BY TextConstants
<1>4. /\ v \in Int /\ tRest' = Amount(v) /\ Amount(v) \in 0 .. T!Power(NIB, WORD) - 1
      /\ Amount(v) < T!Power(10, BufSize - 2)
  BY <1>2a, MagnitudeIs
<1>5. /\ tI' = BufSize - 1 /\ DOMAIN (tBuf') = tI' .. BufSize - 1 /\ tBuf'[BufSize - 1] = T!NUL
      /\ tI' \in 1 .. BufSize - 1 /\ Count' = 0 /\ tI' \in 0 .. BufSize
  <2>1. tI' = BufSize - 1 /\ tI' \in 1 .. BufSize - 1 /\ tI' \in 0 .. BufSize
    BY <1>1, <1>3
  <2>2. tI' .. BufSize - 1 = {BufSize - 1}
    BY <1>3, <2>1
  <2>3. DOMAIN (tBuf') = {BufSize - 1} /\ tBuf'[BufSize - 1] = T!NUL
    BY <1>1
  <2>4. Count' = 0
    BY <1>3, <2>1 DEF Count
  <2> QED BY <2>1, <2>2, <2>3, <2>4
<1>6. Len(Digits') = 0
  <2>1. Digits' = [k \in 1 .. 0 |-> tBuf'[tI' + k - 1]]
    BY <1>5 DEF Digits
  <2> QED BY <2>1
<1>7. T!ValueOf(Digits', 10) = 0
  BY <1>6, NoDigits
<1>8. T!Power(10, 0) = 1
  <2>1. 10 \in Nat \ {0} /\ 0 \in Nat
    OBVIOUS
  <2> QED BY <2>1, PowerStep
<1>9. Amount(v) = tRest' * T!Power(10, Count') + T!ValueOf(Digits', 10)
  <2>1. tRest' \in Int
    BY <1>4, TextConstants, PowerPositive
  <2>3. \A x \in Int : x * 1 + 0 = x
    OBVIOUS
  <2>2. tRest' * 1 + 0 = tRest'
    BY <2>1, <2>3
  <2> QED BY <1>4, <1>5, <1>7, <1>8, <2>2
<1>10. tI' .. BufSize - 2 = {}
  BY <1>3, <1>5
<1>11. Printing(v)'
  BY <1>2a, <1>4, <1>5, <1>9, <1>10 DEF Printing, Amount
<1>12. T!TypeOK'
  <2>1. tCall'[1] # "uuid" /\ tI' \in Int
    BY <1>2a, <1>3, <1>5
  <2> QED BY <1>1, <1>4, <1>5, <2>1, TextTypes, TextTypesNext
<1>13. T!Uuid' /\ T!ReadsBack'
  BY <1>1, <1>5, NothingShown
<1> QED BY <1>1, <1>4, <1>5, <1>11, <1>12, <1>13 DEF TellsInv

LEMMA DigitsAre ==
  ASSUME TellsInv, tPc \in {"digits", "sign"}, NEW v \in Int, Printing(v)
  PROVE  /\ Count \in Nat /\ Len(Digits) = Count /\ tI = BufSize - 1 - Count
         /\ \A k \in 1 .. Count : Digits[k] = tBuf[tI + k - 1] /\ Digits[k] \in 0 .. 9
<1>1. BufSize \in Nat /\ tI \in 1 .. BufSize - 1 /\ \A c \in tI .. BufSize - 2 : tBuf[c] \in 0 .. 9
  BY TextConstants DEF Printing
<1>2. Count \in Nat /\ tI = BufSize - 1 - Count
  BY <1>1 DEF Count
<1>3. Digits = [k \in 1 .. Count |-> tBuf[tI + k - 1]]
  BY DEF Digits
<1>4. \A k \in 1 .. Count : tI + k - 1 \in tI .. BufSize - 2
  BY <1>1, <1>2
<1>5. Len(Digits) = Count
  BY <1>2, <1>3
<1> QED BY <1>1, <1>2, <1>3, <1>4, <1>5

\* A number of which something is left has more digits than are in buf, and buf has
\* room for all.
LEMMA DecimalKeeps == ASSUME TellsInv, T!Decimal PROVE TellsInv'
<1>1. /\ T!TypeOK /\ tPc = "digits" /\ tI \in 0 .. BufSize /\ (tRest # 0 \/ Count = 0)
      /\ tI' = tI - 1 /\ tBuf' = [c \in DOMAIN tBuf \cup {tI - 1} |-> IF c = tI - 1 THEN tRest % 10 ELSE tBuf[c]]
      /\ tRest' = tRest \div 10
      /\ tPc' = IF tRest' = 0 THEN "sign" ELSE tPc
      /\ UNCHANGED <<tCall, tN, tStatus, tText>>
  BY DEF TellsInv, T!Decimal, T!Stored
<1>2. PICK v \in Int : Printing(v)
  BY <1>1 DEF TellsInv
<1>3. /\ tCall = <<"int", v>> /\ Amount(v) < T!Power(10, BufSize - 2)
      /\ tI \in 1 .. BufSize - 1 /\ tBuf[BufSize - 1] = T!NUL
      /\ \A c \in tI .. BufSize - 2 : tBuf[c] \in 0 .. 9
      /\ Amount(v) = tRest * T!Power(10, Count) + T!ValueOf(Digits, 10)
  BY <1>2 DEF Printing
<1>4. /\ Count \in Nat /\ Len(Digits) = Count /\ tI = BufSize - 1 - Count
      /\ \A k \in 1 .. Count : Digits[k] = tBuf[tI + k - 1] /\ Digits[k] \in 0 .. 9
  BY <1>1, <1>2, DigitsAre
<1>5. BufSize \in Nat /\ BufSize > 2 /\ BufSize - 2 \in Nat
  BY TextConstants
<1>6. /\ DOMAIN tBuf = tI .. BufSize - 1 /\ tRest \in 0 .. T!Power(NIB, WORD) - 1
      /\ T!Power(NIB, WORD) \in Nat \ {0}
  BY <1>1, TextTypes, TextConstants, PowerPositive
<1> DEFINE q == tRest \div 10
           d == tRest % 10
           p == T!Power(10, Count)
           w == T!ValueOf(Digits, 10)
           w1 == T!ValueOf(Digits', 10)
           j == tI - 1
<1>7. tRest \in Nat /\ q \in Nat /\ d \in 0 .. 9 /\ tRest = 10 * q + d /\ q <= tRest
  BY <1>6
<1>8. /\ tBuf' = [c \in tI - 1 .. BufSize - 1 |-> IF c = j THEN d ELSE tBuf[c]]
      /\ tBuf'[j] = d
      /\ \A c \in tI .. BufSize - 1 : tBuf'[c] = tBuf[c]
  <2>1. (tI .. BufSize - 1) \cup {tI - 1} = tI - 1 .. BufSize - 1
    BY <1>3, <1>5
  <2>2. tBuf' = [c \in tI - 1 .. BufSize - 1 |-> IF c = j THEN d ELSE tBuf[c]]
    BY <1>1, <1>6, <2>1
  <2>3. j \in tI - 1 .. BufSize - 1 /\ \A c \in tI .. BufSize - 1 : c \in tI - 1 .. BufSize - 1 /\ c # j
    BY <1>3, <1>5
  <2> QED BY <2>2, <2>3
<1> HIDE DEF q, d
<1>9. p \in Nat \ {0} /\ T!Power(10, Count + 1) = 10 * p
  <2>1. 10 \in Nat \ {0}
    OBVIOUS
  <2> QED BY <1>4, <2>1, PowerPositive, PowerStep
<1>10. Count' = Count + 1 /\ tI' = j /\ Count' \in Nat
  <2>1. tI' = tI - 1 /\ tI \in Int
    BY <1>1, <1>3
  <2>2. Count' = BufSize - 1 - tI'
    BY DEF Count
  <2>3. Count = BufSize - 1 - tI
    BY DEF Count
  <2>4. Count' = Count + 1
    BY <1>5, <2>1, <2>2, <2>3
  <2> QED BY <1>4, <2>1, <2>4
<1> DEFINE s == Digits
           u == Digits'
           n == Count
<1>11. /\ Len(u) = n + 1 /\ u[1] = d
       /\ \A k \in 1 .. n : s[k] \in Nat /\ u[k + 1] = s[k]
  <2>1. u = [k \in 1 .. n + 1 |-> tBuf'[j + k - 1]]
    BY <1>10 DEF Digits
  <2>2. n + 1 \in Nat /\ 1 \in 1 .. n + 1
    BY <1>4
  <2>3. j + 1 - 1 = j
    BY <1>3
  <2>4. Len(u) = n + 1
    BY <2>1, <2>2
  <2>5. u[1] = d
    BY <1>8, <2>1, <2>2, <2>3
  <2>6. ASSUME NEW k \in 1 .. n PROVE s[k] \in Nat /\ u[k + 1] = s[k]
    <3>1. k + 1 \in 1 .. n + 1 /\ j + (k + 1) - 1 = tI + k - 1 /\ tI + k - 1 \in tI .. BufSize - 1
      BY <1>3, <1>4, <1>5
    <3>2. u[k + 1] = tBuf'[j + (k + 1) - 1]
      BY <2>1, <3>1
    <3>3. u[k + 1] = tBuf[tI + k - 1]
      BY <1>8, <3>1, <3>2
    <3>4. s[k] = tBuf[tI + k - 1] /\ s[k] \in 0 .. 9
      BY <1>4
    <3> QED BY <3>3, <3>4
  <2> QED BY <2>4, <2>5, <2>6
<1>12. w \in Nat /\ w1 = d * p + w
  <2> PICK ten \in Nat \ {0} : ten = 10
    OBVIOUS
  <2>1. n \in Nat /\ d \in Nat /\ Len(s) = n
    BY <1>4, <1>7
  <2> HIDE DEF s, u, n
  <2>3. InFront(d, s, n, u)
    BY <1>11, <2>1 DEF InFront
  <2>2. T!ValueOf(s, ten) \in Nat /\ T!ValueOf(u, ten) = d * T!Power(ten, n) + T!ValueOf(s, ten)
    BY <2>1, <2>3, ValueFirst
  <2> QED BY <2>2 DEF s, u, n
<1> HIDE DEF p, w, w1, s, u, n
<1>13. Amount(v) = tRest * p + w
  BY <1>3 DEF p, w
<1>14. Amount(v) = q * (10 * p) + w1
  <2>1. tRest * p = q * (10 * p) + d * p
    BY <1>7, <1>9, SMT
  <2>2. q * (10 * p) \in Nat /\ d * p \in Nat
    BY <1>7, <1>9, SMT
  <2> QED BY <1>12, <1>13, <2>1, <2>2
<1>15. tI > 1
  <2>1. CASE Count = 0
    BY <1>3, <1>4, <1>5, <2>1
  <2>2. CASE tRest # 0
    <3>1. tRest * p >= p
      BY <1>7, <1>9, <2>2, SMT
    <3>2. p <= Amount(v)
      <4>1. tRest * p \in Nat
        BY <1>7, <1>9, SMT
      <4> QED BY <1>9, <1>12, <1>13, <3>1, <4>1
    <3> DEFINE r == T!Power(10, BufSize - 2)
    <3>3. r \in Nat /\ Amount(v) < r
      BY <1>3, <1>5, PowerPositive
    <3>4. Amount(v) \in Int
      BY DEF Amount
    <3>5. BufSize - 2 <= Count => r <= p
      BY <1>4, <1>5, PowersGrow DEF p
    <3> HIDE DEF r
    <3>6. ~(r <= p)
      BY <1>9, <3>2, <3>3, <3>4
    <3> QED BY <1>4, <1>5, <3>5, <3>6
  <2> QED BY <1>1, <2>1, <2>2
<1>16. tI' \in 1 .. BufSize - 1 /\ tI' \in 0 .. BufSize
  BY <1>3, <1>5, <1>10, <1>15
<1>17. Printing(v)'
  <2>1. tBuf'[BufSize - 1] = T!NUL
    <3>1. BufSize - 1 \in tI .. BufSize - 1
      BY <1>3, <1>5
    <3> QED BY <1>3, <1>8, <3>1
  <2>2. ASSUME NEW c \in tI' .. BufSize - 2 PROVE tBuf'[c] \in 0 .. 9
    <3>1. c = j \/ (c \in tI .. BufSize - 2 /\ c \in tI .. BufSize - 1)
      BY <1>3, <1>5, <1>10
    <3> QED BY <1>3, <1>7, <1>8, <3>1
  <2>3. Amount(v) = tRest' * T!Power(10, Count') + T!ValueOf(Digits', 10)
    <3>1. tRest' = q /\ T!Power(10, Count') = 10 * p
      BY <1>1, <1>9, <1>10 DEF q
    <3> QED BY <1>14, <3>1 DEF w1
  <2>4. tCall' = <<"int", v>> /\ Amount(v) < T!Power(10, BufSize - 2)
    BY <1>1, <1>3
  <2> QED BY <1>16, <2>1, <2>2, <2>3, <2>4 DEF Printing, Amount
<1>18. tRest' = 0 => (Count' > 1 => tBuf'[tI'] # 0)
  <2> SUFFICES ASSUME tRest' = 0, Count' > 1 PROVE d # 0
    BY <1>8, <1>10
  <2>1. q = 0 /\ tRest # 0
    BY <1>1, <1>4, <1>10 DEF q
  <2> QED BY <1>7, <2>1
<1>19. Count' > 0
  BY <1>4, <1>10
<1>20. T!TypeOK'
  <2>1. tCall'[1] # "uuid"
    BY <1>1, <1>3
  <2>2. tRest' \in 0 .. T!Power(NIB, WORD) - 1
    <3>1. tRest' = q
      BY <1>1 DEF q
    <3> QED BY <1>6, <1>7, <3>1
  <2>3. tI' \in Int /\ DOMAIN (tBuf') = tI' .. BufSize - 1
    BY <1>1, <1>8, <1>16
  <2>4. tPc' \in {"digits", "sign"}
    BY <1>1
  <2> QED BY <1>1, <2>1, <2>2, <2>3, <2>4, TextTypes, TextTypesNext
<1>21. T!Uuid' /\ T!ReadsBack'
  <2>1. tPc' # "done"
    BY <1>1
  <2> QED BY <1>16, <2>1, NothingShown
<1>22. tPc' = "sign" => tRest' = 0
  BY <1>1
<1>23. tPc' = "digits" => tRest' # 0
  BY <1>1
<1>24. tPc' \in {"digits", "sign"}
  BY <1>1
<1> QED BY <1>16, <1>17, <1>18, <1>19, <1>20, <1>21, <1>22, <1>23, <1>24 DEF TellsInv

\* The text is the sign of a number below 0, its digits and the terminator.
LEMMA SignKeeps == ASSUME TellsInv, T!Sign PROVE TellsInv'
<1>1. /\ T!TypeOK /\ tPc = "sign" /\ tPc' = "done" /\ tI \in 0 .. BufSize
      /\ tRest = 0 /\ Count > 0 /\ (Count > 1 => tBuf[tI] # 0)
      /\ UNCHANGED <<tCall, tN, tRest, tStatus>>
  BY DEF TellsInv, T!Sign
<1>2. PICK v \in Int : Printing(v)
  BY <1>1 DEF TellsInv
<1>3. /\ tCall = <<"int", v>> /\ tCall' = <<"int", v>> /\ tCall[2] = v
      /\ tI \in 1 .. BufSize - 1 /\ tBuf[BufSize - 1] = T!NUL
      /\ \A c \in tI .. BufSize - 2 : tBuf[c] \in 0 .. 9
      /\ Amount(v) = tRest * T!Power(10, Count) + T!ValueOf(Digits, 10)
  BY <1>1, <1>2 DEF Printing
<1>4. /\ Count \in Nat /\ Len(Digits) = Count /\ tI = BufSize - 1 - Count
      /\ \A k \in 1 .. Count : Digits[k] = tBuf[tI + k - 1] /\ Digits[k] \in 0 .. 9
  BY <1>1, <1>2, DigitsAre
<1>5. BufSize \in Nat
  BY TextConstants
<1>6. DOMAIN tBuf = tI .. BufSize - 1
  BY <1>1, TextTypes
<1> DEFINE f == IF v < 0 THEN 2 ELSE 1
           u == tText'
           n == Count
<1>7. Amount(v) = T!ValueOf(Digits, 10)
  <2> DEFINE p == T!Power(10, Count)
             w == T!ValueOf(Digits, 10)
  <2> PICK ten \in Nat \ {0} : ten = 10
    OBVIOUS
  <2>1. p \in Nat
    <3>1. T!Power(ten, Count) \in Nat
      BY <1>4, PowerPositive
    <3> QED BY <3>1
  <2>2. Amount(v) = 0 * p + w
    BY <1>1, <1>3
  <2>3. w \in Nat
    <3> DEFINE s == Digits
               y == [k \in 1 .. n + 1 |-> IF k = 1 THEN 0 ELSE s[k - 1]]
    <3>0. \A x \in 0 .. 9 : x \in Nat
      OBVIOUS
    <3>1. n \in Nat /\ Len(s) = n /\ \A k \in 1 .. n : s[k] \in Nat
      <4>1. \A k \in 1 .. Count : Digits[k] \in Nat
        BY <1>4, <3>0
      <4> QED BY <1>4, <4>1
    <3> HIDE DEF s, n
    <3>2. InFront(0, s, n, y)
      <4>1. n + 1 \in Nat /\ Len(y) = n + 1 /\ y[1] = 0
        BY <3>1
      <4>2. \A k \in 1 .. n : y[k + 1] = s[k]
        BY <3>1
      <4> HIDE DEF y
      <4> QED BY <3>1, <4>1, <4>2 DEF InFront
    <3> HIDE DEF y
    <3> PICK zero \in Nat : zero = 0
      OBVIOUS
    <3>3. T!ValueOf(s, ten) \in Nat
      BY <3>1, <3>2, ValueFirst
    <3> QED BY <3>3 DEF s
  <2> HIDE DEF p, w
  <2>4. 0 * p + w = w
    BY <2>1, <2>3
  <2> QED BY <2>2, <2>4 DEF w
<1>8. /\ tI' = tI + 1 - f /\ DOMAIN (tBuf') = tI' .. BufSize - 1
      /\ \A c \in tI .. BufSize - 1 : tBuf'[c] = tBuf[c]
      /\ v < 0 => tBuf'[tI'] = T!MINUS
  <2>1. CASE v < 0
    <3>1. tI' = tI - 1 /\ tBuf' = [c \in DOMAIN tBuf \cup {tI - 1} |-> IF c = tI - 1 THEN T!MINUS ELSE tBuf[c]]
      BY <1>3, <2>1 DEF T!Sign, T!Stored
    <3>2. (tI .. BufSize - 1) \cup {tI - 1} = tI - 1 .. BufSize - 1
      BY <1>3, <1>5
    <3>3. tBuf' = [c \in tI - 1 .. BufSize - 1 |-> IF c = tI - 1 THEN T!MINUS ELSE tBuf[c]]
      BY <1>6, <3>1, <3>2
    <3>4. tI - 1 \in tI - 1 .. BufSize - 1 /\ \A c \in tI .. BufSize - 1 : c \in tI - 1 .. BufSize - 1 /\ c # tI - 1
      BY <1>3, <1>5
    <3>5. tI - 1 = tI + 1 - f
      BY <1>3, <2>1
    <3> QED BY <3>1, <3>3, <3>4, <3>5
  <2>2. CASE ~(v < 0)
    <3>1. tI' = tI /\ tBuf' = tBuf
      BY <1>3, <2>2 DEF T!Sign
    <3>2. tI = tI + 1 - f
      BY <1>3, <2>2
    <3> QED BY <1>6, <2>2, <3>1, <3>2
  <2> QED BY <2>1, <2>2
<1>9. f \in {1, 2} /\ (v < 0 => f = 2) /\ (~(v < 0) => f = 1)
  OBVIOUS
<1>10. u = [k \in 1 .. BufSize - tI' |-> tBuf'[tI' + k - 1]]
  BY DEF T!Sign
<1> HIDE DEF f, u, n
<1>11. tI' \in 0 .. BufSize - 1 /\ BufSize - tI' = n + f /\ n \in Nat /\ n > 0 /\ tI = BufSize - 1 - n
  BY <1>1, <1>3, <1>4, <1>5, <1>8, <1>9 DEF n
<1>27. tI \in Int /\ tI' \in Int /\ f \in 1 .. 2 /\ n \in Nat /\ tI' = tI + 1 - f /\ tI' >= 0
  BY <1>3, <1>8, <1>9, <1>11
<1>12. u = [k \in 1 .. n + f |-> tBuf'[tI' + k - 1]]
  BY <1>10, <1>11
<1>13. ASSUME NEW k \in 1 .. n PROVE u[f + k - 1] = Digits[k] /\ u[f + k - 1] \in 0 .. 9
  <2>1. f + k - 1 \in 1 .. n + f /\ tI' + (f + k - 1) - 1 = tI + k - 1 /\ tI + k - 1 \in tI .. BufSize - 1
    <3>1. f + k - 1 \in 1 .. n + f
      BY <1>27
    <3>2. tI' + (f + k - 1) - 1 = tI + k - 1
      BY <1>27
    <3>3. tI + k - 1 \in tI .. BufSize - 1
      BY <1>3, <1>5, <1>11
    <3> QED BY <3>1, <3>2, <3>3
  <2>2. u[f + k - 1] = tBuf'[tI' + (f + k - 1) - 1]
    BY <1>12, <2>1
  <2>3. u[f + k - 1] = tBuf[tI + k - 1]
    BY <1>8, <2>1, <2>2
  <2> QED BY <1>4, <2>3 DEF n
<1>14. u[n + f] = T!NUL
  <2>1. n + f \in 1 .. n + f /\ tI' + (n + f) - 1 = BufSize - 1 /\ BufSize - 1 \in tI .. BufSize - 1
    BY <1>3, <1>5, <1>8, <1>9, <1>11
  <2>2. u[n + f] = tBuf'[tI' + (n + f) - 1]
    BY <1>12, <2>1
  <2> QED BY <1>3, <1>8, <2>1, <2>2
<1>15. v < 0 => u[1] = T!MINUS
  <2>1. 1 \in 1 .. n + f /\ tI' + 1 - 1 = tI'
    BY <1>27
  <2> QED BY <1>8, <1>12, <2>1
<1>16. u \in Seq(Chars) /\ Len(u) = n + f
  <2>1. ASSUME NEW k \in 1 .. n + f PROVE u[k] \in Chars
    <3>1. CASE k = n + f
      BY <1>14, <3>1, SomeChars
    <3>2. CASE k \in f .. n + f - 1
      <4> DEFINE l == k + 1 - f
      <4>1. l \in 1 .. n /\ f + l - 1 = k
        BY <1>9, <1>11, <3>2
      <4> HIDE DEF l
      <4>2. u[k] \in 0 .. 9
        BY <1>13, <4>1
      <4> QED BY <4>2, SomeChars
    <3>3. CASE k < f
      <4>1. k = 1 /\ v < 0
        BY <1>9, <1>11, <3>3
      <4> QED BY <1>15, <4>1, SomeChars
    <3>4. k = n + f \/ k \in f .. n + f - 1 \/ k < f
      BY <1>9, <1>11
    <3> QED BY <3>1, <3>2, <3>3, <3>4
  <2> DEFINE m == n + f
  <2>2. m \in Nat
    BY <1>9, <1>11
  <2>4. DOMAIN u = 1 .. m /\ u = [k \in 1 .. m |-> u[k]]
    BY <1>12
  <2> HIDE DEF m
  <2>3. u \in [1 .. m -> Chars]
    BY <2>1, <2>4 DEF m
  <2>5. u \in Seq(Chars) /\ Len(u) = m
    BY <2>2, <2>3, IsSequence
  <2> QED BY <2>5 DEF m
<1> DEFINE d == SubSeq(u, f, Len(u) - 1)
<1>17. Len(d) = n /\ d = [k \in 1 .. n |-> u[f + k - 1]]
  <2>1. f \in 1 .. Len(u) /\ Len(u) - 1 \in f - 1 .. Len(u) /\ (Len(u) - 1) + 1 - f = n
    BY <1>9, <1>11, <1>16
  <2> QED BY <1>16, <2>1, SubSeqIs
<1> HIDE DEF d
<1>18. d = Digits
  <2>1. Digits = [k \in 1 .. n |-> tBuf[tI + k - 1]]
    BY DEF Digits, n
  <2>2. \A k \in 1 .. n : u[f + k - 1] = Digits[k] /\ Digits[k] = tBuf[tI + k - 1]
    BY <1>4, <1>13 DEF n
  <2>3. \A k \in 1 .. n : u[f + k - 1] = tBuf[tI + k - 1]
    BY <2>2
  <2> QED BY <1>17, <2>1, <2>3
<1>19. v = IF v < 0 THEN 0 - T!ValueOf(d, 10) ELSE T!ValueOf(d, 10)
  BY <1>7, <1>18 DEF Amount
<1>20. Len(d) > 1 => d[1] # 0
  <2> SUFFICES ASSUME n > 1 PROVE d[1] # 0
    BY <1>17
  <2>1. 1 \in 1 .. n /\ tI + 1 - 1 = tI
    BY <1>3, <1>11
  <2>2. d[1] = tBuf[tI]
    BY <1>4, <1>18, <2>1 DEF n
  <2> QED BY <1>1, <2>2 DEF n
<1>21. \A k \in 1 .. Len(d) : d[k] \in 0 .. 9
  BY <1>13, <1>17
<1>22. u[Len(u)] = T!NUL
  BY <1>14, <1>16
<1>23. tI' \in 0 .. BufSize
  BY <1>5, <1>11
<1>24. T!ReadsBack'
  <2>1. tCall'[1] = "int" /\ tCall'[2] = v
    BY <1>3
  <2>2. d = SubSeq(u, IF v < 0 THEN 2 ELSE 1, Len(u) - 1)
    BY DEF d, f
  <2>3. Len(d) > 0
    BY <1>11, <1>17
  <2>4. LET negative == tCall'[2] < 0
            digits   == SubSeq(tText', IF negative THEN 2 ELSE 1, Len(tText') - 1)
        IN  /\ negative => tText'[1] = T!MINUS
            /\ Len(digits) > 0 /\ \A k \in 1 .. Len(digits) : digits[k] \in 0 .. 9
            /\ tCall'[2] = IF negative THEN 0 - T!ValueOf(digits, 10) ELSE T!ValueOf(digits, 10)
            /\ tText'[Len(tText')] = T!NUL /\ (Len(digits) > 1 => digits[1] # 0)
    BY <1>15, <1>19, <1>20, <1>21, <1>22, <2>1, <2>2, <2>3 DEF u
  <2> QED BY <1>23, <2>1, <2>4 DEF T!ReadsBack
<1>25. T!Uuid'
  <2>1. tCall'[1] # "uuid"
    BY <1>3
  <2> QED BY <2>1 DEF T!Uuid
<1>26. T!TypeOK'
  <2>1. tCall'[1] # "uuid" /\ tI' \in Int
    BY <1>3, <1>11
  <2>2. tText' \in Seq(Chars)
    BY <1>16 DEF u
  <2> QED BY <1>1, <1>8, <2>1, <2>2, TextTypes, TextTypesNext
<1> QED BY <1>1, <1>23, <1>24, <1>25, <1>26 DEF TellsInv

LEMMA TextInductive == TellsInv /\ [T!Next]_(T!vars) => TellsInv'
<1> SUFFICES ASSUME TellsInv, [T!Next]_(T!vars) PROVE TellsInv'
  OBVIOUS
<1>1. CASE UNCHANGED T!vars
  <2>1. /\ tPc' = tPc /\ tCall' = tCall /\ tN' = tN /\ tRest' = tRest /\ tI' = tI /\ tBuf' = tBuf
        /\ tStatus' = tStatus /\ tText' = tText
    BY <1>1 DEF T!vars
  <2>2. T!TypeOK'
    BY <2>1, TextTypes, TextTypesNext DEF TellsInv
  <2>3. T!Uuid'
    BY <2>1 DEF TellsInv, T!Uuid
  <2>4. T!ReadsBack'
    BY <2>1 DEF TellsInv, T!ReadsBack
  <2>5. \A path \in Paths : OnPath(path) => OnPath(path)'
    BY <2>1 DEF OnPath, T!TooShort, T!Partition, T!LongEnough
  <2>6. Count' = Count /\ Digits' = Digits
    BY <2>1 DEF Count, Digits
  <2>7. \A v \in Int : Printing(v) => Printing(v)'
    BY <2>1, <2>6 DEF Printing, Amount
  <2> QED BY <2>1, <2>2, <2>3, <2>4, <2>5, <2>6, <2>7 DEF TellsInv
<1> QED BY <1>1, GetKeeps, WalkKeeps, HexKeeps, IntKeeps, DecimalKeeps, SignKeeps DEF T!Next

\* On any device path, and for integers of any width: the UUID told is that of the
\* first GUID partition, a broken path gives an error, and a number that is printed
\* reads back and has room in buf.
THEOREM TellsUser == T!Spec => []Shows
<1>1. TellsInv => Shows
  BY DEF TellsInv, Shows
<1> QED BY <1>1, TextInitially, TextInductive, PTL DEF T!Spec
===============================================================================
