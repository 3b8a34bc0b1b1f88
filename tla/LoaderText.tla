----------------------------- MODULE LoaderText -----------------------------
(***************************************************************************)
(* What the boot loader tells its user: the UUID of the partition it comes *)
(* from, found by a walk along the firmware's device path, and numbers in  *)
(* decimal and hexadecimal.  One call; the loops over nodes and decimal    *)
(* digits take a step each.                                                *)
(*                                                                         *)
(* Characters are the values of the digits they stand for, or one of       *)
(* DASH, MINUS, X and NUL.                                                 *)
(***************************************************************************)
EXTENDS Integers, Sequences, FiniteSetsExt

CONSTANTS
  NIB,        \* values of a hexadecimal digit; 16 in the code
  WORD,       \* hexadecimal digits of an integer; 16 in the code
  BufSize,    \* of PrintInt's buf; 21 in the code
  HARDDRIVE,  \* sizeof(HARDDRIVE_DEVICE_PATH)
  Paths       \* device paths: sequences of nodes, the last an end node and no other

\* base to the power of n: how many values n digits have
Power(base, n) ==
  LET p[k \in 0 .. n] == IF k = 0 THEN 1 ELSE base * p[k - 1]
  IN  p[n]

\* what the constants must be: a number of half the width has its digits, a sign and
\* the terminator in buf
ConstantsFit ==
  /\ {NIB, WORD} \subseteq Nat \ {0, 1}
  /\ BufSize \in Nat /\ BufSize > 2 /\ Power(NIB, WORD) \div 2 < Power(10, BufSize - 2)
  /\ HARDDRIVE \in Nat /\ HARDDRIVE >= 4
  /\ \A path \in Paths :
       /\ Len(path) \in Nat \ {0} /\ DOMAIN path = 1 .. Len(path)
       /\ \A k \in DOMAIN path :
            /\ path[k].type = "end" <=> k = Len(path)
            /\ path[k].len \in Nat
            /\ path[k].signature \in [1 .. 16 -> 0 .. NIB * NIB - 1]

VARIABLES
  pc,       \* "idle", "walk", "digits", "done"
  call,     \* the routine and its argument
  n,        \* GetDiskPartUUID: the number of the node
  rest, i,  \* PrintInt: what is left of the magnitude, and the place in buf
  buf,      \* what PrintInt has stored, by place
  status,   \* what GetDiskPartUUID returns
  text      \* uuid, or what goes to Print

vars == <<pc, call, n, rest, i, buf, status, text>>

DASH  == -1
MINUS == -2
X     == -3
NUL   == -4
Values == 0 .. Power(NIB, WORD) - 1
-----------------------------------------------------------------------------
EndOfBuf == BufSize

Init ==
  /\ pc = "idle" /\ call = <<"none">>
  /\ n = 1 /\ rest = 0 /\ i = EndOfBuf /\ buf = [c \in {} |-> NUL]
  /\ status = "NOT_FOUND" /\ text = <<>>

\* NIB of GuidToString, and the digit of PrintHex: digit d of v, from the right
Digit(v, d) == (v \div Power(NIB, d)) % NIB
Hex(v, digits) == [k \in 1 .. digits |-> Digit(v, digits - k)]

\* The number that digits stand for, the highest first.
ValueOf(digits, base) ==
  LET f[k \in 0 .. Len(digits)] == IF k = 0 THEN 0 ELSE f[k - 1] * base + digits[k]
  IN  f[Len(digits)]

\* The GUID as it lies in a node: the first three numbers begin with their last
\* byte, and the others are single bytes, of two digits each.
Number(sig, from, to) == ValueOf([k \in 1 .. to + 1 - from |-> sig[to + 1 - k]], NIB * NIB)
Bytes(sig, from, to) ==
  [k \in 1 .. 2 * (to + 1 - from) |-> Digit(sig[from + (k - 1) \div 2], k % 2)]

GuidToString(sig) ==
  Hex(Number(sig, 1, 4), 8) \o <<DASH>> \o Hex(Number(sig, 5, 6), 4) \o <<DASH>>
    \o Hex(Number(sig, 7, 8), 4) \o <<DASH>> \o Bytes(sig, 9, 10) \o <<DASH>>
    \o Bytes(sig, 11, 16) \o <<NUL>>

\* No device path, no node.
GetDiskPartUUID ==
  /\ pc = "idle"
  /\ \/ \E path \in Paths : call' = <<"uuid", path>> /\ pc' = "walk"
     \/ call' = <<"uuid", <<>> >> /\ pc' = "done"
  /\ UNCHANGED <<n, rest, i, buf, status, text>>

Node == call[2][n]

\* The next node lies as many bytes further as this one says; none, and it is
\* the same again.
After(node) == IF node.len = 0 THEN n ELSE n + 1

TooShortNever(node) == FALSE
TooShort(node) == node.len < 4

LongEnough(node) == node.len >= HARDDRIVE
Partition(node) ==
  /\ node.type = "media" /\ node.subtype = "harddrive"
  /\ LongEnough(node)
  /\ node.signatureType = "guid"

Walk ==
  /\ pc = "walk"
  /\ \/ /\ Node.type = "end"
        /\ pc' = "done" /\ UNCHANGED <<n, status, text>>
     \/ /\ Node.type # "end" /\ TooShort(Node)
        /\ pc' = "done" /\ status' = "INVALID_PARAMETER" /\ UNCHANGED <<n, text>>
     \/ /\ Node.type # "end" /\ ~TooShort(Node) /\ ~Partition(Node)
        /\ n' = After(Node) /\ UNCHANGED <<pc, status, text>>
     \/ /\ Node.type # "end" /\ ~TooShort(Node) /\ Partition(Node)
        /\ pc' = "done" /\ status' = "SUCCESS" /\ text' = GuidToString(Node.signature)
        /\ UNCHANGED n
  /\ UNCHANGED <<call, rest, i, buf>>

PrintHex ==
  /\ pc = "idle"
  /\ \E v \in Values : call' = <<"hex", v>> /\ text' = <<0, X>> \o Hex(v, WORD) \o <<NUL>>
  /\ pc' = "done"
  /\ UNCHANGED <<n, rest, i, buf, status>>

\* A signed integer has half of the values on each side of 0.
MagnitudeCut(v) == IF v < 0 THEN (0 - v) % (Power(NIB, WORD) \div 2) ELSE v
Magnitude(v)    == IF v < 0 THEN (0 - v) % Power(NIB, WORD) ELSE v

PrintInt ==
  /\ pc = "idle"
  /\ \E u \in Values :
       LET v == u - Power(NIB, WORD) \div 2
       IN  /\ call' = <<"int", v>>
           /\ rest' = Magnitude(v)
  /\ i' = i - 1 /\ buf' = [c \in {i - 1} |-> NUL]
  /\ pc' = "digits"
  /\ UNCHANGED <<n, status, text>>

Stored(at, char) == [c \in DOMAIN buf \cup {at} |-> IF c = at THEN char ELSE buf[c]]

\* do ... while: at least one digit
Decimal ==
  /\ pc = "digits"
  /\ i' = i - 1 /\ buf' = Stored(i - 1, rest % 10)
  /\ rest' = rest \div 10
  /\ pc' = IF rest' = 0 THEN "sign" ELSE pc
  /\ UNCHANGED <<call, n, status, text>>

Sign ==
  /\ pc = "sign" /\ pc' = "done"
  /\ IF call[2] < 0 THEN i' = i - 1 /\ buf' = Stored(i - 1, MINUS) ELSE UNCHANGED <<i, buf>>
  /\ text' = [k \in 1 .. BufSize - i' |-> buf'[i' + k - 1]]
  /\ UNCHANGED <<call, n, rest, status>>

Next == GetDiskPartUUID \/ Walk \/ PrintHex \/ PrintInt \/ Decimal \/ Sign

Spec == Init /\ [][Next]_vars /\ WF_vars(Walk)
-----------------------------------------------------------------------------
TypeOK ==
  /\ pc \in {"idle", "walk", "digits", "sign", "done"}
  /\ call[1] = "uuid" /\ pc = "walk" => n \in 1 .. Len(call[2])
  /\ rest \in Values
  /\ i \in Int /\ DOMAIN buf = i .. BufSize - 1
  /\ status \in {"SUCCESS", "NOT_FOUND", "INVALID_PARAMETER"}
  /\ text \in Seq({DASH, MINUS, X, NUL} \cup 0 .. NIB - 1 \cup 0 .. 9)

\* The UUID is the text form of the first GUID partition on the path: two digits
\* for each of bytes 4 to 1, 6 and 5, 8 and 7 and then of the others in their order,
\* and it fills the 37 places of the caller's array.  No other node is taken for
\* one, and a path that is broken before it gives an error.
Order == <<4, 3, 2, 1, 6, 5, 8, 7, 9, 10, 11, 12, 13, 14, 15, 16>>
Place == <<1, 3, 5, 7, 10, 12, 15, 17, 20, 22, 25, 27, 29, 31, 33, 35>>
Uuid ==
  call[1] = "uuid" /\ pc = "done" =>
    LET path  == call[2]
        isPart(k) == /\ path[k].type = "media" /\ path[k].subtype = "harddrive"
                     /\ path[k].len >= HARDDRIVE /\ path[k].signatureType = "guid"
        bad   == {k \in DOMAIN path : path[k].type # "end" /\ path[k].len < 4}
        parts == {k \in DOMAIN path : isPart(k)}
        first(S) == IF S = {} THEN Len(path) + 1 ELSE Min(S)
    IN  /\ status = "SUCCESS" <=> first(parts) < first(bad)
        /\ status = "INVALID_PARAMETER" <=> first(bad) < first(parts)
        /\ status = "SUCCESS" =>
             /\ Len(text) = 37 /\ text[37] = NUL
             /\ \A k \in {9, 14, 19, 24} : text[k] = DASH
             /\ \A b \in 1 .. 16 :
                  LET high == text[Place[b]]
                      low  == text[Place[b] + 1]
                  IN  /\ {high, low} \subseteq 0 .. NIB - 1
                      /\ NIB * high + low = path[first(parts)].signature[Order[b]]

\* A number that is printed reads back as the number, the smallest included, and
\* its digits and sign have room in buf.
ReadsBack ==
  /\ i \in 0 .. BufSize
  /\ call[1] = "int" /\ pc = "done" =>
       LET negative == call[2] < 0
           digits   == SubSeq(text, IF negative THEN 2 ELSE 1, Len(text) - 1)
       IN  /\ negative => text[1] = MINUS
           /\ Len(digits) > 0 /\ \A k \in 1 .. Len(digits) : digits[k] \in 0 .. 9
           /\ call[2] = IF negative THEN 0 - ValueOf(digits, 10) ELSE ValueOf(digits, 10)
           /\ text[Len(text)] = NUL /\ (Len(digits) > 1 => digits[1] # 0)
  /\ call[1] = "hex" /\ pc = "done" =>
       LET digits == SubSeq(text, 3, Len(text) - 1)
       IN  /\ Len(digits) = WORD /\ \A k \in 1 .. WORD : digits[k] \in 0 .. NIB - 1
           /\ text[1] = 0 /\ text[2] = X /\ text[WORD + 3] = NUL
           /\ call[2] = ValueOf(digits, NIB)

\* The walk ends, whatever lies on the path.
WalkEnds == pc = "walk" ~> pc = "done"
=============================================================================
