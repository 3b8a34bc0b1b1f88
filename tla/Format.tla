------------------------------- MODULE Format -------------------------------
(***************************************************************************)
(* _format of lib/common/vsnprintf.cpp and its entry points: one call,     *)
(* directive by directive, into a caller's buffer of maxlength cells       *)
(* (_out_buffer) or into a character function such as the console's or the *)
(* serial port's (_out_fct).                                               *)
(*                                                                         *)
(* A format is a sequence of items: a literal character, or a directive as *)
(* the scanner reads it off the string, its argument with it.  The items   *)
(* are chosen one by one, as they are read.                                *)
(***************************************************************************)
EXTENDS NumberText

CONSTANTS
    Bits,           \* widths of the integer types: char, short, int and long
    MaxFloat,       \* PRINTF_MAX_FLOAT, in units
    PointerDigits,  \* sizeof(void*) * 2
    Characters,     \* what a char can be
    NUL, Untouched, \* the terminator; a cell of memory the call has not written
    Cells,          \* cells of memory modelled, the caller's buffer the first
    Items,          \* the items formats are made of
    MaxItems,       \* bound on the items of one format
    Singles,        \* bound: items that appear only alone
    MaxLengths      \* the lengths of the buffer callers pass

\* the characters that conversions print by themselves
Own == {"0", "1", "2", "3", "4", "5", "6", "7", "8", "9", "a", "b", "c", "d", "e", "f",
        "A", "B", "C", "D", "E", "F", "x", "X", "-", "+", " ", ".", "n", "i"}

ASSUME FormatAssumption ==
    /\ Cells \in Nat /\ MaxLengths \subseteq 0..Cells
    /\ PointerDigits \in Nat /\ MaxItems \in Nat
    /\ \A size \in DOMAIN Bits : Bits[size] \in Nat \ {0}
    /\ Own \cup {NUL} \subseteq Characters /\ Untouched \notin Characters

VARIABLES
    format,     \* the items read so far
    toFct,      \* the output goes to a function, not to a buffer
    maxlength,
    idx,
    memory,     \* what _out_buffer has stored
    received,   \* what the function has been called with
    ret         \* the returned length, -1 until the call returns

vars == <<format, toFct, maxlength, idx, memory, received, ret>>
call == <<toFct, maxlength>>

-----------------------------------------------------------------------------
(* Reading a directive *)

IntKinds == {"d", "u", "x", "X", "o", "b"}
AnyFlags == SUBSET {"zero", "left", "plus", "space", "hash", "prec"}

Absolute(v) == IF v < 0 THEN -v ELSE v

\* What the scanner reads off a format.  A float's precision is within the table of
\* powers and the scratch buffer together; of a larger one nothing is said.
Directives ==
    [kind : {"char"}, char : Characters]
    \cup [kind : {"c"}, flags : AnyFlags, width : Int, char : Characters]
    \cup [kind : {"s"}, flags : AnyFlags, width : Int, prec : Int, text : Seq(Characters)]
    \cup [kind : {"p"}, flags : AnyFlags, width : Int, prec : Int, arg : Nat]
    \cup [kind : IntKinds, size : DOMAIN Bits, flags : AnyFlags, width : Int, prec : Int,
          arg : Int]
    \cup {d \in [kind : {"f"}, class : {"num", "nan", "inf", "-inf"}, flags : AnyFlags,
                  width : Int, prec : Int, value : Int] :
            /\ d.prec <= MaxPow + FtoaSize
            /\ Double(Absolute(d.value)) = Absolute(d.value)}

ASSUME ItemsAssumption == Items \cup Singles \subseteq Directives

\* flags, width and precision of a directive: a negative '*' width is a left
\* flag, a negative '*' precision is 0
Width(d) == IF d.width < 0 THEN -d.width ELSE d.width
Prec(d)  == IF "prec" \in d.flags /\ d.prec > 0 THEN d.prec ELSE 0
Read(d)  == IF d.width < 0 THEN d.flags \cup {"left"} ELSE d.flags

\* the flags an integer conversion keeps
IntFlags(d) ==
    {f \in Read(d) :
        /\ f = "hash" => d.kind \notin {"d", "u"}
        /\ f \in {"plus", "space"} => d.kind = "d"
        /\ f = "zero" => "prec" \notin d.flags}
    \cup (IF d.kind = "X" THEN {"upper"} ELSE {})

Base(kind) == CASE kind \in {"x", "X"} -> 16 [] kind = "o" -> 8
                [] kind = "b" -> 2 [] OTHER -> 10

\* the argument as the type the length modifier names reads it
Unsigned(v, size) == v % Power(2, Bits[size])
Signed(v, size) ==
    LET u == Unsigned(v, size)
    IN IF u >= Power(2, Bits[size] - 1) THEN u - Power(2, Bits[size]) ELSE u

\* 0 - value of the smallest value wraps to itself, and as unsigned is right
Magnitude(v, size) == Unsigned(IF v > 0 THEN v ELSE 0 - v, size)

IntText(d) ==
    LET value == IF d.kind = "d" THEN Signed(d.arg, d.size) ELSE Unsigned(d.arg, d.size)
    IN Ntoa(Magnitude(value, d.size), value < 0, Base(d.kind),
            Prec(d), Width(d), IntFlags(d))

CharText(d) ==
    LET pad == Times(" ", Width(d) - 1)
    IN IF "left" \in Read(d) THEN <<d.char>> \o pad ELSE pad \o <<d.char>>

\* the length the padding of a string is computed from
CountedLen(d) ==
    LET len == IF Prec(d) > 0 THEN Smaller(Len(d.text), Prec(d)) ELSE Len(d.text)
    IN IF "prec" \in d.flags THEN IF len < Prec(d) THEN 1 ELSE Prec(d) ELSE len

StringText(d) ==
    LET pad   == Times(" ", Width(d) - CountedLen(d))
        shown == IF "prec" \in d.flags THEN Clip(d.text, Prec(d)) ELSE d.text
    IN IF "left" \in Read(d) THEN shown \o pad ELSE pad \o shown

PointerText(d) ==
    Ntoa(d.arg, FALSE, 16, Prec(d), PointerDigits, Read(d) \cup {"zero", "upper"})

\* a finite value too large for %f prints nothing
TooLarge(d) == d.class = "num" /\ (d.value > MaxFloat \/ d.value < -MaxFloat)
FloatText(d) == IF d.class = "num" THEN Ftoa(d.value, Prec(d), Width(d), Read(d))
                ELSE NotFinite(d.class, Width(d), Read(d))

-----------------------------------------------------------------------------
(* One call *)

Init ==
    /\ format = <<>>
    /\ toFct \in BOOLEAN
    /\ maxlength \in IF toFct THEN {Cells} ELSE MaxLengths
    /\ idx = 0 /\ memory = [c \in 0..(Cells - 1) |-> Untouched]
    /\ received = <<>> /\ ret = -1

\* the characters of a text but the terminator
Passed(text) ==
    LET from[n \in 0..Len(text)] ==
            IF n = 0 THEN <<>>
            ELSE IF text[n] = NUL THEN from[n - 1] ELSE Append(from[n - 1], text[n])
    IN from[Len(text)]

\* the calls of out(): _out_buffer keeps below maxlength, and _out_fct passes
\* on every character but the terminator
Out(text) ==
    IF toFct
    THEN /\ received' = received \o Passed(text)
         /\ UNCHANGED memory
    ELSE /\ memory' = [c \in DOMAIN memory |->
                          IF c >= idx /\ c < idx + Len(text) /\ c < maxlength
                          THEN text[c - idx + 1] ELSE memory[c]]
         /\ UNCHANGED received

\* the next item is of one of these kinds
Reads(d, kinds) ==
    /\ d.kind \in kinds
    /\ format' = Append(format, d)

Emit(text) ==
    /\ Out(text)
    /\ idx' = idx + Len(text)
    /\ UNCHANGED <<call, ret>>

\* ordinary characters, "%%", and a conversion _format does not know
Literal(d) == Reads(d, {"char"}) /\ Emit(<<d.char>>)
Integer(d) == Reads(d, IntKinds) /\ Emit(IntText(d))
Char(d)    == Reads(d, {"c"})    /\ Emit(CharText(d))
String(d)  == Reads(d, {"s"})    /\ Emit(StringText(d))
Pointer(d) == Reads(d, {"p"})    /\ Emit(PointerText(d))
Float(d)   == Reads(d, {"f"}) /\ ~TooLarge(d) /\ Emit(FloatText(d))

FloatFails(d) ==
    /\ Reads(d, {"f"}) /\ TooLarge(d)
    /\ idx' = -1
    /\ UNCHANGED <<call, memory, received, ret>>

\* _ftoa returns 0 here, and _format takes that for the place to go on at
FloatTooLarge(d) ==
    /\ Reads(d, {"f"}) /\ TooLarge(d)
    /\ idx' = 0
    /\ UNCHANGED <<call, memory, received, ret>>

TerminateIfRoom ==
    /\ ret < 0
    /\ ret' = idx
    /\ memory' = IF ~toFct /\ idx < maxlength THEN [memory EXCEPT ![idx] = NUL] ELSE memory
    /\ UNCHANGED <<call, format, idx, received>>

\* the terminator, in the last cell when the text was longer; a buffer of no
\* cells gets none, for maxlength - 1 is then the largest size_t
Terminate ==
    /\ ret < 0
    /\ ret' = idx
    /\ memory' = IF toFct \/ maxlength = 0 THEN memory
                 ELSE [memory EXCEPT ![IF idx < maxlength THEN idx ELSE maxlength - 1] = NUL]
    /\ UNCHANGED <<call, format, idx, received>>

Next ==
    \/ /\ ret < 0 /\ Len(format) < MaxItems
       /\ \A i \in DOMAIN format : format[i] \notin Singles
       /\ \E d \in Items \cup (IF format = <<>> THEN Singles ELSE {}) :
             \/ Literal(d) \/ Integer(d) \/ Char(d) \/ String(d)
             \/ Pointer(d) \/ Float(d) \/ FloatTooLarge(d)
    \/ Terminate

Spec == Init /\ [][Next]_vars

-----------------------------------------------------------------------------
(* What a caller expects *)

TypeOK ==
    /\ Len(format) <= MaxItems /\ Range(format) \subseteq Items \cup Singles
    /\ toFct \in BOOLEAN /\ maxlength \in MaxLengths \cup {Cells}
    /\ idx \in Nat /\ ret \in Nat \cup {-1}
    /\ DOMAIN memory = 0..(Cells - 1)
    /\ received \in Seq(Characters)

\* The text the C standard gives a conversion, which the test of
\* tools/test_vsnprintf.cpp:24 compares with: sign, prefix and digits stand
\* together, zeros go between prefix and digits, spaces around the whole.
Padded(d, sign, body, zeros) ==
    LET n    == Len(sign) + Len(body)
        fill == IF "left" \notin Read(d) /\ zeros THEN Times("0", Width(d) - n) ELSE <<>>
        gap  == Times(" ", Width(d) - n - Len(fill))
    IN IF "left" \in Read(d) THEN sign \o body \o gap ELSE gap \o sign \o fill \o body

SignOf(d, negative) ==
    CASE negative                -> <<"-">>
      [] ~negative /\ "plus" \in d.flags -> <<"+">>
      [] ~negative /\ d.flags \cap {"plus", "space"} = {"space"} -> <<" ">>
      [] OTHER                   -> <<>>

IntValue(d) == IF d.kind = "d" THEN Signed(d.arg, d.size) ELSE Unsigned(d.arg, d.size)

IntDigits(d) ==
    IF IntValue(d) = 0 /\ "prec" \in d.flags THEN <<>>
    ELSE Reverse(Digits(Absolute(IntValue(d)), Base(d.kind), d.kind = "X"))

IntPrefix(d) ==
    IF "hash" \notin d.flags THEN <<>>
    ELSE IF d.kind = "o"
         THEN IF Prec(d) <= Len(IntDigits(d)) /\ (IntValue(d) # 0 \/ IntDigits(d) = <<>>)
              THEN <<"0">> ELSE <<>>
    ELSE IF IntValue(d) = 0 THEN <<>>
    ELSE CASE d.kind = "x" -> <<"0", "x">> [] d.kind = "X" -> <<"0", "X">>
           [] d.kind = "b" -> <<"0", "b">> [] OTHER -> <<>>

IntSign(d) == IF d.kind = "d" THEN SignOf(d, IntValue(d) < 0) ELSE <<>>

CInt(d) ==
    LET zeros == Times("0", Prec(d) - Len(IntDigits(d)))
    IN Padded(d, IntSign(d) \o IntPrefix(d), zeros \o IntDigits(d),
              "zero" \in d.flags /\ "prec" \notin d.flags)

FloatPrec(d) == IF "prec" \in d.flags THEN Prec(d) ELSE DefaultPrec

CFloat(d) ==
    LET p      == FloatPrec(d)
        scaled == Absolute(d.value) * Power(10, p)
        below  == scaled \div Unit
        twice  == 2 * (scaled % Unit)
        near   == IF twice > Unit \/ (twice = Unit /\ below % 2 = 1)
                  THEN below + 1 ELSE below
        ds     == Reverse(Digits(near, 10, FALSE))
        all    == Times("0", p + 1 - Len(ds)) \o ds
        point  == Len(all) - p
    IN Padded(d, SignOf(d, d.value < 0),
              IF p = 0 THEN all
              ELSE SubSeq(all, 1, point) \o <<".">> \o SubSeq(all, point + 1, Len(all)),
              "zero" \in d.flags)

CText(d) ==
    CASE d.kind \in IntKinds -> CInt(d)
      [] d.kind = "char" -> <<d.char>>
      [] d.kind = "c"    -> Padded(d, <<>>, <<d.char>>, FALSE)
      [] d.kind = "s"    -> Padded(d, <<>>, IF "prec" \in d.flags THEN Clip(d.text, Prec(d))
                                            ELSE d.text, FALSE)
      [] d.kind = "p"    -> LET ds == Reverse(Digits(d.arg, 16, TRUE))
                            IN Times("0", PointerDigits - Len(ds)) \o ds
      [] d.kind = "f"    -> CFloat(d)

\* the whole number next to n units, and whether n lies half way between two
Near(n)    == (2 * n + Unit) \div (2 * Unit)
HalfWay(n) == 2 * (n % Unit) = Unit

\* The rounding of the product to a double does not change the last digit of the
\* fraction of a to p digits: the product is exact, or neither it nor its double is
\* half way between two digits and both are next to the same one, below the next whole.
SameDigits(a, p) ==
    LET exact   == (a % Unit) * Power(10, p)
        product == Scaled(a % Unit, p)
    IN \/ product = exact
       \/ /\ ~HalfWay(exact) /\ ~HalfWay(product)
          /\ Near(product) = Near(exact)
          /\ product \div Unit < Power(10, p)

\* Where the code does not follow the standard, and no caller may count on it:
\* what the scratch buffer must hold is longer than the buffer, a precision with
\* a left flag, a prefix the digits leave no place for, "%#.0o" of 0, a precision no
\* string reaches, a %p with flags, precisions past the table, huge floats, and floats
\* whose last digit the double product decides: "%.1f" of 0.95 gives 9.5 and prints
\* a buffer of zeros and "10".
Follows(d) ==
    CASE d.kind \in IntKinds ->
            LET digits == Len(IntDigits(d))
                prefix == Len(IntPrefix(d))
                zeros  == "zero" \in d.flags /\ "prec" \notin d.flags /\ "left" \notin Read(d)
            IN /\ Len(IntSign(d)) + prefix + (IF digits > Prec(d) THEN digits ELSE Prec(d))
                     <= NtoaSize
               /\ zeros /\ IntSign(d) # <<>> => Width(d) <= NtoaSize
               /\ "left" \in Read(d) => Prec(d) <= digits
               /\ d.kind = "o" /\ "hash" \in d.flags =>
                     IF IntValue(d) = 0 THEN digits + Prec(d) > 0 ELSE Prec(d) <= digits
               /\ prefix > 0 =>
                     /\ digits # Width(d) \/ "prec" \in d.flags
                     /\ zeros /\ digits < Width(d) =>
                           d.kind # "b" /\ Width(d) \in digits + prefix .. NtoaSize
      [] d.kind = "s" -> "prec" \in d.flags => Len(d.text) >= Prec(d)
      [] d.kind = "p" ->
            /\ d.flags = {} /\ d.width >= 0
            /\ Len(Digits(d.arg, 16, TRUE)) <= NtoaSize
      [] d.kind = "f" ->
            /\ d.class = "num" /\ ~TooLarge(d) /\ Prec(d) <= MaxPow
            /\ SameDigits(Absolute(d.value), FloatPrec(d))
            /\ Len(CFloat([d EXCEPT !.width = 0])) <= FtoaSize
            /\ "zero" \in d.flags => Width(d) <= FtoaSize
      [] OTHER -> TRUE

\* the characters of a text but the terminator, which no function gets
Sent(text) == FlattenSeq([k \in DOMAIN text |-> IF text[k] = NUL THEN <<>> ELSE <<text[k]>>])

\* The buffer holds the whole text, cut to what fits, and the terminator, the
\* function has been called with each character of it, and the returned length
\* is that of the whole text: the same text for either, for a buffer of any
\* length, and no directive disturbs what another printed.
Prints ==
    ret >= 0 /\ (\A i \in DOMAIN format : Follows(format[i])) =>
        LET text == FlattenSeq([i \in DOMAIN format |-> CText(format[i])])
            n    == Smaller(Len(text), maxlength - 1)
        IN /\ ret = Len(text)
           /\ IF toFct THEN received = Sent(text)
              ELSE maxlength > 0 =>
                   [c \in 0..n |-> memory[c]] = [c \in 0..n |->
                        IF c = n THEN NUL ELSE text[c + 1]]

\* Nothing is stored past the length the caller gave, by any directive.
KeepsBounds ==
    \A c \in DOMAIN memory : (toFct \/ c >= maxlength) => memory[c] = Untouched

\* Every buffer that has a cell is a terminated string when the call returns,
\* truncated or not, whatever was printed.
Terminated ==
    ret >= 0 /\ ~toFct /\ maxlength > 0 =>
        \E c \in 0..(maxlength - 1) :
            /\ memory[c] = NUL
            /\ \A b \in 0..(c - 1) : memory[b] # Untouched

\* Digits, zeros, prefix and sign together never pass the scratch buffer: what
\* is longer is padding that OutRev sends without it.
HoldsScratch ==
    [][format' # format =>
         LET d     == Last(format')
             width == IF d.kind = "p" THEN PointerDigits
                      ELSE IF "width" \in DOMAIN d THEN Width(d) ELSE 0
             size  == IF d.kind = "f" THEN FtoaSize ELSE NtoaSize
         IN d.kind \in IntKinds \cup {"p"} \/ (d.kind = "f" /\ d.class = "num") =>
                idx' - idx <= IF width > size THEN width ELSE size]_vars

\* Whatever is printed, the index and the length returned are no negative numbers,
\* and the caller's bounds are kept.
FormatInv == TypeOK /\ KeepsBounds

-----------------------------------------------------------------------------
(* A comment of vsnprintf.h that the code does not live up to *)

\* vsnprintf.h:24, "Adds the hex prefix": a number that is not 0 comes out as
\* the prefix and, behind it, all of its digits
AddsPrefix ==
    /\ ret >= 0 /\ toFct /\ Len(format) = 1
    /\ format[1].kind = "x" /\ "hash" \in format[1].flags
    /\ IntValue(format[1]) # 0
    => LET ds == IntDigits(format[1])
       IN /\ "x" \in Range(received)
          /\ SubSeq(received, Len(received) - Len(ds) + 1, Len(received)) = ds
=============================================================================
