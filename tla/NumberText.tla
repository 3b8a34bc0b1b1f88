----------------------------- MODULE NumberText -----------------------------
(***************************************************************************)
(* How lib/common/vsnprintf.cpp turns a number into characters: the digits *)
(* go backwards into a scratch buffer on the stack, prefix and sign are    *)
(* appended behind them, and the buffer is sent out in reverse between the *)
(* padding the width asks for.  Every append is guarded by the size of the *)
(* scratch buffer, so whatever does not fit is dropped without a word.     *)
(*                                                                         *)
(* A character is a one-character string, a text a sequence of them.  The  *)
(* flag bits of vsnprintf.h are the members of a set.                      *)
(***************************************************************************)
EXTENDS Integers, Sequences, SequencesExt

CONSTANTS
    NtoaSize,       \* PRINTF_NTOA_BUFFER_SIZE
    FtoaSize,       \* PRINTF_FTOA_BUFFER_SIZE
    MaxPow,         \* the largest index of the table pow10
    DefaultPrec,    \* PRINTF_DEFAULT_FLOAT_PRECISION
    Unit,           \* a double is modelled as a multiple of 1 / Unit, a power of 2
    Significand     \* the bits of a double's significand, 53

\* base to the power of n: pow10, and how many values n bits have
Power(base, n) ==
    LET p[k \in 0..n] == IF k = 0 THEN 1 ELSE base * p[k - 1]
    IN p[n]

ASSUME NumberTextAssumption ==
    /\ NtoaSize \in Nat \ {0} /\ FtoaSize \in Nat \ {0}
    /\ MaxPow \in Nat /\ DefaultPrec \in 0..MaxPow
    /\ Unit \in {2 * k : k \in 1..Unit} /\ Unit % 5 # 0
    /\ Significand \in Nat \ {0} /\ 2 * Power(10, MaxPow) <= Power(2, Significand)

Smaller(a, b) == IF a < b THEN a ELSE b

\* n times the character c, nothing when n is negative
Times(c, n) == [i \in 1..(IF n > 0 THEN n ELSE 0) |-> c]

Clip(text, size) == SubSeq(text, 1, Smaller(Len(text), size))

DigitChar(d, upper) ==
    IF upper THEN <<"0", "1", "2", "3", "4", "5", "6", "7",
                    "8", "9", "A", "B", "C", "D", "E", "F">>[d + 1]
             ELSE <<"0", "1", "2", "3", "4", "5", "6", "7",
                    "8", "9", "a", "b", "c", "d", "e", "f">>[d + 1]

\* the digits of v, least significant first
Digits(v, base, upper) ==
    LET from[n \in Nat] ==
            IF n < base THEN <<DigitChar(n, upper)>>
            ELSE <<DigitChar(n % base, upper)>> \o from[n \div base]
    IN from[v]

-----------------------------------------------------------------------------
(* Padding and reversal *)

OutRev(buf, width, flags) ==
    LET fill == width - Len(buf)
    IN IF "left" \in flags THEN Reverse(buf) \o Times(" ", fill)
       ELSE Times(IF "zero" \in flags THEN "0" ELSE " ", fill) \o Reverse(buf)

\* one more character at the end of the scratch buffer, if it has room
PutAnyway(buf, char, size) == Append(buf, char)
Put(buf, char, size) == Clip(Append(buf, char), size)

\* the loops that append '0' up to a length, or to the end of the buffer
ZeroFill(buf, length, size) ==
    buf \o Times("0", Smaller(length, size) - Len(buf))

FullWidth(width, negative, flags) == width

\* the width left for the digits when zeros are to stand behind a sign
InnerWidth(width, negative, flags) ==
    IF /\ width > 0
       /\ "left" \notin flags /\ "zero" \in flags
       /\ negative \/ "plus" \in flags \/ "space" \in flags
    THEN width - 1 ELSE width

PutSign(buf, negative, flags, size) ==
    CASE negative                            -> Put(buf, "-", size)
      [] ~negative /\ "plus" \in flags       -> Put(buf, "+", size)
      [] ~negative /\ "plus" \notin flags /\ "space" \in flags
                                             -> Put(buf, " ", size)
      [] OTHER                               -> buf

\* the prefix of the base: it takes the place of the last characters when
\* they reach exactly to the width, taken to be padding
PutPrefix(buf, base, prec, width, flags) ==
    LET n    == Len(buf)
        bare == IF "prec" \notin flags /\ n > 0 /\ n \in {prec, width}
                THEN SubSeq(buf, 1, n - (IF n > 1 /\ base = 16 THEN 2 ELSE 1))
                ELSE buf
        mark == CASE base = 16 -> <<IF "upper" \in flags THEN "X" ELSE "x">>
                  [] base = 2  -> <<"b">>
                  [] OTHER     -> <<>>
    IN Put(Clip(bare \o mark, NtoaSize), "0", NtoaSize)

NtoaFormat(digits, negative, base, prec, width, flags) ==
    LET inner  == InnerWidth(width, negative, flags)
        filled == IF "left" \in flags THEN digits
                  ELSE ZeroFill(ZeroFill(digits, prec, NtoaSize),
                                IF "zero" \in flags THEN inner ELSE 0, NtoaSize)
        marked == IF "hash" \in flags
                  THEN PutPrefix(filled, base, prec, inner, flags) ELSE filled
    IN OutRev(PutSign(marked, negative, flags, NtoaSize), inner, flags)

\* _ntoa_long and _ntoa_long_long, which differ in the width of their value
Ntoa(value, negative, base, prec, width, flags) ==
    LET digits == IF value = 0 /\ "prec" \in flags THEN <<>>
                  ELSE Clip(Digits(value, base, "upper" \in flags), NtoaSize)
    IN NtoaFormat(digits, negative, base, prec, width,
                  IF value = 0 THEN flags \ {"hash"} ELSE flags)

-----------------------------------------------------------------------------
(* Floating point.  A double holds so many bits: what the subtraction of     *)
(* the whole part and the comparisons of _ftoa compute is exact, the product *)
(* with a power of ten is rounded.                                           *)

\* the multiple of ulp next to n, on a half the even one
ToMultiple(n, ulp) ==
    LET low   == n \div ulp
        twice == 2 * (n % ulp)
    IN (IF twice > ulp \/ (twice = ulp /\ low % 2 = 1) THEN low + 1 ELSE low) * ulp

\* the double next to n units
Double(n) ==
    LET extra == Len(Digits(n, 2, FALSE)) - Significand
    IN ToMultiple(n, IF extra > 0 THEN Power(2, extra) ELSE 1)

\* a fraction times pow10[prec], as the multiplication of doubles gives it
Scaled(r, prec) == IF prec = 0 THEN r ELSE Double(r * Power(10, prec))

\* the value rounded to prec digits as <<whole, fraction>>, the way _ftoa
\* does it: up past a half, on a half to the even neighbour, where nothing is carried
RoundedBy(tmp, value, prec) ==
    LET whole == value \div Unit
        frac  == tmp \div Unit
        twice == 2 * (tmp % Unit)
        up    == IF \/ twice > Unit
                    \/ twice = Unit /\ (frac = 0 \/ frac % 2 = 1)
                 THEN frac + 1 ELSE frac
        carry == twice > Unit /\ up >= Power(10, prec)
        w     == IF carry THEN whole + 1 ELSE whole
    IN IF prec = 0
       THEN IF 2 * (value - w * Unit) >= Unit /\ w % 2 = 1
            THEN <<w + 1, 0>> ELSE <<w, 0>>
       ELSE <<w, IF carry THEN 0 ELSE up>>

Rounded(value, prec) == RoundedBy(Scaled(value % Unit, prec), value, prec)

\* _ftoa of a finite value within PRINTF_MAX_FLOAT.  The zeros the fraction misses are
\* counted down in 32 bits: with a digit too many they go on to the end of the buffer.
Ftoa(value, precision, width, flags) ==
    LET negative == value < 0
        asked    == IF "prec" \in flags THEN precision ELSE DefaultPrec
        extra    == Smaller(FtoaSize, IF asked > MaxPow THEN asked - MaxPow ELSE 0)
        prec     == asked - extra
        r        == Rounded(IF negative THEN -value ELSE value, prec)
        ds       == Digits(r[2], 10, FALSE)
        missing  == IF Len(ds) > prec THEN FtoaSize ELSE prec - Len(ds)
        fraction == IF prec = 0 THEN <<>> ELSE Append(ds \o Times("0", missing), ".")
        digits   == Clip(Times("0", extra) \o fraction \o Digits(r[1], 10, FALSE),
                         FtoaSize)
        inner    == InnerWidth(width, negative, flags)
        filled   == IF "left" \notin flags /\ "zero" \in flags
                    THEN ZeroFill(digits, inner, FtoaSize) ELSE digits
    IN OutRev(PutSign(filled, negative, flags, FtoaSize), inner, flags)

\* what is printed for the values that are no numbers; infinities keep the sign
NotFinite(kind, width, flags) ==
    LET name == CASE kind = "nan"  -> <<"n", "a", "n">>
                  [] kind = "-inf" -> <<"f", "n", "i", "-">>
                  [] kind = "inf"  -> IF "plus" \in flags THEN <<"f", "n", "i", "+">>
                                                           ELSE <<"f", "n", "i">>
    IN OutRev(name, width, flags \ {"zero"})
=============================================================================
