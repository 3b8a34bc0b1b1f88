------------------------------ MODULE MC_Format ------------------------------
(* Small instances of Format: narrow integers, scratch buffers of 8.          *)
EXTENDS Format

MC_Bits == [hh |-> 3, h |-> 4, int |-> 6, l |-> 10]

MC_Characters == Own \cup {"%", NUL}

\* a directive without a precision has none to vary
Precise(directives) == {d \in directives : "prec" \notin d.flags => d.prec = 0}

Ints(kinds, sizes, flags, widths, precs, args) ==
    Precise([kind : kinds, size : sizes, flags : flags, width : widths,
             prec : precs, arg : args])
Floats(flags, widths, precs, values) ==
    Precise([kind : {"f"}, class : {"num"}, flags : flags, width : widths,
             prec : precs, value : values])
Strings(widths, precs, texts) ==
    Precise([kind : {"s"}, flags : SUBSET {"left", "prec"}, width : widths,
             prec : precs, text : texts])
Letters(n) == SubSeq(<<"a", "b", "c", "d">>, 1, n)

\* one directive of each conversion: every flag with every base, at the widths around the number's own length
\* and around the size of the scratch buffer; and every length modifier
MC_Integers ==
    Ints(IntKinds, {"int"}, SUBSET {"zero", "left", "plus", "space", "hash", "prec"},
         {-4, 0, 2, 3, 8, 9}, {-1, 0, 3, 9}, {0, 23, 63})
    \cup Ints({"d", "x", "b"}, {"hh", "h", "l"}, {{}, {"zero", "plus"}, {"hash"}},
              {0, 4, 9}, {0}, {-1, 3, 4, 8, 200, 511, 512, 1023})

\* every rounding to a sixteenth, in units of 1/2048, and the doubles about the halves
\* of a decimal digit: 1945 units are 0.95, and ten times as much is rounded to 9.5
Halves == {(2048 * (2 * k + 1)) \div 20 + e : k \in 0..9, e \in 0..1}
          \cup {(2048 * (2 * k + 1)) \div 200 + e : k \in 0..99, e \in 0..1}

MC_Floats ==
    [kind : {"f"}, class : {"nan", "inf", "-inf"}, flags : {{}, {"plus", "zero"}},
     width : {0, 5}, prec : {0}, value : {0}]
    \cup Floats({{}, {"prec"}, {"prec", "zero", "plus"}, {"prec", "left", "space"}, {"zero"}},
                {0, 6, 9}, 0..4,
                {128 * k : k \in -40..40} \cup {20480, 204672, 204800, 204928, -204800})
    \cup Floats({{"prec"}, {"prec", "zero", "plus"}}, {0, 9}, 1..2, Halves)

MC_Conversions == MC_Integers \cup MC_Floats

\* the directives that copy text, and a few numbers, in formats of several items
MC_Mixed ==
    {[kind |-> "char", char |-> "%"]}
    \cup [kind : {"c"}, flags : SUBSET {"left"}, width : {0, 3}, char : {"a", NUL}]
    \cup [kind : {"p"}, flags : {{}}, width : {0}, prec : {0}, arg : {171, 1023}]
    \cup Strings({-3, 0, 3}, {0, 2}, {Letters(n) : n \in {0, 1, 4}})
    \cup Ints({"d"}, {"int"}, {{}, {"zero"}}, {3}, {0}, {0, 63})
    \cup Floats({{}}, {0}, {0}, {-3072, 409600})
=============================================================================
