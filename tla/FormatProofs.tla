----------------------------- MODULE FormatProofs -----------------------------
(***************************************************************************)
(* Proofs about Format, for every format, buffer and argument and for      *)
(* scratch buffers of any size: nothing is stored past the length that the *)
(* caller gave, the text is terminated whenever there is a cell for it,    *)
(* no number comes out longer than its width or its scratch buffer, and    *)
(* what is printed is the text the C standard gives the items, wherever    *)
(* Follows says that the code keeps to it.                                 *)
(***************************************************************************)
EXTENDS Format, SequenceTheorems, WellFoundedInduction, TLAPS

Text == Seq(Characters)

Larger(a, b) == IF a > b THEN a ELSE b
-------------------------------------------------------------------------------
(* Numbers *)

\* The least number of a set, and with it induction over a set of numbers.
LEMMA LeastNumber ==
  ASSUME NEW S \in SUBSET Nat, S # {}
  PROVE  \E m \in S : \A n \in S : m <= n
<1> DEFINE R == OpToRel(<, Nat)
<1>1. \A m, n \in Nat : <<n, m>> \in R <=> n < m
  BY DEF OpToRel
<1>2. IsWellFoundedOn(R, Nat)
  BY NatLessThanWellFounded
<1> HIDE DEF R
<1>3. PICK m \in S : \A n \in S : ~ (<<n, m>> \in R)
  BY <1>2, WFMin
<1>4. ASSUME NEW n \in S PROVE m <= n
  <2>1. m \in Nat /\ n \in Nat
    OBVIOUS
  <2>2. ~ (n < m)
    BY <1>1, <1>3, <2>1
  <2> QED BY <2>1, <2>2
<1> QED BY <1>4

LEMMA Induction ==
  ASSUME NEW S \in SUBSET Nat, 0 \in S, \A n \in S : n + 1 \in S
  PROVE  \A n \in Nat : n \in S
<1> SUFFICES ASSUME Nat \ S # {} PROVE FALSE
  OBVIOUS
<1>1. PICK m \in Nat \ S : \A n \in Nat \ S : m <= n
  BY LeastNumber
<1>2. m - 1 \in S
  BY <1>1
<1> QED BY <1>1, <1>2

LEMMA Divided ==
  ASSUME NEW a \in Int, NEW d \in Nat \ {0}
  PROVE  a \div d \in Int /\ a % d \in 0 .. d - 1 /\ a = d * (a \div d) + (a % d)
OBVIOUS

\* Numbers without their last digit are fewer.
LEMMA Shorter ==
  ASSUME NEW n \in Nat, NEW base \in Nat, base >= 2, n >= base
  PROVE  n \div base \in 0 .. n - 1
<1> DEFINE q == n \div base
           r == n % base
<1>1. q \in Int /\ r \in 0 .. base - 1 /\ n = base * q + r
  BY Divided
<1> HIDE DEF q, r
<1>2. q >= 0
  <2> SUFFICES ASSUME q <= -1 PROVE FALSE
    BY <1>1
  <2>1. base * q <= base * (-1)
    BY <1>1, SMT
  <2> QED BY <1>1, <2>1, SMT
<1>3. base * q >= 2 * q
  BY <1>1, <1>2, SMT
<1>4. q < n
  <2>1. CASE q = 0
    BY <2>1
  <2>2. CASE q > 0
    BY <1>1, <1>3, <2>2
  <2> QED BY <1>2, <1>1, <2>1, <2>2
<1> QED BY <1>1, <1>2, <1>4 DEF q

LEMMA Quotients ==
  ASSUME NEW n \in Nat, NEW d \in Nat \ {0}
  PROVE  n \div d \in Nat /\ n % d \in Nat /\ n % d < d
<1> DEFINE q == n \div d
           r == n % d
<1>1. q \in Int /\ r \in 0 .. d - 1 /\ n = d * q + r
  BY Divided
<1> HIDE DEF q, r
<1>2. q >= 0
  <2> SUFFICES ASSUME q <= -1 PROVE FALSE
    BY <1>1
  <2>1. d * q <= d * (-1)
    BY <1>1, SMT
  <2> QED BY <1>1, <2>1, SMT
<1> QED BY <1>1, <1>2 DEF q, r
-------------------------------------------------------------------------------
(* Texts *)

LEMMA OwnCharacters ==
  /\ NUL \in Characters /\ Untouched \notin Characters
  /\ "0" \in Characters /\ " " \in Characters /\ "." \in Characters
  /\ "-" \in Characters /\ "+" \in Characters
  /\ "x" \in Characters /\ "X" \in Characters /\ "b" \in Characters
  /\ "n" \in Characters /\ "a" \in Characters /\ "i" \in Characters /\ "f" \in Characters
BY FormatAssumption DEF Own

LEMMA DigitIsCharacter ==
  ASSUME NEW d \in 0 .. 15, NEW upper \in BOOLEAN
  PROVE  DigitChar(d, upper) \in Characters
<1> DEFINE s == <<"0", "1", "2", "3", "4", "5", "6", "7",
                  "8", "9", "A", "B", "C", "D", "E", "F">>
           t == <<"0", "1", "2", "3", "4", "5", "6", "7",
                  "8", "9", "a", "b", "c", "d", "e", "f">>
<1>1. s \in Seq(Own) /\ t \in Seq(Own)
  BY DEF Own
<1>2. Len(s) = 16 /\ Len(t) = 16
  OBVIOUS
<1>3. DigitChar(d, upper) = IF upper THEN s[d + 1] ELSE t[d + 1]
  BY DEF DigitChar
<1>4. Own \subseteq Characters
  BY FormatAssumption
<1>5. d + 1 \in 1 .. 16
  OBVIOUS
<1> HIDE DEF s, t
<1>6. s[d + 1] \in Own /\ t[d + 1] \in Own
  BY <1>1, <1>2, <1>5, ElementOfSeq
<1> QED BY <1>3, <1>4, <1>6

LEMMA TimesIsText ==
  ASSUME NEW c \in Characters, NEW n \in Int
  PROVE  Times(c, n) \in Text /\ Len(Times(c, n)) = IF n > 0 THEN n ELSE 0
<1> DEFINE m == IF n > 0 THEN n ELSE 0
<1>1. m \in Nat
  OBVIOUS
<1> HIDE DEF m
<1>2. [i \in 1 .. m |-> c] \in Seq(Characters) /\ Len([i \in 1 .. m |-> c]) = m
  BY <1>1
<1> QED BY <1>2 DEF Times, Text, m

LEMMA ClipIsText ==
  ASSUME NEW t \in Text, NEW n \in Nat
  PROVE  Clip(t, n) \in Text /\ Len(Clip(t, n)) = Smaller(Len(t), n)
BY DEF Clip, Smaller, Text

LEMMA ReverseIsText ==
  ASSUME NEW t \in Text
  PROVE  Reverse(t) \in Text /\ Len(Reverse(t)) = Len(t)
BY DEF Reverse, Text

LEMMA Joined ==
  ASSUME NEW s \in Text, NEW t \in Text
  PROVE  s \o t \in Text /\ Len(s \o t) = Len(s) + Len(t)
BY DEF Text

LEMMA SingleIsText ==
  ASSUME NEW c \in Characters
  PROVE  <<c>> \in Text /\ Len(<<c>>) = 1
BY DEF Text

LEMMA AppendIsText ==
  ASSUME NEW t \in Text, NEW c \in Characters
  PROVE  Append(t, c) \in Text
BY DEF Text

LEMMA EmptyIsText == << >> \in Text /\ Len(<< >>) = 0
BY DEF Text

LEMMA TextLength ==
  ASSUME NEW t \in Text
  PROVE  Len(t) \in Nat /\ DOMAIN t = 1 .. Len(t) /\ \A i \in 1 .. Len(t) : t[i] \in Characters
BY DEF Text

LEMMA PutIsText ==
  ASSUME NEW t \in Text, NEW c \in Characters, NEW n \in Nat
  PROVE  Put(t, c, n) \in Text /\ Len(Put(t, c, n)) <= n
<1>1. Append(t, c) \in Text
  BY DEF Text
<1>2. Len(Append(t, c)) \in Nat
  BY <1>1, TextLength
<1>3. Smaller(Len(Append(t, c)), n) <= n
  BY <1>2 DEF Smaller
<1> QED BY <1>1, <1>3, ClipIsText DEF Put

LEMMA ZeroFillIsText ==
  ASSUME NEW t \in Text, NEW length \in Int, NEW n \in Nat, Len(t) <= n
  PROVE  ZeroFill(t, length, n) \in Text /\ Len(ZeroFill(t, length, n)) <= n
<1> DEFINE k == Smaller(length, n) - Len(t)
<1>1. Len(t) \in Nat
  BY TextLength
<1>2. k \in Int /\ Len(t) + k <= n
  BY <1>1 DEF Smaller
<1> HIDE DEF k
<1>3. Times("0", k) \in Text /\ Len(Times("0", k)) = IF k > 0 THEN k ELSE 0
  BY <1>2, TimesIsText, OwnCharacters
<1>4. t \o Times("0", k) \in Text /\ Len(t \o Times("0", k)) = Len(t) + Len(Times("0", k))
  BY <1>3, Joined
<1> QED BY <1>1, <1>2, <1>3, <1>4 DEF ZeroFill, k

\* What is sent out is as long as the buffer or, with padding, as the width.
LEMMA OutRevIsText ==
  ASSUME NEW t \in Text, NEW width \in Int, NEW flags
  PROVE  OutRev(t, width, flags) \in Text /\ Len(OutRev(t, width, flags)) = Larger(width, Len(t))
<1> DEFINE fill == width - Len(t)
<1>1. Len(t) \in Nat /\ fill \in Int /\ width = Len(t) + fill
  BY TextLength
<1>2. Reverse(t) \in Text /\ Len(Reverse(t)) = Len(t)
  BY ReverseIsText
<1> HIDE DEF fill
<1>3. \A c \in Characters : Times(c, fill) \in Text /\ Len(Times(c, fill)) = IF fill > 0 THEN fill ELSE 0
  BY <1>1, TimesIsText
<1>4. (IF fill > 0 THEN fill ELSE 0) + Len(t) = Larger(width, Len(t))
  BY <1>1 DEF Larger
<1>5. ASSUME NEW c \in Characters
      PROVE  /\ Reverse(t) \o Times(c, fill) \in Text
             /\ Len(Reverse(t) \o Times(c, fill)) = Larger(width, Len(t))
             /\ Times(c, fill) \o Reverse(t) \in Text
             /\ Len(Times(c, fill) \o Reverse(t)) = Larger(width, Len(t))
  BY <1>1, <1>2, <1>3, <1>4, Joined
<1>6. " " \in Characters /\ "0" \in Characters
  BY OwnCharacters
<1>7. CASE "left" \in flags
  BY <1>5, <1>6, <1>7 DEF OutRev, fill
<1>8. CASE "left" \notin flags
  BY <1>5, <1>6, <1>8 DEF OutRev, fill
<1> QED BY <1>7, <1>8
-------------------------------------------------------------------------------
(* Recursive functions: that there is one, and what it computes *)

\* Power's function is what its definition says.
LEMMA PowerExists ==
  ASSUME NEW base \in Nat \ {0}, NEW n \in Nat
  PROVE  \E p : p = [k \in 0 .. n |-> IF k = 0 THEN 1 ELSE base * p[k - 1]]
<1> DEFINE S == {m \in Nat : \E p : p = [k \in 0 .. m |-> IF k = 0 THEN 1 ELSE base * p[k - 1]]}
<1>1. 0 \in S
  <2> DEFINE p == [k \in 0 .. 0 |-> 1]
  <2>1. p = [k \in 0 .. 0 |-> IF k = 0 THEN 1 ELSE base * p[k - 1]]
    OBVIOUS
  <2> QED BY <2>1
<1>2. ASSUME NEW m \in S PROVE m + 1 \in S
  <2>1. PICK p : p = [k \in 0 .. m |-> IF k = 0 THEN 1 ELSE base * p[k - 1]]
    BY <1>2
  <2> DEFINE h == [k \in 0 .. m + 1 |-> IF k = m + 1 THEN base * p[m] ELSE p[k]]
  <2>2. ASSUME NEW k \in 0 .. m + 1
        PROVE  h[k] = IF k = 0 THEN 1 ELSE base * h[k - 1]
    <3>1. CASE k = m + 1
      BY <3>1
    <3>2. CASE k # m + 1
      <4>1. k \in 0 .. m /\ h[k] = p[k]
        BY <3>2
      <4>2. k # 0 => h[k - 1] = p[k - 1]
        BY <4>1
      <4>3. p[k] = IF k = 0 THEN 1 ELSE base * p[k - 1]
        BY <2>1, <4>1
      <4> QED BY <4>1, <4>2, <4>3
    <3> QED BY <3>1, <3>2
  <2>3. h = [k \in 0 .. m + 1 |-> IF k = 0 THEN 1 ELSE base * h[k - 1]]
    BY <2>2
  <2> HIDE DEF h
  <2> QED BY <2>3
<1> HIDE DEF S
<1>3. S \in SUBSET Nat
  BY DEF S
<1>4. n \in S
  BY <1>1, <1>2, <1>3, Induction
<1> QED BY <1>4 DEF S

LEMMA PowerPositive ==
  ASSUME NEW base \in Nat \ {0}, NEW n \in Nat
  PROVE  Power(base, n) \in Nat \ {0}
<1> DEFINE p == CHOOSE p : p = [k \in 0 .. n |-> IF k = 0 THEN 1 ELSE base * p[k - 1]]
<1>1. p = [k \in 0 .. n |-> IF k = 0 THEN 1 ELSE base * p[k - 1]]
  BY PowerExists
<1>2. Power(base, n) = p[n]
  BY DEF Power
<1> HIDE DEF p
<1> DEFINE S == {m \in Nat : m <= n => p[m] \in Nat \ {0}}
<1>3. 0 \in S
  BY <1>1
<1>4. ASSUME NEW m \in S PROVE m + 1 \in S
  <2>1. CASE m + 1 <= n
    <3>1. m \in 0 .. n /\ m + 1 \in 0 .. n /\ p[m] \in Nat \ {0}
      BY <2>1, <1>4
    <3>2. p[m + 1] = base * p[m]
      BY <1>1, <3>1
    <3>3. \A a, b \in Nat \ {0} : a * b \in Nat \ {0}
      BY SMT
    <3> QED BY <3>1, <3>2, <3>3
  <2> QED BY <2>1
<1> HIDE DEF S
<1>5. S \in SUBSET Nat
  BY DEF S
<1>6. n \in S
  BY <1>3, <1>4, <1>5, Induction
<1> QED BY <1>2, <1>6 DEF S

LEMMA PassedExists ==
  ASSUME NEW text \in Text, NEW n \in 0 .. Len(text)
  PROVE  \E f : f = [k \in 0 .. n |->
                       IF k = 0 THEN <<>>
                       ELSE IF text[k] = NUL THEN f[k - 1] ELSE Append(f[k - 1], text[k])]
<1> DEFINE Rec(m, f) == f = [k \in 0 .. m |->
                       IF k = 0 THEN <<>>
                       ELSE IF text[k] = NUL THEN f[k - 1] ELSE Append(f[k - 1], text[k])]
           S == {m \in Nat : \E f : Rec(m, f)}
<1>1. 0 \in S
  <2> DEFINE f == [k \in 0 .. 0 |-> <<>>]
  <2>1. Rec(0, f)
    OBVIOUS
  <2> QED BY <2>1
<1>2. ASSUME NEW m \in S PROVE m + 1 \in S
  <2>1. PICK f : Rec(m, f)
    BY <1>2
  <2> DEFINE h == [k \in 0 .. m + 1 |->
                     IF k = m + 1
                     THEN IF text[k] = NUL THEN f[m] ELSE Append(f[m], text[k])
                     ELSE f[k]]
  <2>2. ASSUME NEW k \in 0 .. m + 1
        PROVE  h[k] = IF k = 0 THEN <<>>
                      ELSE IF text[k] = NUL THEN h[k - 1] ELSE Append(h[k - 1], text[k])
    <3>1. CASE k = m + 1
      BY <3>1
    <3>2. CASE k # m + 1
      <4>1. k \in 0 .. m /\ h[k] = f[k]
        BY <3>2
      <4>2. k # 0 => h[k - 1] = f[k - 1]
        BY <4>1
      <4>3. f[k] = IF k = 0 THEN <<>>
                   ELSE IF text[k] = NUL THEN f[k - 1] ELSE Append(f[k - 1], text[k])
        BY <2>1, <4>1
      <4> QED BY <4>1, <4>2, <4>3
    <3> QED BY <3>1, <3>2
  <2>3. Rec(m + 1, h)
    BY <2>2
  <2> HIDE DEF h, Rec
  <2> QED BY <2>3
<1>3. S \in SUBSET Nat
  OBVIOUS
<1>4. n \in Nat
  BY TextLength
<1> HIDE DEF S
<1>5. n \in S
  BY <1>1, <1>2, <1>3, <1>4, Induction
<1> QED BY <1>5 DEF S

\* What is passed on is a text.
LEMMA PassedIsText ==
  ASSUME NEW text \in Text
  PROVE  Passed(text) \in Text
<1> DEFINE n == Len(text)
           f == CHOOSE f : f = [k \in 0 .. n |->
                       IF k = 0 THEN <<>>
                       ELSE IF text[k] = NUL THEN f[k - 1] ELSE Append(f[k - 1], text[k])]
<1>1. n \in Nat /\ n \in 0 .. Len(text)
  BY TextLength
<1>2. f = [k \in 0 .. n |->
             IF k = 0 THEN <<>>
             ELSE IF text[k] = NUL THEN f[k - 1] ELSE Append(f[k - 1], text[k])]
  BY <1>1, PassedExists
<1>3. Passed(text) = f[n]
  BY DEF Passed
<1> HIDE DEF f
<1> DEFINE S == {m \in Nat : m <= n => f[m] \in Text}
<1>4. 0 \in S
  BY <1>1, <1>2 DEF Text
<1>5. ASSUME NEW m \in S PROVE m + 1 \in S
  <2>1. CASE m + 1 <= n
    <3>1. m \in 0 .. n /\ m + 1 \in 0 .. n /\ f[m] \in Text
      BY <1>1, <2>1, <1>5
    <3>2. f[m + 1] = IF text[m + 1] = NUL THEN f[m] ELSE Append(f[m], text[m + 1])
      <4>1. (m + 1) - 1 = m /\ m + 1 # 0
        BY <3>1
      <4> QED BY <1>2, <3>1, <4>1
    <3>3. text[m + 1] \in Characters
      BY <2>1, TextLength
    <3>4. Append(f[m], text[m + 1]) \in Text
      BY <3>1, <3>3 DEF Text
    <3> QED BY <3>1, <3>2, <3>4
  <2> QED BY <2>1
<1> HIDE DEF S
<1>6. S \in SUBSET Nat
  BY DEF S
<1>7. n \in S
  BY <1>1, <1>4, <1>5, <1>6, Induction
<1> QED BY <1>1, <1>3, <1>7 DEF S

(***************************************************************************)
(* The digits of numbers.  Digits takes its function on all numbers: there *)
(* is one up to each number, any two agree, and together they are one.     *)
(***************************************************************************)
DigitsOf(n, base, upper, f) ==
  IF n < base THEN <<DigitChar(n, upper)>>
  ELSE <<DigitChar(n % base, upper)>> \o f[n \div base]

LEMMA DigitsUpTo ==
  ASSUME NEW base \in 2 .. 16, NEW upper, NEW n \in Nat
  PROVE  \E f : f = [k \in 0 .. n |-> DigitsOf(k, base, upper, f)]
<1> DEFINE S == {m \in Nat : \E f : f = [k \in 0 .. m |-> DigitsOf(k, base, upper, f)]}
<1>1. 0 \in S
  <2> DEFINE f == [k \in 0 .. 0 |-> <<DigitChar(0, upper)>>]
  <2>1. f = [k \in 0 .. 0 |-> DigitsOf(k, base, upper, f)]
    BY DEF DigitsOf
  <2> QED BY <2>1
<1>2. ASSUME NEW m \in S PROVE m + 1 \in S
  <2>1. PICK f : f = [k \in 0 .. m |-> DigitsOf(k, base, upper, f)]
    BY <1>2
  <2> DEFINE h == [k \in 0 .. m + 1 |-> IF k = m + 1 THEN DigitsOf(k, base, upper, f) ELSE f[k]]
  <2>2. ASSUME NEW k \in 0 .. m + 1
        PROVE  h[k] = DigitsOf(k, base, upper, h)
    <3>1. k >= base => k \div base \in 0 .. m /\ h[k \div base] = f[k \div base]
      <4>1. k \in Nat /\ base \in Nat /\ base >= 2
        OBVIOUS
      <4>2. k >= base => k \div base \in 0 .. k - 1
        BY <4>1, Shorter
      <4> QED BY <4>2
    <3>2. DigitsOf(k, base, upper, h) = DigitsOf(k, base, upper, f)
      BY <3>1 DEF DigitsOf
    <3>3. k # m + 1 => f[k] = DigitsOf(k, base, upper, f)
      BY <2>1
    <3> QED BY <3>2, <3>3
  <2>3. h = [k \in 0 .. m + 1 |-> DigitsOf(k, base, upper, h)]
    BY <2>2
  <2> HIDE DEF h
  <2> QED BY <2>3
<1>3. S \in SUBSET Nat
  OBVIOUS
<1> HIDE DEF S
<1>4. n \in S
  BY <1>1, <1>2, <1>3, Induction
<1> QED BY <1>4 DEF S

LEMMA DigitsExist ==
  ASSUME NEW base \in 2 .. 16, NEW upper
  PROVE  \E f : f = [n \in Nat |-> DigitsOf(n, base, upper, f)]
<1> DEFINE Upto(n) == CHOOSE f : f = [k \in 0 .. n |-> DigitsOf(k, base, upper, f)]
           F == [n \in Nat |-> Upto(n)[n]]
<1>1. \A n \in Nat : Upto(n) = [k \in 0 .. n |-> DigitsOf(k, base, upper, Upto(n))]
  BY DigitsUpTo
<1> HIDE DEF Upto
<1>2. ASSUME NEW n \in Nat, NEW j \in 0 .. n PROVE Upto(n)[j] = Upto(j)[j]
  <2> DEFINE f == Upto(n)
             g == Upto(j)
  <2>1. j \in Nat /\ j <= n /\ j <= j
    OBVIOUS
  <2>2. /\ f = [k \in 0 .. n |-> DigitsOf(k, base, upper, f)]
        /\ g = [k \in 0 .. j |-> DigitsOf(k, base, upper, g)]
    BY <1>1, <2>1
  <2> HIDE DEF f, g
  <2>3. /\ \A k \in 0 .. n : f[k] = DigitsOf(k, base, upper, f)
        /\ \A k \in 0 .. j : g[k] = DigitsOf(k, base, upper, g)
    BY <2>2
  <2> DEFINE Bad == {k \in 0 .. j : f[k] # g[k]}
  <2>4. ASSUME Bad # {} PROVE FALSE
    <3>1. PICK k \in Bad : \A i \in Bad : k <= i
      <4>1. Bad \in SUBSET Nat
        OBVIOUS
      <4> HIDE DEF Bad
      <4> QED BY <2>4, <4>1, LeastNumber
    <3>2. k \in Nat /\ k \in 0 .. n /\ k \in 0 .. j /\ base \in Nat /\ base >= 2
      OBVIOUS
    <3>3. k >= base => f[k \div base] = g[k \div base]
      <4>1. k >= base => k \div base \in 0 .. k - 1
        BY <3>2, Shorter
      <4> QED BY <3>1, <3>2, <4>1
    <3>4. f[k] = DigitsOf(k, base, upper, f) /\ g[k] = DigitsOf(k, base, upper, g)
      BY <2>3, <3>2
    <3>5. DigitsOf(k, base, upper, f) = DigitsOf(k, base, upper, g)
      BY <3>2, <3>3 DEF DigitsOf
    <3> QED BY <3>1, <3>4, <3>5
  <2>5. f[j] = g[j]
    BY <2>1, <2>4
  <2> QED BY <2>5 DEF f, g
<1>3. ASSUME NEW n \in Nat PROVE F[n] = DigitsOf(n, base, upper, F)
  <2>1. n \in 0 .. n /\ base \in Nat /\ base >= 2
    OBVIOUS
  <2>2. F[n] = DigitsOf(n, base, upper, Upto(n))
    BY <1>1, <2>1
  <2>3. n >= base => n \div base \in 0 .. n /\ n \div base \in Nat
    BY <2>1, Shorter
  <2>4. n >= base => Upto(n)[n \div base] = F[n \div base]
    BY <1>2, <2>3
  <2> QED BY <2>1, <2>2, <2>4 DEF DigitsOf
<1>4. F = [n \in Nat |-> DigitsOf(n, base, upper, F)]
  BY <1>3
<1> HIDE DEF F
<1> QED BY <1>4

\* The digits of a number are a text, and there is one at least.
LEMMA DigitsIsText ==
  ASSUME NEW base \in 2 .. 16, NEW upper \in BOOLEAN, NEW v \in Nat
  PROVE  Digits(v, base, upper) \in Text
<1> DEFINE f == CHOOSE f : f = [n \in Nat |->
                  IF n < base THEN <<DigitChar(n, upper)>>
                  ELSE <<DigitChar(n % base, upper)>> \o f[n \div base]]
<1>1. f = [n \in Nat |-> IF n < base THEN <<DigitChar(n, upper)>>
                         ELSE <<DigitChar(n % base, upper)>> \o f[n \div base]]
  BY DigitsExist DEF DigitsOf
<1>2. Digits(v, base, upper) = f[v]
  BY DEF Digits
<1> HIDE DEF f
<1> DEFINE Bad == {n \in Nat : f[n] \notin Text}
<1> SUFFICES ASSUME Bad # {} PROVE FALSE
  BY <1>2
<1>3. PICK n \in Bad : \A j \in Bad : n <= j
  <2>1. Bad \in SUBSET Nat
    OBVIOUS
  <2> HIDE DEF Bad
  <2> QED BY <2>1, LeastNumber
<1>4. n \in Nat /\ base \in Nat /\ base >= 2
  OBVIOUS
<1>5. f[n] = IF n < base THEN <<DigitChar(n, upper)>>
             ELSE <<DigitChar(n % base, upper)>> \o f[n \div base]
  BY <1>1, <1>4
<1>6. ASSUME NEW d \in 0 .. 15 PROVE <<DigitChar(d, upper)>> \in Text
  BY DigitIsCharacter DEF Text
<1>7. CASE n < base
  <2>1. n \in 0 .. 15
    BY <1>4, <1>7
  <2> QED BY <1>3, <1>5, <1>6, <1>7, <2>1
<1>8. CASE n >= base
  <2>1. n \div base \in 0 .. n - 1
    BY <1>4, <1>8, Shorter
  <2>2. f[n \div base] \in Text
    BY <1>3, <1>4, <2>1
  <2>3. n % base \in 0 .. 15
    BY <1>4, Divided
  <2>4. <<DigitChar(n % base, upper)>> \in Text
    BY <1>6, <2>3
  <2> QED BY <1>3, <1>4, <1>5, <1>8, <2>2, <2>4, Joined
<1> QED BY <1>4, <1>7, <1>8
-------------------------------------------------------------------------------
(* Numbers as texts *)

LEMMA Sizes ==
  /\ NtoaSize \in Nat \ {0} /\ FtoaSize \in Nat \ {0}
  /\ MaxPow \in Nat /\ DefaultPrec \in 0 .. MaxPow /\ Unit \in Nat \ {0}
  /\ Significand \in Nat
<1>1. PICK k \in 1 .. Unit : Unit = 2 * k
  BY NumberTextAssumption
<1>2. k \in Int /\ k >= 1
  OBVIOUS
<1> QED BY <1>1, <1>2, NumberTextAssumption

LEMMA InnerWidthBound ==
  ASSUME NEW width \in Int, NEW negative, NEW flags
  PROVE  InnerWidth(width, negative, flags) \in Int /\ InnerWidth(width, negative, flags) <= width
<1>1. InnerWidth(width, negative, flags) \in {width, width - 1}
  BY DEF InnerWidth
<1> QED BY <1>1

LEMMA PutSignIsText ==
  ASSUME NEW t \in Text, NEW negative \in BOOLEAN, NEW flags, NEW n \in Nat, Len(t) <= n
  PROVE  PutSign(t, negative, flags, n) \in Text /\ Len(PutSign(t, negative, flags, n)) <= n
<1>1. PutSign(t, negative, flags, n) \in {Put(t, "-", n), Put(t, "+", n), Put(t, " ", n), t}
  BY DEF PutSign
<1>2. \A c \in {"-", "+", " "} : Put(t, c, n) \in Text /\ Len(Put(t, c, n)) <= n
  BY PutIsText, OwnCharacters
<1> QED BY <1>1, <1>2

LEMMA PutPrefixIsText ==
  ASSUME NEW t \in Text, NEW base, NEW prec, NEW width, NEW flags
  PROVE  /\ PutPrefix(t, base, prec, width, flags) \in Text
         /\ Len(PutPrefix(t, base, prec, width, flags)) <= NtoaSize
<1> DEFINE n    == Len(t)
           bare == IF "prec" \notin flags /\ n > 0 /\ n \in {prec, width}
                   THEN SubSeq(t, 1, n - (IF n > 1 /\ base = 16 THEN 2 ELSE 1))
                   ELSE t
           mark == CASE base = 16 -> <<IF "upper" \in flags THEN "X" ELSE "x">>
                     [] base = 2  -> <<"b">>
                     [] OTHER     -> <<>>
<1>1. n \in Nat
  BY TextLength
<1>2. \A k \in 0 .. n : SubSeq(t, 1, k) \in Text
  BY DEF Text
<1>3. n > 0 => n - (IF n > 1 /\ base = 16 THEN 2 ELSE 1) \in 0 .. n
  BY <1>1
<1>4. bare \in Text
  BY <1>2, <1>3
<1>5. <<"x">> \in Text /\ <<"X">> \in Text /\ <<"b">> \in Text /\ << >> \in Text
  BY OwnCharacters, SingleIsText, EmptyIsText
<1>6. mark \in {<<"x">>, <<"X">>, <<"b">>, << >>}
  OBVIOUS
<1> HIDE DEF bare, mark
<1>7. bare \o mark \in Text
  BY <1>4, <1>5, <1>6, Joined
<1>8. Clip(bare \o mark, NtoaSize) \in Text
  BY <1>7, ClipIsText, Sizes
<1>9. /\ Put(Clip(bare \o mark, NtoaSize), "0", NtoaSize) \in Text
      /\ Len(Put(Clip(bare \o mark, NtoaSize), "0", NtoaSize)) <= NtoaSize
  BY <1>8, PutIsText, OwnCharacters, Sizes
<1> QED BY <1>9 DEF PutPrefix, bare, mark

LEMMA NtoaFormatIsText ==
  ASSUME NEW digits \in Text, Len(digits) <= NtoaSize, NEW negative \in BOOLEAN, NEW base,
         NEW prec \in Int, NEW width \in Int, NEW flags
  PROVE  /\ NtoaFormat(digits, negative, base, prec, width, flags) \in Text
         /\ Len(NtoaFormat(digits, negative, base, prec, width, flags)) <= Larger(width, NtoaSize)
<1> DEFINE inner  == InnerWidth(width, negative, flags)
           filled == IF "left" \in flags THEN digits
                     ELSE ZeroFill(ZeroFill(digits, prec, NtoaSize),
                                   IF "zero" \in flags THEN inner ELSE 0, NtoaSize)
           marked == IF "hash" \in flags
                     THEN PutPrefix(filled, base, prec, inner, flags) ELSE filled
           signed == PutSign(marked, negative, flags, NtoaSize)
<1>1. inner \in Int /\ inner <= width
  BY InnerWidthBound
<1> HIDE DEF inner
<1>2. ZeroFill(digits, prec, NtoaSize) \in Text /\ Len(ZeroFill(digits, prec, NtoaSize)) <= NtoaSize
  BY ZeroFillIsText, Sizes
<1>3. filled \in Text /\ Len(filled) <= NtoaSize
  <2> DEFINE length == IF "zero" \in flags THEN inner ELSE 0
  <2>1. length \in Int
    BY <1>1
  <2> HIDE DEF length
  <2>2. /\ ZeroFill(ZeroFill(digits, prec, NtoaSize), length, NtoaSize) \in Text
        /\ Len(ZeroFill(ZeroFill(digits, prec, NtoaSize), length, NtoaSize)) <= NtoaSize
    BY <1>2, <2>1, ZeroFillIsText, Sizes
  <2> QED BY <2>2 DEF length
<1> HIDE DEF filled
<1>4. marked \in Text /\ Len(marked) <= NtoaSize
  BY <1>3, PutPrefixIsText
<1> HIDE DEF marked
<1>5. signed \in Text /\ Len(signed) <= NtoaSize
  BY <1>4, PutSignIsText, Sizes
<1> HIDE DEF signed
<1>6. /\ OutRev(signed, inner, flags) \in Text
      /\ Len(OutRev(signed, inner, flags)) = Larger(inner, Len(signed))
  BY <1>1, <1>5, OutRevIsText
<1>7. Larger(inner, Len(signed)) <= Larger(width, NtoaSize)
  BY <1>1, <1>5, Sizes, TextLength DEF Larger
<1>8. NtoaFormat(digits, negative, base, prec, width, flags) = OutRev(signed, inner, flags)
  BY DEF NtoaFormat, signed, marked, filled, inner
<1> QED BY <1>6, <1>7, <1>8

LEMMA NtoaIsText ==
  ASSUME NEW value \in Nat, NEW negative \in BOOLEAN, NEW base \in 2 .. 16,
         NEW prec \in Int, NEW width \in Int, NEW flags
  PROVE  /\ Ntoa(value, negative, base, prec, width, flags) \in Text
         /\ Len(Ntoa(value, negative, base, prec, width, flags)) <= Larger(width, NtoaSize)
<1> DEFINE digits == IF value = 0 /\ "prec" \in flags THEN <<>>
                     ELSE Clip(Digits(value, base, "upper" \in flags), NtoaSize)
<1>1. Digits(value, base, "upper" \in flags) \in Text
  <2>1. ("upper" \in flags) \in BOOLEAN
    OBVIOUS
  <2> QED BY <2>1, DigitsIsText
<1>2. /\ Clip(Digits(value, base, "upper" \in flags), NtoaSize) \in Text
      /\ Len(Clip(Digits(value, base, "upper" \in flags), NtoaSize)) <= NtoaSize
  BY <1>1, ClipIsText, TextLength, Sizes DEF Smaller
<1>3. << >> \in Text /\ Len(<< >>) <= NtoaSize
  BY Sizes DEF Text
<1>4. digits \in Text /\ Len(digits) <= NtoaSize
  BY <1>2, <1>3
<1> HIDE DEF digits
<1> QED BY <1>4, NtoaFormatIsText DEF Ntoa, digits

LEMMA Product ==
  ASSUME NEW a \in Nat, NEW b \in Nat
  PROVE  a * b \in Nat
BY SMT

\* A double is a number, and so is its product with a power of ten.
LEMMA DoubleIsNat ==
  ASSUME NEW n \in Nat
  PROVE  Double(n) \in Nat
<1> DEFINE extra == Len(Digits(n, 2, FALSE)) - Significand
           ulp   == IF extra > 0 THEN Power(2, extra) ELSE 1
           low   == n \div ulp
           q     == IF 2 * (n % ulp) > ulp \/ (2 * (n % ulp) = ulp /\ low % 2 = 1)
                    THEN low + 1 ELSE low
<1>1. extra \in Int
  <2>1. 2 \in 2 .. 16 /\ FALSE \in BOOLEAN
    OBVIOUS
  <2>2. Digits(n, 2, FALSE) \in Text
    BY <2>1, DigitsIsText
  <2> QED BY <2>2, TextLength, Sizes
<1>2. ulp \in Nat \ {0}
  <2> HIDE DEF extra
  <2>1. 2 \in Nat \ {0} /\ (extra > 0 => extra \in Nat)
    BY <1>1
  <2>2. extra > 0 => Power(2, extra) \in Nat \ {0}
    BY <2>1, PowerPositive
  <2> QED BY <2>2
<1> HIDE DEF ulp
<1>3. q \in Nat
  <2>1. low \in Nat
    BY <1>2, Quotients
  <2>2. q \in {low, low + 1}
    OBVIOUS
  <2> HIDE DEF low, q
  <2> QED BY <2>1, <2>2
<1>4. Double(n) = q * ulp
  BY DEF Double, ToMultiple, ulp
<1> HIDE DEF q
<1> QED BY <1>2, <1>3, <1>4, Product

LEMMA ScaledIsNat ==
  ASSUME NEW r \in Nat, NEW p \in Nat
  PROVE  Scaled(r, p) \in Nat
<1>1. Power(10, p) \in Nat
  <2>1. 10 \in Nat \ {0}
    OBVIOUS
  <2> QED BY <2>1, PowerPositive
<1> DEFINE n == r * Power(10, p)
<1>2. n \in Nat
  BY <1>1, Product
<1> HIDE DEF n
<1>3. Double(n) \in Nat
  BY <1>2, DoubleIsNat
<1> QED BY <1>3 DEF Scaled, n

\* The two parts of a rounded number are numbers.
LEMMA RoundedParts ==
  ASSUME NEW value \in Nat, NEW prec \in Nat
  PROVE  Rounded(value, prec)[1] \in Nat /\ Rounded(value, prec)[2] \in Nat
<1> DEFINE whole == value \div Unit
           tmp   == Scaled(value % Unit, prec)
           frac  == tmp \div Unit
           twice == 2 * (tmp % Unit)
           up    == IF \/ twice > Unit
                       \/ twice = Unit /\ (frac = 0 \/ frac % 2 = 1)
                    THEN frac + 1 ELSE frac
           carry == twice > Unit /\ up >= Power(10, prec)
           w     == IF carry THEN whole + 1 ELSE whole
<1>1. whole \in Nat /\ value % Unit \in Nat
  BY Quotients, Sizes
<1>2. tmp \in Nat
  BY <1>1, ScaledIsNat
<1> HIDE DEF tmp
<1>3. frac \in Nat
  BY <1>2, Quotients, Sizes
<1> HIDE DEF frac, whole
<1>4. up \in Nat /\ w \in Nat
  BY <1>1, <1>3
<1> HIDE DEF up, w, twice, carry
<1>5. Rounded(value, prec) = IF prec = 0
                             THEN IF 2 * (value - w * Unit) >= Unit /\ w % 2 = 1
                                  THEN <<w + 1, 0>> ELSE <<w, 0>>
                             ELSE <<w, IF carry THEN 0 ELSE up>>
  BY DEF Rounded, RoundedBy, w, carry, up, twice, frac, tmp, whole
<1> DEFINE odd == 2 * (value - w * Unit) >= Unit /\ w % 2 = 1
<1>6. Rounded(value, prec) \in {<<w + 1, 0>>, <<w, 0>>, <<w, up>>}
  <2> HIDE DEF odd
  <2> QED BY <1>5
<1> QED BY <1>4, <1>6

LEMMA FtoaIsText ==
  ASSUME NEW value \in Int, NEW precision \in Nat, NEW width \in Int, NEW flags
  PROVE  /\ Ftoa(value, precision, width, flags) \in Text
         /\ Len(Ftoa(value, precision, width, flags)) <= Larger(width, FtoaSize)
<1> DEFINE negative == value < 0
           asked    == IF "prec" \in flags THEN precision ELSE DefaultPrec
           extra    == Smaller(FtoaSize, IF asked > MaxPow THEN asked - MaxPow ELSE 0)
           prec     == asked - extra
           r        == Rounded(IF negative THEN -value ELSE value, prec)
           ds       == Digits(r[2], 10, FALSE)
           missing  == IF Len(ds) > prec THEN FtoaSize ELSE prec - Len(ds)
           fraction == IF prec = 0 THEN <<>> ELSE Append(ds \o Times("0", missing), ".")
           text     == Times("0", extra) \o fraction \o Digits(r[1], 10, FALSE)
           digits   == Clip(text, FtoaSize)
           inner    == InnerWidth(width, negative, flags)
           filled   == IF "left" \notin flags /\ "zero" \in flags
                       THEN ZeroFill(digits, inner, FtoaSize) ELSE digits
           signed   == PutSign(filled, negative, flags, FtoaSize)
<1>1. asked \in Nat /\ extra \in Nat /\ prec \in Nat
  <2>1. asked \in Nat
    BY Sizes
  <2> HIDE DEF asked
  <2> QED BY <2>1, Sizes DEF Smaller
<1> HIDE DEF asked, extra, prec
<1>2. r[1] \in Nat /\ r[2] \in Nat
  <2>1. (IF negative THEN -value ELSE value) \in Nat
    OBVIOUS
  <2> QED BY <1>1, <2>1, RoundedParts
<1> HIDE DEF r
<1>3. ds \in Text /\ Digits(r[1], 10, FALSE) \in Text
  <2>1. 10 \in 2 .. 16 /\ FALSE \in BOOLEAN
    OBVIOUS
  <2> QED BY <1>2, <2>1, DigitsIsText
<1> HIDE DEF ds
<1>4. fraction \in Text
  <2>1. missing \in Int
    BY <1>1, <1>3, TextLength, Sizes
  <2> HIDE DEF missing
  <2>2. Times("0", missing) \in Text
    BY <2>1, TimesIsText, OwnCharacters
  <2>3. ds \o Times("0", missing) \in Text
    BY <1>3, <2>2, Joined
  <2>4. \A t \in Text : Append(t, ".") \in Text
    BY OwnCharacters, AppendIsText
  <2> QED BY <2>3, <2>4, EmptyIsText
<1> HIDE DEF fraction
<1>5. text \in Text
  <2>1. Times("0", extra) \in Text
    <3>1. extra \in Int
      BY <1>1
    <3> QED BY <3>1, TimesIsText, OwnCharacters
  <2> QED BY <1>3, <1>4, <2>1, Joined
<1> HIDE DEF text
<1>6. digits \in Text /\ Len(digits) <= FtoaSize
  BY <1>5, ClipIsText, TextLength, Sizes DEF Smaller
<1> HIDE DEF digits
<1>7. inner \in Int /\ inner <= width
  BY InnerWidthBound
<1> HIDE DEF inner
<1>8. filled \in Text /\ Len(filled) <= FtoaSize
  BY <1>6, <1>7, ZeroFillIsText, Sizes
<1> HIDE DEF filled
<1>9. signed \in Text /\ Len(signed) <= FtoaSize
  <2>1. negative \in BOOLEAN /\ FtoaSize \in Nat
    BY Sizes
  <2> HIDE DEF negative
  <2> QED BY <1>8, <2>1, PutSignIsText
<1> HIDE DEF signed
<1>10. /\ OutRev(signed, inner, flags) \in Text
       /\ Len(OutRev(signed, inner, flags)) = Larger(inner, Len(signed))
  BY <1>7, <1>9, OutRevIsText
<1>11. Larger(inner, Len(signed)) <= Larger(width, FtoaSize)
  BY <1>7, <1>9, Sizes, TextLength DEF Larger
<1>12. Ftoa(value, precision, width, flags) = OutRev(signed, inner, flags)
  BY DEF Ftoa, signed, filled, inner, digits, text, fraction, missing, ds, r, prec, extra, asked
<1> QED BY <1>10, <1>11, <1>12

LEMMA NotFiniteIsText ==
  ASSUME NEW kind \in {"nan", "inf", "-inf"}, NEW width \in Int, NEW flags
  PROVE  NotFinite(kind, width, flags) \in Text
<1> DEFINE name == CASE kind = "nan"  -> <<"n", "a", "n">>
                     [] kind = "-inf" -> <<"f", "n", "i", "-">>
                     [] kind = "inf"  -> IF "plus" \in flags THEN <<"f", "n", "i", "+">>
                                                              ELSE <<"f", "n", "i">>
<1>1. /\ <<"n", "a", "n">> \in Text /\ <<"f", "n", "i">> \in Text
      /\ <<"f", "n", "i", "-">> \in Text /\ <<"f", "n", "i", "+">> \in Text
  <2>1. \A a, b, c, d \in Characters : <<a, b, c>> \in Text /\ <<a, b, c, d>> \in Text
    BY DEF Text
  <2> QED BY <2>1, OwnCharacters
<1>2. name \in {<<"n", "a", "n">>, <<"f", "n", "i", "-">>, <<"f", "n", "i", "+">>, <<"f", "n", "i">>}
  OBVIOUS
<1>3. name \in Text
  BY <1>1, <1>2
<1> HIDE DEF name
<1> QED BY <1>3, OutRevIsText DEF NotFinite, name
-------------------------------------------------------------------------------
(* Directives *)

LEMMA Bounded ==
  /\ Cells \in Nat /\ MaxLengths \subseteq 0 .. Cells /\ PointerDigits \in Nat /\ MaxItems \in Nat
  /\ \A size \in DOMAIN Bits : Bits[size] \in Nat \ {0}
BY FormatAssumption

Wide == IntKinds \cup {"c", "s", "p", "f"}

\* What the conversions read of a directive.
LEMMA Fields ==
  ASSUME NEW d \in Directives
  PROVE  /\ d.kind \in {"char"} \cup Wide
         /\ d.kind \in {"char", "c"} => d.char \in Characters
         /\ d.kind \in Wide => d.width \in Int /\ "width" \in DOMAIN d
         /\ d.kind \in Wide \ {"c"} => d.prec \in Int
         /\ d.kind = "s" => d.text \in Text
         /\ d.kind = "p" => d.arg \in Nat
         /\ d.kind \in IntKinds => d.arg \in Int /\ d.size \in DOMAIN Bits
         /\ d.kind = "f" => d.value \in Int /\ d.class \in {"num", "nan", "inf", "-inf"}
<1>1. CASE d \in [kind : {"char"}, char : Characters]
  BY <1>1 DEF Wide, IntKinds
<1>2. CASE d \in [kind : {"c"}, flags : AnyFlags, width : Int, char : Characters]
  BY <1>2 DEF Wide, IntKinds
<1>3. CASE d \in [kind : {"s"}, flags : AnyFlags, width : Int, prec : Int, text : Seq(Characters)]
  BY <1>3 DEF Wide, IntKinds, Text
<1>4. CASE d \in [kind : {"p"}, flags : AnyFlags, width : Int, prec : Int, arg : Nat]
  BY <1>4 DEF Wide, IntKinds
<1>5. CASE d \in [kind : IntKinds, size : DOMAIN Bits, flags : AnyFlags, width : Int, prec : Int,
                  arg : Int]
  BY <1>5 DEF Wide, IntKinds
<1>6. CASE d \in [kind : {"f"}, class : {"num", "nan", "inf", "-inf"}, flags : AnyFlags,
                  width : Int, prec : Int, value : Int]
  BY <1>6 DEF Wide, IntKinds
<1> QED BY <1>1, <1>2, <1>3, <1>4, <1>5, <1>6 DEF Directives

LEMMA WidthAndPrec ==
  ASSUME NEW d \in Directives
  PROVE  /\ d.kind \in Wide => Width(d) \in Nat
         /\ d.kind \in Wide \ {"c"} => Prec(d) \in Nat
BY Fields DEF Width, Prec

\* An integer's argument is read as a number that its type can hold.
LEMMA MagnitudeIsNat ==
  ASSUME NEW v \in Int, NEW size \in DOMAIN Bits
  PROVE  Unsigned(v, size) \in Nat /\ Signed(v, size) \in Int /\ Magnitude(v, size) \in Nat
<1>1. Bits[size] \in Nat /\ Bits[size] - 1 \in Nat
  BY Bounded
<1>2. Power(2, Bits[size]) \in Nat \ {0} /\ Power(2, Bits[size] - 1) \in Nat \ {0}
  <2>1. 2 \in Nat \ {0}
    OBVIOUS
  <2> QED BY <1>1, <2>1, PowerPositive
<1>3. ASSUME NEW u \in Int PROVE Unsigned(u, size) \in Nat
  <2> DEFINE p == Power(2, Bits[size])
  <2>1. p \in Nat \ {0}
    BY <1>2
  <2> HIDE DEF p
  <2>2. u % p \in Nat
    BY <2>1, Divided
  <2> QED BY <2>2 DEF Unsigned, p
<1>4. Signed(v, size) \in Int
  BY <1>2, <1>3 DEF Signed
<1> QED BY <1>3, <1>4 DEF Magnitude

LEMMA IntIsText ==
  ASSUME NEW d \in Directives, d.kind \in IntKinds
  PROVE  IntText(d) \in Text /\ Len(IntText(d)) <= Larger(Width(d), NtoaSize)
<1> DEFINE value == IF d.kind = "d" THEN Signed(d.arg, d.size) ELSE Unsigned(d.arg, d.size)
           m     == Magnitude(value, d.size)
<1>1. d.arg \in Int /\ d.size \in DOMAIN Bits
  BY Fields
<1>2. value \in Int
  BY <1>1, MagnitudeIsNat
<1> HIDE DEF value
<1>3. m \in Nat
  BY <1>1, <1>2, MagnitudeIsNat
<1> HIDE DEF m
<1>4. Base(d.kind) \in 2 .. 16
  BY DEF Base, IntKinds
<1>5. Width(d) \in Int /\ Prec(d) \in Int
  BY WidthAndPrec DEF Wide, IntKinds
<1>6. (value < 0) \in BOOLEAN
  OBVIOUS
<1> QED BY <1>3, <1>4, <1>5, <1>6, NtoaIsText DEF IntText, m, value

LEMMA CharIsText ==
  ASSUME NEW d \in Directives, d.kind = "c"
  PROVE  CharText(d) \in Text
<1>1. d.char \in Characters /\ Width(d) - 1 \in Int
  BY Fields, WidthAndPrec DEF Wide
<1>2. <<d.char>> \in Text /\ Times(" ", Width(d) - 1) \in Text
  BY <1>1, SingleIsText, TimesIsText, OwnCharacters
<1> QED BY <1>2, Joined DEF CharText

LEMMA StringIsText ==
  ASSUME NEW d \in Directives, d.kind = "s"
  PROVE  StringText(d) \in Text
<1>1. d.text \in Text /\ Len(d.text) \in Nat /\ Width(d) \in Nat /\ Prec(d) \in Nat
  BY Fields, WidthAndPrec, TextLength DEF Wide, IntKinds
<1>2. CountedLen(d) \in Nat
  BY <1>1 DEF CountedLen, Smaller
<1>3. Times(" ", Width(d) - CountedLen(d)) \in Text
  <2>1. Width(d) - CountedLen(d) \in Int
    BY <1>1, <1>2
  <2> QED BY <2>1, TimesIsText, OwnCharacters
<1>4. Clip(d.text, Prec(d)) \in Text
  BY <1>1, ClipIsText
<1> QED BY <1>1, <1>3, <1>4, Joined DEF StringText

LEMMA PointerIsText ==
  ASSUME NEW d \in Directives, d.kind = "p"
  PROVE  PointerText(d) \in Text /\ Len(PointerText(d)) <= Larger(PointerDigits, NtoaSize)
<1>1. d.arg \in Nat /\ Prec(d) \in Int /\ PointerDigits \in Int
  BY Fields, WidthAndPrec, Bounded DEF Wide, IntKinds
<1>2. FALSE \in BOOLEAN /\ 16 \in 2 .. 16
  OBVIOUS
<1> QED BY <1>1, <1>2, NtoaIsText DEF PointerText

LEMMA FloatIsText ==
  ASSUME NEW d \in Directives, d.kind = "f"
  PROVE  /\ FloatText(d) \in Text
         /\ d.class = "num" => Len(FloatText(d)) <= Larger(Width(d), FtoaSize)
<1>1. d.value \in Int /\ d.class \in {"num", "nan", "inf", "-inf"}
  BY Fields
<1>2. Width(d) \in Int /\ Prec(d) \in Nat
  BY WidthAndPrec DEF Wide, IntKinds
<1>3. CASE d.class = "num"
  BY <1>1, <1>2, <1>3, FtoaIsText DEF FloatText
<1>4. CASE d.class # "num"
  <2>1. d.class \in {"nan", "inf", "-inf"}
    BY <1>1, <1>4
  <2> QED BY <1>2, <1>4, <2>1, NotFiniteIsText DEF FloatText
<1> QED BY <1>3, <1>4
-------------------------------------------------------------------------------
(* The call *)

Known == Items \cup Singles

\* A buffer is written from its first cell on: until the call returns there is no
\* gap below the index.  Terminated rests on it.
Filled ==
  ret < 0 /\ ~toFct => \A c \in 0 .. Smaller(idx, maxlength) - 1 : memory[c] # Untouched

FInv ==
  /\ TypeOK
  /\ format \in Seq(Known)
  /\ maxlength \in 0 .. Cells
  /\ KeepsBounds
  /\ Filled
  /\ Terminated

LEMMA KnownDirectives == Known \subseteq Directives
BY ItemsAssumption DEF Known

LEMMA FormatInit == Init => FInv
<1> SUFFICES ASSUME Init PROVE FInv
  OBVIOUS
<1>1. format = << >> /\ toFct \in BOOLEAN /\ idx = 0 /\ ret = -1 /\ received = << >>
  BY DEF Init
<1>2. memory = [c \in 0 .. (Cells - 1) |-> Untouched]
  BY DEF Init
<1>3. maxlength \in MaxLengths \cup {Cells} /\ maxlength \in 0 .. Cells
  BY FormatAssumption DEF Init
<1>4. format \in Seq(Known) /\ Range(format) \subseteq Known /\ Len(format) <= MaxItems
  BY <1>1, FormatAssumption DEF Range
<1>5. TypeOK
  BY <1>1, <1>2, <1>3, <1>4 DEF TypeOK, Known
<1>6. KeepsBounds
  BY <1>2 DEF KeepsBounds
<1>7. Filled
  BY <1>1, <1>3 DEF Filled, Smaller
<1> QED BY <1>1, <1>3, <1>4, <1>5, <1>6, <1>7 DEF FInv, Terminated

\* The next item is added to those read.
LEMMA ReadItem ==
  ASSUME FInv, NEW d \in Known, Len(format) < MaxItems, format' = Append(format, d)
  PROVE  /\ format' \in Seq(Known) /\ Range(format') \subseteq Items \cup Singles
         /\ Len(format') <= MaxItems /\ Last(format') = d
<1>1. format \in Seq(Known)
  BY DEF FInv
<1>2. format' \in Seq(Known) /\ Len(format') = Len(format) + 1 /\ format'[Len(format) + 1] = d
  BY <1>1
<1>3. Range(format') \subseteq Known
  BY <1>2 DEF Range
<1>4. Len(format) \in Nat
  BY <1>1
<1> QED BY <1>2, <1>3, <1>4, FormatAssumption DEF Known, Last

LEMMA EmitKeeps ==
  ASSUME FInv, NEW d \in Known, Len(format) < MaxItems, format' = Append(format, d), ret < 0,
         NEW text \in Text, Emit(text)
  PROVE  FInv'
<1> DEFINE n == Len(text)
<1>1. n \in Nat /\ \A i \in 1 .. n : text[i] \in Characters
  BY TextLength
<1>2. idx' = idx + n /\ toFct' = toFct /\ maxlength' = maxlength /\ ret' = ret
  BY DEF Emit, call
<1>3. /\ idx \in Nat /\ maxlength \in 0 .. Cells /\ ret = -1 /\ Cells \in Nat
      /\ maxlength \in MaxLengths \cup {Cells} /\ toFct \in BOOLEAN
      /\ DOMAIN memory = 0 .. (Cells - 1) /\ received \in Text
  BY FormatAssumption DEF FInv, TypeOK, Text
<1>4. /\ toFct => received' = received \o Passed(text) /\ memory' = memory
      /\ ~toFct => received' = received
  BY DEF Emit, Out
<1>5. ~toFct => memory' = [c \in DOMAIN memory |->
                             IF c >= idx /\ c < idx + n /\ c < maxlength
                             THEN text[c - idx + 1] ELSE memory[c]]
  BY DEF Emit, Out
<1> HIDE DEF n
<1>6. DOMAIN memory' = 0 .. (Cells - 1)
  BY <1>3, <1>4, <1>5
<1>7. received' \in Seq(Characters)
  <2>1. Passed(text) \in Text
    BY PassedIsText
  <2>2. received \o Passed(text) \in Text
    BY <1>3, <2>1, Joined
  <2> QED BY <1>3, <1>4, <2>2 DEF Text
<1>8. TypeOK'
  BY <1>1, <1>2, <1>3, <1>6, <1>7, ReadItem DEF TypeOK
<1>9. KeepsBounds'
  <2> SUFFICES ASSUME NEW c \in DOMAIN memory', (toFct \/ c >= maxlength)' PROVE memory'[c] = Untouched
    BY DEF KeepsBounds
  <2>1. c \in DOMAIN memory /\ c \in Int /\ (toFct \/ c >= maxlength)
    BY <1>2, <1>3, <1>6
  <2>2. memory[c] = Untouched
    BY <2>1 DEF FInv, KeepsBounds
  <2>3. memory'[c] = memory[c]
    BY <1>3, <1>4, <1>5, <2>1
  <2> QED BY <2>2, <2>3
<1>10. Filled'
  <2> SUFFICES ASSUME ~toFct, NEW c \in 0 .. Smaller(idx + n, maxlength) - 1
               PROVE  memory'[c] # Untouched
    BY <1>2 DEF Filled
  <2>1. c \in 0 .. (Cells - 1) /\ c < idx + n /\ c < maxlength /\ c \in Nat
    BY <1>1, <1>3 DEF Smaller
  <2>2. CASE c < idx
    <3>1. c \in 0 .. Smaller(idx, maxlength) - 1
      BY <1>3, <2>1, <2>2 DEF Smaller
    <3>2. memory[c] # Untouched
      BY <1>3, <3>1 DEF FInv, Filled
    <3>3. memory'[c] = memory[c]
      BY <1>3, <1>5, <2>1, <2>2
    <3> QED BY <3>2, <3>3
  <2>3. CASE c >= idx
    <3>1. memory'[c] = text[c - idx + 1]
      BY <1>3, <1>5, <2>1, <2>3
    <3>2. c - idx + 1 \in 1 .. n
      BY <1>1, <1>3, <2>1, <2>3
    <3> QED BY <1>1, <3>1, <3>2, OwnCharacters
  <2> QED BY <1>3, <2>1, <2>2, <2>3
<1>11. Terminated'
  BY <1>2, <1>3 DEF Terminated
<1> QED BY <1>2, <1>3, <1>8, <1>9, <1>10, <1>11, ReadItem DEF FInv

\* A float that is too large takes the index back, and nothing is stored.
LEMMA FloatTooLargeKeeps ==
  ASSUME FInv, NEW d \in Known, Len(format) < MaxItems, ret < 0, FloatTooLarge(d)
  PROVE  FInv'
<1>1. /\ format' = Append(format, d) /\ idx' = 0 /\ toFct' = toFct /\ maxlength' = maxlength
      /\ memory' = memory /\ received' = received /\ ret' = ret
  BY DEF FloatTooLarge, Reads, call
<1>2. TypeOK'
  BY <1>1, ReadItem DEF TypeOK, FInv
<1>3. KeepsBounds'
  BY <1>1 DEF KeepsBounds, FInv
<1>4. Filled'
  <2>1. maxlength \in Nat
    BY FormatAssumption DEF FInv
  <2> QED BY <1>1, <2>1 DEF Filled, Smaller
<1>5. Terminated'
  <2>1. ret = -1
    BY DEF FInv, TypeOK
  <2> QED BY <1>1, <2>1 DEF Terminated
<1> QED BY <1>1, <1>2, <1>3, <1>4, <1>5, ReadItem DEF FInv

\* The terminator goes behind the text, or over its last character.
LEMMA TerminateKeeps ==
  ASSUME FInv, Terminate
  PROVE  FInv'
<1> DEFINE k == IF idx < maxlength THEN idx ELSE maxlength - 1
<1>1. /\ ret < 0 /\ ret' = idx /\ format' = format /\ idx' = idx /\ received' = received
      /\ toFct' = toFct /\ maxlength' = maxlength
      /\ memory' = IF toFct \/ maxlength = 0 THEN memory ELSE [memory EXCEPT ![k] = NUL]
  BY DEF Terminate, call
<1>2. /\ idx \in Nat /\ maxlength \in 0 .. Cells /\ Cells \in Nat
      /\ DOMAIN memory = 0 .. (Cells - 1)
  BY FormatAssumption DEF FInv, TypeOK
<1>3. maxlength # 0 => /\ k \in 0 .. (maxlength - 1) /\ k \in DOMAIN memory
                       /\ k - 1 <= Smaller(idx, maxlength) - 1
  BY <1>2 DEF Smaller
<1> HIDE DEF k
<1>4. TypeOK'
  BY <1>1, <1>2 DEF TypeOK, FInv
<1>5. KeepsBounds'
  <2> SUFFICES ASSUME NEW c \in DOMAIN memory', (toFct \/ c >= maxlength)' PROVE memory'[c] = Untouched
    BY DEF KeepsBounds
  <2>1. c \in DOMAIN memory /\ (toFct \/ c >= maxlength) /\ c \in Int
    BY <1>1, <1>2
  <2>2. memory[c] = Untouched
    BY <2>1 DEF FInv, KeepsBounds
  <2>3. toFct \/ maxlength = 0 \/ c # k
    BY <1>2, <1>3, <2>1
  <2> QED BY <1>1, <2>1, <2>2, <2>3
<1>6. Filled'
  BY <1>1, <1>2 DEF Filled
<1>7. Terminated'
  <2> SUFFICES ASSUME ~toFct, maxlength > 0
               PROVE  \E c \in 0 .. (maxlength - 1) :
                         /\ memory'[c] = NUL
                         /\ \A b \in 0 .. (c - 1) : memory'[b] # Untouched
    BY <1>1 DEF Terminated
  <2>1. memory' = [memory EXCEPT ![k] = NUL] /\ k \in 0 .. (maxlength - 1) /\ k \in DOMAIN memory
    BY <1>1, <1>3
  <2>2. memory'[k] = NUL
    BY <2>1
  <2>3. ASSUME NEW b \in 0 .. (k - 1) PROVE memory'[b] # Untouched
    <3>1. b \in 0 .. Smaller(idx, maxlength) - 1 /\ b \in DOMAIN memory /\ b # k
      BY <1>2, <1>3, <2>1 DEF Smaller
    <3>2. memory[b] # Untouched
      BY <1>1, <3>1 DEF FInv, Filled
    <3> QED BY <2>1, <3>1, <3>2
  <2> QED BY <2>1, <2>2, <2>3
<1> QED BY <1>1, <1>4, <1>5, <1>6, <1>7 DEF FInv

\* What a step that prints sends out, and how long it is.
LEMMA Printed ==
  ASSUME NEW d \in Known,
         Literal(d) \/ Integer(d) \/ Char(d) \/ String(d) \/ Pointer(d) \/ Float(d)
  PROVE  \E text \in Text :
            /\ format' = Append(format, d) /\ Emit(text)
            /\ d.kind \in IntKinds => Len(text) <= Larger(Width(d), NtoaSize)
            /\ d.kind = "p" => Len(text) <= Larger(PointerDigits, NtoaSize)
            /\ d.kind = "f" /\ d.class = "num" => Len(text) <= Larger(Width(d), FtoaSize)
<1>0. d \in Directives
  BY KnownDirectives
<1>1. CASE Literal(d)
  <2>1. d.kind = "char" /\ format' = Append(format, d) /\ Emit(<<d.char>>)
    BY <1>1 DEF Literal, Reads
  <2>2. <<d.char>> \in Text
    BY <1>0, <2>1, Fields, SingleIsText
  <2> QED BY <2>1, <2>2 DEF IntKinds
<1>2. CASE Integer(d)
  <2>1. d.kind \in IntKinds /\ format' = Append(format, d) /\ Emit(IntText(d))
    BY <1>2 DEF Integer, Reads
  <2>2. d.kind # "p" /\ d.kind # "f"
    BY <2>1 DEF IntKinds
  <2> QED BY <1>0, <2>1, <2>2, IntIsText
<1>3. CASE Char(d)
  <2>1. d.kind = "c" /\ format' = Append(format, d) /\ Emit(CharText(d))
    BY <1>3 DEF Char, Reads
  <2> QED BY <1>0, <2>1, CharIsText DEF IntKinds
<1>4. CASE String(d)
  <2>1. d.kind = "s" /\ format' = Append(format, d) /\ Emit(StringText(d))
    BY <1>4 DEF String, Reads
  <2> QED BY <1>0, <2>1, StringIsText DEF IntKinds
<1>5. CASE Pointer(d)
  <2>1. d.kind = "p" /\ format' = Append(format, d) /\ Emit(PointerText(d))
    BY <1>5 DEF Pointer, Reads
  <2> QED BY <1>0, <2>1, PointerIsText DEF IntKinds
<1>6. CASE Float(d)
  <2>1. d.kind = "f" /\ format' = Append(format, d) /\ Emit(FloatText(d))
    BY <1>6 DEF Float, Reads
  <2> QED BY <1>0, <2>1, FloatIsText DEF IntKinds
<1> QED BY <1>1, <1>2, <1>3, <1>4, <1>5, <1>6

PrintsItem(d) ==
  Literal(d) \/ Integer(d) \/ Char(d) \/ String(d) \/ Pointer(d) \/ Float(d)

LEMMA Steps ==
  ASSUME Next
  PROVE  \/ ret < 0 /\ Len(format) < MaxItems /\ \E d \in Known : PrintsItem(d) \/ FloatTooLarge(d)
         \/ Terminate
<1>1. CASE Terminate
  BY <1>1
<1>2. ASSUME ret < 0, Len(format) < MaxItems,
             NEW d \in Items \cup (IF format = << >> THEN Singles ELSE {}),
             Literal(d) \/ Integer(d) \/ Char(d) \/ String(d) \/ Pointer(d) \/ Float(d)
               \/ FloatTooLarge(d)
      PROVE  \E e \in Known : PrintsItem(e) \/ FloatTooLarge(e)
  <2>1. d \in Known
    BY <1>2 DEF Known
  <2> QED BY <1>2, <2>1 DEF PrintsItem
<1> QED BY <1>1, <1>2 DEF Next

LEMMA FormatStep == FInv /\ [Next]_vars => FInv'
<1> SUFFICES ASSUME FInv, [Next]_vars PROVE FInv'
  OBVIOUS
<1>1. ASSUME ret < 0, Len(format) < MaxItems, NEW d \in Known, PrintsItem(d) PROVE FInv'
  <2>1. PICK text \in Text : format' = Append(format, d) /\ Emit(text)
    BY <1>1, Printed DEF PrintsItem
  <2> QED BY <1>1, <2>1, EmitKeeps
<1>2. ASSUME ret < 0, Len(format) < MaxItems, NEW d \in Known, FloatTooLarge(d) PROVE FInv'
  BY <1>2, FloatTooLargeKeeps
<1>3. CASE Terminate
  BY <1>3, TerminateKeeps
<1>4. CASE UNCHANGED vars
  BY <1>4 DEF vars, FInv, TypeOK, KeepsBounds, Filled, Terminated
<1> QED BY <1>1, <1>2, <1>3, <1>4, Steps

LEMMA Invariance == Spec => []FInv
BY FormatInit, FormatStep, PTL DEF Spec

\* The index, the returned length and the text keep their types, and nothing is
\* stored in a buffer from the length that the caller gave on, by any format.
THEOREM FormatInOrder == Spec => []FormatInv
<1>1. FInv => FormatInv
  BY DEF FInv, FormatInv
<1> QED BY <1>1, Invariance, PTL

\* A buffer that has a cell holds a terminated string when the call returns, with
\* no unwritten cell before its end, truncated or not.
THEOREM TextTerminated == Spec => []Terminated
<1>1. FInv => Terminated
  BY DEF FInv
<1> QED BY <1>1, Invariance, PTL

\* No number is sent out longer than its width or the scratch buffer of its
\* conversion, whatever its flags, precision and value.
THEOREM ScratchHolds == Spec => HoldsScratch
<1> DEFINE Holds ==
       format' # format =>
         LET d     == Last(format')
             width == IF d.kind = "p" THEN PointerDigits
                      ELSE IF "width" \in DOMAIN d THEN Width(d) ELSE 0
             size  == IF d.kind = "f" THEN FtoaSize ELSE NtoaSize
         IN d.kind \in IntKinds \cup {"p"} \/ (d.kind = "f" /\ d.class = "num") =>
                idx' - idx <= IF width > size THEN width ELSE size
<1>1. FInv /\ [Next]_vars => Holds
  <2> SUFFICES ASSUME FInv, [Next]_vars PROVE Holds
    OBVIOUS
  <2>1. idx \in Nat /\ NtoaSize \in Nat /\ FtoaSize \in Nat /\ PointerDigits \in Nat
    BY Sizes, FormatAssumption DEF FInv, TypeOK
  <2>2. ASSUME ret < 0, Len(format) < MaxItems, NEW d \in Known, PrintsItem(d) PROVE Holds
    <3>1. PICK text \in Text :
            /\ format' = Append(format, d) /\ Emit(text)
            /\ d.kind \in IntKinds => Len(text) <= Larger(Width(d), NtoaSize)
            /\ d.kind = "p" => Len(text) <= Larger(PointerDigits, NtoaSize)
            /\ d.kind = "f" /\ d.class = "num" => Len(text) <= Larger(Width(d), FtoaSize)
      BY <2>2, Printed DEF PrintsItem
    <3>2. Last(format') = d
      BY <2>2, <3>1, ReadItem
    <3>3. idx' - idx = Len(text)
      <4>1. Len(text) \in Nat
        BY TextLength
      <4> QED BY <2>1, <3>1, <4>1 DEF Emit
    <3>4. d.kind \in IntKinds \cup {"f"} => "width" \in DOMAIN d
      BY KnownDirectives DEF Directives, IntKinds
    <3>5. "p" \notin IntKinds /\ "f" \notin IntKinds
      BY DEF IntKinds
    <3> QED BY <3>1, <3>2, <3>3, <3>4, <3>5 DEF Larger
  <2>3. ASSUME ret < 0, Len(format) < MaxItems, NEW d \in Known, FloatTooLarge(d) PROVE Holds
    <3>1. format' = Append(format, d) /\ d.kind = "f" /\ idx' = 0
      BY <2>3 DEF FloatTooLarge, Reads
    <3>2. Last(format') = d
      BY <2>3, <3>1, ReadItem
    <3>3. d \in Directives /\ "f" \notin IntKinds
      BY KnownDirectives DEF IntKinds
    <3>4. "width" \in DOMAIN d /\ Width(d) \in Nat
      BY <3>1, <3>3, WidthAndPrec DEF Directives, Wide, IntKinds
    <3>5. idx' - idx <= 0
      BY <2>1, <3>1
    <3> QED BY <2>1, <3>1, <3>2, <3>3, <3>4, <3>5
  <2>4. CASE Terminate \/ UNCHANGED vars
    BY <2>4 DEF Terminate, vars
  <2> QED BY <2>2, <2>3, <2>4, Steps
<1> QED BY <1>1, Invariance, PTL DEF Spec, HoldsScratch
-------------------------------------------------------------------------------
(* Texts character by character *)

LEMMA JoinedAt ==
  ASSUME NEW s \in Text, NEW t \in Text, NEW i \in 1 .. Len(s) + Len(t)
  PROVE  (s \o t)[i] = IF i <= Len(s) THEN s[i] ELSE t[i - Len(s)]
BY TextLength DEF Text

LEMMA SameText ==
  ASSUME NEW s \in Text, NEW t \in Text, Len(s) = Len(t), \A i \in 1 .. Len(s) : s[i] = t[i]
  PROVE  s = t
BY DEF Text

LEMMA Grouped ==
  ASSUME NEW s \in Text, NEW t \in Text, NEW u \in Text
  PROVE  (s \o t) \o u = s \o (t \o u)
BY DEF Text

LEMMA WithEmpty ==
  ASSUME NEW s \in Text
  PROVE  s \o << >> = s /\ << >> \o s = s
BY DEF Text

LEMMA ReverseJoined ==
  ASSUME NEW s \in Text, NEW t \in Text
  PROVE  Reverse(s \o t) = Reverse(t) \o Reverse(s)
BY DEF Text, Reverse

LEMMA ReverseTwice ==
  ASSUME NEW s \in Text
  PROVE  Reverse(Reverse(s)) = s
BY DEF Text, Reverse

LEMMA ReverseTimes ==
  ASSUME NEW c \in Characters, NEW n \in Int
  PROVE  Reverse(Times(c, n)) = Times(c, n)
BY DEF Times, Reverse

LEMMA ReverseSingle ==
  ASSUME NEW c \in Characters
  PROVE  Reverse(<<c>>) = <<c>>
BY DEF Reverse

LEMMA ReverseEmpty == Reverse(<< >>) = << >>
BY DEF Reverse

LEMMA TimesJoined ==
  ASSUME NEW c \in Characters, NEW a \in Nat, NEW b \in Nat
  PROVE  Times(c, a) \o Times(c, b) = Times(c, a + b)
BY DEF Times

LEMMA TimesNone ==
  ASSUME NEW c \in Characters, NEW n \in Int, n <= 0
  PROVE  Times(c, n) = << >>
BY DEF Times

LEMMA ClipAll ==
  ASSUME NEW t \in Text, NEW n \in Nat, Len(t) <= n
  PROVE  Clip(t, n) = t
BY DEF Text, Clip, Smaller

LEMMA PutRoom ==
  ASSUME NEW t \in Text, NEW c \in Characters, NEW n \in Nat, Len(t) < n
  PROVE  Put(t, c, n) = t \o <<c>>
BY DEF Text, Put, Clip, Smaller
-------------------------------------------------------------------------------
(* The layout of a number: what OutRev makes of a scratch buffer *)

Layout(sign, body, width, flags) ==
  LET n    == Len(sign) + Len(body)
      fill == IF "left" \notin flags /\ "zero" \in flags THEN Times("0", width - n) ELSE << >>
      gap  == Times(" ", width - n - Len(fill))
  IN IF "left" \in flags THEN sign \o body \o gap ELSE gap \o sign \o fill \o body

SignText(negative, flags) ==
  IF negative THEN <<"-">>
  ELSE IF "plus" \in flags THEN <<"+">>
  ELSE IF "space" \in flags THEN <<" ">> ELSE << >>

LEMMA SignIsText ==
  ASSUME NEW negative \in BOOLEAN, NEW flags
  PROVE  /\ SignText(negative, flags) \in Text
         /\ Len(SignText(negative, flags)) \in 0 .. 1
         /\ SignText(negative, flags) = << >> <=> Len(SignText(negative, flags)) = 0
         /\ Reverse(SignText(negative, flags)) = SignText(negative, flags)
<1>1. ASSUME NEW c \in Characters
      PROVE  <<c>> \in Text /\ Len(<<c>>) = 1 /\ Reverse(<<c>>) = <<c>> /\ <<c>> # << >>
  BY SingleIsText, ReverseSingle
<1> DEFINE s == SignText(negative, flags)
<1>2. s \in {<<"-">>, <<"+">>, <<" ">>, << >>}
  BY DEF SignText
<1> HIDE DEF s
<1>3. CASE s = << >>
  BY <1>3, EmptyIsText, ReverseEmpty DEF s
<1>4. CASE s # << >>
  <2>1. s \in Text /\ Len(s) = 1 /\ Reverse(s) = s
    BY <1>1, <1>2, <1>4, OwnCharacters
  <2> QED BY <1>4, <2>1 DEF s
<1> QED BY <1>3, <1>4

\* With room for it, the sign comes behind the digits.
LEMMA SignPut ==
  ASSUME NEW t \in Text, NEW negative \in BOOLEAN, NEW flags, NEW n \in Nat,
         Len(t) + Len(SignText(negative, flags)) <= n
  PROVE  PutSign(t, negative, flags, n) = t \o SignText(negative, flags)
<1> DEFINE s == SignText(negative, flags)
<1>1. Len(t) \in Nat /\ Len(t) + Len(s) <= n
  BY TextLength
<1>2. ASSUME NEW c \in Characters, s = <<c>>
      PROVE  Put(t, c, n) = t \o <<c>>
  <2>1. Len(s) = 1
    BY <1>2, SingleIsText, Zenon
  <2> HIDE DEF s
  <2>2. Len(t) < n
    BY <1>1, <2>1
  <2> QED BY <2>2, PutRoom
<1>3. CASE negative
  <2>1. s = <<"-">> /\ PutSign(t, negative, flags, n) = Put(t, "-", n)
    BY <1>3 DEF SignText, PutSign
  <2> HIDE DEF s
  <2> QED BY <1>2, <2>1, OwnCharacters DEF s
<1>4. CASE ~negative /\ "plus" \in flags
  <2>1. s = <<"+">> /\ PutSign(t, negative, flags, n) = Put(t, "+", n)
    BY <1>4 DEF SignText, PutSign
  <2> HIDE DEF s
  <2> QED BY <1>2, <2>1, OwnCharacters DEF s
<1>5. CASE ~negative /\ "plus" \notin flags /\ "space" \in flags
  <2>1. s = <<" ">> /\ PutSign(t, negative, flags, n) = Put(t, " ", n)
    BY <1>5 DEF SignText, PutSign
  <2> HIDE DEF s
  <2> QED BY <1>2, <2>1, OwnCharacters DEF s
<1>6. CASE ~negative /\ "plus" \notin flags /\ "space" \notin flags
  <2>1. s = << >> /\ PutSign(t, negative, flags, n) = t
    BY <1>6 DEF SignText, PutSign
  <2> QED BY <2>1, WithEmpty
<1> QED BY <1>3, <1>4, <1>5, <1>6

LEMMA InnerIs ==
  ASSUME NEW w \in Nat, NEW negative \in BOOLEAN, NEW flags
  PROVE  InnerWidth(w, negative, flags) =
           IF w > 0 /\ "left" \notin flags /\ "zero" \in flags /\ SignText(negative, flags) # << >>
           THEN w - 1 ELSE w
<1>1. SignText(negative, flags) # << >> <=> negative \/ "plus" \in flags \/ "space" \in flags
  BY DEF SignText
<1> QED BY <1>1 DEF InnerWidth

\* A buffer with its sign, padded with spaces.
LEMMA Spaced ==
  ASSUME NEW core \in Text, NEW w \in Nat, NEW negative \in BOOLEAN, NEW flags, NEW size \in Nat,
         Len(core) + Len(SignText(negative, flags)) <= size,
         "left" \in flags \/ "zero" \notin flags
  PROVE  OutRev(PutSign(core, negative, flags, size), InnerWidth(w, negative, flags), flags)
           = Layout(SignText(negative, flags), Reverse(core), w, flags)
<1> DEFINE s == SignText(negative, flags)
           t == core \o s
           r == Reverse(core)
<1>1. s \in Text /\ Reverse(s) = s /\ Len(s) \in Nat
  BY SignIsText
<1>2. PutSign(core, negative, flags, size) = t
  BY SignPut
<1>3. InnerWidth(w, negative, flags) = w
  BY InnerIs
<1> HIDE DEF s
<1>4. r \in Text /\ Len(r) = Len(core) /\ Len(core) \in Nat
  BY ReverseIsText, TextLength
<1>5. Reverse(t) = s \o r /\ Len(t) = Len(s) + Len(r)
  <2>1. Reverse(t) = Reverse(s) \o Reverse(core) /\ Len(t) = Len(core) + Len(s)
    BY <1>1, ReverseJoined, Joined
  <2> QED BY <1>1, <1>4, <2>1
<1> HIDE DEF r, t
<1> DEFINE m   == w - (Len(s) + Len(r))
           gap == Times(" ", m)
<1>6. gap \in Text
  <2>1. m \in Int
    BY <1>1, <1>4
  <2> QED BY <2>1, TimesIsText, OwnCharacters
<1>7. w - (Len(s) + Len(r)) - Len(<< >>) = w - (Len(s) + Len(r))
  BY <1>1, <1>4
<1>8. CASE "left" \in flags
  <2>1. OutRev(t, w, flags) = Reverse(t) \o Times(" ", w - Len(t))
    BY <1>8 DEF OutRev
  <2>2. Layout(s, r, w, flags) = s \o r \o gap
    BY <1>7, <1>8 DEF Layout
  <2> QED BY <1>2, <1>3, <1>5, <2>1, <2>2 DEF s, r
<1>9. CASE "left" \notin flags
  <2>1. OutRev(t, w, flags) = Times(" ", w - Len(t)) \o Reverse(t)
    BY <1>9 DEF OutRev
  <2>2. Layout(s, r, w, flags) = gap \o s \o << >> \o r
    BY <1>7, <1>9 DEF Layout
  <2>3. gap \o s \o << >> \o r = gap \o (s \o r)
    <3> HIDE DEF gap
    <3>1. gap \o s \in Text
      BY <1>1, <1>6, Joined
    <3>2. gap \o s \o << >> = gap \o s
      BY <3>1, WithEmpty
    <3> QED BY <1>1, <1>4, <1>6, <3>2, Grouped
  <2> HIDE DEF gap
  <2> QED BY <1>2, <1>3, <1>5, <2>1, <2>2, <2>3 DEF s, r, gap
<1> QED BY <1>8, <1>9

LEMMA ZeroFillIs ==
  ASSUME NEW t \in Text, NEW length \in Int, NEW n \in Nat, Len(t) <= n
  PROVE  \E k \in Nat : /\ ZeroFill(t, length, n) = t \o Times("0", k)
                        /\ k = IF Smaller(length, n) > Len(t) THEN Smaller(length, n) - Len(t) ELSE 0
<1>1. Len(t) \in Nat /\ Smaller(length, n) \in Int
  BY TextLength DEF Smaller
<1> DEFINE m == Smaller(length, n) - Len(t)
           k == IF m > 0 THEN m ELSE 0
<1>2. m \in Int /\ k \in Nat /\ (m > 0 <=> Smaller(length, n) > Len(t))
  BY <1>1
<1>3. ZeroFill(t, length, n) = t \o Times("0", m)
  BY DEF ZeroFill
<1> HIDE DEF m
<1>4. Times("0", m) = Times("0", k)
  BY <1>2 DEF Times
<1> QED BY <1>2, <1>3, <1>4 DEF m

\* A buffer with its sign, padded with zeros between the two.
LEMMA Zeroed ==
  ASSUME NEW core \in Text, NEW w \in Nat, NEW negative \in BOOLEAN, NEW flags, NEW size \in Nat,
         Len(core) + Len(SignText(negative, flags)) <= size,
         "left" \notin flags, "zero" \in flags,
         SignText(negative, flags) # << >> => w <= size
  PROVE  LET inner == InnerWidth(w, negative, flags)
         IN  OutRev(PutSign(ZeroFill(core, inner, size), negative, flags, size), inner, flags)
               = Layout(SignText(negative, flags), Reverse(core), w, flags)
<1> DEFINE s == SignText(negative, flags)
           r == Reverse(core)
           inner == InnerWidth(w, negative, flags)
           m == w - (Len(s) + Len(r))
<1>1. s \in Text /\ Reverse(s) = s /\ Len(s) \in 0 .. 1 /\ (s = << >> <=> Len(s) = 0)
  BY SignIsText
<1>2. inner = IF w > 0 /\ s # << >> THEN w - 1 ELSE w
  BY InnerIs
<1>3. r \in Text /\ Len(r) = Len(core) /\ Len(core) \in Nat /\ Len(core) + Len(s) <= size
  BY ReverseIsText, TextLength
<1>4. s # << >> => w <= size
  OBVIOUS
<1>5. inner \in Int
  BY <1>2
<1> HIDE DEF inner
<1>6. PICK k \in Nat :
        /\ ZeroFill(core, inner, size) = core \o Times("0", k)
        /\ k = IF Smaller(inner, size) > Len(core) THEN Smaller(inner, size) - Len(core) ELSE 0
  <2>1. Len(core) <= size
    BY <1>1, <1>3
  <2> QED BY ONLY <1>5, <2>1, core \in Text, size \in Nat, ZeroFillIs
<1> DEFINE f == core \o Times("0", k)
<1>7. /\ Times("0", k) \in Text /\ Len(Times("0", k)) = k /\ Reverse(Times("0", k)) = Times("0", k)
  <2>1. k \in Int /\ (k > 0 \/ k = 0)
    OBVIOUS
  <2>2. Times("0", k) \in Text /\ Len(Times("0", k)) = IF k > 0 THEN k ELSE 0
    BY <2>1, TimesIsText, OwnCharacters
  <2>3. Reverse(Times("0", k)) = Times("0", k)
    BY <2>1, ReverseTimes, OwnCharacters
  <2> QED BY <2>1, <2>2, <2>3
<1>8. f \in Text /\ Len(f) = Len(core) + k /\ Reverse(f) = Times("0", k) \o r
  BY <1>7, Joined, ReverseJoined
<1>10. PutSign(f, negative, flags, size) = f \o s
  <2> HIDE DEF f
  <2>1. Len(f) + Len(s) <= size
    <3> HIDE DEF s
    <3>1. CASE s = << >>
      BY <1>1, <1>2, <1>3, <1>6, <1>8, <3>1 DEF Smaller
    <3>2. CASE s # << >>
      <4>1. w <= size /\ Len(s) = 1 /\ inner = IF w > 0 THEN w - 1 ELSE w
        BY <1>1, <1>2, <1>4, <3>2
      <4> QED BY <1>3, <1>6, <1>8, <4>1 DEF Smaller
    <3> QED BY <3>1, <3>2
  <2> QED BY <1>8, <2>1, SignPut
<1> HIDE DEF s, f, r
<1> DEFINE t == f \o s
<1>11. t \in Text /\ Len(t) = Len(core) + k + Len(s) /\ Reverse(t) = s \o (Times("0", k) \o r)
  BY <1>1, <1>8, Joined, ReverseJoined
<1> HIDE DEF t
<1>12. OutRev(t, inner, flags) = Times("0", inner - Len(t)) \o Reverse(t)
  BY DEF OutRev
<1> DEFINE fill == Times("0", m)
           gap  == Times(" ", m - Len(fill))
<1>13. m \in Int
  BY <1>1, <1>3
<1>14. fill \in Text /\ Len(fill) = IF m > 0 THEN m ELSE 0
  BY <1>13, TimesIsText, OwnCharacters
<1>15. gap = << >>
  <2>1. m - Len(fill) \in Int /\ m - Len(fill) <= 0
    BY <1>13, <1>14
  <2> QED BY <2>1, TimesNone, OwnCharacters
<1>16. Layout(s, r, w, flags) = gap \o s \o fill \o r
  BY DEF Layout
<1> HIDE DEF fill, gap
<1>17. Layout(s, r, w, flags) = s \o fill \o r
  BY <1>1, <1>15, <1>16, WithEmpty
<1>18. CASE s = << >>
  <2>1. inner = w /\ Len(s) = 0 /\ s \in Text
    BY <1>1, <1>2, <1>18
  <2>2. OutRev(t, inner, flags) = Times("0", w - Len(core) - k) \o (Times("0", k) \o r)
    <3>1. Reverse(t) = Times("0", k) \o r
      BY <1>3, <1>7, <1>11, <1>18, Joined, WithEmpty
    <3>2. inner - Len(t) = w - Len(core) - k
      BY <1>3, <1>11, <2>1
    <3> QED BY <1>12, <3>1, <3>2
  <2>3. Times("0", w - Len(core) - k) \o Times("0", k) = fill
    <3> DEFINE j == w - Len(core) - k
    <3>1. j \in Int /\ j = w - Len(core) - k /\ m = w - Len(core)
      BY <1>3, <2>1
    <3> HIDE DEF j, m
    <3>2. CASE j > 0
      <4>1. j \in Nat /\ j + k = m
        BY <1>3, <3>1, <3>2
      <4>2. Times("0", j) \o Times("0", k) = Times("0", j + k)
        BY <4>1, TimesJoined, OwnCharacters
      <4> QED BY <4>1, <4>2 DEF fill, j
    <3>3. CASE j <= 0
      <4>1. Times("0", j) = << >>
        BY <3>1, <3>3, TimesNone, OwnCharacters
      <4>2. k = IF m > 0 THEN m ELSE 0
        BY <1>3, <1>6, <2>1, <3>1, <3>3 DEF Smaller
      <4>3. Times("0", k) = fill
        BY <1>13, <4>2 DEF fill, Times
      <4> QED BY <1>7, <4>1, <4>3, WithEmpty DEF j
    <3> QED BY <3>1, <3>2, <3>3
  <2>4. Times("0", w - Len(core) - k) \in Text
    <3>1. w - Len(core) - k \in Int
      BY <1>3
    <3> QED BY <3>1, TimesIsText, OwnCharacters
  <2>5. s \o fill \o r = fill \o r
    BY <1>14, <1>18, <2>1, WithEmpty
  <2> QED BY <1>3, <1>6, <1>7, <1>10, <1>17, <2>2, <2>3, <2>4, <2>5, Grouped DEF t, s, r, f, inner
<1>19. CASE s # << >>
  <2>1. Len(s) = 1 /\ w <= size
    BY <1>1, <1>4, <1>19
  <2>2. inner - Len(t) <= 0 /\ inner - Len(t) \in Int
    BY <1>2, <1>3, <1>6, <1>11, <2>1, <1>19 DEF Smaller
  <2>3. OutRev(t, inner, flags) = s \o (Times("0", k) \o r)
    <3>1. Times("0", inner - Len(t)) = << >>
      BY <2>2, TimesNone, OwnCharacters
    <3>2. Reverse(t) \in Text
      BY <1>11, ReverseIsText
    <3> QED BY <1>11, <1>12, <3>1, <3>2, WithEmpty
  <2>4. k = IF m > 0 THEN m ELSE 0
    BY <1>2, <1>3, <1>6, <1>19, <2>1 DEF Smaller
  <2>5. Times("0", k) = fill
    BY <1>13, <2>4 DEF fill, Times
  <2>6. s \o fill \o r = s \o (fill \o r)
    BY <1>1, <1>3, <1>14, Grouped
  <2> QED BY <1>6, <1>10, <1>17, <2>3, <2>5, <2>6 DEF t, s, r, f, inner
<1> QED BY <1>18, <1>19
-------------------------------------------------------------------------------
(* Integers: the prefix, and the layout of what _ntoa_format makes *)

PrefixText(base, flags) ==
  IF base = 16 THEN IF "upper" \in flags THEN <<"0", "X">> ELSE <<"0", "x">>
  ELSE IF base = 2 THEN <<"0", "b">> ELSE <<"0">>

Mark(base, flags) ==
  IF base = 16 THEN IF "upper" \in flags THEN <<"X">> ELSE <<"x">>
  ELSE IF base = 2 THEN <<"b">> ELSE << >>

Bare(buf, base, prec, width, flags) ==
  IF "prec" \notin flags /\ Len(buf) > 0 /\ Len(buf) \in {prec, width}
  THEN SubSeq(buf, 1, Len(buf) - (IF Len(buf) > 1 /\ base = 16 THEN 2 ELSE 1))
  ELSE buf

LEMMA PrefixIsText ==
  ASSUME NEW base, NEW flags
  PROVE  /\ PrefixText(base, flags) \in Text
         /\ Mark(base, flags) \in Text
         /\ Len(PrefixText(base, flags)) = Len(Mark(base, flags)) + 1
         /\ Len(PrefixText(base, flags)) = IF base \in {2, 16} THEN 2 ELSE 1
         /\ Reverse(PrefixText(base, flags)) = Mark(base, flags) \o <<"0">>
<1> DEFINE p == PrefixText(base, flags)
           m == Mark(base, flags)
<1>1. ASSUME NEW c \in Characters, p = <<"0", c>>, m = <<c>>
      PROVE  p \in Text /\ m \in Text /\ Len(p) = 2 /\ Len(m) = 1 /\ Reverse(p) = m \o <<"0">>
  <2>1. <<"0", c>> = <<"0">> \o <<c>>
    OBVIOUS
  <2>2. /\ <<"0">> \in Text /\ Len(<<"0">>) = 1 /\ Reverse(<<"0">>) = <<"0">>
        /\ <<c>> \in Text /\ Len(<<c>>) = 1 /\ Reverse(<<c>>) = <<c>>
    BY SingleIsText, ReverseSingle, OwnCharacters
  <2>3. /\ <<"0">> \o <<c>> \in Text /\ Len(<<"0">> \o <<c>>) = 1 + 1
        /\ Reverse(<<"0">> \o <<c>>) = <<c>> \o <<"0">>
    BY <2>2, Joined, ReverseJoined
  <2> HIDE DEF p, m
  <2> QED BY <1>1, <2>1, <2>2, <2>3
<1>2. CASE base \in {2, 16}
  <2>1. p \in {<<"0", "X">>, <<"0", "x">>, <<"0", "b">>}
        /\ (p = <<"0", "X">> => m = <<"X">>) /\ (p = <<"0", "x">> => m = <<"x">>)
        /\ (p = <<"0", "b">> => m = <<"b">>)
    BY <1>2 DEF PrefixText, Mark
  <2> HIDE DEF p, m
  <2>2. p \in Text /\ m \in Text /\ Len(p) = 2 /\ Len(m) = 1 /\ Reverse(p) = m \o <<"0">>
    BY <1>1, <2>1, OwnCharacters
  <2> QED BY <1>2, <2>2 DEF p, m
<1>3. CASE base \notin {2, 16}
  <2>1. p = <<"0">> /\ m = << >>
    BY <1>3 DEF PrefixText, Mark
  <2>2. <<"0">> \in Text /\ Len(<<"0">>) = 1 /\ Reverse(<<"0">>) = <<"0">>
    BY SingleIsText, ReverseSingle, OwnCharacters
  <2> QED BY <1>3, <2>1, <2>2, EmptyIsText, WithEmpty
<1> QED BY <1>2, <1>3

LEMMA PrefixPut ==
  ASSUME NEW buf \in Text, NEW bare \in Text, NEW base, NEW prec, NEW width, NEW flags,
         Bare(buf, base, prec, width, flags) = bare,
         Len(bare) + Len(PrefixText(base, flags)) <= NtoaSize
  PROVE  PutPrefix(buf, base, prec, width, flags) = bare \o Reverse(PrefixText(base, flags))
<1> DEFINE mark == Mark(base, flags)
           p == PrefixText(base, flags)
           t == bare \o mark
<1>1. mark \in Text /\ Len(p) = Len(mark) + 1 /\ Reverse(p) = mark \o <<"0">> /\ p \in Text
  BY PrefixIsText
<1>2. PutPrefix(buf, base, prec, width, flags) = Put(Clip(bare \o mark, NtoaSize), "0", NtoaSize)
  <2>1. mark = CASE base = 16 -> <<IF "upper" \in flags THEN "X" ELSE "x">>
                 [] base = 2  -> <<"b">>
                 [] OTHER     -> <<>>
    BY DEF Mark
  <2> QED BY <2>1 DEF PutPrefix, Bare
<1>3. Len(bare) + Len(p) <= NtoaSize /\ bare \in Text
  OBVIOUS
<1> HIDE DEF mark, p
<1>4. t \in Text /\ Len(t) = Len(bare) + Len(mark)
  BY <1>1, <1>3, Joined
<1>5. Len(bare) \in Nat /\ Len(mark) \in Nat /\ NtoaSize \in Nat
  BY <1>1, <1>3, TextLength, Sizes
<1> HIDE DEF t
<1>6. Len(t) < NtoaSize /\ Len(t) <= NtoaSize
  BY <1>1, <1>3, <1>4, <1>5
<1>7. Clip(t, NtoaSize) = t
  BY <1>4, <1>5, <1>6, ClipAll
<1>8. Put(t, "0", NtoaSize) = t \o <<"0">>
  BY <1>4, <1>5, <1>6, PutRoom, OwnCharacters
<1>9. <<"0">> \in Text
  BY SingleIsText, OwnCharacters
<1>10. (bare \o mark) \o <<"0">> = bare \o (mark \o <<"0">>)
  BY <1>1, <1>3, <1>9, Grouped
<1> QED BY <1>1, <1>2, <1>7, <1>8, <1>10 DEF p, t

\* Sign and prefix together, with what stands between them and the digits.
LEMMA LayoutJoined ==
  ASSUME NEW s \in Text, NEW p \in Text, NEW t \in Text, NEW w \in Nat, NEW flags,
         "left" \in flags \/ "zero" \notin flags
  PROVE  Layout(s, p \o t, w, flags) = Layout(s \o p, t, w, flags)
<1>1. Len(s) + Len(p \o t) = Len(s \o p) + Len(t)
  <2>1. Len(s) \in Nat /\ Len(p) \in Nat /\ Len(t) \in Nat
    BY TextLength
  <2>2. Len(p \o t) = Len(p) + Len(t) /\ Len(s \o p) = Len(s) + Len(p)
    BY Joined
  <2> QED BY <2>1, <2>2
<1> DEFINE m   == w - (Len(s \o p) + Len(t)) - Len(<< >>)
           gap == Times(" ", m)
<1>2. gap \in Text
  <2>1. m \in Int
    BY TextLength, Joined, EmptyIsText
  <2> HIDE DEF m
  <2> QED BY <2>1, TimesIsText, OwnCharacters
<1>3. /\ Layout(s, p \o t, w, flags)
           = IF "left" \in flags THEN s \o (p \o t) \o gap ELSE gap \o s \o << >> \o (p \o t)
      /\ Layout(s \o p, t, w, flags)
           = IF "left" \in flags THEN (s \o p) \o t \o gap ELSE gap \o (s \o p) \o << >> \o t
  BY <1>1 DEF Layout
<1> HIDE DEF gap
<1>4. s \o (p \o t) = (s \o p) \o t
  BY Grouped
<1>5. gap \o s \in Text /\ gap \o (s \o p) \in Text /\ s \o p \in Text
  BY <1>2, Joined
<1>6. gap \o s \o << >> \o (p \o t) = (gap \o s) \o (p \o t)
  BY <1>5, WithEmpty
<1>7. (gap \o s) \o (p \o t) = (gap \o s \o p) \o t
  <2> DEFINE g == gap \o s
  <2>1. g \in Text
    BY <1>5
  <2> HIDE DEF g
  <2>2. g \o (p \o t) = (g \o p) \o t
    BY <2>1, Grouped
  <2> QED BY <2>2 DEF g
<1>8. gap \o s \o p = gap \o (s \o p)
  BY <1>2, Grouped
<1>9. gap \o (s \o p) \o << >> = gap \o (s \o p)
  BY <1>5, WithEmpty
<1> QED BY <1>3, <1>4, <1>6, <1>7, <1>8, <1>9

\* No sign and no prefix.
LEMMA LayoutZeros ==
  ASSUME NEW sign \in Text, NEW t \in Text, NEW w \in Nat, NEW flags,
         w <= Len(sign) + Len(t), "left" \notin flags, "zero" \in flags
  PROVE  Layout(sign, t, w, flags) = sign \o t
<1> DEFINE m == w - (Len(sign) + Len(t))
           fill == Times("0", m)
           gap == Times(" ", m - Len(fill))
<1>1. m \in Int /\ m <= 0
  BY TextLength
<1>2. Layout(sign, t, w, flags) = gap \o sign \o fill \o t
  BY DEF Layout
<1> HIDE DEF m
<1>3. fill = << >> /\ Len(fill) = 0
  BY <1>1, TimesNone, OwnCharacters, EmptyIsText
<1>4. m - Len(fill) \in Int /\ m - Len(fill) <= 0
  BY <1>1, <1>3
<1> HIDE DEF fill
<1>5. gap = << >>
  BY <1>4, TimesNone, OwnCharacters
<1> HIDE DEF gap
<1> QED BY <1>2, <1>3, <1>5, WithEmpty

\* Zeros between a prefix and the digits: the prefix takes the place of some.
LEMMA Prefixed ==
  ASSUME NEW digits \in Text, NEW base \in {2, 8, 10, 16}, NEW w \in Nat, NEW flags,
         Len(digits) > 0, Len(digits) # w,
         Len(digits) + Len(PrefixText(base, flags)) <= NtoaSize,
         "left" \notin flags, "zero" \in flags, "prec" \notin flags,
         Len(digits) < w =>
           base # 2 /\ Len(digits) + Len(PrefixText(base, flags)) <= w /\ w <= NtoaSize
  PROVE  OutRev(PutPrefix(ZeroFill(digits, w, NtoaSize), base, 0, w, flags), w, flags)
           = Layout(PrefixText(base, flags), Reverse(digits), w, flags)
<1> DEFINE p == PrefixText(base, flags)
           r == Reverse(digits)
           n == Len(digits)
<1>1. p \in Text /\ Len(p) = IF base \in {2, 16} THEN 2 ELSE 1
  BY PrefixIsText
<1>2. r \in Text /\ Len(r) = n /\ n \in Nat /\ NtoaSize \in Nat
  BY ReverseIsText, TextLength, Sizes
<1>3. /\ n > 0 /\ n # w /\ n + Len(p) <= NtoaSize
      /\ n < w => base # 2 /\ n + Len(p) <= w /\ w <= NtoaSize
  OBVIOUS
<1> HIDE DEF p
<1>4. Reverse(p) \in Text /\ Reverse(Reverse(p)) = p /\ Len(Reverse(p)) = Len(p)
  BY <1>1, ReverseIsText, ReverseTwice
<1>5. PICK k \in Nat :
        /\ ZeroFill(digits, w, NtoaSize) = digits \o Times("0", k)
        /\ k = IF Smaller(w, NtoaSize) > n THEN Smaller(w, NtoaSize) - n ELSE 0
  <2>1. w \in Int /\ n <= NtoaSize
    BY <1>1, <1>2, <1>3
  <2> QED BY <1>2, <2>1, ZeroFillIs
<1> HIDE DEF n
<1>6. \A j \in Nat : /\ Times("0", j) \in Text /\ Len(Times("0", j)) = j
                     /\ Reverse(Times("0", j)) = Times("0", j)
  <2> TAKE j \in Nat
  <2>1. j \in Int /\ (IF j > 0 THEN j ELSE 0) = j
    OBVIOUS
  <2> QED BY <2>1, TimesIsText, ReverseTimes, OwnCharacters
<1>10. \A j \in Nat : /\ digits \o Times("0", j) \in Text
                      /\ Len(digits \o Times("0", j)) = n + j
                      /\ Reverse(digits \o Times("0", j)) = Times("0", j) \o r
  <2> TAKE j \in Nat
  <2>1. Times("0", j) \in Text /\ Len(Times("0", j)) = j /\ Reverse(Times("0", j)) = Times("0", j)
    BY <1>6
  <2> QED BY <2>1, Joined, ReverseJoined DEF n
\* of a buffer that holds the digits, zeros and the prefix
<1>7. ASSUME NEW j \in Nat, n + j + Len(p) <= NtoaSize, w <= n + j + Len(p),
             Bare(digits \o Times("0", k), base, 0, w, flags) = digits \o Times("0", j)
      PROVE  OutRev(PutPrefix(ZeroFill(digits, w, NtoaSize), base, 0, w, flags), w, flags)
               = p \o (Times("0", j) \o r)
  <2> DEFINE bare == digits \o Times("0", j)
             t    == bare \o Reverse(p)
  <2>1. bare \in Text /\ Len(bare) = n + j /\ Reverse(bare) = Times("0", j) \o r
    BY <1>10
  <2>2. digits \o Times("0", k) \in Text
    BY <1>10
  <2>3. PutPrefix(digits \o Times("0", k), base, 0, w, flags) = t
    <3> DEFINE full == digits \o Times("0", k)
    <3>1. Bare(full, base, 0, w, flags) = bare /\ full \in Text
      BY <1>7, <2>2
    <3> HIDE DEF bare, full
    <3>2. Len(bare) + Len(p) <= NtoaSize
      BY <1>7, <2>1
    <3>3. PutPrefix(full, base, 0, w, flags) = bare \o Reverse(PrefixText(base, flags))
      <4>1. bare \in Text /\ Len(bare) + Len(PrefixText(base, flags)) <= NtoaSize
        BY <2>1, <3>2 DEF p
      <4>2. base \in Int /\ 0 \in Int /\ w \in Int
        OBVIOUS
      <4> HIDE DEF p
      <4> QED BY <3>1, <4>1, <4>2, PrefixPut
    <3> QED BY <3>3 DEF p, full
  <2> HIDE DEF bare
  <2>4. Reverse(t) = p \o Reverse(bare) /\ t \in Text /\ Len(t) = n + j + Len(p)
    BY <1>4, <2>1, Joined, ReverseJoined
  <2> HIDE DEF t
  <2>5. OutRev(t, w, flags) = Times("0", w - Len(t)) \o Reverse(t)
    BY DEF OutRev
  <2>6. w - Len(t) \in Int /\ w - Len(t) <= 0
    BY <1>1, <1>2, <1>7, <2>4
  <2>7. Times("0", w - Len(t)) = << >>
    BY <2>6, TimesNone, OwnCharacters
  <2>8. Reverse(t) \in Text
    BY <2>4, ReverseIsText
  <2>9. OutRev(t, w, flags) = Reverse(t)
    BY <2>5, <2>7, <2>8, WithEmpty
  <2> QED BY <1>5, <2>1, <2>3, <2>4, <2>9
<1>8. CASE w < n
  <2>1. k = 0
    BY <1>2, <1>5, <1>8 DEF Smaller
  <2>2. Times("0", 0) = << >>
    BY DEF Times
  <2>3. digits \o Times("0", k) = digits /\ Times("0", 0) \o r = r
    BY <1>2, <2>1, <2>2, WithEmpty
  <2>4. Bare(digits, base, 0, w, flags) = digits
    BY <1>2, <1>3, <1>8 DEF Bare, n
  <2>5. Layout(p, r, w, flags) = p \o r
    <3>1. w <= Len(p) + Len(r)
      BY <1>1, <1>2, <1>8
    <3> QED BY <1>1, <1>2, <3>1, LayoutZeros
  <2>6. n + 0 + Len(p) <= NtoaSize /\ w <= n + 0 + Len(p) /\ 0 \in Nat
    BY <1>1, <1>2, <1>3, <1>8
  <2>7. Bare(digits \o Times("0", k), base, 0, w, flags) = digits \o Times("0", 0)
    BY <2>1, <2>3, <2>4
  <2> QED BY <1>7, <2>3, <2>5, <2>6, <2>7 DEF p, r
<1>9. CASE n < w
  <2> DEFINE j == w - n - Len(p)
             full == digits \o Times("0", k)
  <2>1. j \in Nat /\ k = w - n /\ n + j + Len(p) = w /\ w <= NtoaSize /\ base # 2
    BY <1>1, <1>2, <1>3, <1>5, <1>9 DEF Smaller
  <2>2. full \in Text /\ Len(full) = w
    <3>1. n + k = w
      BY <1>2, <2>1
    <3> QED BY <1>10, <3>1
  <2> HIDE DEF j, full
  <2>3. w > 1 /\ (base = 16 => w > 2)
    BY <1>1, <1>2, <1>3, <1>9
  <2>4. Bare(full, base, 0, w, flags) = SubSeq(full, 1, n + j)
    <3>1. Len(p) = IF base = 16 THEN 2 ELSE 1
      BY <1>1, <2>1
    <3>2. w - (IF w > 1 /\ base = 16 THEN 2 ELSE 1) = n + j
      BY <1>2, <2>1, <2>3, <3>1
    <3> QED BY <2>2, <2>3, <3>2 DEF Bare
  <2>5. SubSeq(full, 1, n + j) = digits \o Times("0", j)
    <3>1. digits \o Times("0", j) \in Text /\ Len(digits \o Times("0", j)) = n + j
      BY <1>10, <2>1
    <3>2. n + j \in 0 .. w
      BY <1>1, <1>2, <2>1
    <3>3. SubSeq(full, 1, n + j) \in Text /\ Len(SubSeq(full, 1, n + j)) = n + j
      BY <2>2, <3>2 DEF Text
    <3>4. ASSUME NEW i \in 1 .. n + j
          PROVE  SubSeq(full, 1, n + j)[i] = (digits \o Times("0", j))[i]
      <4>1. SubSeq(full, 1, n + j)[i] = full[i]
        BY <2>2, <3>2 DEF Text
      <4>2. i \in 1 .. n + k /\ i \in 1 .. n + j
        BY <1>1, <1>2, <2>1
      <4>3. i > n => Times("0", k)[i - n] = "0" /\ Times("0", j)[i - n] = "0"
        <5> HAVE i > n
        <5>1. i - n \in 1 .. k /\ i - n \in 1 .. j /\ k > 0 /\ j > 0
          BY <1>2, <2>1, <4>2
        <5> QED BY <5>1 DEF Times
      <4>4. full[i] = IF i <= n THEN digits[i] ELSE Times("0", k)[i - n]
        BY <1>6, <4>2, JoinedAt DEF full, n
      <4>5. (digits \o Times("0", j))[i] = IF i <= n THEN digits[i] ELSE Times("0", j)[i - n]
        <5>1. Times("0", j) \in Text /\ Len(Times("0", j)) = j
          BY <1>6, <2>1
        <5> DEFINE z == Times("0", j)
        <5>2. z \in Text /\ i \in 1 .. Len(digits) + Len(z)
          BY <4>2, <5>1 DEF n
        <5> HIDE DEF z
        <5>3. (digits \o z)[i] = IF i <= n THEN digits[i] ELSE z[i - n]
          BY <5>2, JoinedAt DEF n
        <5> QED BY <5>3 DEF z
      <4>6. CASE i <= n
        BY <4>1, <4>4, <4>5, <4>6, Zenon
      <4>7. CASE ~ (i <= n)
        <5>1. i > n
          BY <1>2, <4>2, <4>7
        <5> QED BY <4>1, <4>3, <4>4, <4>5, <4>7, <5>1, Zenon
      <4> QED BY <4>6, <4>7
    <3> QED BY <3>1, <3>3, <3>4, SameText
  <2>6. Layout(p, r, w, flags) = p \o (Times("0", j) \o r)
    <3> DEFINE m == w - (Len(p) + Len(r))
               fill == Times("0", m)
               gap  == Times(" ", m - Len(fill))
    <3>1. m = j
      BY <1>1, <1>2, <2>1
    <3>2. Layout(p, r, w, flags) = gap \o p \o fill \o r
      BY DEF Layout
    <3> HIDE DEF m
    <3>3. fill \in Text /\ Len(fill) = m /\ m - Len(fill) <= 0 /\ m - Len(fill) \in Int
      BY <1>6, <2>1, <3>1
    <3> HIDE DEF fill
    <3>4. gap = << >>
      BY <3>3, TimesNone, OwnCharacters
    <3> HIDE DEF gap
    <3>5. gap \o p = p
      BY <1>1, <3>4, WithEmpty
    <3>6. p \o fill \o r = p \o (fill \o r)
      BY <1>1, <1>2, <3>3, Grouped
    <3> QED BY <3>1, <3>2, <3>5, <3>6 DEF fill
  <2>7. n + j + Len(p) <= NtoaSize /\ w <= n + j + Len(p)
    BY <1>1, <1>2, <2>1
  <2>8. Bare(digits \o Times("0", k), base, 0, w, flags) = digits \o Times("0", j)
    BY <2>4, <2>5 DEF full
  <2>9. OutRev(PutPrefix(ZeroFill(digits, w, NtoaSize), base, 0, w, flags), w, flags)
          = p \o (Times("0", j) \o r)
    BY <1>7, <2>1, <2>7, <2>8
  <2> QED BY <2>6, <2>9 DEF p, r
<1>11. w < n \/ n < w
  BY <1>2, <1>3
<1> QED BY <1>8, <1>9, <1>11

HashText(base, flags) == IF "hash" \in flags THEN PrefixText(base, flags) ELSE << >>

\* Of the lengths of digits, sign and prefix: the scratch buffer holds them, and
\* no rule of _ntoa_format for prefix and padding meets digits it takes for padding.
Agreed(n, s, p, base, prec, w, flags) ==
  /\ s + p + n <= NtoaSize /\ s + p + prec <= NtoaSize
  /\ "left" \in flags => prec <= n
  /\ "zero" \in flags => "prec" \notin flags
  /\ "prec" \notin flags => prec = 0 /\ n > 0
  /\ "zero" \in flags /\ "left" \notin flags /\ s > 0 => w <= NtoaSize /\ p = 0
  /\ p > 0 =>
       /\ n # w \/ "prec" \in flags
       /\ "zero" \in flags /\ "left" \notin flags /\ n < w =>
            base # 2 /\ n + p <= w /\ w <= NtoaSize

LEMMA HashIsText ==
  ASSUME NEW base, NEW flags
  PROVE  /\ HashText(base, flags) \in Text
         /\ "hash" \notin flags => HashText(base, flags) = << >> /\ Len(HashText(base, flags)) = 0
         /\ "hash" \in flags =>
              HashText(base, flags) = PrefixText(base, flags) /\ Len(HashText(base, flags)) > 0
<1>1. CASE "hash" \in flags
  <2>1. HashText(base, flags) = PrefixText(base, flags)
    BY <1>1 DEF HashText
  <2>2. PrefixText(base, flags) \in Text /\ Len(PrefixText(base, flags)) > 0
    BY PrefixIsText
  <2> QED BY <1>1, <2>1, <2>2
<1>2. CASE "hash" \notin flags
  BY <1>2, EmptyIsText DEF HashText
<1> QED BY <1>1, <1>2

\* What NtoaFormat prints: sign and prefix, zeros up to the precision, the digits.
LEMMA NtoaLaid ==
  ASSUME NEW digits \in Text, NEW negative \in BOOLEAN, NEW base \in {2, 8, 10, 16},
         NEW prec \in Nat, NEW w \in Nat, NEW flags,
         Agreed(Len(digits), Len(SignText(negative, flags)), Len(HashText(base, flags)),
                base, prec, w, flags)
  PROVE  NtoaFormat(digits, negative, base, prec, w, flags)
           = Layout(SignText(negative, flags) \o HashText(base, flags),
                    Times("0", prec - Len(digits)) \o Reverse(digits),
                    w, flags)
<1> DEFINE n      == Len(digits)
           r      == Reverse(digits)
           sign   == SignText(negative, flags)
           prefix == HashText(base, flags)
           zeros  == Times("0", prec - n)
           s      == Len(sign)
           p      == Len(prefix)
           inner  == InnerWidth(w, negative, flags)
           filled == IF "left" \in flags THEN digits
                     ELSE ZeroFill(ZeroFill(digits, prec, NtoaSize),
                                   IF "zero" \in flags THEN inner ELSE 0, NtoaSize)
           marked == IF "hash" \in flags THEN PutPrefix(filled, base, prec, inner, flags) ELSE filled
<1>1. NtoaFormat(digits, negative, base, prec, w, flags)
        = OutRev(PutSign(marked, negative, flags, NtoaSize), inner, flags)
  BY DEF NtoaFormat
<1>2. /\ n \in Nat /\ NtoaSize \in Nat /\ s \in Nat /\ p \in Nat
      /\ r \in Text /\ Len(r) = n /\ sign \in Text /\ prefix \in Text
      /\ (sign = << >> <=> s = 0) /\ (prefix = << >> <=> p = 0)
  BY TextLength, ReverseIsText, Sizes, SignIsText, HashIsText, EmptyIsText
<1>3. Agreed(n, s, p, base, prec, w, flags)
  OBVIOUS
<1>4. inner = IF w > 0 /\ "left" \notin flags /\ "zero" \in flags /\ sign # << >>
              THEN w - 1 ELSE w
  BY InnerIs
<1>5. /\ zeros \in Text
      /\ Len(zeros) = IF prec > n THEN prec - n ELSE 0
      /\ Reverse(zeros) = zeros
      /\ prec <= n => zeros = << >>
  <2> DEFINE m == prec - n
  <2>1. m \in Int /\ (m > 0 <=> prec > n) /\ (m <= 0 <=> prec <= n)
    BY <1>2
  <2> HIDE DEF m
  <2>2. Times("0", m) \in Text /\ Len(Times("0", m)) = IF m > 0 THEN m ELSE 0
    BY <2>1, TimesIsText, OwnCharacters
  <2>3. Reverse(Times("0", m)) = Times("0", m)
    BY <2>1, ReverseTimes, OwnCharacters
  <2>4. m <= 0 => Times("0", m) = << >>
    BY <2>1, TimesNone, OwnCharacters
  <2> QED BY <2>1, <2>2, <2>3, <2>4 DEF m
<1> HIDE DEF inner, sign, prefix, s, p
<1>6. s + p + n <= NtoaSize /\ s + p + prec <= NtoaSize /\ n <= NtoaSize /\ prec <= NtoaSize
  <2>1. s + p + n <= NtoaSize /\ s + p + prec <= NtoaSize
    BY <1>3 DEF Agreed
  <2> HIDE DEF n
  <2> QED BY <1>2, <2>1
<1>9. ZeroFill(digits, prec, NtoaSize) = digits \o zeros
  <2>1. PICK k \in Nat :
          /\ ZeroFill(digits, prec, NtoaSize) = digits \o Times("0", k)
          /\ k = IF Smaller(prec, NtoaSize) > n THEN Smaller(prec, NtoaSize) - n ELSE 0
    <3>1. prec \in Int /\ Len(digits) <= NtoaSize
      BY <1>6
    <3> QED BY <1>2, <3>1, ZeroFillIs
  <2> HIDE DEF n
  <2>2. k = IF prec > n THEN prec - n ELSE 0
    BY <1>2, <1>6, <2>1 DEF Smaller
  <2>3. Times("0", prec - n) = Times("0", k)
    BY <1>2, <2>2 DEF Times
  <2> QED BY <2>1, <2>3
<1> HIDE DEF zeros
<1>10. /\ "prec" \notin flags => prec = 0 /\ n > 0
       /\ "left" \in flags => prec <= n
       /\ "zero" \in flags => "prec" \notin flags
       /\ "zero" \in flags /\ "left" \notin flags /\ s > 0 => w <= NtoaSize /\ p = 0
       /\ p > 0 /\ "prec" \notin flags => n # w
       /\ p > 0 /\ "zero" \in flags /\ "left" \notin flags /\ n < w =>
            base # 2 /\ n + p <= w /\ w <= NtoaSize
  BY <1>3 DEF Agreed
<1>11. /\ "hash" \notin flags => prefix = << >> /\ p = 0
       /\ "hash" \in flags => prefix = PrefixText(base, flags) /\ p > 0
  BY HashIsText DEF prefix, p
<1>12. /\ Len(digits) = n /\ Len(sign) = s /\ Len(prefix) = p /\ Reverse(digits) = r
       /\ sign = SignText(negative, flags)
  BY DEF n, s, p, r, sign
<1> HIDE DEF n, r
\* padded with spaces
<1>7. CASE "left" \in flags \/ "zero" \notin flags
  <2> DEFINE core == digits \o zeros
  <2>1. core \in Text /\ Len(core) = n + Len(zeros) /\ Reverse(core) = zeros \o r
    BY <1>5, <1>12, Joined, ReverseJoined
  <2>2. inner = w
    BY <1>4, <1>7
  <2> HIDE DEF core
  <2>3. Len(core) + p + s <= NtoaSize /\ Len(core) <= NtoaSize
    BY <1>2, <1>6, <1>5, <2>1
  <2>4. filled = core
    <3>1. CASE "left" \in flags
      <4>1. zeros = << >>
        BY <1>5, <1>10, <3>1
      <4>2. core = digits
        BY <4>1, WithEmpty DEF core
      <4> QED BY <3>1, <4>2
    <3>2. CASE "left" \notin flags
      <4>1. filled = ZeroFill(core, 0, NtoaSize)
        BY <1>9, <1>7, <3>2 DEF core
      <4> HIDE DEF filled
      <4>2. PICK k \in Nat :
              /\ ZeroFill(core, 0, NtoaSize) = core \o Times("0", k)
              /\ k = IF Smaller(0, NtoaSize) > Len(core) THEN Smaller(0, NtoaSize) - Len(core) ELSE 0
        <5>1. 0 \in Int
          OBVIOUS
        <5> QED BY <1>2, <2>1, <2>3, <5>1, ZeroFillIs
      <4>3. Smaller(0, NtoaSize) = 0 /\ Len(core) \in Nat
        BY <1>2, <2>1, TextLength DEF Smaller
      <4>4. k = 0
        BY <4>2, <4>3
      <4>5. Times("0", k) = << >>
        BY <4>4 DEF Times
      <4> QED BY <2>1, <4>1, <4>2, <4>5, WithEmpty
    <3> QED BY <3>1, <3>2
  <2> DEFINE full == core \o Reverse(prefix)
  <2>5. full \in Text /\ Len(full) = Len(core) + p /\ Reverse(full) = prefix \o (zeros \o r)
    <3>1. Reverse(prefix) \in Text /\ Len(Reverse(prefix)) = p
          /\ Reverse(Reverse(prefix)) = prefix
      BY <1>2, <1>12, ReverseIsText, ReverseTwice
    <3> QED BY <2>1, <3>1, Joined, ReverseJoined
  <2> HIDE DEF filled
  <2>6. marked = full
    <3>1. CASE "hash" \notin flags
      <4>1. Reverse(prefix) = << >>
        BY <1>11, <3>1, ReverseEmpty
      <4> QED BY <2>1, <2>4, <3>1, <4>1, WithEmpty
    <3>2. CASE "hash" \in flags
      <4>1. prefix = PrefixText(base, flags) /\ p > 0
        BY <1>11, <3>2
      <4>2. Bare(core, base, prec, w, flags) = core
        <5>1. CASE "prec" \in flags
          BY <5>1 DEF Bare
        <5>2. CASE "prec" \notin flags
          <6>1. prec = 0 /\ n > 0 /\ n # w
            BY <1>10, <4>1, <5>2
          <6>2. Len(core) = n
            BY <1>2, <1>5, <2>1, <6>1
          <6>3. ~ (Len(core) > 0 /\ Len(core) \in {prec, w})
            BY <1>2, <6>1, <6>2
          <6> QED BY <6>3 DEF Bare
        <5> QED BY <5>1, <5>2
      <4>3. Len(core) + Len(PrefixText(base, flags)) <= NtoaSize
        <5>1. Len(core) \in Nat
          BY <2>1, TextLength
        <5>2. Len(core) + p <= NtoaSize
          BY <1>2, <2>3, <5>1
        <5> QED BY <1>12, <4>1, <5>2
      <4>4. marked = PutPrefix(core, base, prec, w, flags)
        BY <2>2, <2>4, <3>2
      <4> HIDE DEF marked
      <4>5. PutPrefix(core, base, prec, w, flags) = core \o Reverse(PrefixText(base, flags))
        BY <2>1, <4>2, <4>3, PrefixPut
      <4> QED BY <4>1, <4>4, <4>5
    <3> QED BY <3>1, <3>2
  <2> HIDE DEF full, marked
  <2>7. OutRev(PutSign(full, negative, flags, NtoaSize), InnerWidth(w, negative, flags), flags)
          = Layout(SignText(negative, flags), Reverse(full), w, flags)
    <3>1. Len(full) + Len(SignText(negative, flags)) <= NtoaSize
      <4>1. Len(core) \in Nat
        BY <2>1, TextLength
      <4>2. Len(full) + s <= NtoaSize
        BY <1>2, <2>3, <2>5, <4>1
      <4> QED BY <1>12, <4>2
    <3>2. NtoaSize \in Nat
      BY <1>2
    <3>3. full \in Text
      BY <2>5
    <3> QED BY ONLY <1>7, <3>1, <3>2, <3>3, Spaced, negative \in BOOLEAN, w \in Nat
  <2>8. Layout(sign, prefix \o (zeros \o r), w, flags)
          = Layout(sign \o prefix, zeros \o r, w, flags)
    <3> DEFINE t == zeros \o r
    <3>1. t \in Text
      BY <1>2, <1>5, Joined
    <3> HIDE DEF t
    <3>2. Layout(sign, prefix \o t, w, flags) = Layout(sign \o prefix, t, w, flags)
      BY <1>2, <1>7, <3>1, LayoutJoined
    <3> QED BY <3>2 DEF t
  <2>10. NtoaFormat(digits, negative, base, prec, w, flags)
           = Layout(sign \o prefix, zeros \o r, w, flags)
    BY <1>1, <1>12, <2>5, <2>6, <2>7, <2>8 DEF inner
  <2> QED BY <2>10 DEF sign, prefix, zeros, r, n
\* padded with zeros
<1>8. CASE "left" \notin flags /\ "zero" \in flags
  <2>1. prec = 0 /\ "prec" \notin flags /\ n > 0
    BY <1>8, <1>10
  <2>2. zeros = << >> /\ zeros \o r = r
    <3>1. zeros = << >>
      BY <1>2, <1>5, <2>1
    <3> QED BY <1>2, <3>1, WithEmpty
  <2>3. filled = ZeroFill(digits, inner, NtoaSize)
    <3>1. digits \o zeros = digits
      BY <2>2, WithEmpty
    <3> QED BY <1>8, <1>9, <3>1
  <2> HIDE DEF filled
  <2>10. OutRev(PutSign(marked, negative, flags, NtoaSize), inner, flags)
           = Layout(sign \o prefix, r, w, flags)
    <3>1. CASE "hash" \notin flags
      <4>1. marked = ZeroFill(digits, inner, NtoaSize) /\ prefix = << >>
        BY <1>11, <2>3, <3>1
      <4> HIDE DEF marked
      <4>2. OutRev(PutSign(ZeroFill(digits, inner, NtoaSize), negative, flags, NtoaSize), inner, flags)
              = Layout(SignText(negative, flags), Reverse(digits), w, flags)
        <5>1. NtoaSize \in Nat /\ Len(digits) + Len(SignText(negative, flags)) <= NtoaSize
          BY <1>2, <1>6, <1>12
        <5>2. SignText(negative, flags) # << >> => w <= NtoaSize
          BY <1>2, <1>8, <1>10, <1>12
        <5> QED BY <1>8, <5>1, <5>2, Zeroed DEF inner
      <4>3. sign \o prefix = sign
        BY <1>2, <4>1, WithEmpty
      <4> QED BY <1>12, <4>1, <4>2, <4>3
    <3>2. CASE "hash" \in flags
      <4>1. p > 0 /\ prefix = PrefixText(base, flags)
        BY <1>11, <3>2
      <4>2. s = 0 /\ sign = << >>
        BY <1>2, <1>8, <1>10, <4>1
      <4>3. inner = w
        BY <1>4, <4>2
      <4>4. /\ n # w
            /\ n < w => base # 2 /\ n + p <= w /\ w <= NtoaSize
        BY <1>8, <1>10, <2>1, <4>1
      <4>5. marked = PutPrefix(ZeroFill(digits, w, NtoaSize), base, 0, w, flags)
        BY <2>1, <2>3, <3>2, <4>3
      <4> HIDE DEF marked
      <4>6. PutSign(marked, negative, flags, NtoaSize) = marked
        <5>1. SignText(negative, flags) = << >>
          BY <1>12, <4>2
        <5>2. ~ negative /\ "plus" \notin flags /\ "space" \notin flags
          BY <5>1 DEF SignText
        <5> QED BY <5>2 DEF PutSign
      <4>7. /\ Len(digits) > 0 /\ Len(digits) # w
            /\ Len(digits) + Len(PrefixText(base, flags)) <= NtoaSize
            /\ Len(digits) < w =>
                  base # 2 /\ Len(digits) + Len(PrefixText(base, flags)) <= w /\ w <= NtoaSize
        <5>1. n + p <= NtoaSize
          BY <1>2, <1>6
        <5> QED BY <1>12, <2>1, <4>1, <4>4, <5>1
      <4>8. OutRev(PutPrefix(ZeroFill(digits, w, NtoaSize), base, 0, w, flags), w, flags)
              = Layout(PrefixText(base, flags), Reverse(digits), w, flags)
        BY <1>8, <2>1, <4>7, Prefixed
      <4>9. sign \o prefix = prefix
        BY <1>2, <4>2, WithEmpty
      <4> QED BY <1>12, <4>1, <4>3, <4>5, <4>6, <4>8, <4>9
    <3> QED BY <3>1, <3>2
  <2>12. NtoaFormat(digits, negative, base, prec, w, flags)
           = Layout(sign \o prefix, zeros \o r, w, flags)
    BY <1>1, <2>2, <2>10
  <2> QED BY <2>12 DEF sign, prefix, zeros, r, n
<1> QED BY <1>7, <1>8
-------------------------------------------------------------------------------
(* Powers, digits and the values of integers *)

LEMMA PowerStep ==
  ASSUME NEW base \in Nat \ {0}, NEW n \in Nat
  PROVE  Power(base, 0) = 1 /\ Power(base, n + 1) = base * Power(base, n)
<1> DEFINE P(m) == CHOOSE p : p = [k \in 0 .. m |-> IF k = 0 THEN 1 ELSE base * p[k - 1]]
<1>1. \A m \in Nat : P(m) = [k \in 0 .. m |-> IF k = 0 THEN 1 ELSE base * P(m)[k - 1]]
  BY PowerExists
<1>2. \A m \in Nat : Power(base, m) = P(m)[m]
  BY DEF Power
<1> HIDE DEF P
<1>3. \A m \in Nat : \A k \in 0 .. m : P(m)[k] = IF k = 0 THEN 1 ELSE base * P(m)[k - 1]
  BY <1>1
<1> DEFINE S == {k \in Nat : k <= n => P(n)[k] = P(n + 1)[k]}
<1>4. 0 \in S
  <2>1. 0 \in 0 .. n /\ 0 \in 0 .. n + 1 /\ n + 1 \in Nat
    OBVIOUS
  <2>2. P(n)[0] = 1 /\ P(n + 1)[0] = 1
    BY <1>3, <2>1
  <2> QED BY <2>2
<1>5. ASSUME NEW k \in S PROVE k + 1 \in S
  <2>1. k \in Nat /\ n + 1 \in Nat
    BY <1>5
  <2>2. CASE k + 1 <= n
    <3>1. k + 1 \in 0 .. n /\ k + 1 \in 0 .. n + 1 /\ k + 1 # 0 /\ (k + 1) - 1 = k
      BY <2>1, <2>2
    <3>2. P(n)[k + 1] = base * P(n)[k] /\ P(n + 1)[k + 1] = base * P(n + 1)[k]
      BY <1>3, <2>1, <3>1
    <3>3. P(n)[k] = P(n + 1)[k]
      BY <1>5, <2>2
    <3> QED BY <2>1, <3>2, <3>3
  <2> QED BY <2>1, <2>2
<1>6. S \in SUBSET Nat
  OBVIOUS
<1> HIDE DEF S
<1>7. n \in S
  BY <1>4, <1>5, <1>6, Induction
<1>8. P(n)[n] = P(n + 1)[n]
  BY <1>7 DEF S
<1>9. P(n + 1)[n + 1] = base * P(n + 1)[n]
  <2>1. n + 1 \in 0 .. n + 1 /\ n + 1 # 0 /\ (n + 1) - 1 = n /\ n + 1 \in Nat
    OBVIOUS
  <2> QED BY <1>3, <2>1
<1>10. P(0)[0] = 1
  BY <1>3
<1>11. 0 \in Nat /\ n + 1 \in Nat
  OBVIOUS
<1> QED BY <1>2, <1>8, <1>9, <1>10, <1>11

LEMMA DigitsStep ==
  ASSUME NEW base \in 2 .. 16, NEW upper \in BOOLEAN, NEW v \in Nat
  PROVE  Digits(v, base, upper) =
           IF v < base THEN <<DigitChar(v, upper)>>
           ELSE <<DigitChar(v % base, upper)>> \o Digits(v \div base, base, upper)
<1> DEFINE f == CHOOSE f : f = [n \in Nat |->
                  IF n < base THEN <<DigitChar(n, upper)>>
                  ELSE <<DigitChar(n % base, upper)>> \o f[n \div base]]
<1>1. f = [n \in Nat |-> IF n < base THEN <<DigitChar(n, upper)>>
                         ELSE <<DigitChar(n % base, upper)>> \o f[n \div base]]
  BY DigitsExist DEF DigitsOf
<1>2. \A n : Digits(n, base, upper) = f[n]
  BY DEF Digits
<1> HIDE DEF f
<1> QED BY <1>1, <1>2

LEMMA DigitsNotEmpty ==
  ASSUME NEW base \in 2 .. 16, NEW upper \in BOOLEAN, NEW v \in Nat
  PROVE  Len(Digits(v, base, upper)) > 0
<1>1. base \in Nat /\ base >= 2
  OBVIOUS
<1>2. \A d \in 0 .. 15 : <<DigitChar(d, upper)>> \in Text /\ Len(<<DigitChar(d, upper)>>) = 1
  BY DigitIsCharacter, SingleIsText
<1>5. Digits(v, base, upper) =
        IF v < base THEN <<DigitChar(v, upper)>>
        ELSE <<DigitChar(v % base, upper)>> \o Digits(v \div base, base, upper)
  BY DigitsStep, Zenon
<1>3. CASE v < base
  <2>1. v \in 0 .. 15
    BY <1>1, <1>3
  <2>2. <<DigitChar(v, upper)>> \in Text /\ Len(<<DigitChar(v, upper)>>) = 1
    BY <1>2, <2>1
  <2>3. Digits(v, base, upper) = <<DigitChar(v, upper)>>
    BY <1>3, <1>5, Zenon
  <2> QED BY <2>2, <2>3
<1>4. CASE v >= base
  <2> DEFINE t == Digits(v \div base, base, upper)
             u == <<DigitChar(v % base, upper)>>
  <2>1. v \div base \in Nat
    BY <1>1, <1>4, Shorter
  <2>2. t \in Text
    BY <2>1, DigitsIsText
  <2>3. v % base \in 0 .. 15
    BY <1>1, Divided
  <2>4. Digits(v, base, upper) = u \o t
    <3>1. ~ (v < base)
      BY <1>1, <1>4
    <3> QED BY <1>5, <3>1, Zenon
  <2>5. u \in Text /\ Len(u) = 1
    BY <1>2, <2>3
  <2> HIDE DEF t, u
  <2>6. Len(u \o t) = 1 + Len(t) /\ Len(t) \in Nat
    BY <2>2, <2>5, Joined, TextLength
  <2> QED BY <2>4, <2>6
<1> QED BY <1>1, <1>3, <1>4

LEMMA SmallModulo ==
  ASSUME NEW a \in Nat, NEW d \in Nat \ {0}, a < d
  PROVE  a % d = a /\ a \div d = 0
<1> DEFINE q == a \div d
           r == a % d
<1>1. q \in Nat /\ r \in Nat /\ r < d /\ a = d * q + r
  BY Quotients, Divided
<1> HIDE DEF q, r
<1>2. q >= 1 => d * q >= d
  BY <1>1
<1>3. q = 0
  BY <1>1, <1>2
<1> QED BY <1>1, <1>3 DEF q, r

\* The magnitude is the absolute value: that of the smallest number as well.
LEMMA MagnitudeIs ==
  ASSUME NEW d \in Directives, d.kind \in IntKinds
  PROVE  /\ IntValue(d) \in Int
         /\ d.kind # "d" => IntValue(d) >= 0
         /\ Magnitude(IntValue(d), d.size) = Absolute(IntValue(d))
         /\ Absolute(IntValue(d)) \in Nat /\ (Absolute(IntValue(d)) = 0 <=> IntValue(d) = 0)
<1> DEFINE b == Bits[d.size]
           P == Power(2, b)
           H == Power(2, b - 1)
           v == IntValue(d)
           u == Unsigned(d.arg, d.size)
<1>1. d.arg \in Int /\ d.size \in DOMAIN Bits
  BY Fields
<1>2. b \in Nat /\ b - 1 \in Nat /\ (b - 1) + 1 = b
  BY <1>1, Bounded
<1>3. P \in Nat \ {0} /\ H \in Nat \ {0} /\ P = 2 * H
  <2>1. 2 \in Nat \ {0}
    OBVIOUS
  <2>2. P = 2 * H
    BY <1>2, <2>1, PowerStep
  <2> QED BY <1>2, <2>1, <2>2, PowerPositive
<1>4. \A x : Unsigned(x, d.size) = x % P
  BY DEF Unsigned
<1>5. /\ v = IF d.kind = "d" THEN IF u >= H THEN u - P ELSE u ELSE u
      /\ Magnitude(v, d.size) = Unsigned(IF v > 0 THEN v ELSE 0 - v, d.size)
  BY DEF IntValue, Signed, Magnitude
<1> HIDE DEF b, P, H, v
<1>6. u \in Nat /\ u < P
  <2>1. u = d.arg % P
    BY <1>4
  <2>2. d.arg % P \in 0 .. P - 1
    BY <1>1, <1>3, Divided
  <2> QED BY <1>3, <2>1, <2>2
<1> HIDE DEF u
<1>7. v \in Int /\ (d.kind # "d" => v >= 0) /\ (v > 0 => v < P) /\ (v <= 0 => 0 - v < P)
  <2>1. (v = u - P /\ u >= H) \/ v = u
    BY <1>5
  <2>2. d.kind # "d" => v = u
    BY <1>5
  <2> QED BY <1>3, <1>6, <2>1, <2>2
<1> DEFINE a == IF v > 0 THEN v ELSE 0 - v
<1>8. a \in Nat /\ a < P /\ a = Absolute(v) /\ (a = 0 <=> v = 0)
  BY <1>7 DEF Absolute
<1>9. Magnitude(v, d.size) = a % P
  BY <1>4, <1>5
<1> HIDE DEF a
<1>10. a % P = a
  BY <1>3, <1>8, SmallModulo
<1> QED BY <1>7, <1>8, <1>9, <1>10 DEF v

\* What a directive's flags become on the way to _ntoa_format.
LEMMA IntFlagsAre ==
  ASSUME NEW d \in Directives, d.kind \in IntKinds
  PROVE  /\ d.flags \in AnyFlags
         /\ "left"  \in IntFlags(d) <=> "left" \in Read(d)
         /\ "zero"  \in IntFlags(d) <=> "zero" \in d.flags /\ "prec" \notin d.flags
         /\ "prec"  \in IntFlags(d) <=> "prec" \in d.flags
         /\ "hash"  \in IntFlags(d) <=> "hash" \in d.flags /\ d.kind \notin {"d", "u"}
         /\ "plus"  \in IntFlags(d) <=> "plus" \in d.flags /\ d.kind = "d"
         /\ "space" \in IntFlags(d) <=> "space" \in d.flags /\ d.kind = "d"
         /\ "upper" \in IntFlags(d) <=> d.kind = "X"
<1>1. d.flags \in AnyFlags
  BY DEF Directives, IntKinds
<1>2. "upper" \notin Read(d)
  BY <1>1 DEF AnyFlags, Read
<1>3. \A f : f # "left" => (f \in Read(d) <=> f \in d.flags)
  BY DEF Read
<1>4. \A f : f # "upper" =>
        (f \in IntFlags(d) <=> /\ f \in Read(d)
                               /\ f = "hash" => d.kind \notin {"d", "u"}
                               /\ f \in {"plus", "space"} => d.kind = "d"
                               /\ f = "zero" => "prec" \notin d.flags)
  BY DEF IntFlags
<1>5. "upper" \in IntFlags(d) <=> d.kind = "X"
  BY <1>2 DEF IntFlags
<1> QED BY <1>1, <1>3, <1>4, <1>5
-------------------------------------------------------------------------------
(* Integers: what is printed is the text of the standard *)

LEMMA IntSignIs ==
  ASSUME NEW d \in Directives, d.kind \in IntKinds, NEW flags,
         "plus"  \in flags <=> "plus"  \in IntFlags(d),
         "space" \in flags <=> "space" \in IntFlags(d)
  PROVE  SignText(IntValue(d) < 0, flags) = IntSign(d)
<1> DEFINE neg == IntValue(d) < 0
<1>1. d.kind # "d" => ~ neg
  BY MagnitudeIs
<1>2. /\ "plus" \in flags <=> "plus" \in d.flags /\ d.kind = "d"
      /\ "space" \in flags <=> "space" \in d.flags /\ d.kind = "d"
  BY IntFlagsAre
<1> HIDE DEF neg
<1>3. CASE d.kind = "d"
  <2>1. IntSign(d) = SignOf(d, neg)
    BY <1>3 DEF IntSign, neg
  <2>2. CASE neg
    BY <2>1, <2>2 DEF SignOf, SignText, neg
  <2>3. CASE ~ neg /\ "plus" \in d.flags
    <3>1. d.flags \cap {"plus", "space"} # {"space"}
      BY <2>3
    <3>2. SignOf(d, neg) = <<"+">>
      BY <2>3, <3>1 DEF SignOf
    <3> QED BY <1>2, <1>3, <2>1, <2>3, <3>2 DEF SignText, neg
  <2>4. CASE ~ neg /\ "plus" \notin d.flags
    <3>1. d.flags \cap {"plus", "space"} = {"space"} <=> "space" \in d.flags
      BY <2>4
    <3>2. "plus" \notin flags /\ ("space" \in flags <=> "space" \in d.flags)
      BY <1>2, <1>3, <2>4
    <3>3. CASE "space" \in d.flags
      BY <2>1, <2>4, <3>1, <3>2, <3>3 DEF SignOf, SignText, neg
    <3>4. CASE "space" \notin d.flags
      BY <2>1, <2>4, <3>1, <3>2, <3>4 DEF SignOf, SignText, neg
    <3> QED BY <3>3, <3>4
  <2> QED BY <2>2, <2>3, <2>4
<1>4. CASE d.kind # "d"
  BY <1>1, <1>2, <1>4 DEF IntSign, SignText, neg
<1> QED BY <1>3, <1>4

LEMMA IntPrefixIs ==
  ASSUME NEW d \in Directives, d.kind \in IntKinds, NEW flags,
         "hash" \in flags <=> "hash" \in IntFlags(d) /\ IntValue(d) # 0,
         "upper" \in flags <=> "upper" \in IntFlags(d),
         IntDigits(d) = << >> <=> Len(IntDigits(d)) = 0,
         Len(IntDigits(d)) \in Nat,
         d.kind = "o" /\ "hash" \in d.flags =>
           IF IntValue(d) = 0 THEN Len(IntDigits(d)) + Prec(d) > 0 ELSE Prec(d) <= Len(IntDigits(d))
  PROVE  HashText(Base(d.kind), flags) = IntPrefix(d)
<1> DEFINE n == Len(IntDigits(d))
           v == IntValue(d)
           none == IntDigits(d) = << >>
<1>1. /\ "hash" \in flags <=> "hash" \in d.flags /\ d.kind \notin {"d", "u"} /\ v # 0
      /\ "upper" \in flags <=> d.kind = "X"
  BY IntFlagsAre
<1>2. Prec(d) \in Nat
  BY WidthAndPrec DEF Wide, IntKinds
<1>3. /\ none <=> n = 0
      /\ n \in Nat
      /\ d.kind = "o" /\ "hash" \in d.flags => IF v = 0 THEN n + Prec(d) > 0 ELSE Prec(d) <= n
  OBVIOUS
<1>4. d.kind = "o" /\ "hash" \in d.flags /\ v = 0 => ~ (Prec(d) <= n /\ none)
  <2> HIDE DEF n, v, none
  <2> QED BY <1>2, <1>3
<1>5. IntPrefix(d) =
        IF "hash" \notin d.flags THEN <<>>
        ELSE IF d.kind = "o"
             THEN IF Prec(d) <= n /\ (v # 0 \/ none) THEN <<"0">> ELSE <<>>
        ELSE IF v = 0 THEN <<>>
        ELSE CASE d.kind = "x" -> <<"0", "x">> [] d.kind = "X" -> <<"0", "X">>
               [] d.kind = "b" -> <<"0", "b">> [] OTHER -> <<>>
  BY DEF IntPrefix
<1> HIDE DEF n, v, none
<1>6. CASE "hash" \notin d.flags
  BY <1>1, <1>5, <1>6 DEF HashText
<1>7. CASE "hash" \in d.flags /\ v = 0
  <2>1. HashText(Base(d.kind), flags) = << >>
    BY <1>1, <1>7 DEF HashText
  <2>2. IntPrefix(d) = << >>
    <3>1. CASE d.kind = "o"
      BY <1>4, <1>5, <1>7, <3>1, Zenon
    <3>2. CASE d.kind # "o"
      BY <1>5, <1>7, <3>2, Zenon
    <3> QED BY <3>1, <3>2
  <2> QED BY <2>1, <2>2
<1>8. CASE "hash" \in d.flags /\ v # 0
  <2>1. CASE d.kind \in {"d", "u"}
    BY <1>1, <1>5, <1>8, <2>1 DEF HashText
  <2>2. CASE d.kind = "o"
    BY <1>1, <1>3, <1>5, <1>8, <2>2 DEF HashText, PrefixText, Base
  <2>3. CASE d.kind = "x"
    BY <1>1, <1>5, <1>8, <2>3 DEF HashText, PrefixText, Base
  <2>4. CASE d.kind = "X"
    BY <1>1, <1>5, <1>8, <2>4 DEF HashText, PrefixText, Base
  <2>5. CASE d.kind = "b"
    BY <1>1, <1>5, <1>8, <2>5 DEF HashText, PrefixText, Base
  <2> QED BY <2>1, <2>2, <2>3, <2>4, <2>5 DEF IntKinds
<1> QED BY <1>6, <1>7, <1>8

\* Digits, upper and lower case alike, by a flag or by the conversion.
LEMMA IntDigitsAre ==
  ASSUME NEW d \in Directives, d.kind \in IntKinds, NEW flags,
         "prec"  \in flags <=> "prec"  \in d.flags,
         "upper" \in flags <=> d.kind = "X",
         NEW digits,
         digits = IF Absolute(IntValue(d)) = 0 /\ "prec" \in flags THEN << >>
                  ELSE Digits(Absolute(IntValue(d)), Base(d.kind), "upper" \in flags)
  PROVE  /\ digits \in Text /\ IntDigits(d) \in Text
         /\ IntDigits(d) = Reverse(digits) /\ Len(IntDigits(d)) = Len(digits)
         /\ "prec" \notin d.flags => Len(digits) > 0
<1> DEFINE m  == Absolute(IntValue(d))
           u1 == "upper" \in flags
           u2 == d.kind = "X"
           b  == Base(d.kind)
<1>1. m \in Nat /\ (m = 0 <=> IntValue(d) = 0)
  BY MagnitudeIs
<1>2. b \in 2 .. 16
  BY DEF Base, IntKinds
<1>3. u1 \in BOOLEAN /\ u2 \in BOOLEAN /\ u1 = u2
  OBVIOUS
<1>4. Digits(m, b, u1) = Digits(m, b, u2)
  <2> HIDE DEF m, b, u1, u2
  <2> QED BY <1>3
<1>5. Digits(m, b, u1) \in Text /\ Len(Digits(m, b, u1)) > 0
  <2> HIDE DEF m, b, u1
  <2> QED BY <1>1, <1>2, <1>3, DigitsIsText, DigitsNotEmpty
<1> DEFINE t == Digits(m, b, u1)
<1>6. /\ digits = IF m = 0 /\ "prec" \in d.flags THEN << >> ELSE t
      /\ IntDigits(d) = IF m = 0 /\ "prec" \in d.flags THEN << >> ELSE Reverse(t)
  BY <1>1, <1>4 DEF IntDigits
<1> HIDE DEF t, m
<1>7. t \in Text /\ Len(t) > 0 /\ Reverse(t) \in Text /\ Len(Reverse(t)) = Len(t)
  BY <1>5, ReverseIsText DEF t, m
<1>8. CASE m = 0 /\ "prec" \in d.flags
  <2>1. digits = << >> /\ IntDigits(d) = << >>
    BY <1>6, <1>8
  <2> QED BY <1>8, <2>1, EmptyIsText, ReverseEmpty
<1>9. CASE ~ (m = 0 /\ "prec" \in d.flags)
  <2>1. digits = t /\ IntDigits(d) = Reverse(t)
    BY <1>6, <1>9
  <2> QED BY <1>7, <2>1
<1> QED BY <1>8, <1>9

LEMMA PaddedIs ==
  ASSUME NEW d, NEW sign, NEW body, NEW flags, NEW zeros \in BOOLEAN,
         "left" \in flags <=> "left" \in Read(d),
         "zero" \in flags <=> zeros
  PROVE  Padded(d, sign, body, zeros) = Layout(sign, body, Width(d), flags)
BY DEF Padded, Layout

\* For every conversion of an integer the code has, where Follows lets it.
LEMMA IntPrints ==
  ASSUME NEW d \in Directives, d.kind \in IntKinds, Follows(d)
  PROVE  IntText(d) = CInt(d)
<1> DEFINE v     == IntValue(d)
           m     == Absolute(v)
           neg   == v < 0
           base  == Base(d.kind)
           F     == IntFlags(d)
           G     == IF m = 0 THEN F \ {"hash"} ELSE F
           full  == IF m = 0 /\ "prec" \in F THEN << >> ELSE Digits(m, base, "upper" \in F)
           part  == IF m = 0 /\ "prec" \in F THEN << >>
                    ELSE Clip(Digits(m, base, "upper" \in F), NtoaSize)
           n     == Len(IntDigits(d))
           s     == Len(IntSign(d))
           p     == Len(IntPrefix(d))
           pr    == Prec(d)
           w     == Width(d)
           zeros == "zero" \in d.flags /\ "prec" \notin d.flags
<1>1. v \in Int /\ m \in Nat /\ (m = 0 <=> v = 0) /\ Magnitude(v, d.size) = m
  BY MagnitudeIs
<1>2. IntText(d) = NtoaFormat(part, neg, base, pr, w, G)
  <2>1. IntText(d) = Ntoa(Magnitude(v, d.size), v < 0, base, pr, w, F)
    BY DEF IntText, IntValue
  <2>2. IntText(d) = Ntoa(m, neg, base, pr, w, F)
    BY <1>1, <2>1
  <2> HIDE DEF m, F, neg, base, pr, w
  <2> QED BY <2>2 DEF Ntoa
<1>3. /\ "left" \in G <=> "left" \in Read(d)
      /\ "zero" \in G <=> zeros
      /\ "prec" \in G <=> "prec" \in d.flags
      /\ "hash" \in G <=> "hash" \in F /\ v # 0
      /\ "plus" \in G <=> "plus" \in F
      /\ "space" \in G <=> "space" \in F
      /\ "upper" \in G <=> "upper" \in F
      /\ "upper" \in F <=> d.kind = "X"
      /\ "prec" \in F <=> "prec" \in d.flags
  <2>1. \A f : f # "hash" => (f \in G <=> f \in F)
    OBVIOUS
  <2>2. "hash" \in G <=> "hash" \in F /\ m # 0
    OBVIOUS
  <2> HIDE DEF G, F, m
  <2> QED BY <1>1, <2>1, <2>2, IntFlagsAre DEF F
<1>4. /\ full \in Text /\ IntDigits(d) \in Text
      /\ IntDigits(d) = Reverse(full) /\ n = Len(full)
      /\ "prec" \notin d.flags => n > 0
  BY <1>3, IntDigitsAre
<1>5. /\ pr \in Nat /\ w \in Nat /\ base \in {2, 8, 10, 16} /\ n \in Nat /\ NtoaSize \in Nat
      /\ base = 2 => d.kind = "b"
      /\ pr > 0 => "prec" \in d.flags
  BY WidthAndPrec, Sizes, <1>4, TextLength DEF Wide, IntKinds, Base, Prec
<1> DEFINE most == IF n > pr THEN n ELSE pr
           still == zeros /\ "left" \notin Read(d)
<1>6. /\ s + p + most <= NtoaSize
      /\ still /\ IntSign(d) # << >> => w <= NtoaSize
      /\ "left" \in Read(d) => pr <= n
      /\ d.kind = "o" /\ "hash" \in d.flags => IF v = 0 THEN n + pr > 0 ELSE pr <= n
      /\ p > 0 => /\ n # w \/ "prec" \in d.flags
                  /\ still /\ n < w => d.kind # "b" /\ w \in n + p .. NtoaSize
  <2>1. ~ (d.kind \in {"s", "p", "f"})
    BY DEF IntKinds
  <2> QED BY <2>1 DEF Follows
<1>7. IntSign(d) = SignText(neg, G)
  BY <1>3, IntSignIs
<1>8. IntPrefix(d) = HashText(base, G)
  <2>1. IntDigits(d) = << >> <=> Len(IntDigits(d)) = 0
    BY <1>4, EmptyIsText
  <2> HIDE DEF G
  <2> QED BY <1>3, <1>5, <1>6, <2>1, IntPrefixIs DEF F, n, v, pr
<1>9. neg \in BOOLEAN /\ zeros \in BOOLEAN
  OBVIOUS
<1> HIDE DEF neg, G, zeros, v, m, F, full, part, base, w, pr
<1>10. /\ SignText(neg, G) \in Text /\ Len(SignText(neg, G)) = s /\ s \in Nat
       /\ s > 0 => IntSign(d) # << >>
       /\ Len(HashText(base, G)) = p /\ p \in Nat
       /\ s > 0 => p = 0
  <2>1. /\ SignText(neg, G) \in Text /\ Len(SignText(neg, G)) \in Nat
        /\ SignText(neg, G) = << >> => Len(SignText(neg, G)) = 0
    BY <1>9, SignIsText
  <2>2. HashText(base, G) \in Text /\ Len(HashText(base, G)) \in Nat
        /\ ("hash" \notin G => Len(HashText(base, G)) = 0)
    BY HashIsText, TextLength
  <2>3. d.kind # "d" => IntSign(d) = << >>
    BY DEF IntSign
  <2>4. d.kind = "d" => "hash" \notin G
    BY <1>3, IntFlagsAre DEF F
  <2>5. Len(<< >>) = 0
    BY EmptyIsText
  <2> QED BY <1>7, <1>8, <2>1, <2>2, <2>3, <2>4, <2>5
<1> HIDE DEF s, p, n
<1>11. n <= NtoaSize /\ s + p + n <= NtoaSize /\ s + p + pr <= NtoaSize
  <2>1. n <= most /\ pr <= most /\ most \in Nat
    BY <1>5
  <2>2. s + p + most <= NtoaSize
    BY <1>6
  <2> HIDE DEF most
  <2> QED BY <1>5, <1>10, <2>1, <2>2
<1>12. part = full
  <2>1. full # << >> => part = Clip(full, NtoaSize)
    BY DEF full, part
  <2>2. full = << >> => part = << >> \/ part = Clip(full, NtoaSize)
    BY DEF full, part
  <2>3. Clip(full, NtoaSize) = full
    BY <1>4, <1>5, <1>11, ClipAll
  <2> QED BY <2>1, <2>2, <2>3
<1>13. Agreed(n, s, p, base, pr, w, G)
  <2>1. "zero" \in G /\ "left" \notin G => still
    BY <1>3
  <2> HIDE DEF still
  <2>2. "zero" \in G => "prec" \notin G
    BY <1>3 DEF zeros
  <2>3. "prec" \notin G => pr = 0 /\ n > 0
    BY <1>3, <1>4, <1>5
  <2>4. "zero" \in G /\ "left" \notin G /\ s > 0 => w <= NtoaSize /\ p = 0
    BY <1>6, <1>10, <2>1
  <2>5. p > 0 => n # w \/ "prec" \in G
    BY <1>3, <1>6
  <2>6. p > 0 /\ "zero" \in G /\ "left" \notin G /\ n < w =>
          base # 2 /\ n + p <= w /\ w <= NtoaSize
    BY <1>5, <1>6, <1>10, <2>1
  <2>7. "left" \in G => pr <= n
    BY <1>3, <1>6
  <2> QED BY <1>11, <2>2, <2>3, <2>4, <2>5, <2>6, <2>7 DEF Agreed
<1>14. NtoaFormat(full, neg, base, pr, w, G)
         = Layout(SignText(neg, G) \o HashText(base, G), Times("0", pr - Len(full)) \o Reverse(full),
                  w, G)
  <2>1. Agreed(Len(full), Len(SignText(neg, G)), Len(HashText(base, G)), base, pr, w, G)
    BY <1>4, <1>10, <1>13 DEF n
  <2>2. full \in Text /\ neg \in BOOLEAN /\ base \in {2, 8, 10, 16} /\ pr \in Nat /\ w \in Nat
    BY <1>4, <1>5, <1>9
  <2> QED BY ONLY <2>1, <2>2, NtoaLaid
<1>15. CInt(d) = Padded(d, IntSign(d) \o IntPrefix(d), Times("0", pr - n) \o IntDigits(d), zeros)
  BY DEF CInt, zeros, pr, n
<1>16. Padded(d, IntSign(d) \o IntPrefix(d), Times("0", pr - n) \o IntDigits(d), zeros)
         = Layout(IntSign(d) \o IntPrefix(d), Times("0", pr - n) \o IntDigits(d), w, G)
  <2> DEFINE x == IntSign(d) \o IntPrefix(d)
             y == Times("0", pr - n) \o IntDigits(d)
  <2> HIDE DEF x, y
  <2>1. Padded(d, x, y, zeros) = Layout(x, y, Width(d), G)
    BY <1>3, <1>9, PaddedIs
  <2> QED BY <2>1 DEF x, y, w
<1> QED BY <1>2, <1>4, <1>7, <1>8, <1>12, <1>14, <1>15, <1>16
-------------------------------------------------------------------------------
(* Characters, strings and pointers *)

\* A text and the spaces around it.
LEMMA PaddedPlain ==
  ASSUME NEW d, NEW body \in Text, Width(d) \in Nat
  PROVE  Padded(d, << >>, body, FALSE) =
           IF "left" \in Read(d) THEN body \o Times(" ", Width(d) - Len(body))
           ELSE Times(" ", Width(d) - Len(body)) \o body
<1> DEFINE m   == Width(d) - Len(body)
           gap == Times(" ", m)
<1>1. m \in Int /\ Width(d) - (Len(<< >>) + Len(body)) - Len(<< >>) = m
  BY TextLength, EmptyIsText
<1>2. Padded(d, << >>, body, FALSE)
        = IF "left" \in Read(d) THEN << >> \o body \o gap ELSE gap \o << >> \o << >> \o body
  BY <1>1 DEF Padded
<1> HIDE DEF m
<1>3. gap \in Text
  BY <1>1, TimesIsText, OwnCharacters
<1> HIDE DEF gap
<1>4. << >> \o body = body /\ gap \o << >> = gap
  BY <1>3, WithEmpty
<1> QED BY <1>2, <1>4 DEF gap, m

LEMMA CharPrints ==
  ASSUME NEW d \in Directives, d.kind = "c"
  PROVE  CharText(d) = Padded(d, << >>, <<d.char>>, FALSE)
<1>1. d.char \in Characters /\ Width(d) \in Nat
  BY Fields, WidthAndPrec DEF Wide
<1>2. <<d.char>> \in Text /\ Len(<<d.char>>) = 1
  BY <1>1, SingleIsText
<1> DEFINE body == <<d.char>>
<1>3. body \in Text /\ Len(body) = 1
  BY <1>2
<1>4. CharText(d) = IF "left" \in Read(d) THEN body \o Times(" ", Width(d) - 1)
                    ELSE Times(" ", Width(d) - 1) \o body
  BY DEF CharText
<1> HIDE DEF body
<1>5. Padded(d, << >>, body, FALSE) =
           IF "left" \in Read(d) THEN body \o Times(" ", Width(d) - Len(body))
           ELSE Times(" ", Width(d) - Len(body)) \o body
  BY <1>1, <1>3, PaddedPlain
<1>6. Width(d) - Len(body) = Width(d) - 1
  BY <1>3
<1>7. CharText(d) = Padded(d, << >>, body, FALSE)
  BY <1>4, <1>5, <1>6, Zenon
<1> QED BY <1>7 DEF body

LEMMA StringPrints ==
  ASSUME NEW d \in Directives, d.kind = "s", Follows(d)
  PROVE  StringText(d)
           = Padded(d, << >>, IF "prec" \in d.flags THEN Clip(d.text, Prec(d)) ELSE d.text, FALSE)
<1> DEFINE body == IF "prec" \in d.flags THEN Clip(d.text, Prec(d)) ELSE d.text
<1>1. d.text \in Text /\ Len(d.text) \in Nat /\ Width(d) \in Nat /\ Prec(d) \in Nat
  BY Fields, WidthAndPrec, TextLength DEF Wide, IntKinds
<1>2. "prec" \in d.flags => Len(d.text) >= Prec(d)
  BY DEF Follows, IntKinds
<1>3. "prec" \notin d.flags => Prec(d) = 0
  BY DEF Prec
<1>4. body \in Text /\ Len(body) = IF "prec" \in d.flags THEN Prec(d) ELSE Len(d.text)
  <2>1. CASE "prec" \in d.flags
    <3>1. Clip(d.text, Prec(d)) \in Text /\ Len(Clip(d.text, Prec(d))) = Smaller(Len(d.text), Prec(d))
      BY <1>1, ClipIsText
    <3>2. Smaller(Len(d.text), Prec(d)) = Prec(d)
      BY <1>1, <1>2, <2>1 DEF Smaller
    <3> QED BY <2>1, <3>1, <3>2
  <2>2. CASE "prec" \notin d.flags
    BY <1>1, <2>2
  <2> QED BY <2>1, <2>2
<1>5. CountedLen(d) = Len(body)
  <2>1. CASE "prec" \in d.flags
    BY <1>1, <1>2, <1>4, <2>1 DEF CountedLen, Smaller
  <2>2. CASE "prec" \notin d.flags
    BY <1>1, <1>3, <1>4, <2>2 DEF CountedLen
  <2> QED BY <2>1, <2>2
<1>6. StringText(d) = IF "left" \in Read(d) THEN body \o Times(" ", Width(d) - CountedLen(d))
                      ELSE Times(" ", Width(d) - CountedLen(d)) \o body
  BY DEF StringText
<1> HIDE DEF body
<1>7. Padded(d, << >>, body, FALSE) =
           IF "left" \in Read(d) THEN body \o Times(" ", Width(d) - Len(body))
           ELSE Times(" ", Width(d) - Len(body)) \o body
  BY <1>1, <1>4, PaddedPlain
<1> QED BY <1>5, <1>6, <1>7 DEF body

LEMMA PointerPrints ==
  ASSUME NEW d \in Directives, d.kind = "p", Follows(d)
  PROVE  PointerText(d)
           = LET ds == Reverse(Digits(d.arg, 16, TRUE))
             IN  Times("0", PointerDigits - Len(ds)) \o ds
<1> DEFINE digits == Digits(d.arg, 16, TRUE)
           G      == {"zero", "upper"}
           r      == Reverse(digits)
           n      == Len(digits)
           m      == PointerDigits - n
           fill   == Times("0", m)
<1>1. d.arg \in Nat /\ d.width \in Int /\ PointerDigits \in Nat /\ NtoaSize \in Nat
  BY Fields, Bounded, Sizes DEF Wide, IntKinds
<1>2. d.flags = {} /\ d.width >= 0 /\ n <= NtoaSize
  BY DEF Follows, IntKinds
<1>3. Read(d) = {} /\ Prec(d) = 0
  BY <1>1, <1>2 DEF Read, Prec
<1>4. digits \in Text /\ n > 0 /\ n \in Nat
  <2>1. 16 \in 2 .. 16 /\ TRUE \in BOOLEAN
    OBVIOUS
  <2>2. digits \in Text /\ n > 0
    BY <1>1, <2>1, DigitsIsText, DigitsNotEmpty
  <2> HIDE DEF digits
  <2> QED BY <2>2, TextLength
<1>5. PointerText(d) = NtoaFormat(digits, FALSE, 16, 0, PointerDigits, G)
  <2>1. Read(d) \cup {"zero", "upper"} = G
    BY <1>3
  <2>2. PointerText(d) = Ntoa(d.arg, FALSE, 16, 0, PointerDigits, G)
    BY <1>3, <2>1 DEF PointerText
  <2>3. "prec" \notin G /\ G \ {"hash"} = G
    OBVIOUS
  <2>4. ("upper" \in G) = TRUE
    OBVIOUS
  <2> HIDE DEF G
  <2>5. Digits(d.arg, 16, "upper" \in G) = digits
    BY <2>4
  <2>6. Clip(digits, NtoaSize) = digits
    <3> HIDE DEF digits
    <3> QED BY <1>1, <1>2, <1>4, ClipAll
  <2> HIDE DEF digits
  <2> QED BY <2>2, <2>3, <2>5, <2>6 DEF Ntoa
<1>6. /\ SignText(FALSE, G) = << >> /\ HashText(16, G) = << >>
      /\ "left" \notin G /\ "zero" \in G /\ "prec" \notin G
  BY DEF SignText, HashText
<1> HIDE DEF digits, G
<1>7. NtoaFormat(digits, FALSE, 16, 0, PointerDigits, G)
        = Layout(SignText(FALSE, G) \o HashText(16, G), Times("0", 0 - Len(digits)) \o r,
                 PointerDigits, G)
  <2>1. Agreed(n, 0, 0, 16, 0, PointerDigits, G)
    BY <1>1, <1>2, <1>4, <1>6 DEF Agreed
  <2>2. Len(SignText(FALSE, G)) = 0 /\ Len(HashText(16, G)) = 0
    BY <1>6, EmptyIsText
  <2>4. Agreed(Len(digits), Len(SignText(FALSE, G)), Len(HashText(16, G)), 16, 0, PointerDigits, G)
    BY <2>1, <2>2
  <2>5. digits \in Text /\ PointerDigits \in Nat
    BY <1>1, <1>4
  <2> DEFINE neg == FALSE
             b   == 16
             z   == 0
  <2>6. neg \in BOOLEAN /\ b \in {2, 8, 10, 16} /\ z \in Nat
    OBVIOUS
  <2>7. Agreed(Len(digits), Len(SignText(neg, G)), Len(HashText(b, G)), b, z, PointerDigits, G)
    BY <2>4
  <2> HIDE DEF neg, b, z
  <2>8. NtoaFormat(digits, neg, b, z, PointerDigits, G)
          = Layout(SignText(neg, G) \o HashText(b, G), Times("0", z - Len(digits)) \o Reverse(digits),
                   PointerDigits, G)
    BY ONLY <2>5, <2>6, <2>7, NtoaLaid
  <2> QED BY <2>8 DEF neg, b, z, r
<1>8. r \in Text /\ Len(r) = n
  BY <1>4, ReverseIsText
<1> HIDE DEF r
<1>9. Times("0", 0 - Len(digits)) \o r = r
  <2>1. 0 - Len(digits) \in Int /\ 0 - Len(digits) <= 0
    BY <1>4
  <2>2. Times("0", 0 - Len(digits)) = << >>
    BY <2>1, TimesNone, OwnCharacters
  <2> QED BY <1>8, <2>2, WithEmpty
<1>10. << >> \o << >> = << >> /\ << >> \in Text /\ Len(<< >>) = 0
  BY EmptyIsText, WithEmpty
<1>11. Layout(<< >>, r, PointerDigits, G) = fill \o r
  <2> DEFINE k   == PointerDigits - (Len(<< >>) + Len(r))
             gap == Times(" ", m - Len(fill))
  <2>1. k = m /\ m \in Int
    BY <1>1, <1>4, <1>8, <1>10
  <2>2. Layout(<< >>, r, PointerDigits, G) = gap \o << >> \o fill \o r
    BY <1>6, <2>1 DEF Layout
  <2> HIDE DEF m
  <2>3. fill \in Text /\ Len(fill) = IF m > 0 THEN m ELSE 0
    BY <2>1, TimesIsText, OwnCharacters
  <2> HIDE DEF fill
  <2>4. m - Len(fill) \in Int /\ m - Len(fill) <= 0
    BY <2>1, <2>3
  <2>5. gap = << >>
    BY <2>4, TimesNone, OwnCharacters
  <2> HIDE DEF gap
  <2>6. gap \o << >> = << >> /\ << >> \o fill = fill
    BY <1>10, <2>3, <2>5, WithEmpty
  <2> QED BY <2>2, <2>6
<1>12. PointerText(d) = fill \o r
  BY <1>5, <1>6, <1>7, <1>9, <1>10, <1>11
<1> QED BY <1>8, <1>12 DEF fill, r, m, n, digits
-------------------------------------------------------------------------------
(* The rounding of floating point numbers *)

\* A quotient and a remainder are all there is of either.
LEMMA QuotientIs ==
  ASSUME NEW a \in Nat, NEW d \in Nat \ {0}, NEW q \in Int, NEW r \in 0 .. d - 1, a = d * q + r
  PROVE  a \div d = q /\ a % d = r
<1> DEFINE x == a \div d
           y == a % d
<1>1. x \in Int /\ y \in 0 .. d - 1 /\ a = d * x + y
  BY Divided
<1> HIDE DEF x, y
<1>2. d * (x - q) = r - y /\ x - q \in Int
  BY <1>1
<1> DEFINE z == x - q
<1>3. z \in Int /\ d * z < d /\ d * z > 0 - d
  BY <1>1, <1>2
<1>4. z = 0
  <2> HIDE DEF z
  <2>1. z >= 1 => d * z >= d
    BY <1>3
  <2>2. z <= -1 => d * z <= 0 - d
    BY <1>3
  <2> QED BY <1>3, <2>1, <2>2
<1>5. x = q
  BY <1>1, <1>4
<1>6. y = r
  BY <1>1, <1>5
<1> QED BY <1>5, <1>6 DEF x, y

LEMMA Shifted ==
  ASSUME NEW d \in Nat \ {0}, NEW k \in Nat, NEW t \in Nat
  PROVE  (d * k + t) \div d = k + t \div d /\ (d * k + t) % d = t % d
<1> DEFINE q == t \div d
           r == t % d
           a == d * k + t
<1> HIDE DEF a
<1>1. q \in Nat /\ r \in 0 .. d - 1 /\ t = d * q + r
  <2>1. t \div d \in Nat
    BY Quotients
  <2>2. t % d \in 0 .. d - 1 /\ t = d * (t \div d) + (t % d)
    BY Divided
  <2> QED BY <2>1, <2>2
<1> HIDE DEF q, r
<1>2. a = d * (k + q) + r
  BY <1>1 DEF a
<1>3. a \in Nat
  <2>1. d * k \in Nat
    BY Product
  <2> QED BY <2>1 DEF a
<1>4. k + q \in Int
  BY <1>1
<1>5. a \div d = k + q /\ a % d = r
  BY <1>1, <1>2, <1>3, <1>4, QuotientIs
<1> QED BY <1>5 DEF a, q, r

\* the number a double comes nearest to, in units of its last digit
Below(a, p)   == (a * Power(10, p)) \div Unit
Rest(a, p)    == (a * Power(10, p)) % Unit
Nearest(a, p) == IF 2 * Rest(a, p) > Unit \/ (2 * Rest(a, p) = Unit /\ Below(a, p) % 2 = 1)
                 THEN Below(a, p) + 1 ELSE Below(a, p)

\* Half a unit of the last digit, and a multiple of 10: Unit has no factor 5.
LEMMA NoTie ==
  ASSUME NEW U \in Nat \ {0}, U % 5 # 0, NEW r \in Nat, NEW h \in Nat,
         NEW T \in Nat, T = 10 * h, NEW frac \in Nat, 2 * (r * T) = U * (2 * frac + 1)
  PROVE  frac # 0 /\ frac # T - 1
<1>1. \A z \in Int : U # 5 * z
  <2> SUFFICES ASSUME NEW z \in Int, U = 5 * z PROVE FALSE
    OBVIOUS
  <2>1. U = 5 * z + 0 /\ 0 \in 0 .. 5 - 1 /\ 5 \in Nat \ {0}
    OBVIOUS
  <2>2. U % 5 = 0
    BY <2>1, QuotientIs
  <2> QED BY <2>2
<1> DEFINE w == r * h
<1>2. w \in Nat /\ r * T = 10 * w
  <2>1. w \in Nat
    BY Product
  <2>2. r * (10 * h) = 10 * (r * h)
    BY SMT
  <2> QED BY <2>1, <2>2
<1> HIDE DEF w
<1>3. frac # 0
  <2> SUFFICES ASSUME frac = 0 PROVE FALSE
    OBVIOUS
  <2>1. U = 5 * (4 * w) /\ 4 * w \in Int
    BY <1>2
  <2> QED BY <1>1, <2>1
<1>4. frac # T - 1
  <2> SUFFICES ASSUME frac = T - 1 PROVE FALSE
    OBVIOUS
  <2> DEFINE y == U * h
  <2>1. y \in Nat
    BY Product
  <2>2. U * (2 * frac + 1) = 20 * (U * h) - U
    <3>1. 2 * frac + 1 = 20 * h - 1
      OBVIOUS
    <3>2. U * (20 * h - 1) = 20 * (U * h) - U
      BY SMT
    <3> QED BY <3>1, <3>2
  <2> HIDE DEF y
  <2>3. 20 * w = 20 * y - U
    BY <1>2, <2>2 DEF y
  <2>4. U = 5 * (4 * y - 4 * w) /\ 4 * y - 4 * w \in Int
    BY <1>2, <2>1, <2>3
  <2> QED BY <1>1, <2>4
<1> QED BY <1>3, <1>4

\* Where it is not half way, the nearest whole number is the one below or the next.
LEMMA NearIs ==
  ASSUME NEW n \in Nat, ~HalfWay(n)
  PROVE  Near(n) = IF 2 * (n % Unit) > Unit THEN n \div Unit + 1 ELSE n \div Unit
<1> DEFINE q == n \div Unit
           r == n % Unit
           m == IF 2 * r > Unit THEN q + 1 ELSE q
           s == IF 2 * r > Unit THEN 2 * r - Unit ELSE 2 * r + Unit
<1>1. Unit \in Nat \ {0} /\ q \in Nat /\ r \in Nat /\ r < Unit /\ n = Unit * q + r /\ 2 * r # Unit
  BY Sizes, Quotients, Divided DEF HalfWay
<1> HIDE DEF q, r
<1>2. 2 * n + Unit \in Nat /\ 2 * Unit \in Nat \ {0} /\ m \in Int /\ s \in 0 .. 2 * Unit - 1
  BY <1>1
<1>3. 2 * n + Unit = (2 * Unit) * m + s
  <2> DEFINE y == Unit * q
  <2>1. y \in Int /\ n = y + r
    BY <1>1, Product
  <2>2. (2 * Unit) * q = 2 * y /\ (2 * Unit) * (q + 1) = 2 * y + 2 * Unit
    BY <1>1, SMT
  <2> HIDE DEF y
  <2> QED BY <1>1, <2>1, <2>2
<1> HIDE DEF m, s
<1>4. (2 * n + Unit) \div (2 * Unit) = m
  BY <1>2, <1>3, QuotientIs
<1> QED BY <1>4 DEF Near, m, q, r

\* What Rounded computes is the nearest number, taken apart.
LEMMA RoundedIs ==
  ASSUME NEW a \in Nat, NEW p \in Nat, SameDigits(a, p)
  PROVE  /\ Rounded(a, p)[1] \in Nat /\ Rounded(a, p)[2] \in 0 .. Power(10, p) - 1
         /\ Nearest(a, p) = Rounded(a, p)[1] * Power(10, p) + Rounded(a, p)[2]
<1> DEFINE T     == Power(10, p)
           whole == a \div Unit
           r     == a % Unit
           exact == r * T
           f0    == exact \div Unit
           r0    == exact % Unit
           tmp   == Scaled(r, p)
           frac  == tmp \div Unit
           rest  == tmp % Unit
           twice == 2 * rest
           up    == IF \/ twice > Unit
                       \/ twice = Unit /\ (frac = 0 \/ frac % 2 = 1)
                    THEN frac + 1 ELSE frac
           carry == twice > Unit /\ up >= T
           w     == IF carry THEN whole + 1 ELSE whole
           X     == whole * T
           R     == Rounded(a, p)
<1>1. Unit \in Nat \ {0} /\ Unit % 5 # 0 /\ T \in Nat \ {0}
  <2>1. 10 \in Nat \ {0}
    OBVIOUS
  <2> QED BY <2>1, Sizes, NumberTextAssumption, PowerPositive
<1>2. R = IF p = 0
          THEN IF 2 * (a - w * Unit) >= Unit /\ w % 2 = 1 THEN <<w + 1, 0>> ELSE <<w, 0>>
          ELSE <<w, IF carry THEN 0 ELSE up>>
  BY DEF Rounded, RoundedBy
<1>3. p = 0 => T = 1
  <2>1. 10 \in Nat \ {0}
    OBVIOUS
  <2> QED BY <2>1, PowerStep
<1>4. Below(a, p) = (a * T) \div Unit /\ Rest(a, p) = (a * T) % Unit
  BY DEF Below, Rest
<1>5. p # 0 => \E h \in Nat : T = 10 * h
  <2> SUFFICES ASSUME p # 0 PROVE \E h \in Nat : T = 10 * h
    OBVIOUS
  <2>1. 10 \in Nat \ {0} /\ p - 1 \in Nat /\ (p - 1) + 1 = p
    OBVIOUS
  <2>2. T = 10 * Power(10, p - 1) /\ Power(10, p - 1) \in Nat
    BY <2>1, PowerStep, PowerPositive
  <2> QED BY <2>2
<1>6. \/ tmp = exact
      \/ ~HalfWay(exact) /\ ~HalfWay(tmp) /\ Near(tmp) = Near(exact) /\ frac < T
  BY ONLY SameDigits(a, p) DEF SameDigits
<1> HIDE DEF T, R
<1>7. whole \in Nat /\ r \in Nat /\ r < Unit /\ a = Unit * whole + r
  BY <1>1, Quotients, Divided
<1> HIDE DEF whole, r
<1>8. exact \in Nat /\ X \in Nat /\ tmp \in Nat
  BY <1>1, <1>7, Product, ScaledIsNat
<1>9. a * T = Unit * X + exact
  <2>1. (Unit * whole + r) * T = Unit * (whole * T) + r * T
    BY <1>1, <1>7, SMT
  <2> QED BY <1>7, <2>1
<1>10. /\ f0 \in Nat /\ r0 \in Nat /\ r0 < Unit /\ exact = Unit * f0 + r0
  <2> HIDE DEF exact
  <2>1. exact \div Unit \in Nat /\ exact % Unit \in Nat /\ exact % Unit < Unit
    BY <1>1, <1>8, Quotients
  <2>2. exact = Unit * (exact \div Unit) + (exact % Unit)
    <3>1. exact \in Int
      BY <1>8
    <3> QED BY ONLY <1>1, <3>1, Divided
  <2> QED BY <2>1, <2>2
<1>11. /\ frac \in Nat /\ rest \in Nat /\ rest < Unit /\ tmp = Unit * frac + rest
  <2> HIDE DEF tmp
  <2>1. tmp \div Unit \in Nat /\ tmp % Unit \in Nat /\ tmp % Unit < Unit
    BY <1>1, <1>8, Quotients
  <2>2. tmp = Unit * (tmp \div Unit) + (tmp % Unit)
    <3>1. tmp \in Int
      BY <1>8
    <3> QED BY ONLY <1>1, <3>1, Divided
  <2> QED BY <2>1, <2>2
<1>12. f0 < T
  <2>1. exact < Unit * T
    <3>1. (Unit - r) * T >= T /\ (Unit - r) * T = Unit * T - r * T
      <4>1. Unit - r >= 1 /\ Unit - r \in Int
        BY <1>1, <1>7
      <4>2. \A y \in Int : y >= 1 => y * T >= T
        BY <1>1, SMT
      <4>3. (Unit - r) * T = Unit * T - r * T
        BY <1>1, <1>7, SMT
      <4> QED BY <4>1, <4>2, <4>3
    <3>2. Unit * T \in Nat
      BY <1>1, Product
    <3> DEFINE y == Unit * T
    <3>3. (Unit - r) * T = y - exact
      BY <3>1
    <3> HIDE DEF y, exact
    <3> QED BY <1>1, <1>8, <3>1, <3>2, <3>3 DEF y
  <2> HIDE DEF exact, f0, r0
  <2> SUFFICES ASSUME f0 >= T PROVE FALSE
    BY <1>1, <1>10
  <2>2. Unit * f0 >= Unit * T
    BY <1>1, <1>10, SMT
  <2>3. Unit * f0 \in Nat /\ Unit * T \in Nat
    BY <1>1, <1>10, Product
  <2> QED BY <1>8, <1>10, <2>1, <2>2, <2>3
<1>13. Below(a, p) = X + f0 /\ Rest(a, p) = r0
  <2> HIDE DEF X, exact
  <2>1. (Unit * X + exact) \div Unit = X + exact \div Unit /\ (Unit * X + exact) % Unit = exact % Unit
    BY <1>1, <1>8, Shifted
  <2> QED BY <1>4, <1>9, <2>1
\* half a unit more
<1>14. p # 0 /\ 2 * r0 = Unit => f0 # 0 /\ f0 # T - 1
  <2> SUFFICES ASSUME p # 0, 2 * r0 = Unit PROVE f0 # 0 /\ f0 # T - 1
    OBVIOUS
  <2>1. PICK h \in Nat : T = 10 * h
    BY <1>5
  <2>2. 2 * (r * T) = Unit * (2 * f0 + 1)
    <3> DEFINE y == Unit * f0
    <3>1. y \in Nat
      BY <1>1, <1>10, Product
    <3>2. Unit * (2 * f0 + 1) = 2 * y + Unit
      BY <1>1, <1>10, SMT
    <3>3. exact = y + r0 /\ 2 * r0 = Unit
      BY <1>10
    <3> HIDE DEF y, r0, exact
    <3>4. 2 * exact = 2 * y + Unit
      BY <1>1, <1>8, <1>10, <3>1, <3>3
    <3> QED BY <3>2, <3>4 DEF exact
  <2> HIDE DEF f0, r0
  <2>3. Unit \in Nat \ {0} /\ Unit % 5 # 0 /\ r \in Nat /\ h \in Nat /\ T \in Nat /\ f0 \in Nat
    BY <1>1, <1>7, <1>10
  <2> QED BY ONLY <2>1, <2>2, <2>3, NoTie
<1>15. p # 0 => (X + f0) % 2 = f0 % 2
  <2> SUFFICES ASSUME p # 0 PROVE (X + f0) % 2 = f0 % 2
    OBVIOUS
  <2>1. PICK h \in Nat : T = 10 * h
    BY <1>5
  <2> DEFINE k == whole * (5 * h)
  <2>2. k \in Nat /\ X = 2 * k
    <3>1. 5 * h \in Nat
      OBVIOUS
    <3>2. whole * (10 * h) = 2 * (whole * (5 * h))
      BY <1>7, SMT
    <3> QED BY <1>7, <2>1, <3>1, <3>2, Product
  <2> HIDE DEF k, X, f0
  <2>3. 2 \in Nat \ {0}
    OBVIOUS
  <2>4. (2 * k + f0) % 2 = f0 % 2
    BY <1>10, <2>2, <2>3, Shifted
  <2> QED BY <2>2, <2>4
<1>16. Nearest(a, p) = IF 2 * r0 > Unit \/ (2 * r0 = Unit /\ (X + f0) % 2 = 1)
                       THEN X + f0 + 1 ELSE X + f0
  <2> HIDE DEF f0, r0, X
  <2> QED BY <1>13 DEF Nearest
<1>17. \/ frac = f0 /\ rest = r0
       \/ /\ 2 * r0 # Unit /\ twice # Unit /\ frac < T
          /\ (IF twice > Unit THEN frac + 1 ELSE frac) = (IF 2 * r0 > Unit THEN f0 + 1 ELSE f0)
  <2>1. CASE tmp = exact
    BY <2>1
  <2>2. CASE ~HalfWay(exact) /\ ~HalfWay(tmp) /\ Near(tmp) = Near(exact) /\ frac < T
    <3> HIDE DEF exact, tmp
    <3>1. 2 * r0 # Unit /\ twice # Unit
      BY <2>2 DEF HalfWay
    <3>2. /\ Near(tmp) = IF twice > Unit THEN frac + 1 ELSE frac
          /\ Near(exact) = IF 2 * r0 > Unit THEN f0 + 1 ELSE f0
      BY <1>8, <2>2, NearIs
    <3> QED BY <2>2, <3>1, <3>2
  <2> QED BY <1>6, <2>1, <2>2
<1> HIDE DEF exact, f0, r0, tmp, frac, rest, X
<1>18. CASE p # 0
  <2>1. R = <<w, IF carry THEN 0 ELSE up>>
    BY <1>2, <1>18
  <2>2. R[1] = w /\ R[2] = IF carry THEN 0 ELSE up
    BY <2>1
  <2>3. Nearest(a, p) = X + up /\ up \in Nat
    <3>1. CASE frac = f0 /\ rest = r0
      BY <1>8, <1>14, <1>15, <1>16, <1>18, <1>10, <3>1
    <3>2. CASE ~(frac = f0 /\ rest = r0)
      BY <1>8, <1>11, <1>16, <1>10, <1>17, <3>2
    <3> QED BY <3>1, <3>2
  <2>4. up <= T /\ (twice <= Unit => up < T)
    <3>1. frac < T
      BY <1>12, <1>17
    <3>2. twice = Unit => frac # T - 1
      BY <1>14, <1>18, <1>17
    <3>3. CASE twice > Unit
      BY <1>1, <1>11, <3>1, <3>3
    <3>4. CASE twice <= Unit
      BY <1>1, <1>11, <3>1, <3>2, <3>4
    <3> QED BY <1>1, <1>11, <3>3, <3>4
  <2> HIDE DEF up
  <2>5. CASE carry
    <3>1. twice > Unit /\ up = T
      BY <1>1, <2>3, <2>4, <2>5
    <3>2. w = whole + 1
      BY <2>5
    <3>3. w * T = X + T
      BY <1>1, <1>7, <3>2, SMT DEF X
    <3>4. R[1] = w /\ R[2] = 0 /\ w \in Nat /\ w * T = X + T /\ 0 \in 0 .. T - 1
      BY <1>1, <1>7, <2>2, <2>5, <3>2, <3>3
    <3> HIDE DEF carry, w
    <3>5. Nearest(a, p) = w * T + 0
      BY <1>1, <1>8, <2>3, <3>1, <3>4
    <3>6. R[1] \in Nat /\ R[2] \in 0 .. T - 1 /\ Nearest(a, p) = R[1] * T + R[2]
      BY <3>4, <3>5
    <3> QED BY <3>6 DEF R, T
  <2>6. CASE ~ carry
    <3>1. up < T
      BY <1>1, <1>11, <2>3, <2>4, <2>6
    <3>2. w = whole /\ w * T = X
      BY <2>6 DEF X
    <3>3. R[1] = w /\ R[2] = up /\ w \in Nat /\ w * T = X /\ up \in 0 .. T - 1
      BY <1>1, <1>7, <2>2, <2>3, <2>6, <3>1, <3>2
    <3> HIDE DEF carry, w
    <3>4. R[1] \in Nat /\ R[2] \in 0 .. T - 1 /\ Nearest(a, p) = R[1] * T + R[2]
      BY <2>3, <3>3
    <3> QED BY <3>4 DEF R, T
  <2> QED BY <2>5, <2>6
<1>19. CASE p = 0
  <2>1. T = 1 /\ X = whole /\ f0 = 0
    BY <1>1, <1>3, <1>7, <1>12, <1>19, <1>10 DEF X
  <2>2. exact = r /\ tmp = r /\ r0 = r
    <3>1. exact = r /\ tmp = r
      BY <1>7, <1>19, <2>1 DEF exact, tmp, Scaled
    <3>2. r0 = r
      BY <1>1, <1>7, <1>10, <2>1, <3>1
    <3> QED BY <3>1, <3>2
  <2>3. frac = 0 /\ rest = r /\ twice = 2 * r
    BY <2>1, <2>2 DEF frac, rest, f0, r0
  <2>4. 0 % 2 = 0 /\ whole % 2 \in 0 .. 1
    BY <1>7
  <2>5. Nearest(a, p) = IF 2 * r > Unit \/ (2 * r = Unit /\ whole % 2 = 1) THEN whole + 1 ELSE whole
    BY <1>7, <1>16, <2>1, <2>2
  <2> DEFINE W == whole * Unit
  <2>6. W \in Nat /\ a = W + r /\ (whole + 1) * Unit = W + Unit
    BY <1>1, <1>7, Product, SMT
  <2> HIDE DEF W
  <2>7. R = IF 2 * r > Unit \/ (2 * r = Unit /\ whole % 2 = 1)
            THEN <<whole + 1, 0>> ELSE <<whole, 0>>
    <3>1. R = IF 2 * (a - w * Unit) >= Unit /\ w % 2 = 1 THEN <<w + 1, 0>> ELSE <<w, 0>>
      BY <1>2, <1>19
    <3>2. CASE 2 * r > Unit
      <4>1. up = 1 /\ carry
        BY <2>1, <2>3, <3>2
      <4>2. w = whole + 1 /\ w * Unit = W + Unit
        BY <2>6, <4>1
      <4>3. ~ (2 * (a - w * Unit) >= Unit)
        BY <1>1, <1>7, <2>6, <4>2
      <4> QED BY <3>1, <3>2, <4>2, <4>3
    <3>3. CASE ~ (2 * r > Unit)
      <4>1. w = whole /\ w * Unit = W
        BY <2>3, <3>3 DEF W
      <4>2. 2 * (a - w * Unit) >= Unit <=> 2 * r = Unit
        BY <1>1, <1>7, <2>6, <3>3, <4>1
      <4> QED BY <3>1, <3>3, <4>1, <4>2
    <3> QED BY <3>2, <3>3
  <2>8. CASE 2 * r > Unit \/ (2 * r = Unit /\ whole % 2 = 1)
    <3>1. R[1] = whole + 1 /\ R[2] = 0 /\ Nearest(a, p) = whole + 1
      BY <2>5, <2>7, <2>8
    <3> QED BY <1>7, <2>1, <3>1 DEF R, T
  <2>9. CASE ~ (2 * r > Unit \/ (2 * r = Unit /\ whole % 2 = 1))
    <3>1. R[1] = whole /\ R[2] = 0 /\ Nearest(a, p) = whole
      BY <2>5, <2>7, <2>9
    <3> QED BY <1>7, <2>1, <3>1 DEF R, T
  <2> QED BY <2>8, <2>9
<1> QED BY <1>18, <1>19
-------------------------------------------------------------------------------
(* Decimal digits, least significant first, and zeros behind them *)

Decimal(v)   == Digits(v, 10, FALSE)
One(c)       == <<DigitChar(c, FALSE)>>
Filler(v, k) == Times("0", k - Len(Decimal(v)))
Wide10(v, k) == Decimal(v) \o Filler(v, k)

LEMMA DecimalStep ==
  ASSUME NEW v \in Nat
  PROVE  /\ Decimal(v) \in Text /\ Len(Decimal(v)) \in Nat /\ Len(Decimal(v)) > 0
         /\ v < 10 => Decimal(v) = One(v)
         /\ v >= 10 => Decimal(v) = One(v % 10) \o Decimal(v \div 10)
<1> DEFINE b == 10
           u == FALSE
<1>1. b \in 2 .. 16 /\ u \in BOOLEAN
  OBVIOUS
<1> HIDE DEF b, u
<1>2. Digits(v, b, u) \in Text /\ Len(Digits(v, b, u)) > 0
  BY <1>1, DigitsIsText, DigitsNotEmpty
<1>3. Digits(v, b, u) = IF v < b THEN <<DigitChar(v, u)>>
                        ELSE <<DigitChar(v % b, u)>> \o Digits(v \div b, b, u)
  BY <1>1, DigitsStep, Zenon
<1>4. v >= b => ~ (v < b)
  BY <1>1
<1>5. (v < b => Digits(v, b, u) = <<DigitChar(v, u)>>)
      /\ (v >= b => Digits(v, b, u) = <<DigitChar(v % b, u)>> \o Digits(v \div b, b, u))
  BY <1>3, <1>4, Zenon
<1> DEFINE t == Digits(v, b, u)
<1>6. Len(t) \in Nat
  <2> HIDE DEF t
  <2>1. t \in Text
    BY <1>2 DEF t
  <2> QED BY <2>1, TextLength
<1> QED BY <1>2, <1>5, <1>6 DEF b, u, Decimal, One

LEMMA OneIsText ==
  ASSUME NEW c \in 0 .. 9
  PROVE  One(c) \in Text /\ Len(One(c)) = 1
<1>1. c \in 0 .. 15 /\ FALSE \in BOOLEAN
  OBVIOUS
<1>2. DigitChar(c, FALSE) \in Characters
  BY <1>1, DigitIsCharacter
<1> QED BY <1>2, SingleIsText DEF One

LEMMA OneZero == One(0) = <<"0">>
BY DEF One, DigitChar

LEMMA TimesOf ==
  ASSUME NEW n \in Int
  PROVE  /\ Times("0", n) \in Text
         /\ Len(Times("0", n)) = IF n > 0 THEN n ELSE 0
         /\ n <= 0 => Times("0", n) = << >>
         /\ n >= 1 => Times("0", n) = <<"0">> \o Times("0", n - 1)
<1>1. n >= 1 => Times("0", n) = <<"0">> \o Times("0", n - 1)
  <2> SUFFICES ASSUME n >= 1 PROVE Times("0", n) = <<"0">> \o Times("0", n - 1)
    OBVIOUS
  <2>1. n - 1 \in Nat /\ 1 \in Nat /\ 1 + (n - 1) = n
    OBVIOUS
  <2>2. Times("0", 1) = <<"0">>
    BY DEF Times
  <2>3. Times("0", 1) \o Times("0", n - 1) = Times("0", 1 + (n - 1))
    BY <2>1, TimesJoined, OwnCharacters
  <2> QED BY <2>1, <2>2, <2>3
<1> QED BY <1>1, TimesIsText, TimesNone, OwnCharacters

LEMMA TenParts ==
  ASSUME NEW v \in Nat
  PROVE  /\ v \div 10 \in Nat /\ v % 10 \in 0 .. 9 /\ v = 10 * (v \div 10) + (v % 10)
         /\ v < 10 <=> v \div 10 = 0
<1>1. v \div 10 \in Nat /\ v % 10 \in Nat /\ v % 10 < 10 /\ v = 10 * (v \div 10) + (v % 10)
  <2>1. 10 \in Nat \ {0}
    OBVIOUS
  <2> QED BY <2>1, Quotients, Divided
<1> DEFINE q == v \div 10
           r == v % 10
<1> HIDE DEF q, r
<1>2. q \in Nat /\ r \in Nat /\ r < 10 /\ v = 10 * q + r
  BY <1>1 DEF q, r
<1>3. v < 10 <=> q = 0
  BY <1>2
<1> QED BY <1>2, <1>3 DEF q, r

\* One digit less, and one place less.
LEMMA Wide10Step ==
  ASSUME NEW v \in Nat, NEW k \in Nat, k >= 1
  PROVE  /\ Wide10(v, k + 1) = One(v % 10) \o Wide10(v \div 10, k)
         /\ Wide10(v, k) \in Text
         /\ v < 10 => Wide10(v, 1) = One(v) /\ Wide10(v, k) = One(v) \o Times("0", k - 1)
<1> DEFINE q == v \div 10
           c == v % 10
           t == Decimal(q)
<1>1. q \in Nat /\ c \in 0 .. 9 /\ (v < 10 <=> q = 0) /\ v = 10 * q + c
  BY TenParts
<1>2. v < 10 \/ v >= 10
  OBVIOUS
<1>3. v < 10 => Decimal(v) = One(v)
  BY DecimalStep
<1>4. v >= 10 => Decimal(v) = One(c) \o t
  BY DecimalStep
<1> HIDE DEF q, c
<1>5. t \in Text /\ Len(t) \in Nat /\ Len(t) > 0
  BY <1>1, DecimalStep
<1>6. Decimal(v) \in Text /\ Len(Decimal(v)) \in Nat
  BY DecimalStep
<1>7. One(c) \in Text /\ Len(One(c)) = 1 /\ One(0) = <<"0">>
  BY <1>1, OneIsText, OneZero
<1> HIDE DEF t
<1>8. Wide10(v, k) \in Text
  <2>1. k - Len(Decimal(v)) \in Int
    BY <1>6
  <2> QED BY <1>6, <2>1, TimesOf, Joined DEF Wide10, Filler
<1>9. CASE v < 10
  <2>1. v = c /\ q = 0 /\ Decimal(v) = One(c) /\ Len(Decimal(v)) = 1
    BY <1>1, <1>3, <1>7, <1>9
  <2>2. \A j \in Int : Wide10(v, j) = One(c) \o Times("0", j - 1)
    BY <2>1 DEF Wide10, Filler
  <2>3. Wide10(v, 1) = One(c)
    <3>1. 1 - 1 \in Int /\ 1 - 1 <= 0 /\ 1 \in Int
      OBVIOUS
    <3>2. Times("0", 1 - 1) = << >>
      BY <3>1, TimesOf
    <3>3. Wide10(v, 1) = One(c) \o Times("0", 1 - 1)
      BY <2>2, <3>1
    <3>4. One(c) \o << >> = One(c)
      BY <1>7, WithEmpty
    <3> QED BY <3>2, <3>3, <3>4
  <2>4. Wide10(q, k) = Times("0", k)
    <3>1. t = <<"0">> /\ Len(t) = 1
      <4>1. Decimal(0) = One(0)
        BY DecimalStep
      <4> QED BY <1>7, <2>1, <4>1, SingleIsText, OwnCharacters DEF t
    <3>2. Wide10(q, k) = <<"0">> \o Times("0", k - 1)
      BY <3>1 DEF Wide10, Filler, t
    <3>3. Times("0", k) = <<"0">> \o Times("0", k - 1)
      <4>1. k \in Int
        OBVIOUS
      <4> QED BY <4>1, TimesOf
    <3> QED BY <3>2, <3>3
  <2>5. Wide10(v, k + 1) = One(c) \o Times("0", k)
    <3>1. (k + 1) - 1 = k /\ k + 1 \in Int
      OBVIOUS
    <3> QED BY <2>2, <3>1
  <2>6. Wide10(v, k + 1) = One(c) \o Wide10(q, k)
    BY <2>4, <2>5
  <2>7. k \in Int
    OBVIOUS
  <2> QED BY <1>8, <2>1, <2>2, <2>3, <2>6, <2>7 DEF q, c
<1>10. CASE v >= 10
  <2>1. Decimal(v) = One(c) \o t /\ ~ (v < 10)
    BY <1>4, <1>10
  <2>2. Len(Decimal(v)) = 1 + Len(t)
    BY <1>5, <1>7, <2>1, Joined
  <2> DEFINE z == Times("0", k - Len(t))
  <2>3. Wide10(v, k + 1) = (One(c) \o t) \o z
    <3>1. (k + 1) - Len(Decimal(v)) = k - Len(t)
      BY <1>5, <2>2
    <3> QED BY <2>1, <3>1 DEF Wide10, Filler
  <2>4. Wide10(q, k) = t \o z
    BY DEF Wide10, Filler, t
  <2>5. z \in Text
    <3>1. k - Len(t) \in Int
      BY <1>5
    <3> QED BY <3>1, TimesOf
  <2> HIDE DEF z
  <2>6. (One(c) \o t) \o z = One(c) \o (t \o z)
    BY <1>5, <1>7, <2>5, Grouped
  <2> QED BY <1>8, <2>1, <2>3, <2>4, <2>6 DEF q, c
<1> QED BY <1>2, <1>9, <1>10

\* The digits of the fraction and those of the whole part are those of the number.
LEMMA FractionJoined ==
  ASSUME NEW p \in Nat, p >= 1, NEW b \in Nat, b < Power(10, p), NEW a \in Nat
  PROVE  /\ Wide10(b, p) \in Text /\ Len(Wide10(b, p)) = p
         /\ Wide10(b, p) \o Decimal(a) = Wide10(a * Power(10, p) + b, p + 1)
<1> DEFINE Joins(x, y, m) == Wide10(x, m) \o Decimal(y) = Wide10(y * Power(10, m) + x, m + 1)
           S == {m \in Nat : m >= 1 =>
                   \A x \in Nat : x < Power(10, m) =>
                      Len(Wide10(x, m)) = m /\ \A y \in Nat : Joins(x, y, m)}
<1>1. \A m \in Nat : /\ Power(10, m) \in Nat \ {0} /\ Power(10, m + 1) = 10 * Power(10, m)
                     /\ Power(10, 0) = 1
  <2>1. 10 \in Nat \ {0}
    OBVIOUS
  <2> QED BY <2>1, PowerStep, PowerPositive
<1>2. ASSUME NEW x \in Nat, NEW k \in Nat
      PROVE  /\ x \div 10 \in Nat /\ x % 10 \in 0 .. 9 /\ x = 10 * (x \div 10) + (x % 10)
             /\ (10 * k + x) \div 10 = k + x \div 10 /\ (10 * k + x) % 10 = x % 10
  <2>1. 10 \in Nat \ {0}
    OBVIOUS
  <2> QED BY <2>1, TenParts, Shifted
<1>3. 0 \in S
  OBVIOUS
<1>4. ASSUME NEW m \in S PROVE m + 1 \in S
  <2> DEFINE T == Power(10, m)
  <2>5. m \in Nat
    BY <1>4
  <2>0. m \in Nat /\ m + 1 \in Nat /\ m + 1 >= 1 /\ T \in Nat \ {0} /\ Power(10, m + 1) = 10 * T
    <3> HIDE DEF S
    <3> QED BY <1>1, <2>5
  <2>1. m >= 1 => \A x \in Nat : x < T =>
          Len(Wide10(x, m)) = m /\ \A y \in Nat : Wide10(x, m) \o Decimal(y) = Wide10(y * T + x, m + 1)
    BY <1>4
  <2>2. m = 0 => T = 1
    BY <1>1
  <2> HIDE DEF T, S
  <2>3. ASSUME NEW x \in Nat, x < 10 * T, NEW y \in Nat
        PROVE  /\ Len(Wide10(x, m + 1)) = m + 1
               /\ Wide10(x, m + 1) \o Decimal(y) = Wide10(y * (10 * T) + x, (m + 1) + 1)
    <3> DEFINE q == x \div 10
               c == x % 10
               k == y * T
               v == y * (10 * T) + x
    <3>1. k \in Nat /\ y * (10 * T) = 10 * k
      <4>1. k \in Nat
        BY <2>0, Product
      <4>2. y * (10 * T) = 10 * (y * T)
        BY <2>0, SMT
      <4> QED BY <4>1, <4>2
    <3> HIDE DEF k
    <3>2. q \in Nat /\ c \in 0 .. 9 /\ x = 10 * q + c
      BY <1>2
    <3>3. v = 10 * k + x /\ v \in Nat
      BY <3>1
    <3>4. v \div 10 = k + q /\ v % 10 = c
      BY <1>2, <3>1, <3>3
    <3> HIDE DEF q, c, v
    <3>5. Wide10(v, (m + 1) + 1) = One(c) \o Wide10(k + q, m + 1)
      BY <2>0, <3>3, <3>4, Wide10Step
    <3>6. One(c) \in Text /\ Len(One(c)) = 1 /\ Decimal(y) \in Text /\ Len(Decimal(y)) > 0
          /\ Len(Decimal(y)) \in Nat
      BY <3>2, OneIsText, DecimalStep
    <3>7. CASE m = 0
      <4>1. x < 10 /\ q = 0 /\ c = x /\ k = y
        <5>1. T = 1
          BY <2>2, <3>7
        <5>2. k = y
          BY <5>1 DEF k
        <5> QED BY <2>3, <3>2, <5>1, <5>2
      <4>2. 1 \in Nat /\ 1 >= 1
        OBVIOUS
      <4>3. Wide10(x, 1) = One(x)
        BY <4>1, <4>2, Wide10Step
      <4>4. Wide10(y, 1) = Decimal(y)
        <5>1. 1 - Len(Decimal(y)) \in Int /\ 1 - Len(Decimal(y)) <= 0
          BY <3>6
        <5>2. Times("0", 1 - Len(Decimal(y))) = << >>
          BY <5>1, TimesOf
        <5> QED BY <3>6, <5>2, WithEmpty DEF Wide10, Filler
      <4>5. k + q = y /\ m + 1 = 1
        BY <3>7, <4>1
      <4> QED BY <3>5, <3>6, <4>1, <4>3, <4>4, <4>5 DEF v
    <3>8. CASE m # 0
      <4>1. m >= 1 /\ q < T
        BY <2>0, <3>2, <3>8, <2>3
      <4>2. Wide10(x, m + 1) = One(c) \o Wide10(q, m)
        BY <2>0, <4>1, Wide10Step DEF q, c
      <4>3. Len(Wide10(q, m)) = m /\ Wide10(q, m) \o Decimal(y) = Wide10(k + q, m + 1)
        BY <2>1, <3>2, <4>1 DEF k
      <4>4. Wide10(q, m) \in Text
        BY <2>0, <3>2, <4>1, Wide10Step
      <4>5. Len(One(c) \o Wide10(q, m)) = 1 + m
        BY <3>6, <4>3, <4>4, Joined
      <4>6. (One(c) \o Wide10(q, m)) \o Decimal(y) = One(c) \o (Wide10(q, m) \o Decimal(y))
        BY <3>6, <4>4, Grouped
      <4>7. 1 + m = m + 1
        BY <2>0
      <4> QED BY <3>5, <4>2, <4>3, <4>5, <4>6, <4>7 DEF v
    <3> QED BY <3>7, <3>8
  <2>4. \A x \in Nat : x < Power(10, m + 1) =>
          Len(Wide10(x, m + 1)) = m + 1 /\ \A y \in Nat : Joins(x, y, m + 1)
    <3> SUFFICES ASSUME NEW x \in Nat, x < Power(10, m + 1)
                 PROVE  Len(Wide10(x, m + 1)) = m + 1 /\ \A y \in Nat : Joins(x, y, m + 1)
      OBVIOUS
    <3>1. x < 10 * T
      BY <2>0
    <3>2. 0 \in Nat
      OBVIOUS
    <3> QED BY <2>0, <2>3, <3>1, <3>2
  <2> QED BY <2>0, <2>4 DEF S
<1>5. S \in SUBSET Nat
  OBVIOUS
<1> HIDE DEF S, Joins
<1>6. p \in S
  BY <1>3, <1>4, <1>5, Induction
<1>7. Len(Wide10(b, p)) = p /\ Joins(b, a, p)
  BY <1>6 DEF S
<1>8. Wide10(b, p) \in Text
  BY Wide10Step
<1> QED BY <1>7, <1>8 DEF Joins
-------------------------------------------------------------------------------
(* Floating point numbers: what is printed is the text of the standard *)

LEMMA Halves ==
  ASSUME NEW h \in Text, NEW f \in Text
  PROVE  /\ SubSeq(h \o f, 1, Len(h)) = h
         /\ SubSeq(h \o f, Len(h) + 1, Len(h \o f)) = f
<1>1. SubSeq(h \o f, 1, Len(h)) = h
  BY DEF Text
<1> DEFINE s == SubSeq(h \o f, Len(h) + 1, Len(h \o f))
<1>2. Len(h) \in Nat /\ Len(f) \in Nat /\ Len(h \o f) = Len(h) + Len(f) /\ h \o f \in Text
  BY Joined, TextLength
<1>3. s \in Text /\ Len(s) = Len(f)
  BY <1>2 DEF Text
<1>4. \A i \in 1 .. Len(f) : s[i] = f[i]
  <2> TAKE i \in 1 .. Len(f)
  <2>1. s[i] = (h \o f)[Len(h) + i]
    BY <1>2 DEF Text
  <2>2. Len(h) + i \in 1 .. Len(h) + Len(f) /\ ~ (Len(h) + i <= Len(h)) /\ Len(h) + i - Len(h) = i
    BY <1>2
  <2>3. (h \o f)[Len(h) + i] = f[Len(h) + i - Len(h)]
    BY <2>2, JoinedAt
  <2> QED BY <2>1, <2>2, <2>3
<1> HIDE DEF s
<1>5. s = f
  BY <1>3, <1>4, SameText
<1> QED BY <1>1, <1>5 DEF s

\* the fraction and the point, backwards, as _ftoa makes them
FractionText(b, p) == IF p = 0 THEN << >> ELSE Append(Wide10(b, p), ".")

AllDigits(v, p) == Times("0", p + 1 - Len(Reverse(Decimal(v)))) \o Reverse(Decimal(v))

WithPoint(all, p) ==
  IF p = 0 THEN all
  ELSE SubSeq(all, 1, Len(all) - p) \o <<".">> \o SubSeq(all, Len(all) - p + 1, Len(all))

LEMMA FloatBody ==
  ASSUME NEW a \in Nat, NEW p \in Nat, SameDigits(a, p)
  PROVE  /\ FractionText(Rounded(a, p)[2], p) \o Decimal(Rounded(a, p)[1]) \in Text
         /\ Reverse(FractionText(Rounded(a, p)[2], p) \o Decimal(Rounded(a, p)[1]))
              = WithPoint(AllDigits(Nearest(a, p), p), p)
<1> DEFINE x    == Rounded(a, p)[1]
           y    == Rounded(a, p)[2]
           near == Nearest(a, p)
           T    == Power(10, p)
           D    == Decimal(near)
           h    == Reverse(Decimal(x))
<1>1. x \in Nat /\ y \in Nat /\ y < T /\ near = x * T + y /\ T \in Nat \ {0}
  <2>1. 10 \in Nat \ {0}
    OBVIOUS
  <2>2. T \in Nat \ {0}
    BY <2>1, PowerPositive
  <2>3. x \in Nat /\ y \in 0 .. T - 1 /\ near = x * T + y
    BY RoundedIs
  <2> HIDE DEF x, y, T, near
  <2> QED BY <2>2, <2>3
<1>2. near \in Nat
  <2> HIDE DEF x, y, T, near
  <2>1. x * T \in Nat
    BY <1>1, Product
  <2> QED BY <1>1, <2>1
<1> HIDE DEF x, y, near
<1>3. D \in Text /\ Len(D) \in Nat /\ Len(D) > 0 /\ Decimal(x) \in Text
  BY <1>1, <1>2, DecimalStep
<1>4. h \in Text /\ Reverse(D) \in Text /\ Len(Reverse(D)) = Len(D) /\ Len(h) \in Nat
  BY <1>3, ReverseIsText, TextLength
<1>5. CASE p = 0
  <2>1. T = 1
    <3>1. 10 \in Nat \ {0}
      OBVIOUS
    <3> QED BY <1>5, <3>1, PowerStep
  <2>2. near = x
    <3> HIDE DEF T
    <3>1. y = 0 /\ x * T = x
      BY <1>1, <2>1
    <3> QED BY <1>1, <3>1
  <2>3. FractionText(y, p) \o Decimal(x) = Decimal(x)
    BY <1>3, <1>5, WithEmpty DEF FractionText
  <2>4. AllDigits(near, p) = h
    <3>1. p + 1 - Len(Reverse(D)) \in Int /\ p + 1 - Len(Reverse(D)) <= 0
      BY <1>3, <1>4, <1>5
    <3>2. Times("0", p + 1 - Len(Reverse(D))) = << >>
      BY <3>1, TimesOf
    <3>3. Reverse(D) = h
      BY <2>2
    <3> QED BY <1>4, <3>2, <3>3, WithEmpty DEF AllDigits
  <2> QED BY <1>3, <1>5, <2>3, <2>4 DEF WithPoint, x, y, near
<1>6. CASE p # 0
  <2> DEFINE W    == Wide10(y, p)
             f    == Reverse(W)
             dot  == <<".">>
             all  == AllDigits(near, p)
             core == FractionText(y, p) \o Decimal(x)
  <2>1. W \in Text /\ Len(W) = p /\ W \o Decimal(x) = Wide10(near, p + 1)
    <3>1. p >= 1
      BY <1>6
    <3> HIDE DEF T
    <3>2. Power(10, p) = T
      BY DEF T
    <3> QED BY <1>1, <3>1, <3>2, FractionJoined
  <2>2. dot \in Text /\ Len(dot) = 1 /\ Reverse(dot) = dot
    BY SingleIsText, ReverseSingle, OwnCharacters
  <2>3. FractionText(y, p) = W \o dot
    <3> HIDE DEF W
    <3>1. Append(W, ".") = W \o <<".">>
      BY <2>1 DEF Text
    <3> QED BY <1>6, <3>1 DEF FractionText, W
  <2>4. all = h \o f
    <3> DEFINE Z == Filler(near, p + 1)
    <3>1. Z \in Text /\ Reverse(Z) = Z
      <4>1. p + 1 - Len(D) \in Int
        BY <1>3
      <4>2. Z = Times("0", p + 1 - Len(D))
        BY DEF Filler
      <4> DEFINE j == p + 1 - Len(D)
      <4> HIDE DEF Z, j
      <4>3. Times("0", j) \in Text /\ Reverse(Times("0", j)) = Times("0", j)
        BY <4>1, TimesOf, ReverseTimes, OwnCharacters DEF j
      <4> QED BY <4>2, <4>3 DEF j
    <3>2. all = Z \o Reverse(D)
      BY <1>4 DEF AllDigits, Filler
    <3>3. Wide10(near, p + 1) = D \o Z
      BY DEF Wide10
    <3> HIDE DEF Z, D, W, all
    <3>4. Reverse(D \o Z) = Z \o Reverse(D)
      BY <1>3, <3>1, ReverseJoined
    <3>5. Reverse(W \o Decimal(x)) = h \o f
      BY <1>3, <2>1, ReverseJoined
    <3> QED BY <2>1, <3>2, <3>3, <3>4, <3>5
  <2> HIDE DEF W, dot, all
  <2>5. f \in Text /\ Len(f) = p
    BY <2>1, ReverseIsText
  <2>6. core \in Text /\ Reverse(core) = h \o (dot \o f)
    <3>1. W \o dot \in Text /\ Reverse(W \o dot) = dot \o f
      BY <2>1, <2>2, Joined, ReverseJoined
    <3> QED BY <1>3, <2>3, <3>1, Joined, ReverseJoined
  <2> HIDE DEF h, f, core
  <2>7. Len(all) = Len(h) + p /\ Len(all) - p = Len(h)
    <3>1. Len(h \o f) = Len(h) + Len(f)
      BY <1>4, <2>5, Joined
    <3> QED BY <1>4, <2>4, <2>5, <3>1
  <2>8. SubSeq(all, 1, Len(h)) = h /\ SubSeq(all, Len(h) + 1, Len(all)) = f
    BY <1>4, <2>4, <2>5, Halves
  <2>9. WithPoint(all, p) = h \o dot \o f
    BY <1>6, <2>7, <2>8 DEF WithPoint, dot
  <2>10. h \o dot \o f = h \o (dot \o f)
    BY <1>4, <2>2, <2>5, Grouped
  <2> QED BY <2>6, <2>9, <2>10 DEF core, all, x, y, near
<1> QED BY <1>5, <1>6

\* Without a width there is nothing around a text.
LEMMA PaddedNarrow ==
  ASSUME NEW d, NEW sign \in Text, NEW body \in Text, NEW zeros \in BOOLEAN, Width(d) = 0
  PROVE  Padded(d, sign, body, zeros) = sign \o body
<1> DEFINE m    == Width(d) - (Len(sign) + Len(body))
           full == IF "left" \notin Read(d) /\ zeros THEN Times("0", m) ELSE << >>
           gap  == Times(" ", m - Len(full))
<1>1. m \in Int /\ m <= 0
  BY TextLength
<1>2. Padded(d, sign, body, zeros)
        = IF "left" \in Read(d) THEN sign \o body \o gap ELSE gap \o sign \o full \o body
  BY DEF Padded
<1> HIDE DEF m
<1>3. full = << >> /\ Len(full) = 0
  <2>1. Times("0", m) = << >>
    BY <1>1, TimesNone, OwnCharacters
  <2> QED BY <2>1, EmptyIsText
<1> HIDE DEF full
<1>4. gap = << >>
  <2>1. m - Len(full) \in Int /\ m - Len(full) <= 0
    BY <1>1, <1>3
  <2> QED BY <2>1, TimesNone, OwnCharacters
<1> HIDE DEF gap
<1>5. gap \o sign \o full = sign /\ (sign \o body) \o gap = sign \o body
  <2>1. sign \o body \in Text /\ gap \o sign = sign
    BY <1>4, Joined, WithEmpty
  <2> QED BY <1>3, <1>4, <2>1, WithEmpty
<1> QED BY <1>2, <1>5

LEMMA FloatSignIs ==
  ASSUME NEW d, NEW negative \in BOOLEAN
  PROVE  SignText(negative, Read(d)) = SignOf(d, negative)
<1>1. /\ "plus" \in Read(d) <=> "plus" \in d.flags
      /\ "space" \in Read(d) <=> "space" \in d.flags
  BY DEF Read
<1>2. CASE negative
  BY <1>2 DEF SignOf, SignText
<1>3. CASE ~ negative /\ "plus" \in d.flags
  <2>1. d.flags \cap {"plus", "space"} # {"space"}
    BY <1>3
  <2>2. SignOf(d, negative) = <<"+">>
    BY <1>3, <2>1 DEF SignOf
  <2> QED BY <1>1, <1>3, <2>2 DEF SignText
<1>4. CASE ~ negative /\ "plus" \notin d.flags
  <2>1. d.flags \cap {"plus", "space"} = {"space"} <=> "space" \in d.flags
    BY <1>4
  <2>2. CASE "space" \in d.flags
    BY <1>1, <1>4, <2>1, <2>2 DEF SignOf, SignText
  <2>3. CASE "space" \notin d.flags
    BY <1>1, <1>4, <2>1, <2>3 DEF SignOf, SignText
  <2> QED BY <2>2, <2>3
<1> QED BY <1>2, <1>3, <1>4

\* Where Follows lets it: a float of any value, rounded as the standard rounds it.
LEMMA FloatPrints ==
  ASSUME NEW d \in Directives, d.kind = "f", Follows(d)
  PROVE  FloatText(d) = CFloat(d)
<1> DEFINE v     == d.value
           neg   == v < 0
           a     == Absolute(v)
           flags == Read(d)
           p     == IF "prec" \in d.flags THEN Prec(d) ELSE DefaultPrec
           w     == Width(d)
           x     == Rounded(a, p)[1]
           y     == Rounded(a, p)[2]
           core  == FractionText(y, p) \o Decimal(x)
           inner == InnerWidth(w, neg, flags)
           part  == Clip(core, FtoaSize)
           full  == IF "left" \notin flags /\ "zero" \in flags
                    THEN ZeroFill(part, inner, FtoaSize) ELSE part
           sign  == SignOf(d, neg)
           body  == WithPoint(AllDigits(Nearest(a, p), p), p)
           zeros == "zero" \in d.flags
           bare  == [d EXCEPT !.width = 0]
<1>1. /\ d.class = "num" /\ Prec(d) <= MaxPow /\ Len(CFloat(bare)) <= FtoaSize
      /\ zeros => w <= FtoaSize
      /\ SameDigits(a, p)
  BY DEF Follows, IntKinds, FloatPrec
<1>2. v \in Int /\ w \in Nat /\ Prec(d) \in Nat /\ MaxPow \in Nat /\ DefaultPrec \in 0 .. MaxPow
      /\ FtoaSize \in Nat \ {0}
  BY Fields, WidthAndPrec, Sizes DEF Wide, IntKinds
<1>3. a \in Nat /\ p \in Nat /\ p <= MaxPow
  BY <1>1, <1>2 DEF Absolute
<1>4. neg \in BOOLEAN /\ zeros \in BOOLEAN
  OBVIOUS
<1>5. /\ "prec" \in flags <=> "prec" \in d.flags
      /\ "zero" \in flags <=> zeros
  BY DEF Read
<1>6. FloatText(d) = OutRev(PutSign(full, neg, flags, FtoaSize), inner, flags)
  <2> DEFINE asked == IF "prec" \in flags THEN Prec(d) ELSE DefaultPrec
             extra == Smaller(FtoaSize, IF asked > MaxPow THEN asked - MaxPow ELSE 0)
             value == IF neg THEN -v ELSE v
  <2>1. asked = p
    BY <1>5
  <2>2. extra = 0
    BY <1>2, <1>3, <2>1 DEF Smaller
  <2>3. asked - extra = p
    BY <1>3, <2>1, <2>2
  <2>4. Times("0", extra) = << >>
    <3>1. 0 \in Int /\ 0 <= 0
      OBVIOUS
    <3> QED BY <2>2, <3>1, TimesOf
  <2>5. value = a
    BY DEF Absolute
  <2>6. FloatText(d) = Ftoa(v, Prec(d), w, flags)
    BY <1>1 DEF FloatText
  <2> DEFINE r        == Rounded(value, asked - extra)
             ds       == Digits(r[2], 10, FALSE)
             missing  == IF Len(ds) > asked - extra THEN FtoaSize ELSE asked - extra - Len(ds)
             fraction == IF asked - extra = 0 THEN <<>>
                         ELSE Append(ds \o Times("0", missing), ".")
             digits   == Clip(Times("0", extra) \o fraction \o Digits(r[1], 10, FALSE), FtoaSize)
             filled   == IF "left" \notin flags /\ "zero" \in flags
                         THEN ZeroFill(digits, inner, FtoaSize) ELSE digits
  <2>7. FloatText(d) = OutRev(PutSign(filled, neg, flags, FtoaSize), inner, flags)
    BY <2>6 DEF Ftoa
  <2>8. r = Rounded(a, p)
    BY <2>3, <2>5
  <2> HIDE DEF asked, extra, value, r
  <2>9. p # 0 => missing = p - Len(Decimal(y))
    <3> SUFFICES ASSUME p # 0 PROVE missing = p - Len(Decimal(y))
      OBVIOUS
    <3>1. y \in Nat /\ y < Power(10, p)
      <4>1. y \in 0 .. Power(10, p) - 1
        <5> HIDE DEF a, p
        <5> QED BY <1>1, <1>3, RoundedIs
      <4>2. Power(10, p) \in Nat
        <5>1. 10 \in Nat \ {0}
          OBVIOUS
        <5> HIDE DEF p
        <5> QED BY <1>3, <5>1, PowerPositive
      <4> HIDE DEF y
      <4> QED BY <4>1, <4>2
    <3>2. Len(Decimal(y)) <= p
      <4> HIDE DEF y, p
      <4>1. p >= 1
        BY <1>3
      <4>2. Len(Wide10(y, p)) = p
        BY <1>3, <3>1, <4>1, FractionJoined
      <4>3. Decimal(y) \in Text /\ Len(Decimal(y)) \in Nat
        BY <3>1, DecimalStep
      <4>4. p - Len(Decimal(y)) \in Int
        BY <1>3, <4>3
      <4>5. Filler(y, p) \in Text
        BY <4>4, TimesIsText, OwnCharacters DEF Filler
      <4>6. Len(Wide10(y, p)) = Len(Decimal(y)) + Len(Filler(y, p)) /\ Len(Filler(y, p)) \in Nat
        BY <4>3, <4>5, Joined, TextLength DEF Wide10
      <4> QED BY <1>3, <4>2, <4>3, <4>6
    <3>3. ds = Decimal(y) /\ asked - extra = p
      BY <2>3, <2>8 DEF Decimal
    <3>4. ~ (Len(Decimal(y)) > p)
      <4>1. Len(Decimal(y)) \in Nat
        BY <3>1, DecimalStep
      <4> HIDE DEF y, p
      <4> QED BY <1>3, <3>2, <4>1
    <3> QED BY <3>3, <3>4
  <2>10. fraction = FractionText(y, p)
    <3> HIDE DEF missing
    <3> QED BY <2>3, <2>8, <2>9 DEF FractionText, Wide10, Decimal, Filler
  <2> HIDE DEF fraction
  <2>11. digits = part
    <3>1. << >> \o fraction = fraction
      <4> DEFINE W == Wide10(y, p)
      <4>1. y \in Nat
        BY <1>3, RoundedParts
      <4>2. p # 0 => W \in Text
        <5> HIDE DEF y, p
        <5>1. p # 0 => p >= 1
          BY <1>3
        <5> QED BY <1>3, <4>1, <5>1, Wide10Step
      <4>3. FractionText(y, p) \in Text
        <5> HIDE DEF W
        <5> QED BY <4>2, AppendIsText, EmptyIsText, OwnCharacters DEF FractionText, W
      <4> QED BY <2>10, <4>3, WithEmpty
    <3> QED BY <2>4, <2>8, <2>10, <3>1 DEF Decimal
  <2> HIDE DEF digits, part
  <2> QED BY <2>7, <2>11
<1>7. core \in Text /\ Reverse(core) = body
  <2> HIDE DEF a, p
  <2> QED BY <1>1, <1>3, FloatBody
<1>8. CFloat(d) = Padded(d, sign, body, zeros)
  BY DEF CFloat, FloatPrec, Nearest, Below, Rest, AllDigits, WithPoint, Decimal
<1>9. CFloat(bare) = Padded(bare, sign, body, zeros) /\ Width(bare) = 0
  <2>1. /\ bare.flags = d.flags /\ bare.value = d.value /\ bare.width = 0
        /\ "prec" \in DOMAIN d /\ bare.prec = d.prec
    BY DEF Directives, IntKinds
  <2> HIDE DEF bare
  <2>2. Prec(bare) = Prec(d) /\ Width(bare) = 0
    BY <2>1 DEF Prec, Width
  <2>3. SignOf(bare, neg) = SignOf(d, neg)
    BY <2>1 DEF SignOf
  <2> DEFINE q == IF "prec" \in bare.flags THEN Prec(bare) ELSE DefaultPrec
             u == bare.value
  <2>4. CFloat(bare) = Padded(bare, SignOf(bare, u < 0),
                              WithPoint(AllDigits(Nearest(Absolute(u), q), q), q), "zero" \in bare.flags)
    BY DEF CFloat, FloatPrec, Nearest, Below, Rest, AllDigits, WithPoint, Decimal
  <2>5. q = p /\ u = v
    BY <2>1, <2>2
  <2> HIDE DEF p, q, u, v
  <2> QED BY <2>1, <2>2, <2>3, <2>4, <2>5
<1>10. sign = SignText(neg, flags) /\ sign \in Text /\ Len(sign) \in Nat
  <2> HIDE DEF neg, sign
  <2>1. SignText(neg, flags) = sign
    BY <1>4, FloatSignIs DEF sign
  <2>2. SignText(neg, flags) \in Text
    BY <1>4, SignIsText
  <2> QED BY <2>1, <2>2, TextLength
<1> HIDE DEF v, neg, a, flags, p, w, core, inner, part, full, sign, body, zeros, bare
<1>11. body \in Text /\ Len(body) = Len(core) /\ Len(core) \in Nat
  BY <1>7, ReverseIsText, TextLength
<1>12. Len(core) + Len(sign) <= FtoaSize /\ Len(core) <= FtoaSize
  <2>1. Padded(bare, sign, body, zeros) = sign \o body
    BY <1>4, <1>9, <1>10, <1>11, PaddedNarrow
  <2>2. Len(sign \o body) = Len(sign) + Len(body)
    BY <1>10, <1>11, Joined
  <2>3. Len(sign) + Len(body) <= FtoaSize
    BY <1>1, <1>9, <2>1, <2>2
  <2> QED BY <1>2, <1>10, <1>11, <2>3
<1>13. part = core
  <2>1. FtoaSize \in Nat
    BY <1>2
  <2> QED BY <1>7, <1>12, <2>1, ClipAll DEF part
<1>14. Padded(d, sign, body, zeros) = Layout(sign, body, w, flags)
  <2>1. "left" \in flags <=> "left" \in Read(d)
    BY DEF flags
  <2> QED BY <1>4, <1>5, <2>1, PaddedIs DEF w
<1>15. OutRev(PutSign(full, neg, flags, FtoaSize), inner, flags) = Layout(sign, body, w, flags)
  <2>1. FtoaSize \in Nat /\ w \in Nat /\ core \in Text /\ neg \in BOOLEAN
        /\ Len(core) + Len(SignText(neg, flags)) <= FtoaSize
    BY <1>2, <1>4, <1>7, <1>10, <1>12
  <2>2. CASE "left" \in flags \/ "zero" \notin flags
    <3>1. full = core
      BY <1>13, <2>2 DEF full
    <3>2. OutRev(PutSign(core, neg, flags, FtoaSize), InnerWidth(w, neg, flags), flags)
            = Layout(SignText(neg, flags), Reverse(core), w, flags)
      BY ONLY <2>1, <2>2, Spaced
    <3> QED BY <1>7, <1>10, <3>1, <3>2 DEF inner
  <2>3. CASE "left" \notin flags /\ "zero" \in flags
    <3>1. full = ZeroFill(core, inner, FtoaSize)
      BY <1>13, <2>3 DEF full
    <3>2. SignText(neg, flags) # << >> => w <= FtoaSize
      BY <1>1, <1>5, <2>3
    <3>3. OutRev(PutSign(ZeroFill(core, InnerWidth(w, neg, flags), FtoaSize), neg, flags, FtoaSize),
                 InnerWidth(w, neg, flags), flags)
            = Layout(SignText(neg, flags), Reverse(core), w, flags)
      BY ONLY <2>1, <2>3, <3>2, Zeroed
    <3> QED BY <1>7, <1>10, <3>1, <3>3 DEF inner
  <2> QED BY <2>2, <2>3
<1> QED BY <1>6, <1>8, <1>14, <1>15
-------------------------------------------------------------------------------
(* Texts put together, and what a character function gets of them *)

Flattens(f, n, s) == f = [i \in 1 .. n |-> IF i = 1 THEN s[i] ELSE f[i - 1] \o s[i]]

LEMMA FlattenExists ==
  ASSUME NEW s, NEW n \in Nat
  PROVE  \E f : Flattens(f, n, s)
<1> DEFINE S == {m \in Nat : \E f : Flattens(f, m, s)}
<1>1. 0 \in S
  <2> DEFINE f == [i \in 1 .. 0 |-> << >>]
  <2>1. f = [i \in 1 .. 0 |-> IF i = 1 THEN s[i] ELSE f[i - 1] \o s[i]]
    OBVIOUS
  <2> HIDE DEF f
  <2> QED BY <2>1 DEF Flattens
<1>2. ASSUME NEW m \in S PROVE m + 1 \in S
  <2>1. PICK f : Flattens(f, m, s)
    BY <1>2
  <2> DEFINE h == [i \in 1 .. m + 1 |->
                     IF i = m + 1 THEN IF i = 1 THEN s[i] ELSE f[m] \o s[i] ELSE f[i]]
  <2>2. ASSUME NEW i \in 1 .. m + 1
        PROVE  h[i] = IF i = 1 THEN s[i] ELSE h[i - 1] \o s[i]
    <3>1. CASE i = m + 1
      <4>1. i # 1 => h[i - 1] = f[m]
        BY <3>1
      <4> QED BY <3>1, <4>1
    <3>2. CASE i # m + 1
      <4>1. i \in 1 .. m /\ h[i] = f[i]
        BY <3>2
      <4>2. i # 1 => h[i - 1] = f[i - 1]
        BY <4>1
      <4>3. f[i] = IF i = 1 THEN s[i] ELSE f[i - 1] \o s[i]
        BY <2>1, <4>1 DEF Flattens
      <4> QED BY <4>1, <4>2, <4>3
    <3> QED BY <3>1, <3>2
  <2>3. h = [i \in 1 .. m + 1 |-> IF i = 1 THEN s[i] ELSE h[i - 1] \o s[i]]
    BY <2>2
  <2> HIDE DEF h
  <2>4. m + 1 \in Nat
    BY <1>2
  <2> QED BY <2>3, <2>4 DEF Flattens
<1>3. S \in SUBSET Nat
  OBVIOUS
<1> HIDE DEF S
<1>4. n \in S
  BY <1>1, <1>2, <1>3, Induction
<1> QED BY <1>4 DEF S

\* The value of FlattenSeq is that of its recursive function, whichever it takes.
LEMMA FlattenIs ==
  ASSUME NEW s \in Seq(Text)
  PROVE  /\ FlattenSeq(<< >>) = << >>
         /\ Len(s) # 0 => \E f : Flattens(f, Len(s), s) /\ FlattenSeq(s) = f[Len(s)]
<1>1. FlattenSeq(<< >>) = << >>
  <2>1. Len(<< >>) = 0
    OBVIOUS
  <2> QED BY <2>1 DEF FlattenSeq
<1>2. ASSUME Len(s) # 0 PROVE \E f : Flattens(f, Len(s), s) /\ FlattenSeq(s) = f[Len(s)]
  <2> DEFINE n == Len(s)
             f == CHOOSE f : f = [i \in 1 .. n |-> IF i = 1 THEN s[i] ELSE f[i - 1] \o s[i]]
  <2>1. n \in Nat
    OBVIOUS
  <2>2. FlattenSeq(s) = f[n]
    BY <1>2 DEF FlattenSeq
  <2>3. f = [i \in 1 .. n |-> IF i = 1 THEN s[i] ELSE f[i - 1] \o s[i]]
    BY <2>1, FlattenExists DEF Flattens
  <2> HIDE DEF f
  <2> QED BY <2>2, <2>3 DEF Flattens
<1> QED BY <1>1, <1>2

LEMMA FlattenIsText ==
  ASSUME NEW s \in Seq(Text)
  PROVE  FlattenSeq(s) \in Text
<1> DEFINE n == Len(s)
<1>1. n \in Nat /\ \A i \in 1 .. n : s[i] \in Text
  OBVIOUS
<1>2. CASE n = 0
  <2>1. s = << >>
    BY <1>2
  <2> QED BY <2>1, FlattenIs, EmptyIsText
<1>3. CASE n # 0
  <2>1. PICK f : Flattens(f, n, s) /\ FlattenSeq(s) = f[n]
    BY <1>3, FlattenIs
  <2> HIDE DEF n
  <2>2. \A i \in 1 .. n : f[i] = IF i = 1 THEN s[i] ELSE f[i - 1] \o s[i]
    BY <2>1 DEF Flattens
  <2> DEFINE S == {m \in Nat : m + 1 <= n => f[m + 1] \in Text}
  <2>3. 0 \in S
    <3>1. 1 \in 1 .. n
      BY <1>1, <1>3
    <3>2. f[1] = s[1]
      BY <2>2, <3>1
    <3>3. f[0 + 1] \in Text
      BY <1>1, <3>1, <3>2
    <3> QED BY <3>3
  <2>4. ASSUME NEW m \in S PROVE m + 1 \in S
    <3>1. m \in Nat
      BY <2>4
    <3>2. CASE (m + 1) + 1 <= n
      <4> DEFINE j == (m + 1) + 1
      <4>1. j \in 1 .. n /\ j # 1 /\ j - 1 = m + 1
        BY <1>1, <3>1, <3>2
      <4>2. f[m + 1] \in Text
        BY <1>1, <2>4, <3>1, <3>2
      <4> HIDE DEF j
      <4>3. f[j] = f[j - 1] \o s[j]
        BY <2>2, <4>1
      <4>5. f[j] = f[m + 1] \o s[j]
        BY <4>1, <4>3
      <4>6. s[j] \in Text
        BY <1>1, <4>1
      <4>4. f[j] \in Text
        BY <4>2, <4>5, <4>6, Joined
      <4> QED BY <3>1, <4>4 DEF j
    <3> QED BY <3>1, <3>2
  <2>5. S \in SUBSET Nat
    OBVIOUS
  <2> HIDE DEF S
  <2>6. n - 1 \in Nat /\ (n - 1) + 1 = n
    BY <1>1, <1>3
  <2>7. n - 1 \in S
    BY <2>3, <2>4, <2>5, <2>6, Induction
  <2>8. f[(n - 1) + 1] \in Text
    BY <1>1, <2>6, <2>7 DEF S
  <2> QED BY <2>1, <2>6, <2>8
<1> QED BY <1>2, <1>3

LEMMA FlattenAppend ==
  ASSUME NEW s \in Seq(Text), NEW t \in Text
  PROVE  FlattenSeq(Append(s, t)) = FlattenSeq(s) \o t
<1> DEFINE n == Len(s)
           u == Append(s, t)
<1>1. n \in Nat /\ u \in Seq(Text) /\ Len(u) = n + 1 /\ u[n + 1] = t
      /\ \A i \in 1 .. n : u[i] = s[i]
  OBVIOUS
<1> HIDE DEF u
<1>2. PICK g : Flattens(g, n + 1, u) /\ FlattenSeq(u) = g[n + 1]
  <2>1. Len(u) # 0
    BY <1>1
  <2> QED BY <1>1, <2>1, FlattenIs
<1>3. \A i \in 1 .. n + 1 : g[i] = IF i = 1 THEN u[i] ELSE g[i - 1] \o u[i]
  BY <1>2 DEF Flattens
<1>4. n + 1 \in 1 .. n + 1 /\ (n + 1) - 1 = n
  BY <1>1
<1>5. g[n + 1] = IF n + 1 = 1 THEN t ELSE g[n] \o t
  BY <1>1, <1>3, <1>4
<1>6. CASE n = 0
  <2>1. s = << >>
    BY <1>6
  <2>2. FlattenSeq(s) = << >>
    BY <2>1, FlattenIs
  <2> QED BY <1>2, <1>5, <1>6, <2>2, WithEmpty DEF u
<1>7. CASE n # 0
  <2>1. PICK f : Flattens(f, n, s) /\ FlattenSeq(s) = f[n]
    BY <1>7, FlattenIs
  <2> HIDE DEF n
  <2>2. \A i \in 1 .. n : f[i] = IF i = 1 THEN s[i] ELSE f[i - 1] \o s[i]
    BY <2>1 DEF Flattens
  <2> DEFINE S == {m \in Nat : m + 1 <= n => f[m + 1] = g[m + 1]}
  <2>3. 0 \in S
    <3>1. 1 \in 1 .. n /\ 1 \in 1 .. n + 1
      BY <1>1, <1>7
    <3>2. f[1] = s[1] /\ g[1] = u[1]
      BY <1>3, <2>2, <3>1
    <3>3. f[0 + 1] = g[0 + 1]
      BY <1>1, <3>1, <3>2
    <3> QED BY <3>3
  <2>4. ASSUME NEW m \in S PROVE m + 1 \in S
    <3>1. m \in Nat
      BY <2>4
    <3>2. CASE (m + 1) + 1 <= n
      <4> DEFINE j == (m + 1) + 1
      <4>1. j \in 1 .. n /\ j \in 1 .. n + 1 /\ j # 1 /\ j - 1 = m + 1
        BY <1>1, <3>1, <3>2
      <4>2. f[m + 1] = g[m + 1]
        BY <1>1, <2>4, <3>1, <3>2
      <4> HIDE DEF j
      <4>3. f[j] = f[j - 1] \o s[j]
        BY <2>2, <4>1
      <4>4. g[j] = g[j - 1] \o u[j]
        BY <1>3, <4>1
      <4>5. u[j] = s[j]
        BY <1>1, <4>1
      <4>6. f[j] = g[j]
        BY <4>1, <4>2, <4>3, <4>4, <4>5
      <4> QED BY <3>1, <4>6 DEF j
    <3> QED BY <3>1, <3>2
  <2>5. S \in SUBSET Nat
    OBVIOUS
  <2> HIDE DEF S
  <2>6. n - 1 \in Nat /\ (n - 1) + 1 = n /\ n + 1 # 1
    BY <1>1, <1>7
  <2>7. n - 1 \in S
    BY <2>3, <2>4, <2>5, <2>6, Induction
  <2>8. f[n] = g[n]
    <3>1. f[(n - 1) + 1] = g[(n - 1) + 1]
      BY <1>1, <2>6, <2>7 DEF S
    <3> QED BY <2>6, <3>1
  <2> QED BY <1>2, <1>5, <2>1, <2>6, <2>8 DEF u
<1> QED BY <1>6, <1>7

Heard(c) == IF c = NUL THEN << >> ELSE <<c>>

LEMMA SentAppend ==
  ASSUME NEW t \in Text, NEW c \in Characters
  PROVE  /\ Sent(<< >>) = << >> /\ Sent(t) \in Text
         /\ Sent(Append(t, c)) = Sent(t) \o Heard(c) /\ Heard(c) \in Text
<1> DEFINE one(x) == [k \in DOMAIN x |-> Heard(x[k])]
<1>1. \A x : Sent(x) = FlattenSeq(one(x))
  BY DEF Sent, Heard
<1>2. \A x \in Characters : Heard(x) \in Text
  BY SingleIsText, EmptyIsText DEF Heard
<1>3. \A x \in Text : one(x) \in Seq(Text)
  <2> TAKE x \in Text
  <2>1. Len(x) \in Nat /\ DOMAIN x = 1 .. Len(x) /\ \A i \in 1 .. Len(x) : x[i] \in Characters
    BY TextLength
  <2>2. \A i \in 1 .. Len(x) : Heard(x[i]) \in Text
    BY <1>2, <2>1
  <2> QED BY <2>1, <2>2
<1>4. one(<< >>) = << >>
  OBVIOUS
<1>5. one(Append(t, c)) = Append(one(t), Heard(c))
  <2> DEFINE u == Append(t, c)
  <2>1. u \in Text /\ Len(u) = Len(t) + 1 /\ DOMAIN u = 1 .. Len(t) + 1 /\ u[Len(t) + 1] = c
        /\ \A i \in 1 .. Len(t) : u[i] = t[i]
    BY DEF Text
  <2>2. one(t) \in Seq(Text) /\ Len(one(t)) = Len(t) /\ DOMAIN t = 1 .. Len(t)
        /\ \A i \in 1 .. Len(t) : one(t)[i] = Heard(t[i])
    BY <1>3, TextLength
  <2> HIDE DEF u
  <2>9. DOMAIN one(u) = 1 .. Len(t) + 1 /\ \A i \in 1 .. Len(t) + 1 : one(u)[i] = Heard(u[i])
    BY <2>1
  <2>10. one(u) \in Seq(Text)
    BY <1>3, <2>1
  <2>3. DOMAIN one(u) = 1 .. Len(t) + 1 /\ (\A i \in 1 .. Len(t) + 1 : one(u)[i] = Heard(u[i]))
        /\ one(u) \in Seq(Text) /\ Len(one(u)) = Len(t) + 1
    <3>1. Len(t) + 1 \in Nat
      BY TextLength
    <3> HIDE DEF one
    <3> QED BY <2>9, <2>10, <3>1
  <2> HIDE DEF one
  <2> DEFINE v == one(t)
             w == one(u)
             h == Heard(c)
             n == Len(t)
  <2>4. n \in Nat
    BY TextLength
  <2>5. h \in Text
    BY <1>2
  <2>6. \A i \in 1 .. n + 1 : w[i] = IF i = n + 1 THEN h ELSE v[i]
    BY <2>1, <2>2, <2>3, <2>4
  <2>7. w \in Seq(Text) /\ v \in Seq(Text) /\ Len(w) = n + 1 /\ Len(v) = n
    BY <2>2, <2>3
  <2> HIDE DEF v, w, h, n
  <2>8. w = Append(v, h)
    BY <2>4, <2>5, <2>6, <2>7
  <2> QED BY <2>8 DEF u, v, w, h
<1>6. Sent(Append(t, c)) = Sent(t) \o Heard(c)
  <2>1. FlattenSeq(Append(one(t), Heard(c))) = FlattenSeq(one(t)) \o Heard(c)
    <3> HIDE DEF one
    <3> QED BY <1>2, <1>3, FlattenAppend
  <2> HIDE DEF one
  <2> QED BY <1>1, <1>5, <2>1
<1>7. Sent(t) \in Text
  <2> HIDE DEF one
  <2> QED BY <1>1, <1>3, FlattenIsText
<1>8. Sent(<< >>) = << >>
  <2>1. FlattenSeq(<< >>) = << >>
    <3>1. << >> \in Seq(Text)
      OBVIOUS
    <3> QED BY <3>1, FlattenIs
  <2> QED BY <1>1, <1>4, <2>1
<1> QED BY <1>2, <1>6, <1>7, <1>8

\* Of two texts, one after the other, the one's characters go before the other's.
LEMMA SentJoined ==
  ASSUME NEW s \in Text, NEW t \in Text
  PROVE  Sent(s \o t) = Sent(s) \o Sent(t)
<1> DEFINE n == Len(t)
           S == {m \in Nat : m <= n => Sent(s \o SubSeq(t, 1, m)) = Sent(s) \o Sent(SubSeq(t, 1, m))}
<1>1. n \in Nat /\ \A i \in 1 .. n : t[i] \in Characters
  BY TextLength
<1>2. 0 \in S
  <2>1. SubSeq(t, 1, 0) = << >> /\ s \o << >> = s
    BY WithEmpty DEF Text
  <2>2. Sent(<< >>) = << >> /\ Sent(s) \in Text
    <3>1. NUL \in Characters
      BY FormatAssumption
    <3> QED BY <3>1, SentAppend
  <2>3. Sent(s) \o << >> = Sent(s)
    BY <2>2, WithEmpty
  <2> HIDE DEF n
  <2> QED BY <2>1, <2>2, <2>3
<1>3. ASSUME NEW m \in S PROVE m + 1 \in S
  <2>1. m \in Nat
    BY <1>3
  <2>2. CASE m + 1 <= n
    <3> DEFINE p == SubSeq(t, 1, m)
               q == SubSeq(t, 1, m + 1)
               c == t[m + 1]
    <3>1. p \in Text /\ c \in Characters /\ q = Append(p, c)
      <4>1. m + 1 \in 1 .. n /\ m \in 0 .. n
        BY <1>1, <2>1, <2>2
      <4>2. c \in Characters
        BY <1>1, <4>1
      <4>3. p \in Text /\ Len(p) = m
        BY <4>1 DEF Text
      <4>4. q \in Text /\ Len(q) = m + 1
        BY <4>1 DEF Text
      <4>5. q = Append(p, c)
        BY <2>1, <4>1, <4>3, <4>4 DEF Text
      <4> QED BY <4>2, <4>3, <4>5
    <3>2. Sent(s \o p) = Sent(s) \o Sent(p)
      BY <1>1, <1>3, <2>1, <2>2
    <3> HIDE DEF p, q, c, n
    <3>3. s \o p \in Text
      BY <3>1, Joined
    <3>4. s \o q = Append(s \o p, c)
      BY <3>1 DEF Text
    <3>5. Sent(s \o q) = Sent(s \o p) \o Heard(c)
      BY <3>1, <3>3, <3>4, SentAppend
    <3>6. Sent(q) = Sent(p) \o Heard(c)
      BY <3>1, SentAppend
    <3>7. Sent(s) \in Text /\ Sent(p) \in Text /\ Heard(c) \in Text
      BY <3>1, SentAppend
    <3> DEFINE u == Sent(s)
               v == Sent(p)
               w == Heard(c)
    <3>9. u \in Text /\ v \in Text /\ w \in Text
      BY <3>7
    <3> HIDE DEF u, v, w
    <3>10. (u \o v) \o w = u \o (v \o w)
      BY <3>9 DEF Text
    <3>8. Sent(s \o q) = Sent(s) \o Sent(q)
      BY <3>2, <3>5, <3>6, <3>10 DEF u, v, w
    <3> QED BY <2>1, <3>8 DEF q
  <2> QED BY <2>1, <2>2
<1>4. S \in SUBSET Nat
  OBVIOUS
<1> HIDE DEF S
<1>5. n \in S
  BY <1>1, <1>2, <1>3, <1>4, Induction
<1>6. Sent(s \o SubSeq(t, 1, n)) = Sent(s) \o Sent(SubSeq(t, 1, n))
  BY <1>1, <1>5 DEF S
<1>7. SubSeq(t, 1, n) = t
  BY DEF Text
<1> QED BY <1>6, <1>7

\* The calls of a character function, one by one, are what it is said to be sent.
LEMMA PassedIsSent ==
  ASSUME NEW text \in Text
  PROVE  Passed(text) = Sent(text)
<1> DEFINE n == Len(text)
           f == CHOOSE f : f = [k \in 0 .. n |->
                       IF k = 0 THEN <<>>
                       ELSE IF text[k] = NUL THEN f[k - 1] ELSE Append(f[k - 1], text[k])]
<1>1. n \in Nat /\ n \in 0 .. Len(text) /\ \A i \in 1 .. n : text[i] \in Characters
  BY TextLength
<1>2. f = [k \in 0 .. n |->
             IF k = 0 THEN <<>>
             ELSE IF text[k] = NUL THEN f[k - 1] ELSE Append(f[k - 1], text[k])]
  BY <1>1, PassedExists
<1>3. Passed(text) = f[n]
  BY DEF Passed
<1> HIDE DEF f
<1> DEFINE S == {m \in Nat : m <= n => f[m] = Sent(SubSeq(text, 1, m))}
<1>4. 0 \in S
  <2>1. SubSeq(text, 1, 0) = << >>
    BY DEF Text
  <2>2. Sent(<< >>) = << >>
    <3>1. NUL \in Characters
      BY FormatAssumption
    <3> QED BY <3>1, SentAppend
  <2>3. f[0] = << >>
    BY <1>1, <1>2
  <2> HIDE DEF n
  <2> QED BY <2>1, <2>2, <2>3
<1>5. ASSUME NEW m \in S PROVE m + 1 \in S
  <2>1. m \in Nat
    BY <1>5
  <2>2. CASE m + 1 <= n
    <3> DEFINE p == SubSeq(text, 1, m)
               q == SubSeq(text, 1, m + 1)
               c == text[m + 1]
    <3>1. m + 1 \in 1 .. n /\ m \in 0 .. n
      BY <1>1, <2>1, <2>2
    <3>2. p \in Text /\ c \in Characters /\ q = Append(p, c)
      <4>2. c \in Characters
        BY <1>1, <3>1
      <4>3. p \in Text /\ Len(p) = m
        BY <3>1 DEF Text
      <4>4. q \in Text /\ Len(q) = m + 1
        BY <3>1 DEF Text
      <4>5. q = Append(p, c)
        BY <2>1, <3>1, <4>3, <4>4 DEF Text
      <4> QED BY <4>2, <4>3, <4>5
    <3>3. f[m] = Sent(p)
      BY <1>1, <1>5, <2>1, <2>2
    <3>4. f[m + 1] = IF c = NUL THEN f[m] ELSE Append(f[m], c)
      <4>1. (m + 1) - 1 = m /\ m + 1 # 0 /\ m + 1 \in 0 .. n
        BY <3>1
      <4> QED BY <1>2, <3>1, <4>1
    <3> HIDE DEF p, q, c, n
    <3>5. Sent(q) = Sent(p) \o Heard(c) /\ Sent(p) \in Text
      BY <3>2, SentAppend
    <3>6. f[m + 1] = Sent(q)
      <4>1. CASE c = NUL
        <5>1. Sent(p) \o << >> = Sent(p)
          BY <3>5, WithEmpty
        <5> QED BY <3>3, <3>4, <3>5, <4>1, <5>1 DEF Heard
      <4>2. CASE c # NUL
        <5> DEFINE u == Sent(p)
        <5>1. u \in Text
          BY <3>5
        <5> HIDE DEF u
        <5>2. u \o <<c>> = Append(u, c)
          BY <3>2, <5>1 DEF Text
        <5> QED BY <3>3, <3>4, <3>5, <4>2, <5>2 DEF Heard, u
      <4> QED BY <4>1, <4>2
    <3> QED BY <2>1, <3>6 DEF q
  <2> QED BY <2>1, <2>2
<1> HIDE DEF S
<1>6. S \in SUBSET Nat
  BY DEF S
<1>7. n \in S
  BY <1>1, <1>4, <1>5, <1>6, Induction
<1>8. f[n] = Sent(SubSeq(text, 1, n))
  BY <1>1, <1>7 DEF S
<1>9. SubSeq(text, 1, n) = text
  BY DEF Text
<1> QED BY <1>3, <1>8, <1>9
-------------------------------------------------------------------------------
(* The call prints the texts of its items, one after the other *)

TextsOf(items) == [i \in DOMAIN items |-> CText(items[i])]
WholeOf(items) == FlattenSeq(TextsOf(items))

\* Until the call returns, what it has stored and sent is the text of the items
\* read so far, if no item is one of those the code prints in its own way.
Printing ==
  (\A i \in DOMAIN format : Follows(format[i])) =>
     /\ TextsOf(format) \in Seq(Text)
     /\ idx = Len(WholeOf(format))
     /\ toFct => received = Sent(WholeOf(format))
     /\ ret < 0 /\ ~toFct =>
           \A c \in 0 .. Smaller(idx, maxlength) - 1 : memory[c] = WholeOf(format)[c + 1]

PInv == FInv /\ Printing /\ Prints

\* An item prints the text that its callers expect of it.
LEMMA PrintedText ==
  ASSUME NEW d \in Known, PrintsItem(d)
  PROVE  \E text \in Text :
            /\ format' = Append(format, d) /\ Emit(text)
            /\ Follows(d) => text = CText(d)
<1>0. d \in Directives
  BY KnownDirectives
<1>1. CASE Literal(d)
  <2>1. d.kind = "char" /\ format' = Append(format, d) /\ Emit(<<d.char>>)
    BY <1>1 DEF Literal, Reads
  <2>2. <<d.char>> \in Text
    BY <1>0, <2>1, Fields, SingleIsText
  <2>3. CText(d) = <<d.char>>
    BY <2>1 DEF CText, IntKinds
  <2> QED BY <2>1, <2>2, <2>3
<1>2. CASE Integer(d)
  <2>1. d.kind \in IntKinds /\ format' = Append(format, d) /\ Emit(IntText(d))
    BY <1>2 DEF Integer, Reads
  <2>2. CText(d) = CInt(d)
    BY <2>1 DEF CText, IntKinds
  <2>3. IntText(d) \in Text
    BY <1>0, <2>1, IntIsText
  <2>4. Follows(d) => IntText(d) = CInt(d)
    BY <1>0, <2>1, IntPrints
  <2> QED BY <2>1, <2>2, <2>3, <2>4
<1>3. CASE Char(d)
  <2>1. d.kind = "c" /\ format' = Append(format, d) /\ Emit(CharText(d))
    BY <1>3 DEF Char, Reads
  <2>2. CText(d) = Padded(d, << >>, <<d.char>>, FALSE)
    BY <2>1 DEF CText, IntKinds
  <2>3. CharText(d) \in Text
    BY <1>0, <2>1, CharIsText
  <2>4. CharText(d) = CText(d)
    BY <1>0, <2>1, <2>2, CharPrints
  <2> QED BY <2>1, <2>3, <2>4
<1>4. CASE String(d)
  <2>1. d.kind = "s" /\ format' = Append(format, d) /\ Emit(StringText(d))
    BY <1>4 DEF String, Reads
  <2>2. CText(d)
        = Padded(d, << >>, IF "prec" \in d.flags THEN Clip(d.text, Prec(d)) ELSE d.text, FALSE)
    BY <2>1 DEF CText, IntKinds
  <2>3. StringText(d) \in Text
    BY <1>0, <2>1, StringIsText
  <2>4. Follows(d) => StringText(d) = CText(d)
    BY <1>0, <2>1, <2>2, StringPrints
  <2> QED BY <2>1, <2>3, <2>4
<1>5. CASE Pointer(d)
  <2>1. d.kind = "p" /\ format' = Append(format, d) /\ Emit(PointerText(d))
    BY <1>5 DEF Pointer, Reads
  <2>2. CText(d) = LET ds == Reverse(Digits(d.arg, 16, TRUE))
                   IN  Times("0", PointerDigits - Len(ds)) \o ds
    BY <2>1 DEF CText, IntKinds
  <2>3. PointerText(d) \in Text
    BY <1>0, <2>1, PointerIsText
  <2>4. Follows(d) => PointerText(d) = CText(d)
    BY <1>0, <2>1, <2>2, PointerPrints
  <2> QED BY <2>1, <2>3, <2>4
<1>6. CASE Float(d)
  <2>1. d.kind = "f" /\ format' = Append(format, d) /\ Emit(FloatText(d))
    BY <1>6 DEF Float, Reads
  <2>2. CText(d) = CFloat(d)
    BY <2>1 DEF CText, IntKinds
  <2>3. FloatText(d) \in Text
    BY <1>0, <2>1, FloatIsText
  <2>4. Follows(d) => FloatText(d) = CFloat(d)
    BY <1>0, <2>1, FloatPrints
  <2> QED BY <2>1, <2>2, <2>3, <2>4
<1> QED BY <1>1, <1>2, <1>3, <1>4, <1>5, <1>6 DEF PrintsItem

LEMMA WholeAppend ==
  ASSUME NEW items \in Seq(Known), NEW d \in Known,
         TextsOf(items) \in Seq(Text), CText(d) \in Text
  PROVE  /\ WholeOf(items) \in Text
         /\ TextsOf(Append(items, d)) \in Seq(Text)
         /\ WholeOf(Append(items, d)) = WholeOf(items) \o CText(d)
<1> DEFINE u == Append(items, d)
           n == Len(items)
           s == TextsOf(items)
           t == TextsOf(u)
           x == CText(d)
<1>1. /\ n \in Nat /\ DOMAIN items = 1 .. n /\ DOMAIN u = 1 .. n + 1 /\ u[n + 1] = d
      /\ \A i \in 1 .. n : u[i] = items[i]
  OBVIOUS
<1> HIDE DEF u, n
<1>2. DOMAIN s = 1 .. n /\ \A i \in 1 .. n : s[i] = CText(items[i])
  BY <1>1 DEF TextsOf
<1>3. DOMAIN t = 1 .. n + 1 /\ \A i \in 1 .. n + 1 : t[i] = CText(u[i])
  BY <1>1 DEF TextsOf
<1>4. t = [i \in 1 .. n + 1 |-> CText(u[i])]
  BY <1>1 DEF TextsOf
<1>5. \A i \in 1 .. n + 1 : t[i] = IF i = n + 1 THEN x ELSE s[i]
  BY <1>1, <1>2, <1>3
<1>6. s \in Seq(Text) /\ x \in Text /\ Len(s) = n
  BY <1>1, <1>2
<1> HIDE DEF s, t, x
<1>7. \A i \in 1 .. n + 1 : t[i] \in Text
  BY <1>1, <1>2, <1>5, <1>6
<1>8. t \in Seq(Text) /\ Len(t) = n + 1
  BY <1>1, <1>4, <1>7
<1>9. t = Append(s, x)
  BY <1>1, <1>5, <1>6, <1>8
<1>10. FlattenSeq(t) = FlattenSeq(s) \o x
  BY <1>6, <1>9, FlattenAppend
<1>11. FlattenSeq(s) \in Text
  BY <1>6, FlattenIsText
<1> QED BY <1>8, <1>10, <1>11 DEF WholeOf, s, t, x, u

LEMMA PrintInit == Init => PInv
<1> SUFFICES ASSUME Init PROVE PInv
  OBVIOUS
<1>1. format = << >> /\ idx = 0 /\ ret = -1 /\ received = << >> /\ maxlength \in 0 .. Cells
  BY FormatInit DEF Init, FInv
<1>2. TextsOf(<< >>) = << >>
  BY DEF TextsOf
<1>3. << >> \in Seq(Text)
  OBVIOUS
<1>4. WholeOf(<< >>) = << >>
  BY <1>2, <1>3, FlattenIs DEF WholeOf
<1>5. Sent(<< >>) = << >>
  <2>1. NUL \in Characters
    BY FormatAssumption
  <2> QED BY <2>1, EmptyIsText, SentAppend
<1>6. Len(<< >>) = 0
  OBVIOUS
<1>7. \A c \in 0 .. Smaller(idx, maxlength) - 1 : memory[c] = WholeOf(format)[c + 1]
  <2>1. Smaller(0, maxlength) = 0
    BY <1>1, FormatAssumption DEF Smaller
  <2> QED BY <1>1, <2>1
<1>8. Printing
  BY <1>1, <1>2, <1>3, <1>4, <1>5, <1>6, <1>7 DEF Printing
<1>9. Prints
  BY <1>1 DEF Prints
<1> QED BY <1>8, <1>9, FormatInit DEF PInv

LEMMA EmitPrints ==
  ASSUME PInv, NEW d \in Known, Len(format) < MaxItems, ret < 0,
         NEW text \in Text, format' = Append(format, d), Emit(text), Follows(d) => text = CText(d)
  PROVE  Printing' /\ Prints'
<1>1. ret' = ret /\ ret = -1 /\ toFct' = toFct /\ maxlength' = maxlength /\ idx' = idx + Len(text)
  BY DEF PInv, FInv, TypeOK, Emit, call
<1>2. Prints'
  BY <1>1 DEF Prints
<1>3. ASSUME \A i \in DOMAIN format' : Follows(format'[i])
      PROVE  /\ TextsOf(format') \in Seq(Text)
             /\ idx' = Len(WholeOf(format'))
             /\ toFct => received' = Sent(WholeOf(format'))
             /\ ~toFct => \A c \in 0 .. Smaller(idx', maxlength) - 1 :
                             memory'[c] = WholeOf(format')[c + 1]
  <2>1. format \in Seq(Known) /\ Len(format) \in Nat
    BY DEF PInv, FInv
  <2>2. /\ DOMAIN format = 1 .. Len(format) /\ DOMAIN format' = 1 .. Len(format) + 1
        /\ format'[Len(format) + 1] = d /\ \A i \in 1 .. Len(format) : format'[i] = format[i]
    BY <2>1
  <2>3. Follows(d) /\ \A i \in DOMAIN format : Follows(format[i])
    <3>1. Len(format) + 1 \in 1 .. Len(format) + 1
      BY <2>1
    <3>2. \A i \in 1 .. Len(format) : i \in 1 .. Len(format) + 1
      BY <2>1
    <3> QED BY <1>3, <2>2, <3>1, <3>2
  <2> DEFINE w == WholeOf(format)
             n == Len(text)
             m == Len(w)
  <2>4. /\ TextsOf(format) \in Seq(Text) /\ idx = m /\ (toFct => received = Sent(w))
        /\ ~toFct => \A c \in 0 .. Smaller(idx, maxlength) - 1 : memory[c] = w[c + 1]
    BY <1>1, <2>3 DEF PInv, Printing
  <2>5. text = CText(d)
    BY <2>3
  <2>6. /\ w \in Text /\ TextsOf(format') \in Seq(Text) /\ WholeOf(format') = w \o text
    BY <2>1, <2>4, <2>5, WholeAppend
  <2> HIDE DEF w
  <2>7. m \in Nat /\ n \in Nat /\ Len(w \o text) = m + n
        /\ \A i \in 1 .. m + n : (w \o text)[i] = IF i <= m THEN w[i] ELSE text[i - m]
    BY <2>6 DEF Text
  <2>8. idx' = Len(WholeOf(format'))
    BY <1>1, <2>4, <2>6, <2>7
  <2>9. ASSUME toFct PROVE received' = Sent(WholeOf(format'))
    <3>1. received' = received \o Passed(text)
      BY <2>9 DEF Emit, Out
    <3>2. Passed(text) = Sent(text)
      BY PassedIsSent
    <3>3. Sent(w \o text) = Sent(w) \o Sent(text)
      BY <2>6, SentJoined
    <3> QED BY <2>4, <2>6, <2>9, <3>1, <3>2, <3>3
  <2>10. ASSUME ~toFct, NEW c \in 0 .. Smaller(idx', maxlength) - 1
         PROVE  memory'[c] = WholeOf(format')[c + 1]
    <3>1. maxlength \in Nat /\ maxlength <= Cells /\ Cells \in Nat /\ DOMAIN memory = 0 .. (Cells - 1)
      BY FormatAssumption DEF PInv, FInv, TypeOK
    <3>2. memory' = [b \in DOMAIN memory |->
                             IF b >= idx /\ b < idx + n /\ b < maxlength
                             THEN text[b - idx + 1] ELSE memory[b]]
      BY <2>10 DEF Emit, Out
    <3> HIDE DEF m, n
    <3>3. c \in DOMAIN memory /\ c < m + n /\ c < maxlength /\ c \in Nat
      BY <1>1, <2>4, <2>7, <2>10, <3>1 DEF Smaller, n
    <3> DEFINE i == c + 1
    <3>4. i \in 1 .. m + n /\ (i <= m <=> c < m) /\ i - m = c - m + 1
      BY <2>7, <3>3
    <3> HIDE DEF i
    <3>5. (w \o text)[i] = IF i <= m THEN w[i] ELSE text[i - m]
      BY <2>7, <3>4
    <3>6. CASE c < m
      <4>1. c \in 0 .. Smaller(idx, maxlength) - 1
        BY <2>4, <2>7, <3>1, <3>3, <3>6 DEF Smaller
      <4>2. memory[c] = w[i]
        BY <2>4, <2>10, <4>1 DEF i
      <4>3. ~(c >= idx)
        BY <2>4, <2>7, <3>3, <3>6
      <4>4. memory'[c] = memory[c]
        BY <3>2, <3>3, <4>3
      <4> QED BY <2>6, <3>4, <3>5, <3>6, <4>2, <4>4 DEF i
    <3>7. CASE ~(c < m)
      <4>1. c >= idx /\ c < idx + n /\ c - idx + 1 = c - m + 1
        BY <2>4, <2>7, <3>3, <3>7
      <4>2. memory'[c] = text[c - idx + 1]
        BY <3>2, <3>3, <4>1
      <4> QED BY <2>6, <3>4, <3>5, <3>7, <4>1, <4>2 DEF i
    <3> QED BY <3>6, <3>7
  <2> QED BY <2>6, <2>8, <2>9, <2>10
<1> QED BY <1>1, <1>2, <1>3 DEF Printing

LEMMA FloatTooLargePrints ==
  ASSUME PInv, NEW d \in Known, ret < 0, FloatTooLarge(d)
  PROVE  Printing' /\ Prints'
<1>1. format' = Append(format, d) /\ ret' = ret /\ d.kind = "f" /\ TooLarge(d)
  BY DEF FloatTooLarge, Reads
<1>2. format \in Seq(Known) /\ ret = -1
  BY DEF PInv, FInv, TypeOK
<1>3. Len(format) + 1 \in DOMAIN format' /\ format'[Len(format) + 1] = d
  BY <1>1, <1>2
<1>4. ~Follows(d)
  BY <1>1 DEF Follows, IntKinds
<1>5. Prints'
  BY <1>1, <1>2 DEF Prints
<1> QED BY <1>3, <1>4, <1>5 DEF Printing

LEMMA TerminatePrints ==
  ASSUME PInv, Terminate
  PROVE  Printing' /\ Prints'
<1> DEFINE k == IF idx < maxlength THEN idx ELSE maxlength - 1
           w == WholeOf(format)
<1>1. /\ ret < 0 /\ ret' = idx /\ format' = format /\ idx' = idx /\ received' = received
      /\ toFct' = toFct /\ maxlength' = maxlength
      /\ memory' = IF toFct \/ maxlength = 0 THEN memory ELSE [memory EXCEPT ![k] = NUL]
  BY DEF Terminate, call
<1>2. /\ idx \in Nat /\ maxlength \in Nat /\ maxlength <= Cells /\ Cells \in Nat
      /\ DOMAIN memory = 0 .. (Cells - 1)
  BY FormatAssumption DEF PInv, FInv, TypeOK
<1>3. Printing'
  BY <1>1, <1>2 DEF PInv, Printing
<1>4. ASSUME \A i \in DOMAIN format : Follows(format[i])
      PROVE  /\ idx = Len(w)
             /\ toFct => received = Sent(w)
             /\ ~toFct => \A c \in 0 .. Smaller(idx, maxlength) - 1 : memory[c] = w[c + 1]
  BY <1>1, <1>4 DEF PInv, Printing
<1>5. Prints'
  <2> SUFFICES ASSUME \A i \in DOMAIN format : Follows(format[i])
               PROVE  LET n == Smaller(Len(w), maxlength - 1)
                      IN /\ idx = Len(w)
                         /\ IF toFct THEN received = Sent(w)
                            ELSE maxlength > 0 =>
                              [c \in 0 .. n |-> memory'[c]] = [c \in 0 .. n |->
                                     IF c = n THEN NUL ELSE w[c + 1]]
    BY <1>1 DEF Prints, WholeOf, TextsOf
  <2> DEFINE n == Smaller(Len(w), maxlength - 1)
  <2>1. idx = Len(w) /\ (toFct => received = Sent(w))
        /\ (~toFct => \A c \in 0 .. Smaller(idx, maxlength) - 1 : memory[c] = w[c + 1])
    BY <1>4
  <2> HIDE DEF w, k
  <2>2. ASSUME ~toFct, maxlength > 0, NEW c \in 0 .. n
        PROVE  memory'[c] = IF c = n THEN NUL ELSE w[c + 1]
    <3>1. k = n
      BY <1>2, <2>1, <2>2 DEF Smaller, k
    <3>2. c \in DOMAIN memory /\ c \in Nat /\ (c # n => c \in 0 .. Smaller(idx, maxlength) - 1)
      BY <1>2, <2>1, <2>2 DEF Smaller
    <3> HIDE DEF n
    <3>3. memory' = [memory EXCEPT ![k] = NUL]
      BY <1>1, <1>2, <2>2
    <3>4. memory'[c] = IF c = k THEN NUL ELSE memory[c]
      BY <3>2, <3>3
    <3>5. c # n => memory[c] = w[c + 1]
      BY <2>1, <2>2, <3>2
    <3> QED BY <3>1, <3>4, <3>5
  <2> HIDE DEF n
  <2>3. ~toFct /\ maxlength > 0 =>
          [c \in 0 .. n |-> memory'[c]] = [c \in 0 .. n |-> IF c = n THEN NUL ELSE w[c + 1]]
    BY <2>2
  <2> QED BY <2>1, <2>3 DEF n
<1> QED BY <1>3, <1>5

LEMMA PrintStep == PInv /\ [Next]_vars => PInv'
<1> SUFFICES ASSUME PInv, [Next]_vars PROVE PInv'
  OBVIOUS
<1>0. FInv'
  BY FormatStep DEF PInv
<1>1. ASSUME ret < 0, Len(format) < MaxItems, NEW d \in Known, PrintsItem(d)
      PROVE  Printing' /\ Prints'
  <2>1. PICK text \in Text : /\ format' = Append(format, d) /\ Emit(text)
                             /\ Follows(d) => text = CText(d)
    BY <1>1, PrintedText
  <2> QED BY <1>1, <2>1, EmitPrints
<1>2. ASSUME ret < 0, Len(format) < MaxItems, NEW d \in Known, FloatTooLarge(d)
      PROVE  Printing' /\ Prints'
  BY <1>2, FloatTooLargePrints
<1>3. ASSUME Terminate PROVE Printing' /\ Prints'
  BY <1>3, TerminatePrints
<1>4. ASSUME UNCHANGED vars PROVE Printing' /\ Prints'
  <2>1. Printing /\ Prints
    BY DEF PInv
  <2>2. /\ format' = format /\ toFct' = toFct /\ maxlength' = maxlength /\ idx' = idx
        /\ memory' = memory /\ received' = received /\ ret' = ret
    BY <1>4 DEF vars
  <2>3. Printing'
    BY <2>1, <2>2, Zenon DEF Printing
  <2>4. Prints'
    BY <2>1, <2>2, Zenon DEF Prints
  <2> QED BY <2>3, <2>4
<1>5. Printing' /\ Prints'
  BY <1>1, <1>2, <1>3, <1>4, Steps
<1> QED BY <1>0, <1>5 DEF PInv

\* Whatever is printed, in a buffer of any length or through a function: the
\* returned length is that of the text the C standard gives the items, one after
\* the other, the function has got each of its characters but the terminator, and
\* the buffer holds it, cut to what fits, and the terminator behind it.  Items whose
\* conversions leave the standard are excepted.
THEOREM PrintsText == Spec => []Prints
<1>1. PInv => Prints
  BY DEF PInv
<1> QED BY <1>1, PrintInit, PrintStep, PTL DEF Spec
===============================================================================
