----------------------------- MODULE ConsoleProofs -----------------------------
(***************************************************************************)
(* Proofs about Console, for screens, characters and fonts of any size.    *)
(* What is said of any screen is that the cursor stays on a cell or just   *)
(* past one, that one background colour is seen, and that a character      *)
(* stays in its own line.  That nothing is stored past the framebuffer     *)
(* needs room at its end (Roomy).  A character is drawn in the column      *)
(* after the last before the line breaks: that the screen shows the        *)
(* terminal needs room for it at the end of each row of pixels (Padded),   *)
(* or lines that are no longer than the screen (WithinScreen).             *)
(***************************************************************************)
EXTENDS Console, TLAPS

Padded == CellWidth * Columns + CellWidth <= Pitch
Roomy  == Padded \/ CellHeight * Rows < Height

\* No character is printed where the screen has no room for it.
WithinScreen ==
    [][\A c \in Chars : PrintChar(c) => Padded \/ x < CellWidth * Columns]_vars

-------------------------------------------------------------------------------
(* Arithmetic *)

LEMMA Divided ==
  ASSUME NEW a \in Int, NEW d \in Nat \ {0}
  PROVE  a \div d \in Int /\ a % d \in 0 .. d - 1 /\ a = d * (a \div d) + (a % d)
OBVIOUS

\* Quotient and remainder are what they are by their bounds.
LEMMA Division ==
  ASSUME NEW d \in Nat \ {0}, NEW q \in Int, NEW r \in 0 .. d - 1,
         NEW p \in Int, NEW s \in 0 .. d - 1, d * q + r = d * p + s
  PROVE  q = p /\ r = s
<1>1. d * (q - p) = s - r
  BY SMT
<1>2. CASE q - p >= 1
  <2>1. d * (q - p) >= d
    BY <1>2, SMT
  <2> QED BY <1>1, <2>1
<1>3. CASE q - p <= -1
  <2>1. d * (q - p) <= -d
    BY <1>3, SMT
  <2> QED BY <1>1, <2>1
<1>4. CASE q = p
  BY <1>4
<1> QED BY <1>2, <1>3, <1>4

LEMMA Quotient ==
  ASSUME NEW d \in Nat \ {0}, NEW q \in Int, NEW r \in 0 .. d - 1
  PROVE  (d * q + r) \div d = q /\ (d * q + r) % d = r
<1> DEFINE a == d * q + r
<1>1. a \in Int
  BY SMT
<1>2. a \div d \in Int /\ a % d \in 0 .. d - 1 /\ a = d * (a \div d) + (a % d)
  BY <1>1, Divided
<1>3. q = a \div d /\ r = a % d
  BY <1>2, Division
<1> QED BY <1>3

\* A greater factor makes for a greater product.
LEMMA Monotone ==
  ASSUME NEW d \in Nat, NEW q \in Int, NEW p \in Int, q <= p
  PROVE  d * q <= d * p
BY SMT

\* The sizes of the screen.
LEMMA Sizes ==
  /\ Pitch \in Nat \ {0} /\ Height \in Nat \ {0} /\ Width \in Nat \ {0} /\ Width <= Pitch
  /\ CellWidth \in Nat \ {0} /\ CellHeight \in Nat \ {0}
  /\ CellWidth <= Width /\ CellHeight <= Height
  /\ Rows \in Nat \ {0} /\ Columns \in Nat \ {0}
  /\ CellHeight * Rows <= Height /\ Height < CellHeight * Rows + CellHeight
  /\ CellWidth * Columns <= Width /\ Width < CellWidth * Columns + CellWidth
  /\ Size \in Nat \ {0}
<1>1. /\ Pitch \in Nat \ {0} /\ Height \in Nat \ {0} /\ Width \in Nat \ {0} /\ Width <= Pitch
      /\ CellWidth \in Nat \ {0} /\ CellHeight \in Nat \ {0}
      /\ CellWidth <= Width /\ CellHeight <= Height
  BY ConsoleAssumption
<1>2. ASSUME NEW a \in Nat \ {0}, NEW d \in Nat \ {0}, d <= a
      PROVE  a \div d \in Nat \ {0} /\ d * (a \div d) <= a /\ a < d * (a \div d) + d
  <2> DEFINE q == a \div d
             r == a % d
  <2>1. q \in Int /\ r \in 0 .. d - 1 /\ a = d * q + r
    BY Divided
  <2> HIDE DEF q, r
  <2>2. q >= 1
    <3> SUFFICES ASSUME q <= 0 PROVE FALSE
      BY <2>1
    <3>1. d * q <= d * 0
      BY <2>1, Monotone
    <3> QED BY <3>1, <2>1, <1>2
  <2>3. d * q <= a /\ a < d * q + d
    BY <2>1, SMT
  <2> QED BY <2>1, <2>2, <2>3 DEF q
<1>3. Rows \in Nat \ {0} /\ CellHeight * Rows <= Height /\ Height < CellHeight * Rows + CellHeight
  BY <1>1, <1>2 DEF Rows
<1>4. Columns \in Nat \ {0} /\ CellWidth * Columns <= Width /\ Width < CellWidth * Columns + CellWidth
  BY <1>1, <1>2 DEF Columns
<1>5. Size \in Nat \ {0}
  BY <1>1, SMT DEF Size
<1> QED BY <1>1, <1>3, <1>4, <1>5

-------------------------------------------------------------------------------
(* The font: although the rows of its image go upwards, print_char finds *)
(* each character the right way up and in its own place.                 *)

LEMMA FontSizes ==
  CellsPerXAxis \in Nat \ {0} /\ BMPImageHeight \in Int
<1>1. CellWidth \in Nat \ {0} /\ CellHeight \in Nat
  BY Sizes
<1>2. CellsPerXAxis \in Nat \ {0}
  <2> DEFINE q == BMPImageWidth \div CellWidth
  <2>1. BMPImageWidth \in Nat /\ BMPImageWidth >= CellWidth
    BY <1>1, ConsoleAssumption
  <2>2. q \in Int /\ BMPImageWidth < CellWidth * q + CellWidth
    BY <1>1, <2>1, Divided
  <2> HIDE DEF q
  <2>3. q >= 1
    <3> SUFFICES ASSUME q <= 0 PROVE FALSE
      BY <2>2
    <3>1. CellWidth * q <= CellWidth * 0
      BY <1>1, <2>2, Monotone
    <3> QED BY <3>1, <1>1, <2>1, <2>2
  <2> QED BY <2>2, <2>3 DEF q, CellsPerXAxis
<1>3. (CHOOSE c \in Chars : \A d \in Chars : d <= c) \in Nat
  BY ConsoleAssumption
<1>4. BMPImageHeight \in Int
  <2> DEFINE most == CHOOSE c \in Chars : \A d \in Chars : d <= c
             lines == most \div CellsPerXAxis
  <2>1. lines \in Int
    BY <1>2, <1>3, Divided
  <2> HIDE DEF lines
  <2>2. CellHeight * (1 + lines) \in Int
    BY <1>1, <2>1, SMT
  <2> QED BY <2>2 DEF BMPImageHeight, lines
<1> QED BY <1>2, <1>4

LEMMA Font == ASSUME NEW c \in Chars PROVE Glyphs[c] = Shapes[c]
<1> DEFINE n == CellsPerXAxis
           H == BMPImageHeight
           up == c \div n
           across == c % n
<1>1. n \in Nat \ {0} /\ H \in Int /\ c \in Nat /\ CellWidth \in Nat \ {0} /\ CellHeight \in Nat \ {0}
  BY FontSizes, Sizes, ConsoleAssumption
<1>2. up \in Int /\ across \in 0 .. n - 1 /\ c = n * up + across
  BY <1>1, Divided
<1>3. X0(c) = CellWidth * across /\ Y0(c) = CellHeight * up
  <2> HIDE DEF n
  <2>1. X0(c) = across * CellWidth /\ Y0(c) = up * CellHeight
    BY DEF X0, Y0, n
  <2> HIDE DEF up, across
  <2> QED BY <1>1, <1>2, <2>1, SMT
<1> HIDE DEF n, H, up, across
<1>4. ASSUME NEW p \in CellPixels
      PROVE  InFile(X0(c) + p[1], H - 1 - (Y0(c) + p[2])) <=> p \in Shapes[c]
  <2>1. p[1] \in 0 .. CellWidth - 1 /\ p[2] \in 0 .. CellHeight - 1 /\ p = <<p[1], p[2]>>
    BY DEF CellPixels
  <2> DEFINE px == X0(c) + p[1]
             imageRow == H - 1 - (H - 1 - (Y0(c) + p[2]))
  <2>2. px = CellWidth * across + p[1] /\ imageRow = CellHeight * up + p[2]
    <3>1. CellWidth * across \in Int /\ CellHeight * up \in Int
      BY <1>1, <1>2, SMT
    <3> QED BY <3>1, <1>1, <1>3, <2>1
  <2>3. px \div CellWidth = across /\ px % CellWidth = p[1]
    BY <1>1, <1>2, <2>1, <2>2, Quotient
  <2>4. imageRow \div CellHeight = up /\ imageRow % CellHeight = p[2]
    BY <1>1, <1>2, <2>1, <2>2, Quotient
  <2>5. n * (imageRow \div CellHeight) + px \div CellWidth = c
    BY <1>2, <2>3, <2>4
  <2> HIDE DEF px, imageRow
  <2>6. InFile(X0(c) + p[1], H - 1 - (Y0(c) + p[2]))
          <=> c \in Chars /\ <<px % CellWidth, imageRow % CellHeight>> \in Shapes[c]
    BY <2>5 DEF InFile, px, imageRow, n, H
  <2> QED BY <2>1, <2>3, <2>4, <2>6
<1>5. Glyphs[c] = {p \in CellPixels : InFile(X0(c) + p[1], H - 1 - (Y0(c) + p[2]))}
  BY DEF Glyphs, H
<1>6. Shapes[c] \subseteq CellPixels
  BY ConsoleAssumption
<1> QED BY <1>4, <1>5, <1>6

-------------------------------------------------------------------------------
(* Pixels *)

\* A character drawn in a cell of the screen, or past the last one of its line,
\* has its pixels in its own line and at most a cell's width past it.
LEMMA Where ==
  ASSUME NEW k \in 0 .. Columns, NEW l \in 0 .. Rows - 1, NEW p \in CellPixels
  PROVE  LET o == Offset(CellWidth * k + p[1], CellHeight * l + p[2])
         IN  /\ o \in Memory
             /\ Offset(0, CellHeight * l) <= o
             /\ o <= Offset(0, CellHeight * l + CellHeight) + CellWidth - 1
             /\ Roomy => o < Size
<1> DEFINE X == CellWidth * k
           Y == CellHeight * l
<1>1. /\ Pitch \in Nat \ {0} /\ Height \in Nat /\ CellWidth \in Nat \ {0} /\ CellHeight \in Nat \ {0}
      /\ Rows \in Nat /\ Columns \in Nat /\ CellHeight * Rows <= Height
      /\ CellWidth * Columns <= Pitch /\ CellWidth <= Pitch /\ CellWidth * Columns \in Int
      /\ CellHeight * Rows \in Int /\ Size \in Nat
  <2>1. CellWidth * Columns \in Int /\ CellHeight * Rows \in Int
    BY Sizes, SMT
  <2> QED BY Sizes, <2>1
<1>2. p[1] \in 0 .. CellWidth - 1 /\ p[2] \in 0 .. CellHeight - 1
  BY DEF CellPixels
<1>3. X \in Nat /\ X <= CellWidth * Columns
  <2>1. X <= CellWidth * Columns
    BY <1>1, Monotone
  <2>2. X \in Nat
    BY <1>1, SMT
  <2> QED BY <2>1, <2>2
<1>4. Y \in Nat /\ Y + CellHeight <= CellHeight * Rows
  <2>1. CellHeight * (l + 1) <= CellHeight * Rows
    BY <1>1, Monotone
  <2>2. CellHeight * (l + 1) = Y + CellHeight /\ Y \in Nat
    BY <1>1, SMT
  <2> QED BY <2>1, <2>2
<1> HIDE DEF X, Y
<1> DEFINE r == Y + p[2]
           o == Offset(X + p[1], r)
<1>5. r \in Nat /\ Y <= r /\ r + 1 <= Y + CellHeight
  BY <1>1, <1>2, <1>4
<1> HIDE DEF r
<1>6. o = Pitch * r + X + p[1] /\ Pitch * r \in Nat /\ o \in Nat
  <2>1. r * Pitch = Pitch * r /\ Pitch * r \in Nat
    BY <1>1, <1>5, SMT
  <2> QED BY <2>1, <1>1, <1>2, <1>3 DEF Offset
<1>7. /\ Pitch * Y <= Pitch * r /\ Pitch * Y \in Nat
      /\ Pitch * r + Pitch <= Pitch * (Y + CellHeight) /\ Pitch * (Y + CellHeight) \in Nat
      /\ Pitch * (Y + CellHeight) <= Pitch * (CellHeight * Rows)
      /\ Pitch * (CellHeight * Rows) \in Int
  <2>1. Pitch * Y <= Pitch * r
    BY <1>1, <1>4, <1>5, Monotone
  <2>2. Pitch * (r + 1) <= Pitch * (Y + CellHeight)
    BY <1>1, <1>4, <1>5, Monotone
  <2>3. Pitch * (Y + CellHeight) <= Pitch * (CellHeight * Rows)
    BY <1>1, <1>4, Monotone
  <2>4. Pitch * (r + 1) = Pitch * r + Pitch
    BY <1>1, <1>5, SMT
  <2>5. Pitch * Y \in Nat /\ Pitch * (Y + CellHeight) \in Nat /\ Pitch * (CellHeight * Rows) \in Int
    BY <1>1, <1>4, SMT
  <2> QED BY <2>1, <2>2, <2>3, <2>4, <2>5
<1>8. Pitch * (CellHeight * Rows) <= Size /\ (CellHeight * Rows < Height => Pitch * (CellHeight * Rows) + Pitch <= Size)
  <2>1. Pitch * (CellHeight * Rows) <= Pitch * Height
    BY <1>1, Monotone
  <2>2. ASSUME CellHeight * Rows < Height
        PROVE  Pitch * (CellHeight * Rows + 1) <= Pitch * Height
    BY <1>1, <2>2, Monotone
  <2>3. Pitch * (CellHeight * Rows + 1) = Pitch * (CellHeight * Rows) + Pitch
    BY <1>1, SMT
  <2> QED BY <2>1, <2>2, <2>3 DEF Size
<1>9. Offset(0, Y) = Pitch * Y /\ Offset(0, Y + CellHeight) = Pitch * (Y + CellHeight)
  BY <1>1, <1>4, SMT DEF Offset
<1>10. Offset(0, Y) <= o /\ o <= Offset(0, Y + CellHeight) + CellWidth - 1
  BY <1>1, <1>2, <1>3, <1>6, <1>7, <1>9
<1>11. o \in Memory
  BY <1>1, <1>2, <1>3, <1>6, <1>7, <1>8 DEF Memory
<1>12. Roomy => o < Size
  <2>1. CASE Padded
    BY <2>1, <1>1, <1>2, <1>3, <1>6, <1>7, <1>8 DEF Padded
  <2>2. CASE CellHeight * Rows < Height
    BY <2>2, <1>1, <1>2, <1>3, <1>6, <1>7, <1>8
  <2> QED BY <2>1, <2>2 DEF Roomy
<1> QED BY <1>10, <1>11, <1>12 DEF o, r, X, Y

-------------------------------------------------------------------------------
(* The cursor *)

\* A line is begun below the last one only when the cursor is below it, and a
\* line breaks only when a character was drawn past its last column.
LEMMA Cursor ==
  ASSUME NEW k \in 0 .. Columns, NEW l \in 0 .. Rows
  PROVE  /\ CellWidth * k \in Nat /\ CellHeight * l \in Nat
         /\ (CellWidth * k) \div CellWidth = k /\ (CellHeight * l) \div CellHeight = l
         /\ Below(CellHeight * l) <=> l = Rows
         /\ CellWidth * k + CellWidth = CellWidth * (k + 1)
         /\ CellHeight * l + CellHeight = CellHeight * (l + 1)
         /\ CellHeight * l - CellHeight = CellHeight * (l - 1)
         /\ Wraps(CellWidth * (k + 1)) <=> k = Columns
         /\ l # Rows => l \in 0 .. Rows - 1 /\ l + 1 \in 0 .. Rows
         /\ l = Rows => l - 1 \in 0 .. Rows - 1
<1>1. /\ CellWidth \in Nat \ {0} /\ CellHeight \in Nat \ {0}
      /\ Rows \in Nat \ {0} /\ Columns \in Nat \ {0} /\ k \in Nat /\ l \in Nat
  BY Sizes
<1>2. ASSUME NEW d \in Nat \ {0}, NEW n \in Nat
      PROVE  /\ d * n \in Nat /\ (d * n) \div d = n
             /\ d * n + d = d * (n + 1) /\ d * n - d = d * (n - 1)
             /\ (d * n + d) \div d = n + 1
  <2>1. d * n \in Nat /\ d * n + d = d * (n + 1) /\ d * n - d = d * (n - 1) /\ d * n = d * n + 0
    BY SMT
  <2>2. (d * n + 0) \div d = n
    BY Quotient
  <2>3. (d * (n + 1) + 0) \div d = n + 1
    BY Quotient
  <2>4. d * (n + 1) + 0 = d * (n + 1)
    BY SMT
  <2> QED BY <2>1, <2>2, <2>3, <2>4
<1> DEFINE Multiple(d, n) == /\ d * n \in Nat /\ (d * n) \div d = n
                             /\ d * n + d = d * (n + 1) /\ d * n - d = d * (n - 1)
                             /\ (d * n + d) \div d = n + 1
<1>3. Multiple(CellWidth, k) /\ Multiple(CellHeight, l)
  BY <1>1, <1>2
<1>4. Below(CellHeight * l) <=> l = Rows
  <2>1. (CellHeight * l + CellHeight) \div CellHeight = l + 1
    BY <1>3
  <2> QED BY <2>1, <1>1 DEF Below, Rows
<1>5. Wraps(CellWidth * (k + 1)) <=> k = Columns
  <2>1. (CellWidth * k + CellWidth) \div CellWidth = k + 1 /\ CellWidth * k + CellWidth = CellWidth * (k + 1)
    BY <1>3
  <2> QED BY <2>1, <1>1 DEF Wraps, Columns
<1> QED BY <1>1, <1>3, <1>4, <1>5

\* What print_char does, by the cell it draws in.
LEMMA Printing ==
  ASSUME TypeOK, NEW c \in Chars, PrintChar(c)
  PROVE  \E k \in 0 .. Columns, l \in 0 .. Rows - 1 :
           /\ x = CellWidth * k
           /\ \/ y = CellHeight * l /\ ~Below(y)
                 /\ fb' = Drawn(fb, c, foregroundColor, CellWidth * k, CellHeight * l)
                 /\ fbShadow' = fbShadow
              \/ y = CellHeight * Rows /\ Below(y) /\ l = Rows - 1
                 /\ fb' = Drawn(Scrolled(fb, fbShadow).fb, c, foregroundColor,
                                CellWidth * k, CellHeight * l)
                 /\ fbShadow' = Scrolled(fb, fbShadow).shadow
           /\ \/ k # Columns /\ x' = CellWidth * (k + 1) /\ y' = CellHeight * l
              \/ k = Columns /\ x' = 0 /\ y' = CellHeight * (l + 1)
           /\ UNCHANGED colours
<1>1. PICK k \in 0 .. Columns, m \in 0 .. Rows : x = CellWidth * k /\ y = CellHeight * m
  BY DEF TypeOK
<1>2. Rows \in Nat \ {0} /\ Columns \in Nat
  BY Sizes
<1>3. CASE m = Rows
  <2>1. Below(y) /\ y - CellHeight = CellHeight * (Rows - 1) /\ Rows - 1 \in 0 .. Rows - 1
    BY <1>1, <1>2, <1>3, Cursor
  <2>2. x + CellWidth = CellWidth * (k + 1) /\ (Wraps(x + CellWidth) <=> k = Columns)
    BY <1>1, Cursor
  <2>3. CellHeight * (Rows - 1) + CellHeight = CellHeight * ((Rows - 1) + 1)
    BY <2>1, <1>2, Cursor
  <2>4. /\ fb' = Drawn(Scrolled(fb, fbShadow).fb, c, foregroundColor, CellWidth * k, CellHeight * (Rows - 1))
        /\ fbShadow' = Scrolled(fb, fbShadow).shadow /\ UNCHANGED colours
    BY <1>1, <2>1 DEF PrintChar
  <2>5. \/ k # Columns /\ x' = CellWidth * (k + 1) /\ y' = CellHeight * (Rows - 1)
        \/ k = Columns /\ x' = 0 /\ y' = CellHeight * ((Rows - 1) + 1)
    BY <2>1, <2>2, <2>3 DEF PrintChar
  <2> QED BY <1>1, <1>3, <2>1, <2>4, <2>5
<1>4. CASE m # Rows
  <2>1. ~Below(y) /\ m \in 0 .. Rows - 1 /\ y + CellHeight = CellHeight * (m + 1)
    BY <1>1, <1>2, <1>4, Cursor
  <2>2. x + CellWidth = CellWidth * (k + 1) /\ (Wraps(x + CellWidth) <=> k = Columns)
    BY <1>1, Cursor
  <2>3. /\ fb' = Drawn(fb, c, foregroundColor, CellWidth * k, CellHeight * m)
        /\ fbShadow' = fbShadow /\ UNCHANGED colours
    BY <1>1, <2>1 DEF PrintChar
  <2>4. \/ k # Columns /\ x' = CellWidth * (k + 1) /\ y' = CellHeight * m
        \/ k = Columns /\ x' = 0 /\ y' = CellHeight * (m + 1)
    BY <1>1, <2>1, <2>2 DEF PrintChar
  <2> QED BY <1>1, <2>1, <2>3, <2>4
<1> QED BY <1>3, <1>4

\* The same of a newline.
LEMMA Breaking ==
  ASSUME TypeOK, Newline
  PROVE  \E l \in 0 .. Rows :
           /\ x' = 0 /\ y = CellHeight * l /\ UNCHANGED colours
           /\ \/ l # Rows /\ y' = CellHeight * (l + 1) /\ l + 1 \in 0 .. Rows
                 /\ UNCHANGED <<fb, fbShadow>>
              \/ l = Rows /\ y' = CellHeight * (Rows - 1) /\ Rows - 1 \in 0 .. Rows
                 /\ fb' = Scrolled(fb, fbShadow).fb /\ fbShadow' = Scrolled(fb, fbShadow).shadow
<1>1. PICK l \in 0 .. Rows : y = CellHeight * l
  BY DEF TypeOK
<1>2. Rows \in Nat \ {0} /\ Columns \in Nat /\ 0 \in 0 .. Columns
  BY Sizes
<1>3. CASE l = Rows
  <2>1. Below(y) /\ y - CellHeight = CellHeight * (Rows - 1) /\ Rows - 1 \in 0 .. Rows
    BY <1>1, <1>2, <1>3, Cursor
  <2> QED BY <1>1, <1>3, <2>1 DEF Newline
<1>4. CASE l # Rows
  <2>1. ~Below(y) /\ l + 1 \in 0 .. Rows /\ y + CellHeight = CellHeight * (l + 1)
    BY <1>1, <1>2, <1>4, Cursor
  <2> QED BY <1>1, <1>4, <2>1 DEF Newline
<1> QED BY <1>3, <1>4

-------------------------------------------------------------------------------
(* One background colour *)

Stored == Inks \cup Papers \cup {Outside}
Offsets == 0 .. Size - 1
Last == Size - Pitch * CellHeight     \* where the last line of the shadow begins

(***************************************************************************)
(* One paper is behind the ink, and it is what scroll finds in the part of *)
(* the shadow that it does not write.                                      *)
(***************************************************************************)
On(paper) ==
  /\ paper \in Papers
  /\ \A o \in Offsets : fb[o] \in Inks \cup {paper}
  /\ \A o \in Offsets : o >= Last => fbShadow[o] = paper

CInv == TypeOK /\ \E paper \in Papers : On(paper)

LEMMA Lines ==
  /\ Last \in Nat /\ Pitch * CellHeight \in Nat \ {0} /\ Size \in Nat \ {0}
  /\ Size - Pitch * CellHeight = Last /\ CellWidth \in Nat \ {0}
  /\ Memory = 0 .. Size + CellWidth - 1 /\ Offsets \subseteq Memory
<1>1. /\ Pitch \in Nat \ {0} /\ CellHeight \in Nat \ {0} /\ CellHeight <= Height /\ Height \in Nat
      /\ Size \in Nat \ {0} /\ CellWidth \in Nat \ {0}
  BY Sizes
<1>2. Pitch * CellHeight <= Pitch * Height
  BY <1>1, Monotone
<1>3. Pitch * CellHeight \in Nat \ {0}
  BY <1>1, SMT
<1>4. Last \in Nat
  BY <1>1, <1>2, <1>3 DEF Last, Size
<1>5. Memory = 0 .. Size + CellWidth - 1
  BY <1>1 DEF Memory
<1>6. Offsets \subseteq Memory
  BY <1>1, <1>5 DEF Offsets
<1> QED BY <1>1, <1>3, <1>4, <1>5, <1>6 DEF Last

\* Scrolling moves the pixels up by a line and lets the paper in from below;
\* what lies behind the framebuffer stays.
LEMMA Scrolling ==
  ASSUME TypeOK, NEW paper \in Papers, On(paper)
  PROVE  LET s == Scrolled(fb, fbShadow)
         IN  /\ s.fb \in [Memory -> Stored] /\ s.shadow \in [Offsets -> Inks \cup Papers]
             /\ \A o \in Offsets :
                  s.fb[o] = (IF o < Last THEN fb[o + Pitch * CellHeight] ELSE paper)
             /\ \A o \in Offsets : s.fb[o] \in Inks \cup {paper}
             /\ \A o \in Memory : o >= Size => s.fb[o] = fb[o]
             /\ \A o \in Offsets : o >= Last => s.shadow[o] = paper
<1> DEFINE s == Scrolled(fb, fbShadow)
           up == Copied(fb, fbShadow, Pitch * CellHeight)
           blank == Filled(fb, backgroundColor)
<1>1. fb \in [Memory -> Stored] /\ fbShadow \in [Offsets -> Inks \cup Papers]
  BY DEF TypeOK, Stored, Offsets
<1>2. /\ up = [o \in Offsets |-> IF o < Last THEN fb[o + Pitch * CellHeight] ELSE fbShadow[o]]
      /\ s.shadow = up /\ s.fb = Copied(up, blank, 0)
  BY <1>1, Lines DEF Copied, Scrolled
<1>3. \A o \in Offsets :
        o + Pitch * CellHeight \in Int /\ (o < Last => o + Pitch * CellHeight \in Offsets)
  BY Lines DEF Offsets
<1>4. blank = [o \in Memory |-> IF o < Size THEN backgroundColor ELSE fb[o]]
  BY DEF Filled
<1> HIDE DEF up, blank
<1>5. s.fb = [o \in Memory |-> IF o < Size THEN up[o] ELSE fb[o]]
  <2>1. Size - 0 = Size /\ \A o \in Memory : o + 0 = o
    BY Lines
  <2>2. s.fb = [o \in Memory |-> IF o < Size THEN up[o + 0] ELSE blank[o]]
    BY <1>2, <1>4, <2>1 DEF Copied
  <2> QED BY <1>4, <2>1, <2>2
<1> HIDE DEF s
<1>6. \A o \in Offsets : up[o] = (IF o < Last THEN fb[o + Pitch * CellHeight] ELSE paper)
  BY <1>2, Lines DEF On, Offsets
<1>7. \A o \in Offsets : up[o] \in Inks \cup {paper}
  BY <1>3, <1>6 DEF On
<1>8. \A o \in Memory : o < Size <=> o \in Offsets
  BY Lines DEF Offsets
<1>9. up \in [Offsets -> Inks \cup Papers]
  BY <1>2, <1>7
<1>10. s.fb \in [Memory -> Stored]
  BY <1>1, <1>5, <1>7, <1>8 DEF Stored
<1>11. \A o \in Offsets : s.fb[o] = up[o]
  BY <1>5, <1>8, Lines
<1>12. \A o \in Memory : o >= Size => s.fb[o] = fb[o]
  BY <1>5, Lines
<1>13. \A o \in Offsets : o >= Last => up[o] = paper
  BY <1>6, Lines DEF Offsets
<1> QED BY <1>2, <1>6, <1>7, <1>9, <1>10, <1>11, <1>12, <1>13 DEF s

\* A character puts ink in its own line, and none behind the framebuffer if there
\* is room.
LEMMA Drawing ==
  ASSUME NEW c \in Chars, NEW ink \in Inks, NEW k \in 0 .. Columns, NEW l \in 0 .. Rows - 1,
         NEW pixels \in [Memory -> Stored]
  PROVE  LET d == Drawn(pixels, c, ink, CellWidth * k, CellHeight * l)
         IN  /\ d \in [Memory -> Stored]
             /\ \A o \in Memory : d[o] = pixels[o] \/ d[o] = ink
             /\ \A o \in Memory : d[o] # pixels[o] =>
                  o \in Offset(0, CellHeight * l) ..
                        (Offset(0, CellHeight * l + CellHeight) + CellWidth - 1)
             /\ Roomy => \A o \in Memory : o >= Size => d[o] = pixels[o]
<1> DEFINE set == {Offset(CellWidth * k + g[1], CellHeight * l + g[2]) : g \in Glyphs[c]}
           d == Drawn(pixels, c, ink, CellWidth * k, CellHeight * l)
<1>1. d = [o \in Memory |-> IF o \in set THEN ink ELSE pixels[o]]
  BY DEF Drawn
<1>2. Glyphs[c] \subseteq CellPixels
  BY Font, ConsoleAssumption
<1>3. \A o \in set :
        /\ o \in Memory /\ Offset(0, CellHeight * l) <= o
        /\ o <= Offset(0, CellHeight * l + CellHeight) + CellWidth - 1
        /\ Roomy => o < Size
  BY <1>2, Where
<1>4. \A o \in set :
        o \in Offset(0, CellHeight * l) .. (Offset(0, CellHeight * l + CellHeight) + CellWidth - 1)
  <2>1. CellHeight * l \in Nat /\ CellHeight \in Nat /\ Pitch \in Nat /\ CellWidth \in Nat
    BY Sizes, SMT
  <2>2. /\ Offset(0, CellHeight * l) \in Int
        /\ Offset(0, CellHeight * l + CellHeight) + CellWidth - 1 \in Int
    <3>1. ASSUME NEW n \in Nat PROVE n * Pitch + 0 \in Int
      BY <2>1, SMT
    <3>2. CellHeight * l + CellHeight \in Nat
      BY <2>1
    <3> QED BY <2>1, <3>1, <3>2 DEF Offset
  <2>3. \A o \in Memory : o \in Int
    BY Lines
  <2> QED BY <1>3, <2>2, <2>3
<1> HIDE DEF set, d
<1>5. d \in [Memory -> Stored]
  BY <1>1 DEF Stored
<1>6. \A o \in Memory : d[o] = (IF o \in set THEN ink ELSE pixels[o])
  BY <1>1
<1>7. Roomy => \A o \in Memory : o >= Size => d[o] = pixels[o]
  BY <1>3, <1>6, Lines
<1> QED BY <1>4, <1>5, <1>6, <1>7 DEF d

-------------------------------------------------------------------------------
(* The screen is in order *)

LEMMA ScreenInitially == Init => CInv /\ StaysInside
<1> SUFFICES ASSUME Init PROVE CInv /\ StaysInside
  OBVIOUS
<1>1. 0 \in Papers /\ Outside \notin Inks \cup Papers
  BY ConsoleAssumption
<1>2. fb \in [Memory -> Stored] /\ fbShadow \in [Offsets -> Inks \cup Papers]
  BY <1>1 DEF Init, Clone, Stored, Offsets
<1>3. x = CellWidth * 0 /\ y = CellHeight * 0 /\ 0 \in 0 .. Columns /\ 0 \in 0 .. Rows
  BY Sizes DEF Init
<1>4. TypeOK
  BY <1>1, <1>2, <1>3 DEF TypeOK, Init, Stored, Offsets
<1>5. On(0)
  BY <1>1, Lines DEF On, Init, Clone, Offsets
<1>6. StaysInside
  BY Lines DEF StaysInside, Init
<1> QED BY <1>1, <1>4, <1>5, <1>6 DEF CInv

LEMMA PrintKeeps ==
  ASSUME CInv, NEW c \in Chars, PrintChar(c)
  PROVE  CInv' /\ (Roomy /\ StaysInside => StaysInside')
<1>1. TypeOK /\ foregroundColor \in Inks /\ fb \in [Memory -> Stored]
      /\ fbShadow \in [Offsets -> Inks \cup Papers]
  BY DEF CInv, TypeOK, Stored, Offsets
<1>2. PICK paper \in Papers : On(paper)
  BY DEF CInv
<1>3. PICK k \in 0 .. Columns, l \in 0 .. Rows - 1 :
        /\ \/ /\ fb' = Drawn(fb, c, foregroundColor, CellWidth * k, CellHeight * l)
              /\ fbShadow' = fbShadow
           \/ /\ fb' = Drawn(Scrolled(fb, fbShadow).fb, c, foregroundColor,
                             CellWidth * k, CellHeight * l)
              /\ fbShadow' = Scrolled(fb, fbShadow).shadow
        /\ \/ k # Columns /\ x' = CellWidth * (k + 1) /\ y' = CellHeight * l
           \/ k = Columns /\ x' = 0 /\ y' = CellHeight * (l + 1)
        /\ UNCHANGED colours
  BY <1>1, Printing
<1>4. /\ x' \in {CellWidth * i : i \in 0 .. Columns}
      /\ y' \in {CellHeight * r : r \in 0 .. Rows}
  <2>1. /\ Rows \in Nat /\ Columns \in Nat /\ CellWidth * 0 = 0
        /\ 0 \in 0 .. Columns /\ l \in 0 .. Rows /\ l + 1 \in 0 .. Rows
        /\ k # Columns => k + 1 \in 0 .. Columns
    BY Sizes
  <2> QED BY <1>3, <2>1
<1>5. PICK pixels \in [Memory -> Stored], shadow \in [Offsets -> Inks \cup Papers] :
        /\ fb' = Drawn(pixels, c, foregroundColor, CellWidth * k, CellHeight * l)
        /\ fbShadow' = shadow
        /\ \A o \in Offsets : pixels[o] \in Inks \cup {paper}
        /\ \A o \in Offsets : o >= Last => shadow[o] = paper
        /\ \A o \in Memory : o >= Size => pixels[o] = fb[o]
  <2>1. CASE fb' = Drawn(fb, c, foregroundColor, CellWidth * k, CellHeight * l)
             /\ fbShadow' = fbShadow
    BY <1>1, <1>2, <2>1 DEF On
  <2>2. CASE fb' = Drawn(Scrolled(fb, fbShadow).fb, c, foregroundColor, CellWidth * k, CellHeight * l)
             /\ fbShadow' = Scrolled(fb, fbShadow).shadow
    BY <1>1, <1>2, <2>2, Scrolling
  <2> QED BY <1>3, <2>1, <2>2
<1>6. /\ fb' \in [Memory -> Stored]
      /\ \A o \in Memory : fb'[o] = pixels[o] \/ fb'[o] = foregroundColor
      /\ Roomy => \A o \in Memory : o >= Size => fb'[o] = pixels[o]
  BY <1>1, <1>5, Drawing
<1>7. TypeOK'
  BY <1>1, <1>3, <1>4, <1>5, <1>6 DEF TypeOK, Stored, Offsets, colours
<1>8. On(paper)'
  BY <1>1, <1>2, <1>5, <1>6, Lines DEF On
<1>9. Roomy /\ StaysInside => StaysInside'
  BY <1>5, <1>6 DEF StaysInside
<1> QED BY <1>7, <1>8, <1>9 DEF CInv

LEMMA BreakKeeps ==
  ASSUME CInv, Newline
  PROVE  CInv' /\ (StaysInside => StaysInside')
<1>1. TypeOK /\ fb \in [Memory -> Stored] /\ fbShadow \in [Offsets -> Inks \cup Papers]
  BY DEF CInv, TypeOK, Stored, Offsets
<1>2. PICK paper \in Papers : On(paper)
  BY DEF CInv
<1>3. PICK l \in 0 .. Rows :
        /\ x' = 0 /\ UNCHANGED colours
        /\ \/ /\ y' = CellHeight * (l + 1) /\ l + 1 \in 0 .. Rows
              /\ UNCHANGED <<fb, fbShadow>>
           \/ /\ y' = CellHeight * (Rows - 1) /\ Rows - 1 \in 0 .. Rows
              /\ fb' = Scrolled(fb, fbShadow).fb /\ fbShadow' = Scrolled(fb, fbShadow).shadow
  BY <1>1, Breaking
<1>4. /\ x' \in {CellWidth * i : i \in 0 .. Columns}
      /\ y' \in {CellHeight * r : r \in 0 .. Rows}
  <2>1. CellWidth * 0 = 0 /\ 0 \in 0 .. Columns
    BY Sizes
  <2> QED BY <1>3, <2>1
<1>5. /\ fb' \in [Memory -> Stored] /\ fbShadow' \in [Offsets -> Inks \cup Papers]
      /\ \A o \in Offsets : fb'[o] \in Inks \cup {paper}
      /\ \A o \in Offsets : o >= Last => fbShadow'[o] = paper
      /\ \A o \in Memory : o >= Size => fb'[o] = fb[o]
  <2>1. CASE UNCHANGED <<fb, fbShadow>>
    BY <1>1, <1>2, <2>1 DEF On
  <2>2. CASE fb' = Scrolled(fb, fbShadow).fb /\ fbShadow' = Scrolled(fb, fbShadow).shadow
    BY <1>1, <1>2, <2>2, Scrolling
  <2> QED BY <1>3, <2>1, <2>2
<1>6. TypeOK'
  BY <1>1, <1>3, <1>4, <1>5 DEF TypeOK, Stored, Offsets, colours
<1>7. On(paper)'
  BY <1>2, <1>5 DEF On
<1> QED BY <1>5, <1>6, <1>7 DEF CInv, StaysInside

LEMMA ClearKeeps ==
  ASSUME CInv, Clear
  PROVE  CInv' /\ (StaysInside => StaysInside')
<1>1. TypeOK /\ fb \in [Memory -> Stored] /\ fbShadow \in [Offsets -> Inks \cup Papers]
      /\ backgroundColor \in Papers
  BY DEF CInv, TypeOK, Stored, Offsets
<1>2. fb' = [o \in Memory |-> IF o < Size THEN backgroundColor ELSE fb[o]]
  BY DEF Clear, Filled
<1>3. fbShadow' = [o \in Offsets |-> backgroundColor]
  BY <1>1 DEF Clear
<1>4. fb' \in [Memory -> Stored] /\ fbShadow' \in [Offsets -> Inks \cup Papers]
  BY <1>1, <1>2, <1>3 DEF Stored
<1>5. x' = CellWidth * 0 /\ y' = CellHeight * 0 /\ 0 \in 0 .. Columns /\ 0 \in 0 .. Rows
  BY Sizes DEF Clear
<1>6. TypeOK'
  BY <1>1, <1>4, <1>5 DEF TypeOK, Clear, Stored, Offsets, colours
<1>7. On(backgroundColor)'
  <2>1. \A o \in Offsets : o \in Memory /\ o < Size
    BY Lines DEF Offsets
  <2> QED BY <1>1, <1>2, <1>3, <2>1 DEF On, Clear, colours
<1>8. StaysInside => StaysInside'
  BY <1>2, Lines DEF StaysInside
<1> QED BY <1>1, <1>6, <1>7, <1>8 DEF CInv, Clear, colours

LEMMA ScreenKeeps ==
  ASSUME CInv, [Next]_vars
  PROVE  CInv' /\ (Roomy /\ StaysInside => StaysInside')
<1>1. ASSUME NEW colour \in Papers, SetBGColor(colour)
      PROVE  CInv' /\ (StaysInside => StaysInside')
  BY <1>1 DEF SetBGColor, CInv, TypeOK, On, StaysInside
<1>2. ASSUME NEW colour \in Inks, SetFGColor(colour)
      PROVE  CInv' /\ (StaysInside => StaysInside')
  BY <1>2 DEF SetFGColor, CInv, TypeOK, On, StaysInside
<1>3. CASE UNCHANGED vars
  BY <1>3 DEF vars, CInv, TypeOK, On, StaysInside
<1> QED BY <1>1, <1>2, <1>3, PrintKeeps, BreakKeeps, ClearKeeps DEF Next

LEMMA Colour == CInv => TypeOK /\ OnePaper
<1> SUFFICES ASSUME CInv PROVE OnePaper
  BY DEF CInv
<1>1. PICK paper \in Papers : On(paper)
  BY DEF CInv
<1>2. \A o \in Offsets : fb[o] \in Papers => fb[o] = paper
  BY <1>1, ConsoleAssumption DEF On
<1> QED BY <1>2 DEF OnePaper, Offsets

\* On every screen.
THEOREM ScreenInvariance == Spec => []CInv
<1>1. CInv /\ [Next]_vars => CInv'
  BY ScreenKeeps
<1> QED BY <1>1, ScreenInitially, PTL DEF Spec

\* Through any wrapping, scrolling, clearing and change of colours the cursor is on
\* a cell or just past one, and what is not ink has one colour.
THEOREM OneBackground == Spec => [](TypeOK /\ OnePaper)
BY ScreenInvariance, Colour, PTL

LEMMA RoomyKeeps == ASSUME Roomy PROVE CInv /\ StaysInside /\ [Next]_vars => (CInv /\ StaysInside)'
BY ScreenKeeps

LEMMA InOrder == CInv /\ StaysInside => ScreenInv
BY Colour DEF ScreenInv

\* With room behind the last character cell nothing is ever stored past the
\* framebuffer, and the rest of ScreenInv holds as on any screen.
THEOREM ScreenInOrder == ASSUME Roomy PROVE Spec => []ScreenInv
<1>1. CInv /\ StaysInside /\ [Next]_vars => (CInv /\ StaysInside)'
  BY RoomyKeeps
<1> QED BY <1>1, ScreenInitially, InOrder, PTL DEF Spec

\* Unless the screen scrolls, a character changes its own line and, past the last
\* column, no more than a cell's width of the row of pixels below it.
THEOREM CharactersStay == Spec => OwnLine
<1> DEFINE Own == \A c \in Chars : PrintChar(c) /\ ~Below(y) =>
                    \A o \in Memory : fb'[o] # fb[o] =>
                      o \in Offset(0, y)..(Offset(0, y + CellHeight) + CellWidth - 1)
<1>1. ASSUME CInv, NEW c \in Chars, PrintChar(c), ~Below(y), NEW o \in Memory, fb'[o] # fb[o]
      PROVE  o \in Offset(0, y)..(Offset(0, y + CellHeight) + CellWidth - 1)
  <2>1. TypeOK /\ foregroundColor \in Inks /\ fb \in [Memory -> Stored]
    BY <1>1 DEF CInv, TypeOK, Stored
  <2>2. PICK k \in 0 .. Columns, l \in 0 .. Rows - 1 :
          y = CellHeight * l /\ fb' = Drawn(fb, c, foregroundColor, CellWidth * k, CellHeight * l)
    BY <1>1, <2>1, Printing
  <2> QED BY <1>1, <2>1, <2>2, Drawing
<1>2. CInv /\ [Next]_vars => [Own]_vars
  BY <1>1
<1> QED BY <1>2, ScreenInvariance, PTL DEF Spec, OwnLine, Own

-------------------------------------------------------------------------------
(* The terminal on the screen *)

InkOf(pixels, r, c) ==
  {p \in CellPixels : pixels[Offset(CellWidth * c + p[1], CellHeight * r + p[2])] \in Inks}

\* What is read off a cell with this ink.
Shown(ink) == IF \E c \in Chars : Shapes[c] = ink THEN CHOOSE c \in Chars : Shapes[c] = ink
              ELSE Blank

(***************************************************************************)
(* There is ink only before the cursor, so that what is printed is alone   *)
(* in its cell and what scrolls in from below is empty.                    *)
(***************************************************************************)
OnlyBefore(pixels, px, py) ==
  \A i \in 0 .. Pitch - 1, j \in 0 .. Height - 1 :
    pixels[Offset(i, j)] \in Inks => j < py \/ (j < py + CellHeight /\ i < px)

QInv ==
  /\ CInv
  /\ OnlyBefore(fb, x, y)
  /\ y = CellHeight * Rows => x = 0

LEMMA Reading ==
  /\ Shown({}) = Blank
  /\ \A c \in Chars : Shown(Shapes[c]) = c
BY ConsoleAssumption DEF Shown

LEMMA SeenIs ==
  Seen = [cell \in T!Cells |-> Shown(InkOf(fb, cell[1], cell[2]))]
<1>1. ASSUME NEW r \in 0 .. Rows - 1, NEW c \in 0 .. Columns - 1
      PROVE  Ink(r, c) = InkOf(fb, r, c)
  <2>1. c * CellWidth = CellWidth * c /\ r * CellHeight = CellHeight * r
    BY Sizes, SMT
  <2> QED BY <2>1 DEF Ink, InkOf
<1>2. Seen = [cell \in T!Cells |-> Shown(Ink(cell[1], cell[2]))]
  BY DEF Seen, Shown, T!Cells
<1>3. ASSUME NEW cell \in T!Cells
      PROVE  cell[1] \in 0 .. Rows - 1 /\ cell[2] \in 0 .. Columns - 1
  BY DEF T!Cells
<1> QED BY <1>1, <1>2, <1>3

\* Each place in memory is one pixel of one row.
LEMMA OnePixel ==
  ASSUME NEW i \in 0 .. Pitch - 1, NEW j \in Int, NEW m \in 0 .. Pitch - 1, NEW n \in Int,
         Offset(i, j) = Offset(m, n)
  PROVE  i = m /\ j = n
<1>1. Pitch \in Nat \ {0}
  BY Sizes
<1>2. Offset(i, j) = Pitch * j + i /\ Offset(m, n) = Pitch * n + m
  BY <1>1, SMT DEF Offset
<1> QED BY <1>1, <1>2, Division

LEMMA InBuffer ==
  ASSUME NEW i \in 0 .. Pitch - 1, NEW j \in 0 .. Height - 1
  PROVE  /\ Offset(i, j) \in Offsets
         /\ j + CellHeight < Height <=> Offset(i, j) < Last
         /\ Offset(i, j) + Pitch * CellHeight = Offset(i, j + CellHeight)
<1>1. Pitch \in Nat \ {0} /\ Height \in Nat \ {0} /\ CellHeight \in Nat
      /\ Size = Pitch * Height /\ Size \in Nat /\ Last = Size - Pitch * CellHeight /\ Last \in Nat
  BY Sizes, Lines DEF Size
<1>2. Offset(i, j) = Pitch * j + i /\ Pitch * j \in Int /\ Pitch * j >= 0
  BY <1>1, SMT DEF Offset
<1>3. Offset(i, j + CellHeight) = Pitch * j + Pitch * CellHeight + i
  BY <1>1, SMT DEF Offset
<1>4. Pitch * j + Pitch <= Size
  <2>1. Pitch * (j + 1) <= Pitch * Height
    BY <1>1, Monotone
  <2>2. Pitch * (j + 1) = Pitch * j + Pitch
    BY <1>1, SMT
  <2> QED BY <1>1, <2>1, <2>2
<1>5. Last = Pitch * (Height - CellHeight)
  BY <1>1, SMT
<1>6. CASE j + CellHeight < Height
  <2>1. Pitch * (j + 1) <= Pitch * (Height - CellHeight)
    BY <1>1, <1>6, Monotone
  <2>2. Pitch * (j + 1) = Pitch * j + Pitch
    BY <1>1, SMT
  <2> QED BY <1>1, <1>2, <1>3, <1>4, <1>5, <1>6, <2>1, <2>2, Lines DEF Offsets
<1>7. CASE ~(j + CellHeight < Height)
  <2>1. Pitch * (Height - CellHeight) <= Pitch * j
    BY <1>1, <1>7, Monotone
  <2> QED BY <1>1, <1>2, <1>3, <1>4, <1>5, <1>7, <2>1, Lines DEF Offsets
<1> QED BY <1>6, <1>7

\* The pixels of a cell, and of the column after the last if there is room for it.
LEMMA InCell ==
  ASSUME NEW k \in 0 .. Columns, Padded \/ k < Columns, NEW l \in 0 .. Rows - 1, NEW p \in CellPixels
  PROVE  /\ CellWidth * k + p[1] \in 0 .. Pitch - 1 /\ CellHeight * l + p[2] \in 0 .. Height - 1
         /\ CellWidth * k <= CellWidth * k + p[1] /\ CellHeight * l <= CellHeight * l + p[2]
         /\ CellWidth * k + p[1] < CellWidth * (k + 1)
         /\ CellHeight * l + p[2] < CellHeight * l + CellHeight
<1>1. /\ CellWidth \in Nat \ {0} /\ CellHeight \in Nat \ {0} /\ Pitch \in Nat /\ Height \in Nat
      /\ Rows \in Nat /\ Columns \in Nat /\ CellHeight * Rows <= Height
      /\ CellWidth * Columns <= Pitch /\ CellWidth * Columns \in Nat
  BY Sizes
<1>2. p[1] \in 0 .. CellWidth - 1 /\ p[2] \in 0 .. CellHeight - 1
  BY DEF CellPixels
<1>3. /\ CellWidth * k + CellWidth <= Pitch /\ CellWidth * k \in Nat
      /\ CellWidth * (k + 1) = CellWidth * k + CellWidth
  <2>1. CellWidth * k \in Nat /\ CellWidth * (k + 1) = CellWidth * k + CellWidth
    BY <1>1, SMT
  <2>2. CASE k < Columns
    <3>1. CellWidth * (k + 1) <= CellWidth * Columns
      BY <1>1, <2>2, Monotone
    <3> QED BY <1>1, <2>1, <3>1
  <2>3. CASE Padded
    <3>1. CellWidth * k <= CellWidth * Columns
      BY <1>1, Monotone
    <3>2. CellWidth * Columns + CellWidth <= Pitch
      BY <2>3 DEF Padded
    <3> QED BY <1>1, <2>1, <3>1, <3>2
  <2> QED BY <2>2, <2>3
<1>4. CellHeight * l + CellHeight <= CellHeight * Rows /\ CellHeight * l \in Nat /\ CellHeight * Rows \in Nat
  <2>1. CellHeight * (l + 1) <= CellHeight * Rows
    BY <1>1, Monotone
  <2>2. CellHeight * l \in Nat /\ CellHeight * (l + 1) = CellHeight * l + CellHeight
        /\ CellHeight * Rows \in Nat
    BY <1>1, SMT
  <2> QED BY <2>1, <2>2
<1> QED BY <1>1, <1>2, <1>3, <1>4

\* What scrolling does to the ink.
LEMMA ScrollsInk ==
  ASSUME TypeOK, NEW paper \in Papers, On(paper), OnlyBefore(fb, 0, CellHeight * Rows)
  PROVE  LET s == Scrolled(fb, fbShadow).fb
         IN  /\ OnlyBefore(s, 0, CellHeight * (Rows - 1))
             /\ \A r \in 0 .. Rows - 1, c \in 0 .. Columns - 1 :
                  InkOf(s, r, c) = IF r + 1 < Rows THEN InkOf(fb, r + 1, c) ELSE {}
<1> DEFINE s == Scrolled(fb, fbShadow).fb
           bottom == CellHeight * Rows
<1>1. /\ CellHeight \in Nat \ {0} /\ Rows \in Nat \ {0} /\ Columns \in Nat /\ Height \in Nat
      /\ bottom \in Nat /\ bottom <= Height /\ CellHeight * (Rows - 1) = bottom - CellHeight
  BY Sizes, SMT
<1>2. \A o \in Offsets : s[o] = (IF o < Last THEN fb[o + Pitch * CellHeight] ELSE paper)
  BY Scrolling
<1> HIDE DEF s, bottom
<1>3. paper \notin Inks
  BY ConsoleAssumption
<1>4. ASSUME NEW i \in 0 .. Pitch - 1, NEW j \in 0 .. Height - 1
      PROVE  s[Offset(i, j)] = IF j + CellHeight < Height THEN fb[Offset(i, j + CellHeight)] ELSE paper
  BY <1>2, InBuffer
<1>5. ASSUME NEW i \in 0 .. Pitch - 1, NEW j \in 0 .. Height - 1, s[Offset(i, j)] \in Inks
      PROVE  j + CellHeight < bottom
  <2>1. j + CellHeight < Height /\ fb[Offset(i, j + CellHeight)] \in Inks
    BY <1>3, <1>4, <1>5
  <2>2. j + CellHeight \in 0 .. Height - 1
    BY <1>1, <2>1
  <2>3. \/ j + CellHeight < bottom
        \/ j + CellHeight < bottom + CellHeight /\ i < 0
    BY <2>1, <2>2 DEF OnlyBefore, bottom
  <2> QED BY <2>3
<1>6. OnlyBefore(s, 0, CellHeight * (Rows - 1))
  <2> SUFFICES ASSUME NEW i \in 0 .. Pitch - 1, NEW j \in 0 .. Height - 1, s[Offset(i, j)] \in Inks
               PROVE  j < CellHeight * (Rows - 1)
    BY DEF OnlyBefore
  <2>1. j + CellHeight < bottom
    BY <1>5
  <2> QED BY <2>1, <1>1
<1>7. ASSUME NEW r \in 0 .. Rows - 1, NEW c \in 0 .. Columns - 1
      PROVE  InkOf(s, r, c) = IF r + 1 < Rows THEN InkOf(fb, r + 1, c) ELSE {}
  <2>1. ASSUME NEW p \in CellPixels
        PROVE  s[Offset(CellWidth * c + p[1], CellHeight * r + p[2])] \in Inks
                 <=> r + 1 < Rows
                     /\ fb[Offset(CellWidth * c + p[1], CellHeight * (r + 1) + p[2])] \in Inks
    <3> DEFINE i == CellWidth * c + p[1]
               j == CellHeight * r + p[2]
    <3>1. i \in 0 .. Pitch - 1 /\ j \in 0 .. Height - 1 /\ CellHeight * r <= j
      <4>1. c \in 0 .. Columns /\ c < Columns
        BY <1>1
      <4> QED BY <4>1, InCell
    <3>2. CellHeight * r \in Nat /\ p[2] \in Nat /\ CellHeight * (r + 1) = CellHeight * r + CellHeight
      BY <1>1, SMT DEF CellPixels
    <3>3. CellHeight * (r + 1) + p[2] = j + CellHeight
      BY <1>1, <3>2
    <3> HIDE DEF i, j
    <3>4. CASE r + 1 < Rows
      <4>1. r + 1 \in 0 .. Rows - 1 /\ c \in 0 .. Columns /\ c < Columns
        BY <1>1, <3>4
      <4>2. CellHeight * (r + 1) + p[2] \in 0 .. Height - 1
        BY <4>1, InCell
      <4>3. j + CellHeight < Height
        BY <1>1, <3>3, <4>2
      <4>4. s[Offset(i, j)] = fb[Offset(i, j + CellHeight)]
        BY <1>4, <3>1, <4>3
      <4> QED BY <3>3, <3>4, <4>4 DEF i, j
    <3>5. CASE ~(r + 1 < Rows)
      <4>1. r + 1 = Rows
        BY <1>1, <3>5
      <4>2. bottom <= j + CellHeight
        BY <1>1, <3>1, <3>2, <4>1 DEF bottom
      <4>3. s[Offset(i, j)] \notin Inks
        BY <1>1, <1>5, <3>1, <4>2
      <4> QED BY <3>5, <4>3 DEF i, j
    <3> QED BY <3>4, <3>5
  <2> QED BY <2>1 DEF InkOf
<1> QED BY <1>6, <1>7 DEF s

\* What printing does to the ink: nothing is there yet where it draws.
LEMMA DrawsInk ==
  ASSUME NEW char \in Chars, NEW ink \in Inks, NEW k \in 0 .. Columns, NEW l \in 0 .. Rows - 1,
         Padded \/ k < Columns,
         NEW g \in [Memory -> Stored], OnlyBefore(g, CellWidth * k, CellHeight * l)
  PROVE  LET d == Drawn(g, char, ink, CellWidth * k, CellHeight * l)
         IN  /\ OnlyBefore(d, CellWidth * (k + 1), CellHeight * l)
             /\ k = Columns => OnlyBefore(d, 0, CellHeight * (l + 1))
             /\ \A r \in 0 .. Rows - 1, c \in 0 .. Columns - 1 :
                  InkOf(d, r, c) = IF <<r, c>> = <<l, k>> THEN Shapes[char] ELSE InkOf(g, r, c)
<1> DEFINE X == CellWidth * k
           Y == CellHeight * l
           d == Drawn(g, char, ink, X, Y)
           set == {Offset(X + p[1], Y + p[2]) : p \in Shapes[char]}
<1>1. /\ CellWidth \in Nat \ {0} /\ CellHeight \in Nat \ {0} /\ Rows \in Nat /\ Columns \in Nat
      /\ Height \in Nat /\ Pitch \in Nat /\ X \in Nat /\ Y \in Nat
      /\ CellWidth * (k + 1) = X + CellWidth /\ CellHeight * (l + 1) = Y + CellHeight
  BY Sizes, SMT
<1>2. Shapes[char] \subseteq CellPixels /\ Glyphs[char] = Shapes[char]
  BY Font, ConsoleAssumption
<1>3. \A o \in Memory : d[o] = (IF o \in set THEN ink ELSE g[o])
  BY <1>2 DEF Drawn
<1>4. ASSUME NEW p \in CellPixels
      PROVE  /\ X + p[1] \in 0 .. Pitch - 1 /\ Y + p[2] \in 0 .. Height - 1
             /\ X + p[1] < X + CellWidth /\ Y + p[2] < Y + CellHeight
  BY <1>1, InCell
<1>5. ASSUME NEW i \in 0 .. Pitch - 1, NEW j \in 0 .. Height - 1
      PROVE  Offset(i, j) \in set <=> \E p \in Shapes[char] : i = X + p[1] /\ j = Y + p[2]
  <2>1. ASSUME NEW p \in CellPixels, Offset(i, j) = Offset(X + p[1], Y + p[2])
        PROVE  i = X + p[1] /\ j = Y + p[2]
    <3>1. X + p[1] \in 0 .. Pitch - 1 /\ Y + p[2] \in Int /\ j \in Int
      BY <1>4
    <3> HIDE DEF X, Y
    <3> QED BY <2>1, <3>1, OnePixel
  <2> QED BY <1>2, <2>1
<1>6. ASSUME NEW i \in 0 .. Pitch - 1, NEW j \in 0 .. Height - 1
      PROVE  /\ Offset(i, j) \in Memory
             /\ g[Offset(i, j)] \in Inks => j < Y \/ (j < Y + CellHeight /\ i < X)
  BY InBuffer, Lines DEF OnlyBefore
<1>7. ASSUME NEW i \in 0 .. Pitch - 1, NEW j \in 0 .. Height - 1, d[Offset(i, j)] \in Inks
      PROVE  j < Y \/ (j < Y + CellHeight /\ i < X + CellWidth)
  <2>1. CASE Offset(i, j) \in set
    <3>1. PICK p \in Shapes[char] : i = X + p[1] /\ j = Y + p[2]
      BY <1>5, <2>1
    <3> QED BY <1>2, <1>4, <3>1
  <2>2. CASE Offset(i, j) \notin set
    <3>1. j < Y \/ (j < Y + CellHeight /\ i < X)
      BY <1>3, <1>6, <1>7, <2>2
    <3> QED BY <1>1, <3>1
  <2> QED BY <2>1, <2>2
<1> HIDE DEF set, d
<1>8. OnlyBefore(d, CellWidth * (k + 1), Y)
  BY <1>1, <1>7 DEF OnlyBefore
<1>9. OnlyBefore(d, 0, CellHeight * (l + 1))
  BY <1>1, <1>7 DEF OnlyBefore
<1>10. ASSUME NEW r \in 0 .. Rows - 1, NEW c \in 0 .. Columns - 1
       PROVE  InkOf(d, r, c) = IF <<r, c>> = <<l, k>> THEN Shapes[char] ELSE InkOf(g, r, c)
  <2>1. ASSUME NEW p \in CellPixels
        PROVE  d[Offset(CellWidth * c + p[1], CellHeight * r + p[2])] \in Inks
                 <=> IF r = l /\ c = k THEN p \in Shapes[char]
                     ELSE g[Offset(CellWidth * c + p[1], CellHeight * r + p[2])] \in Inks
    <3> DEFINE i == CellWidth * c + p[1]
               j == CellHeight * r + p[2]
    <3>1. i \in 0 .. Pitch - 1 /\ j \in 0 .. Height - 1
      <4>1. c \in 0 .. Columns /\ c < Columns
        BY <1>1
      <4> QED BY <4>1, InCell
    <3>2. ASSUME NEW q \in CellPixels, i = X + q[1], j = Y + q[2]
          PROVE  c = k /\ r = l /\ p = q
      <4>1. /\ p[1] \in 0 .. CellWidth - 1 /\ p[2] \in 0 .. CellHeight - 1 /\ p = <<p[1], p[2]>>
            /\ q[1] \in 0 .. CellWidth - 1 /\ q[2] \in 0 .. CellHeight - 1 /\ q = <<q[1], q[2]>>
        BY DEF CellPixels
      <4>2. CellWidth * c + p[1] = CellWidth * k + q[1] /\ CellHeight * r + p[2] = CellHeight * l + q[2]
        BY <3>2
      <4>3. c = k /\ p[1] = q[1]
        BY <1>1, <4>1, <4>2, Division
      <4>4. r = l /\ p[2] = q[2]
        BY <1>1, <4>1, <4>2, Division
      <4> QED BY <4>1, <4>3, <4>4
    <3>3. Offset(i, j) \in set <=> r = l /\ c = k /\ p \in Shapes[char]
      <4>1. Offset(i, j) \in set <=> \E q \in Shapes[char] : i = X + q[1] /\ j = Y + q[2]
        BY <1>5, <3>1
      <4>2. r = l /\ c = k => i = X + p[1] /\ j = Y + p[2]
        OBVIOUS
      <4> HIDE DEF i, j
      <4> QED BY <1>2, <3>2, <4>1, <4>2
    <3>4. r = l /\ c = k => g[Offset(i, j)] \notin Inks
      <4> SUFFICES ASSUME r = l, c = k PROVE ~(j < Y) /\ ~(i < X)
        BY <1>6, <3>1
      <4> QED BY <1>1 DEF CellPixels
    <3>5. Offset(i, j) \in Memory
      BY <1>6, <3>1
    <3> HIDE DEF i, j
    <3>6. d[Offset(i, j)] \in Inks
            <=> IF r = l /\ c = k THEN p \in Shapes[char] ELSE g[Offset(i, j)] \in Inks
      BY <1>3, <3>3, <3>4, <3>5
    <3> QED BY <3>6 DEF i, j
  <2>2. CASE r = l /\ c = k
    BY <1>2, <2>1, <2>2 DEF InkOf
  <2>3. CASE ~(r = l /\ c = k)
    BY <2>1, <2>3 DEF InkOf
  <2> QED BY <2>2, <2>3
<1> QED BY <1>8, <1>9, <1>10 DEF d

\* The cell of the terminal that the cursor is on.
LEMMA CursorsCell ==
  ASSUME NEW k \in 0 .. Columns, NEW l \in 0 .. Rows
  PROVE  (CellWidth * k) \div CellWidth = k /\ (CellHeight * l) \div CellHeight = l
         /\ (k + 1 \in 0 .. Columns => (CellWidth * (k + 1)) \div CellWidth = k + 1)
         /\ (l + 1 \in 0 .. Rows => (CellHeight * (l + 1)) \div CellHeight = l + 1)
         /\ (l - 1 \in 0 .. Rows => (CellHeight * (l - 1)) \div CellHeight = l - 1)
         /\ 0 \div CellWidth = 0 /\ 0 \div CellHeight = 0
         /\ (CellWidth * k = 0 => k = 0)
<1>1. \A i \in 0 .. Columns : (CellWidth * i) \div CellWidth = i
  <2>1. 0 \in 0 .. Rows
    BY Sizes
  <2> QED BY <2>1, Cursor
<1>2. \A i \in 0 .. Rows : (CellHeight * i) \div CellHeight = i
  <2>1. 0 \in 0 .. Columns
    BY Sizes
  <2> QED BY <2>1, Cursor
<1>3. CellWidth * 0 = 0 /\ CellHeight * 0 = 0 /\ 0 \in 0 .. Columns /\ 0 \in 0 .. Rows
  BY Sizes
<1>4. 0 \div CellWidth = 0 /\ 0 \div CellHeight = 0
  BY <1>1, <1>2, <1>3
<1>5. CellWidth * k = 0 => k = 0
  BY <1>1, <1>4
<1> QED BY <1>1, <1>2, <1>4, <1>5

LEMMA SeenNext == Seen' = [cell \in T!Cells |-> Shown(InkOf(fb', cell[1], cell[2]))]
<1> DEFINE Reads == Seen = [cell \in T!Cells |-> Shown(InkOf(fb, cell[1], cell[2]))]
<1>1. Reads
  BY SeenIs
<1> HIDE DEF Reads
<1>2. Reads'
  BY <1>1, PTL
<1> QED BY <1>2 DEF Reads, InkOf

LEMMA CellsAre ==
  ASSUME NEW cell \in T!Cells
  PROVE  cell[1] \in 0 .. Rows - 1 /\ cell[2] \in 0 .. Columns - 1 /\ cell = <<cell[1], cell[2]>>
BY DEF T!Cells

\* Without ink everything is empty.
LEMMA NoInk ==
  ASSUME NEW pixels, \A o \in Offsets : pixels[o] \notin Inks
  PROVE  /\ OnlyBefore(pixels, 0, 0)
         /\ [cell \in T!Cells |-> Shown(InkOf(pixels, cell[1], cell[2]))] = T!Empty
<1>1. OnlyBefore(pixels, 0, 0)
  BY InBuffer DEF OnlyBefore
<1>2. ASSUME NEW r \in 0 .. Rows - 1, NEW c \in 0 .. Columns - 1
      PROVE  InkOf(pixels, r, c) = {}
  <2>1. c \in 0 .. Columns /\ c < Columns
    BY Sizes
  <2>2. ASSUME NEW p \in CellPixels
        PROVE  Offset(CellWidth * c + p[1], CellHeight * r + p[2]) \in Offsets
    BY <2>1, InCell, InBuffer
  <2> QED BY <2>2 DEF InkOf
<1>3. ASSUME NEW cell \in T!Cells
      PROVE  Shown(InkOf(pixels, cell[1], cell[2])) = Blank
  BY <1>2, CellsAre, Reading
<1> QED BY <1>1, <1>3 DEF T!Empty

\* Scrolling moves the lines of the terminal up.
LEMMA MovesUp ==
  ASSUME TypeOK, NEW paper \in Papers, On(paper), OnlyBefore(fb, 0, CellHeight * Rows)
  PROVE  [cell \in T!Cells |-> Shown(InkOf(Scrolled(fb, fbShadow).fb, cell[1], cell[2]))] = T!Up(Seen)
<1> DEFINE s == Scrolled(fb, fbShadow).fb
<1>1. \A r \in 0 .. Rows - 1, c \in 0 .. Columns - 1 :
        InkOf(s, r, c) = IF r + 1 < Rows THEN InkOf(fb, r + 1, c) ELSE {}
  BY ScrollsInk
<1> HIDE DEF s
<1>2. ASSUME NEW cell \in T!Cells
      PROVE  Shown(InkOf(s, cell[1], cell[2]))
               = IF cell[1] + 1 < Rows THEN Seen[<<cell[1] + 1, cell[2]>>] ELSE Blank
  <2>1. cell[1] \in 0 .. Rows - 1 /\ cell[2] \in 0 .. Columns - 1
    BY CellsAre
  <2>2. CASE cell[1] + 1 < Rows
    <3>1. cell[1] + 1 \in 0 .. Rows - 1
      BY <2>1, <2>2, Sizes
    <3>2. <<cell[1] + 1, cell[2]>> \in T!Cells
      BY <2>1, <3>1 DEF T!Cells
    <3>3. Seen[<<cell[1] + 1, cell[2]>>] = Shown(InkOf(fb, cell[1] + 1, cell[2]))
      BY <3>2, SeenIs
    <3> QED BY <1>1, <2>1, <2>2, <3>3
  <2>3. CASE ~(cell[1] + 1 < Rows)
    BY <1>1, <2>1, <2>3, Reading
  <2> QED BY <2>2, <2>3
<1> QED BY <1>2 DEF T!Up, s

LEMMA TerminalInitially == Init => QInv /\ T!Init
<1> SUFFICES ASSUME Init PROVE QInv /\ T!Init
  OBVIOUS
<1>1. CInv
  BY ScreenInitially
<1>2. \A o \in Offsets : fb[o] \notin Inks
  BY Lines, ConsoleAssumption DEF Init, Offsets
<1>3. OnlyBefore(fb, 0, 0) /\ Seen = T!Empty
  BY <1>2, NoInk, SeenIs
<1>4. 0 \div CellWidth = 0 /\ 0 \div CellHeight = 0
  <2>1. 0 \in 0 .. Columns /\ 0 \in 0 .. Rows
    BY Sizes
  <2> QED BY <2>1, CursorsCell
<1> QED BY <1>1, <1>3, <1>4 DEF QInv, T!Init, Init

LEMMA PrintPuts ==
  ASSUME QInv, NEW c \in Chars, PrintChar(c), Padded \/ x < CellWidth * Columns
  PROVE  QInv' /\ T!Put(c)
<1>1. TypeOK /\ CInv' /\ foregroundColor \in Inks /\ fb \in [Memory -> Stored]
  BY PrintKeeps DEF QInv, CInv, TypeOK, Stored
<1>2. PICK paper \in Papers : On(paper)
  BY DEF QInv, CInv
<1>3. PICK k \in 0 .. Columns, l \in 0 .. Rows - 1 :
        /\ x = CellWidth * k
        /\ \/ y = CellHeight * l
              /\ fb' = Drawn(fb, c, foregroundColor, CellWidth * k, CellHeight * l)
           \/ y = CellHeight * Rows /\ l = Rows - 1
              /\ fb' = Drawn(Scrolled(fb, fbShadow).fb, c, foregroundColor,
                             CellWidth * k, CellHeight * l)
        /\ \/ k # Columns /\ x' = CellWidth * (k + 1) /\ y' = CellHeight * l
           \/ k = Columns /\ x' = 0 /\ y' = CellHeight * (l + 1)
  BY <1>1, Printing
<1>4. Rows \in Nat \ {0} /\ Columns \in Nat \ {0} /\ l \in 0 .. Rows /\ l + 1 \in 0 .. Rows /\ Rows \in 0 .. Rows
      /\ (k # Columns => k + 1 \in 0 .. Columns)
  BY Sizes
<1>13. Padded \/ k < Columns
  <2>1. CASE x < CellWidth * Columns
    <3>1. CellWidth * k < CellWidth * Columns
      BY <1>3, <2>1
    <3>2. k # Columns
      BY <3>1, Sizes
    <3> QED BY <1>4, <3>2
  <2> QED BY <2>1
<1> DEFINE row == y \div CellHeight
           col == x \div CellWidth
           Moved(g) == g = IF row = Rows THEN T!Up(Seen) ELSE Seen
           GridOf(pixels) == [cell \in T!Cells |-> Shown(InkOf(pixels, cell[1], cell[2]))]
<1>5. /\ col = k
      /\ l = IF row = Rows THEN Rows - 1 ELSE row
      /\ \/ col < Columns /\ x' \div CellWidth = col + 1 /\ y' \div CellHeight = l
         \/ col = Columns /\ x' \div CellWidth = 0 /\ y' \div CellHeight = l + 1
  <2>1. (CellWidth * k) \div CellWidth = k /\ (CellHeight * l) \div CellHeight = l
        /\ (k # Columns => (CellWidth * (k + 1)) \div CellWidth = k + 1)
        /\ (CellHeight * (l + 1)) \div CellHeight = l + 1 /\ 0 \div CellWidth = 0
    BY <1>4, CursorsCell
  <2>2. (CellHeight * Rows) \div CellHeight = Rows
    BY <1>4, CursorsCell
  <2> QED BY <1>3, <1>4, <2>1, <2>2
<1>6. PICK g \in [Memory -> Stored] :
        /\ fb' = Drawn(g, c, foregroundColor, CellWidth * k, CellHeight * l)
        /\ OnlyBefore(g, CellWidth * k, CellHeight * l)
        /\ Moved(GridOf(g))
  <2>1. CASE y = CellHeight * l
             /\ fb' = Drawn(fb, c, foregroundColor, CellWidth * k, CellHeight * l)
    <3>1. row = l /\ l # Rows
      BY <1>4, <2>1, CursorsCell
    <3>2. Moved(GridOf(fb))
      BY <3>1, SeenIs
    <3>3. OnlyBefore(fb, CellWidth * k, CellHeight * l)
      BY <1>3, <2>1 DEF QInv
    <3> QED BY <1>1, <2>1, <3>2, <3>3
  <2>2. CASE y = CellHeight * Rows /\ l = Rows - 1
             /\ fb' = Drawn(Scrolled(fb, fbShadow).fb, c, foregroundColor,
                            CellWidth * k, CellHeight * l)
    <3>1. row = Rows
      BY <1>4, <2>2, CursorsCell
    <3>2. x = 0 /\ CellWidth * k = 0 /\ OnlyBefore(fb, 0, CellHeight * Rows)
      BY <1>3, <2>2 DEF QInv
    <3>3. OnlyBefore(Scrolled(fb, fbShadow).fb, CellWidth * k, CellHeight * l)
      BY <1>1, <1>2, <2>2, <3>2, ScrollsInk
    <3>4. Moved(GridOf(Scrolled(fb, fbShadow).fb))
      BY <1>1, <1>2, <3>1, <3>2, MovesUp
    <3>5. Scrolled(fb, fbShadow).fb \in [Memory -> Stored]
      BY <1>1, <1>2, Scrolling
    <3> QED BY <2>2, <3>3, <3>4, <3>5
  <2> QED BY <1>3, <2>1, <2>2
<1>7. /\ OnlyBefore(fb', CellWidth * (k + 1), CellHeight * l)
      /\ k = Columns => OnlyBefore(fb', 0, CellHeight * (l + 1))
      /\ \A r \in 0 .. Rows - 1, i \in 0 .. Columns - 1 :
           InkOf(fb', r, i) = IF <<r, i>> = <<l, k>> THEN Shapes[c] ELSE InkOf(g, r, i)
  BY <1>1, <1>6, <1>13, DrawsInk
<1>8. OnlyBefore(fb', x', y')
  BY <1>3, <1>7
<1>9. y' = CellHeight * Rows => x' = 0
  BY <1>3, <1>4, CursorsCell
<1>10. GridOf(fb') = [cell \in T!Cells |-> IF cell = <<l, k>> THEN c ELSE GridOf(g)[cell]]
  <2>1. ASSUME NEW cell \in T!Cells
        PROVE  Shown(InkOf(fb', cell[1], cell[2]))
                 = IF cell = <<l, k>> THEN c ELSE Shown(InkOf(g, cell[1], cell[2]))
    BY <1>7, CellsAre, Reading
  <2> QED BY <2>1
<1>11. QInv'
  BY <1>1, <1>8, <1>9 DEF QInv, OnlyBefore
<1>12. T!Put(c)
  <2>1. Seen' = [cell \in T!Cells |-> IF cell = <<l, k>> THEN c
                   ELSE (IF row = Rows THEN T!Up(Seen) ELSE Seen)[cell]]
    BY <1>6, <1>10, SeenNext
  <2> HIDE DEF GridOf
  <2> QED BY <1>5, <2>1 DEF T!Put
<1> QED BY <1>11, <1>12

LEMMA BreakStarts ==
  ASSUME QInv, Newline
  PROVE  QInv' /\ T!NewLine
<1>1. TypeOK /\ CInv'
  BY BreakKeeps DEF QInv, CInv
<1>2. PICK paper \in Papers : On(paper)
  BY DEF QInv, CInv
<1>3. PICK l \in 0 .. Rows :
        /\ x' = 0 /\ y = CellHeight * l
        /\ \/ l # Rows /\ y' = CellHeight * (l + 1) /\ l + 1 \in 0 .. Rows /\ fb' = fb
           \/ l = Rows /\ y' = CellHeight * (Rows - 1) /\ Rows - 1 \in 0 .. Rows
              /\ fb' = Scrolled(fb, fbShadow).fb
  BY <1>1, Breaking
<1>4. 0 \in 0 .. Columns /\ Rows \in Nat /\ y \div CellHeight = l /\ x' \div CellWidth = 0
  BY <1>3, Sizes, CursorsCell
<1>5. CASE l # Rows /\ y' = CellHeight * (l + 1) /\ l + 1 \in 0 .. Rows /\ fb' = fb
  <2>1. OnlyBefore(fb', 0, y')
    <3>1. CellHeight * (l + 1) = CellHeight * l + CellHeight /\ CellHeight * l \in Int /\ CellHeight \in Nat
      BY Sizes, SMT
    <3> QED BY <1>3, <1>5, <3>1 DEF QInv, OnlyBefore
  <2>2. Seen' = Seen
    BY <1>5, SeenIs, SeenNext
  <2>3. y' \div CellHeight = l + 1
    BY <1>4, <1>5, CursorsCell
  <2> QED BY <1>1, <1>3, <1>4, <1>5, <2>1, <2>2, <2>3 DEF QInv, OnlyBefore, T!NewLine
<1>6. CASE l = Rows /\ y' = CellHeight * (Rows - 1) /\ Rows - 1 \in 0 .. Rows
           /\ fb' = Scrolled(fb, fbShadow).fb
  <2>1. x = 0 /\ OnlyBefore(fb, 0, CellHeight * Rows)
    BY <1>3, <1>6 DEF QInv
  <2>2. OnlyBefore(fb', 0, y')
    BY <1>1, <1>2, <1>6, <2>1, ScrollsInk
  <2>3. Seen' = T!Up(Seen)
    BY <1>1, <1>2, <1>6, <2>1, MovesUp, SeenNext
  <2>4. y' \div CellHeight = Rows - 1
    BY <1>4, <1>6, CursorsCell
  <2> QED BY <1>1, <1>3, <1>4, <1>6, <2>2, <2>3, <2>4 DEF QInv, OnlyBefore, T!NewLine
<1> QED BY <1>3, <1>5, <1>6

LEMMA ClearEmpties ==
  ASSUME QInv, Clear
  PROVE  QInv' /\ T!Clear
<1>1. CInv' /\ backgroundColor \in Papers
  BY ClearKeeps DEF QInv, CInv, TypeOK
<1>2. \A o \in Offsets : fb'[o] \notin Inks
  <2>1. \A o \in Offsets : fb'[o] = backgroundColor
    BY Lines DEF Clear, Filled, Offsets
  <2> QED BY <1>1, <2>1, ConsoleAssumption
<1>3. OnlyBefore(fb', 0, 0) /\ Seen' = T!Empty
  BY <1>2, NoInk, SeenNext
<1>4. 0 \div CellWidth = 0 /\ 0 \div CellHeight = 0
  <2>1. 0 \in 0 .. Columns /\ 0 \in 0 .. Rows
    BY Sizes
  <2> QED BY <2>1, CursorsCell
<1> QED BY <1>1, <1>3, <1>4 DEF QInv, OnlyBefore, Clear, T!Clear

LEMMA StepOfTerminal ==
  QInv /\ [Next]_vars /\ [\A c \in Chars : PrintChar(c) => Padded \/ x < CellWidth * Columns]_vars
    => QInv' /\ [T!Next]_(T!vars)
<1> SUFFICES ASSUME QInv, [Next]_vars,
                    \/ \A c \in Chars : PrintChar(c) => Padded \/ x < CellWidth * Columns
                    \/ UNCHANGED vars
             PROVE  QInv' /\ [T!Next]_(T!vars)
  OBVIOUS
<1>1. ASSUME NEW c \in Chars, PrintChar(c), ~UNCHANGED vars PROVE QInv' /\ T!Next
  <2>1. Padded \/ x < CellWidth * Columns
    BY <1>1
  <2> QED BY <1>1, <2>1, PrintPuts DEF T!Next
<1>2. CASE Newline
  BY <1>2, BreakStarts DEF T!Next
<1>3. CASE Clear
  BY <1>3, ClearEmpties DEF T!Next
<1>4. ASSUME UNCHANGED <<fb, x, y>> PROVE QInv' /\ UNCHANGED T!vars
  <2>1. CInv'
    BY ScreenKeeps DEF QInv
  <2>2. Seen' = Seen
    BY <1>4, SeenIs, SeenNext
  <2> QED BY <1>4, <2>1, <2>2 DEF QInv, OnlyBefore, T!vars
<1>5. ASSUME NEW colour \in Papers, SetBGColor(colour) PROVE UNCHANGED <<fb, x, y>>
  BY <1>5 DEF SetBGColor
<1>6. ASSUME NEW colour \in Inks, SetFGColor(colour) PROVE UNCHANGED <<fb, x, y>>
  BY <1>6 DEF SetFGColor
<1>7. CASE UNCHANGED vars
  BY <1>4, <1>7 DEF vars
<1> QED BY <1>1, <1>2, <1>3, <1>4, <1>5, <1>6, <1>7 DEF Next

\* The screen shows the characters of a terminal: a character is alone in its
\* cell, lines move up whole, and what comes in from below is empty.  Where a row
\* of pixels has no room for the column past the last, as on most screens, that
\* holds of lines no longer than the screen.
THEOREM ScreenShowsTerminal == Spec /\ WithinScreen => ImplementsTerminal
<1>1. Init => QInv /\ T!Init
  BY TerminalInitially
<1>2. /\ QInv /\ [Next]_vars
      /\ [\A c \in Chars : PrintChar(c) => Padded \/ x < CellWidth * Columns]_vars
      => QInv' /\ [T!Next]_(T!vars)
  BY StepOfTerminal
<1> QED BY <1>1, <1>2, PTL DEF Spec, WithinScreen, ImplementsTerminal, T!Spec
===============================================================================
