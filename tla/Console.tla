------------------------------ MODULE Console ------------------------------
(***************************************************************************)
(* kernel/dev/console.cpp over kernel/dev/framebuffer.cpp and              *)
(* kernel/lib/font.cpp, pixel by pixel: characters are copied from a       *)
(* bitmap font to a linear framebuffer, and scrolling goes through a       *)
(* second buffer of the same size on the heap.                             *)
(*                                                                         *)
(* The console is modelled from _start's first clear() on.  Lengths are in *)
(* pixels, four bytes each.  A newline is no character of the model: it is *)
(* an action of its own.                                                   *)
(***************************************************************************)
EXTENDS Integers, FiniteSets

CONSTANTS
    Width, Height, Pitch,   \* of the framebuffer_t
    CellWidth, CellHeight,  \* of a character: 16 and 32
    BMPImageWidth,          \* of the font's image
    Shapes,                 \* the pixels <<x, y>> of each character, by number,
                            \* y downwards
    Inks, Papers,           \* the colours printed with and cleared to
    Outside,                \* memory past the framebuffer
    Blank                   \* an empty cell: the character without pixels, if
                            \* there is one

Chars == DOMAIN Shapes
Rows    == Height \div CellHeight
Columns == Width \div CellWidth
Size    == Pitch * Height
Memory  == 0..(Size + CellWidth - 1)    \* the framebuffer and what lies behind

CellPixels == (0..(CellWidth - 1)) \X (0..(CellHeight - 1))

ASSUME ConsoleAssumption ==
    /\ {Width, Height, Pitch} \subseteq Nat /\ Width <= Pitch
    /\ CellWidth \in 1..Width /\ CellHeight \in 1..Height
    /\ BMPImageWidth \in Nat \ 0..(CellWidth - 1)
    /\ Inks \cap Papers = {} /\ Outside \notin Inks \cup Papers /\ 0 \in Papers
    /\ Chars \subseteq Nat /\ \E c \in Chars : \A d \in Chars : d <= c
    /\ \A c \in Chars : Shapes[c] \subseteq CellPixels /\ (Shapes[c] = {} <=> c = Blank)
    /\ \A c, d \in Chars : Shapes[c] = Shapes[d] => c = d

VARIABLES
    fb, fbShadow,       \* the pixels of the two framebuffers
    backgroundColor, foregroundColor,
    x, y                \* where the next character goes

vars == <<fb, fbShadow, backgroundColor, foregroundColor, x, y>>
colours == <<backgroundColor, foregroundColor>>

-----------------------------------------------------------------------------
(* The font: an image in a BMP file, whose rows go upwards *)

CellsPerXAxis  == BMPImageWidth \div CellWidth
BMPImageHeight ==
    CellHeight * (1 + (CHOOSE c \in Chars : \A d \in Chars : d <= c) \div CellsPerXAxis)

\* a pixel of the file is set
InFile(px, fileRow) ==
    LET imageRow == BMPImageHeight - 1 - fileRow
        char     == CellsPerXAxis * (imageRow \div CellHeight) + px \div CellWidth
    IN char \in Chars /\ <<px % CellWidth, imageRow % CellHeight>> \in Shapes[char]

X0(c) == (c % CellsPerXAxis) * CellWidth
Y0(c) == (c \div CellsPerXAxis) * CellHeight

UpsideDown == [c \in Chars |-> {p \in CellPixels : InFile(X0(c) + p[1], Y0(c) + p[2])}]

\* the pixels that print_char finds set
Glyphs ==
    [c \in Chars |-> {p \in CellPixels :
        InFile(X0(c) + p[1], BMPImageHeight - 1 - (Y0(c) + p[2]))}]

-----------------------------------------------------------------------------
(* The framebuffer *)

Offset(px, py) == py * Pitch + px

Drawn(pixels, c, colour, px, py) ==
    LET set == {Offset(px + g[1], py + g[2]) : g \in Glyphs[c]}
    IN [o \in Memory |-> IF o \in set THEN colour ELSE pixels[o]]

\* pixels behind the buffer's size are not the fill's
Filled(pixels, colour) == [o \in Memory |-> IF o < Size THEN colour ELSE pixels[o]]

\* copy of all that lies from offset on to the beginning of the destination
Copied(source, destination, offset) ==
    [o \in DOMAIN destination |-> IF o < Size - offset THEN source[o + offset] ELSE destination[o]]

\* a second buffer of the same size, all 0
Clone == [o \in 0..(Size - 1) |-> 0]

-----------------------------------------------------------------------------
(* The console *)

Init ==
    /\ fb = [o \in Memory |-> IF o < Size THEN 0 ELSE Outside]
    /\ fbShadow = Clone
    /\ backgroundColor = 0 /\ foregroundColor \in Inks
    /\ x = 0 /\ y = 0

Below(py) == (py + CellHeight) \div CellHeight > Height \div CellHeight

\* up by one line, by way of the shadow
Scrolled(pixels, shadow) ==
    LET up == Copied(pixels, shadow, Pitch * CellHeight)
    IN [fb |-> Copied(up, Filled(pixels, backgroundColor), 0), shadow |-> up]

Newline ==
    /\ x' = 0
    /\ IF Below(y)
       THEN LET s == Scrolled(fb, fbShadow)
            IN fb' = s.fb /\ fbShadow' = s.shadow /\ y' = y - CellHeight
       ELSE y' = y + CellHeight /\ UNCHANGED <<fb, fbShadow>>
    /\ UNCHANGED colours

WrapsLate(px) == px \div CellWidth > Width \div CellWidth + 1
Wraps(px) == px \div CellWidth > Width \div CellWidth

\* print_char of anything but '\n'; the newline at its end never scrolls, for
\* y is a line of the screen then
PrintChar(c) ==
    LET s    == IF Below(y) THEN Scrolled(fb, fbShadow) ELSE [fb |-> fb, shadow |-> fbShadow]
        line == IF Below(y) THEN y - CellHeight ELSE y
        next == x + CellWidth
    IN /\ fb' = Drawn(s.fb, c, foregroundColor, x, line)
       /\ fbShadow' = s.shadow
       /\ x' = IF Wraps(next) THEN 0 ELSE next
       /\ y' = IF Wraps(next) THEN line + CellHeight ELSE line
       /\ UNCHANGED colours

ClearScreen ==
    /\ x' = 0 /\ y' = 0
    /\ fb' = Filled(fb, backgroundColor)
    /\ UNCHANGED <<fbShadow, colours>>

Clear ==
    /\ x' = 0 /\ y' = 0
    /\ fb' = Filled(fb, backgroundColor)
    /\ fbShadow' = [o \in DOMAIN fbShadow |-> backgroundColor]
    /\ UNCHANGED colours

SetBGColor(colour) ==
    /\ backgroundColor' = colour
    /\ UNCHANGED <<fb, fbShadow, foregroundColor, x, y>>

SetFGColor(colour) ==
    /\ foregroundColor' = colour
    /\ UNCHANGED <<fb, fbShadow, backgroundColor, x, y>>

Next ==
    \/ \E c \in Chars : PrintChar(c)
    \/ Newline \/ Clear
    \/ \E colour \in Papers : SetBGColor(colour)
    \/ \E colour \in Inks : SetFGColor(colour)

Spec == Init /\ [][Next]_vars

-----------------------------------------------------------------------------
(* Properties *)

TypeOK ==
    /\ fb \in [Memory -> Inks \cup Papers \cup {Outside}]
    /\ fbShadow \in [0..(Size - 1) -> Inks \cup Papers]
    /\ backgroundColor \in Papers /\ foregroundColor \in Inks
    /\ x \in {CellWidth * c : c \in 0..Columns}
    /\ y \in {CellHeight * r : r \in 0..Rows}

\* What can be read off the screen.
Ink(r, c) ==
    {p \in CellPixels :
        fb[Offset(c * CellWidth + p[1], r * CellHeight + p[2])] \in Inks}
Seen ==
    [cell \in (0..(Rows - 1)) \X (0..(Columns - 1)) |->
        LET ink == Ink(cell[1], cell[2])
        IN IF \E c \in Chars : Shapes[c] = ink THEN CHOOSE c \in Chars : Shapes[c] = ink
           ELSE Blank]

\* The pixels on the screen are those of a terminal's characters, through any
\* wrapping, scrolling, clearing and change of colours.
T == INSTANCE Terminal WITH grid <- Seen, row <- y \div CellHeight, col <- x \div CellWidth
ImplementsTerminal == T!Spec

\* Whatever is not ink has one colour over the whole framebuffer, that of the
\* last clear(): scrolling neither mixes a later background in (the fill in
\* scroll() is copied over) nor leaves lines from before the clear().
OnePaper ==
    \A o, p \in 0..(Size - 1) : {fb[o], fb[p]} \subseteq Papers => fb[o] = fb[p]

\* Printing never stores past the framebuffer.
StaysInside == \A o \in Memory : o >= Size => fb[o] = Outside

\* A character changes pixels of its own line and, past the last column, of
\* the pixel row below it, unless the screen scrolls: no other line.
OwnLine ==
    [][\A c \in Chars : PrintChar(c) /\ ~Below(y) =>
         \A o \in Memory : fb'[o] # fb[o] =>
            o \in Offset(0, y)..(Offset(0, y + CellHeight) + CellWidth - 1)]_vars

\* The screen is in order after every call: the cursor on a cell or just past one,
\* one background colour, and nothing stored past the framebuffer.
ScreenInv == TypeOK /\ OnePaper /\ StaysInside
=============================================================================
