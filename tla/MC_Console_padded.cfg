\* MC_Console_padded: rows of pixels with room for one more character
SPECIFICATION Spec
CONSTANTS
    Width = 5
    Height = 7
    Pitch = 6
    CellWidth = 2
    CellHeight = 2
    BMPImageWidth = 3
    Shapes <- MC_Letters
    Inks = {3}
    Papers = {0, 1}
    Outside = 9
    Blank = 2
INVARIANT ScreenInv
PROPERTY ImplementsTerminal
