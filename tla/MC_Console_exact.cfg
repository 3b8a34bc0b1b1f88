\* MC_Console_exact: rows of pixels without padding
SPECIFICATION Spec
CONSTANTS
    Width = 4
    Height = 4
    Pitch = 4
    CellWidth = 2
    CellHeight = 2
    BMPImageWidth = 3
    Shapes <- MC_LettersAndSpace
    Inks = {3}
    Papers = {0, 1}
    Outside = 9
    Blank = 2
PROPERTY OwnLine
