\* MC_Format: every conversion under every flag, and formats of up to two items
SPECIFICATION Spec
CONSTANTS
    NtoaSize = 8
    FtoaSize = 8
    MaxPow = 3
    DefaultPrec = 2
    Unit = 2048
    Significand = 11
    Bits <- MC_Bits
    MaxFloat = 204800
    PointerDigits = 4
    Characters <- MC_Characters
    NUL = "nul"
    Untouched = "untouched"
    Cells = 14
    Items <- MC_Mixed
    MaxItems = 2
    Singles <- MC_Conversions
    MaxLengths = {0, 1, 5, 12}
INVARIANTS  FormatInv Terminated
PROPERTY HoldsScratch
\* a call returns
CHECK_DEADLOCK FALSE
