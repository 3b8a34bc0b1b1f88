\* MC_Format_prefix: whether '#' always adds a prefix to the number
SPECIFICATION Spec
CONSTANTS
    NtoaSize = 8
    FtoaSize = 8
    MaxPow = 3
    DefaultPrec = 2
    Unit = 2048
    Significand = 11
    Bits <- MC_Bits
    MaxFloat = 204800
    PointerDigits = 4
    Characters <- MC_Characters
    NUL = "nul"
    Untouched = "untouched"
    Cells = 14
    Items = {}
    MaxItems = 1
    Singles <- MC_Integers
    MaxLengths = {5}
INVARIANT AddsPrefix
\* a call returns
CHECK_DEADLOCK FALSE
