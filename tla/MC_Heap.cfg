SPECIFICATION FairSpec
CONSTANTS
  META_SIZE = 3
  ALIGN = 2
  FRAME_SIZE = 17
  HEAP_MAX = 53
  SIZE_MOD = 93
  HeapStart = 17
  BootPages = {1, 2, 4}
  Sizes = {0, 7, 14, 54}
  Counts = {2, 8}
INVARIANTS
  HeapInv
  OverrunsWhenClose
PROPERTIES
  Coalesced
  GivesUpLate
  ImplementsObjects
  CallReturns
