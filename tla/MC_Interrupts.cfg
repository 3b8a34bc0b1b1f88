SPECIFICATION PartsSpec
CONSTANTS
  Lines = {7, 8, 15}
  MaxRaised = 2
  HALF = 8
  ALL_ONES = 16777215
  Placements = {0, 40, 4000}
  IDT_SIZE = 49
  PIECES = 3
  MaxLog = 2
INVARIANTS
  Acknowledged
  Descriptors
  Reports
PROPERTIES
  Served
  Transparent
  Halts
