SPECIFICATION PartsSpec
CONSTANTS
  ATTEMPTS = 3
  SLACK = 4
  MaxEvents = 6
  PAGE_SIZE = 4
  Top = 20
  Headers <- MC_Headers
  MaxHeaders = 3
  PHDR_SIZE = 2
  Tables <- MC_Tables
  FileSizes = {5, 6}
  NIB = 4
  WORD = 4
  BufSize = 5
  HARDDRIVE = 42
  Paths <- MC_Paths
  Cells = 4
  BYTE = 4
  Fills = {1, 7}
INVARIANTS
  HandsOver
  Leaves
  Loads
  Shows
  Bytes
PROPERTIES
  LoaderEnds
  WalkEnds
