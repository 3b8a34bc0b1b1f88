SPECIFICATION LoopSpec
CONSTANTS
  vmm = vmm
  heap = heap
  Clients <- MCClients
  MemoryMaps <- MCMaps
  BITS_PER_FRAME = 8
  Counts = {0, 1, 2, 3}
INVARIANT
  ScanInv
PROPERTY
  ImplementsPMM
