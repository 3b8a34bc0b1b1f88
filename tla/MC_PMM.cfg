SPECIFICATION Spec
CONSTANTS
  vmm = vmm
  heap = heap
  Clients <- MCClients
  MemoryMaps <- MCMaps
  BITS_PER_FRAME = 4
  Counts = {0, 1, 2, 3}
INVARIANTS
  TypeOK
  CounterExact
  Accounted
PROPERTIES
  AllocAnswer
  ImplementsAllocator
