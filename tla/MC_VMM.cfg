SPECIFICATION Spec
CONSTANTS
  LEVELS = 3
  FANOUT = 4
  HHDM = 32
  BootInfos <- MCBootInfos
  Pools <- MCPools
  Ranges <- MCRanges
  Watched = {17}
INVARIANTS
  TablesInv
  Coherent
  AmpleGivesAccess
PROPERTY
  ImplementsAddressSpace
