SPECIFICATION Spec
CONSTANTS
  LEVELS = 3
  FANOUT = 4
  HHDM = 32
  BootInfos <- MCBootInfos
  Pools <- ScarcePools
  Ranges <- MCRanges
  Watched = {}
INVARIANT
  GivesAccess
