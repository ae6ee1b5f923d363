CONSTANTS
  s1 = s1
  s2 = s2
  NULL = NULL
  MinCapacity = 2
  Ids <- MCIds
  Socks <- MCSocks
SPECIFICATION Spec
INVARIANTS TypeOK IterFillsItsBuffer ProbesEnd Occupancy
PROPERTY ImplementsDict
