CONSTANTS
  x = x
  y = y
  z = z
  ax = ax
  ay = ay
  az = az
  dead = dead
  Node <- MCNode
  Address <- MCAddress
  Home <- MCHome
  Public <- MCPublic
  Old <- MCOld
  Worlds <- MCWorlds
  Serves <- MCNode
  Seeds <- MCSeeds
  Task = {t1, t2, t3, t4}
  MaxDepth = 2
  MaxPeers = 3
  FanOut = 1
  MaxStarts = 1
  MaxEvents = 1
SPECIFICATION Spec
INVARIANTS TypeOK FirstHand AliasMirrors Described
PROPERTIES WalkComplete Settles
CHECK_DEADLOCK FALSE
