CONSTANTS
  Hashes = {h1}
  Peers = {p1}
  Users = {u1}
  Workers = {w1}
  Size <- UnitSize
  PerPeerBytes = 1
  PerPeerBlobs = 2
  InputTtl = 1
  OutputTtl = 2
  WeekTtl = 3
  MaxTime = 3
  MaxFaults = 0
SPECIFICATION Spec
INVARIANT LiveIsFetchable
CHECK_DEADLOCK FALSE
