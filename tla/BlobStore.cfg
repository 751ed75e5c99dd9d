CONSTANTS
  Hashes = {h1}
  Peers = {p1, p2}
  Users = {u1}
  Workers = {w1, w2}
  Size <- UnitSize
  PerPeerBytes = 1
  PerPeerBlobs = 2
  InputTtl = 1
  OutputTtl = 2
  WeekTtl = 3
  MaxTime = 3
  MaxFaults = 1
SPECIFICATION FairSpec
INVARIANT TypeOK
PROPERTIES ClassOnlyAdvances NobodyTakesOver ExpiredLeaves
CHECK_DEADLOCK FALSE
