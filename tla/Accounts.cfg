CONSTANTS
  Names = {n1, n2}
  Workers = {w1, w2}
  SessionTtl = 1
  MaxUsers = 2
  MaxSessions = 2
  MaxChanges = 1
  MaxFaults = 1
  MaxTime = 1
SPECIFICATION Spec
SYMMETRY Symmetry
INVARIANTS TypeOK SessionsOwned FormerPasswordsOut
PROPERTIES RevokedForGood
CHECK_DEADLOCK FALSE
