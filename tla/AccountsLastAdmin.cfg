CONSTANTS
  Names = {n1, n2}
  Workers = {w1, w2}
  SessionTtl = 1
  MaxUsers = 2
  MaxSessions = 2
  MaxChanges = 1
  MaxFaults = 0
  MaxTime = 0
SPECIFICATION Spec
SYMMETRY Symmetry
PROPERTY LastAdminStays
CHECK_DEADLOCK FALSE
