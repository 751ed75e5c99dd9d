CONSTANTS
  Conv = {c1, c2, c3}
  Req = {r1, r2, r3}
  Waiting = {r1, r2}
  MaxConcurrent = 2
  MaxSwaps = 1
SPECIFICATION FairSpec
INVARIANTS
  TypeOK
  Serialised
  UpToDate
PROPERTIES
  ImplementsThread
  Served
CHECK_DEADLOCK FALSE
