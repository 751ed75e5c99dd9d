CONSTANTS
  Message <- MCMessage
  NoMessage = NoMessage
  Worker = {w1, w2}
  Self = "me"
  Endpoint <- MCEndpoint
  NoEndpoint = NoEndpoint
  Skew = 0
  TTL = 2
  StepBack = 1
  Delay = 0
  MaxClock = 6
SPECIFICATION Spec
SYMMETRY MCSymmetry
INVARIANTS
  TypeOK
  AtMostOnce
