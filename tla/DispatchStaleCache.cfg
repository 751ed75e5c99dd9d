CONSTANTS
  Requests = {"streamed", "waiting"}
  MaxPlanSteps = 2
  MaxTotalSteps = 3
  MaxRounds = 2
  DepthThreshold = 2
  MaxDispatches = 2
SPECIFICATION DispatchSpec
INVARIANTS
  NextSeqFree
CHECK_DEADLOCK FALSE
