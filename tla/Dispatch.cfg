CONSTANTS
  Requests = {"streamed", "waiting"}
  MaxPlanSteps = 2
  MaxTotalSteps = 3
  MaxRounds = 2
  DepthThreshold = 2
  MaxDispatches = 2
SPECIFICATION DispatchSpec
INVARIANTS
  DispatchTypeOK
  LedgerOrdered
  ViewsAgree
  JournalTells
CHECK_DEADLOCK FALSE
