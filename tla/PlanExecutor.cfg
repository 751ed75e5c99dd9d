CONSTANTS
  Step = {s1, s2, s3, s4}
  Untimed = {s3, s4}
  MaxConcurrent = 2
SPECIFICATION FairSpec
INVARIANTS
  TypeOK
  ScheduledWhenReady
  NoUnresolvedInvocation
  NothingLeftBehind
PROPERTIES
  ImplementsLedger
  EndsOrHangs
CHECK_DEADLOCK FALSE
