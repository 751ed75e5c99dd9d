CONSTANTS
  self = self
  alice = alice
  bob = bob
  Self = self
  Peers = {alice, bob}
  Caps = {"sum", "chat", "plan"}
  Lobes = {"math", "talk"}
  Tools <- MCTools
  Order <- MCOrder
  Tokens = {"self", "bob", "ab", "x"}
  Refers <- MCRefers
  LocalTopK = 1
  RemoteTopK = 2
  Messages <- MCMessages
  Setups <- MCSetups
  Args = {"a"}
  Ref = "ref"
  Plans <- MCPlans
  Scores = {0, 1}
  MaxPlanSteps = 2
  MaxRounds = 2
  RetryLimit = 1
  Volatile <- MCVolatile
  Untimed <- MCUntimed
  MaxChanges = 1
SPECIFICATION FairSpec
INVARIANTS
  TypeOK
  VectorsCurrent
PROPERTIES
  ImplementsScopedWork
  DropsTheWorst
  Answered
