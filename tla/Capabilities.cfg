CONSTANTS
  Cap = {c1, c2}
  Backend = {b1}
  Lobe = {l1}
  Manifest <- MCManifest
  Config <- MCConfig
  Builtin = {c1}
  OneDir = TRUE
  Worker = {w1, w2}
  MaxRequests = 4
  MaxFailures = 1
SPECIFICATION Spec
INVARIANTS TypeOK ClaimsWithinLobes HotAsCold
PROPERTY NeverUnpublished
CHECK_DEADLOCK FALSE
