SPECIFICATION Spec
CONSTANTS
  Requests     = {r1}
  NoRequest    = NoRequest
  Schedulers   = {w1}
  NoScheduler  = NoScheduler
  Gone         = Gone
  Models       = {m1}
  NoModel      = NoModel
  MinCost      = 1
  MaxCost      = 1
  Quota        = 1
  MaxCycles    = 1
  Calls        = {c1}
  Disturbances = {}
INVARIANTS
  ExcludedFromScores
