SPECIFICATION Spec
CONSTANTS
  Requests     = {r1}
  NoRequest    = NoRequest
  Schedulers   = {w1, w2}
  NoScheduler  = NoScheduler
  Gone         = Gone
  Models       = {m1}
  NoModel      = NoModel
  MinCost      = 1
  MaxCost      = 2
  Quota        = 1
  MaxCycles    = 2
  Calls        = {c1}
  Disturbances = {"lapse", "drift", "crash"}
SYMMETRY Symmetry
INVARIANTS
  SpentIsAccounted
  QuotaHolds
PROPERTIES
  KeepsDonationContract
