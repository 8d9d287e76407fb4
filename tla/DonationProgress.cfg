SPECIFICATION FairSpec
CONSTANTS
  Requests     = {r1, r2}
  NoRequest    = NoRequest
  Schedulers   = {w1}
  NoScheduler  = NoScheduler
  Gone         = Gone
  Models       = {m1}
  NoModel      = NoModel
  MinCost      = 1
  MaxCost      = 1
  Quota        = 1
  MaxCycles    = 1
  Calls        = {c1}
  Disturbances = {"error", "expiry", "lostAnswer", "cutOff"}
INVARIANTS
  NoTestIsForgotten
  CredentialFollowsDonation
PROPERTIES
  CycleEnds
