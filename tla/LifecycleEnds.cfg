SPECIFICATION FairSpec
CONSTANTS
  Requests     = {r1}
  NoRequest    = NoRequest
  Workers      = {w1, w2}
  NoWorker     = NoWorker
  Jobs         = {j1}
  NoJob        = NoJob
  Slots        = {k1}
  Calls        = {c1}
  MaxAttempts  = 2
  MaxClaims    = 2
  Disturbances = {"crash", "error", "skew"}
\* The run is over once it is erased and its workers and callers are gone.
CHECK_DEADLOCK FALSE
INVARIANTS
  ReportTellsTheObservations
PROPERTIES
  KeepsContract
  RunEnds
