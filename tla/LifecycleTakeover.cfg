SPECIFICATION Spec
CONSTANTS
  Requests     = {r1}
  NoRequest    = NoRequest
  Workers      = {w1, w2}
  NoWorker     = NoWorker
  Jobs         = {j1, j2}
  NoJob        = NoJob
  Slots        = {k1, k2}
  Calls        = {}
  MaxAttempts  = 2
  MaxClaims    = 2
  Disturbances = {"crash", "skew"}
SYMMETRY Symmetry
\* The run is over once it is erased and its workers and callers are gone.
CHECK_DEADLOCK FALSE
INVARIANTS
  TypeOK
  EveryCallIsPaid
PROPERTIES
  NoJobIsRedone
