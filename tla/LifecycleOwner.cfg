SPECIFICATION Spec
CONSTANTS
  Requests     = {r1, r2}
  NoRequest    = NoRequest
  Workers      = {w1}
  NoWorker     = NoWorker
  Jobs         = {j1}
  NoJob        = NoJob
  Slots        = {k1}
  Calls        = {c1}
  MaxAttempts  = 1
  MaxClaims    = 2
  Disturbances = {"lostAnswer", "cutOff", "error", "expiry"}
SYMMETRY Symmetry
\* The run is over once it is erased and its workers and callers are gone.
CHECK_DEADLOCK FALSE
INVARIANTS
  LiveRunHasCredential
  CredentialIsReleased
  CancelIsReported
