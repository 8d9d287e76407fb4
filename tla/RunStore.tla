------------------------------ MODULE RunStore ------------------------------
(***************************************************************************)
(* One run as PostgreSQL stores it: its row of private_runs and its rows   *)
(* of run_job_attempts, run_observations and run_reports, with the         *)
(* operations of backend/src/store/postgres-run-store.ts.  An operation is *)
(* one transaction that locks the row (SELECT ... FOR UPDATE), so it is    *)
(* one atomic change here; its callers are the actions of RunWorker and    *)
(* RunApi, which add what the process does with the answer.                *)
(*                                                                         *)
(* lease_expires_at is compared with two clocks: now() of the database     *)
(* (claimNext, renewLease) and Date.now() of the worker (assertLease).     *)
(* Nothing keeps them equal, so they are two flags that fall separately.   *)
(***************************************************************************)
EXTENDS Naturals, RunState

CONSTANTS
  Requests,      \* the create requests that carry the run's idempotency key
  NoRequest,     \* no request has created the row yet
  Workers,       \* worker identities
  NoWorker,      \* worker_id IS NULL
  Jobs,          \* the jobs buildRunJobs plans for the run
  MaxAttempts,   \* config.retries + 1
  MaxClaims,     \* bound: how many times the run is claimed
  Disturbances   \* what may go wrong around the code, of DisturbanceKinds

ASSUME RequestsAssumption == NoRequest \notin Requests
ASSUME WorkersAssumption  == NoWorker \notin Workers
ASSUME AttemptsAssumption == MaxAttempts \in Nat \ {0}
ASSUME ClaimsAssumption   == MaxClaims \in Nat \ {0}

DisturbanceKinds ==
  {"crash",      \* a worker process stops
   "error",      \* a query of a worker fails, or its scorer throws
   "lostAnswer", \* a commit succeeds and its answer is lost
   "cutOff",     \* an API handler stops between two of its steps
   "skew",       \* the worker's clock differs from the database's
   "expiry"}     \* the run reaches expires_at

ASSUME DisturbancesAssumption == Disturbances \subseteq DisturbanceKinds

VARIABLES
  status,        \* private_runs.status, or "none" / "purged"
  holder,        \* private_runs.worker_id
  leaseVersion,  \* private_runs.lease_version
  dbLive,        \* lease_expires_at > now() of the database
  appLive,       \* lease_expires_at > Date.now() of the holder's process
  attempts,      \* run_job_attempts.attempt_count of each job
  observed,      \* run_observations: the outcome stored for each job
  handle,        \* private_runs.credential_handle
  report         \* run_reports: its status and the observations it quotes

leaseVars  == <<holder, leaseVersion, dbLive, appLive>>
resultVars == <<attempts, observed, report>>
rowVars    == <<status, handle, leaseVars, resultVars>>

Versions == 1..MaxClaims
Outcome  == {"none", "ok", "error"}
NoRows   == [j \in Jobs |-> "none"]
NoReport == [status |-> "none", rows |-> NoRows]

StoreTypeOK ==
  /\ status \in RowState
  /\ holder \in Workers \cup {NoWorker}
  /\ leaseVersion \in 0..MaxClaims
  /\ dbLive \in BOOLEAN
  /\ appLive \in BOOLEAN
  /\ attempts \in [Jobs -> 0..MaxAttempts]
  /\ observed \in [Jobs -> Outcome]
  /\ handle \in Requests \cup {NoRequest}
  /\ report \in [status : FinishedStatus \cup {"none"}, rows : [Jobs -> Outcome]]

StoreInit ==
  /\ status = "none"
  /\ holder = NoWorker
  /\ leaseVersion = 0
  /\ dbLive = FALSE
  /\ appLive = FALSE
  /\ attempts = [j \in Jobs |-> 0]
  /\ observed = NoRows
  /\ handle = NoRequest
  /\ report = NoReport
-----------------------------------------------------------------------------
\* SELECT ... FOR UPDATE finds the row.
Present == status \in RunStatus

\* Mutant of HoldsLease: the lease is live, whoever holds it.
HoldsSomeLease(w, v) == status \in ActiveStatus /\ appLive

\* assertLease: the caller's worker id and version are those of the row, and
\* the lease has not expired by the caller's clock.
HoldsLease(w, v) ==
  /\ Present
  /\ holder = w
  /\ leaseVersion = v
  /\ appLive

\* What a leased operation answers: 404, LeaseLostError, or it runs.
LeaseAnswer(w, v) ==
  IF ~Present THEN "missing" ELSE IF HoldsLease(w, v) THEN "held" ELSE "lost"

Renewable(w, v) ==
  /\ status \in ActiveStatus
  /\ holder = w
  /\ leaseVersion = v
  /\ dbLive

\* The lease columns, cleared.
NoLease == /\ holder' = NoWorker
           /\ dbLive' = FALSE
           /\ appLive' = FALSE
           /\ UNCHANGED leaseVersion

NewExpiry == /\ dbLive' = TRUE
             /\ appLive' = TRUE

InsertRun(h) ==
  /\ status = "none"
  /\ status' = "queued"
  /\ handle' = h
  /\ UNCHANGED <<leaseVars, resultVars>>

\* Mutant of CanMoveTo: assertRunTransition is not called.
CanMoveAnywhere(s) == Present

\* transition: the same status again changes nothing, any other must be a
\* legal move; arriving at a finished status clears the lease.
CanMoveTo(s) == Present /\ (status = s \/ CanTransition(status, s))

MoveTo(s) ==
  /\ status' = s
  /\ IF s \in FinishedStatus /\ status # s THEN NoLease ELSE UNCHANGED leaseVars
  /\ UNCHANGED <<handle, resultVars>>

\* Mutant of Claimable: a run whose worker is gone is never taken over.
ClaimableOnce == status = "queued" /\ leaseVersion < MaxClaims

Claimable ==
  /\ status = "queued" \/ (status \in ActiveStatus /\ ~dbLive)
  /\ leaseVersion < MaxClaims

ClaimRow(w) ==
  /\ Claimable
  /\ status' = "provisioning"
  /\ holder' = w
  /\ leaseVersion' = leaseVersion + 1
  /\ NewExpiry
  /\ UNCHANGED <<handle, resultVars>>

RenewLease == /\ NewExpiry
              /\ UNCHANGED <<status, holder, leaseVersion, handle, resultVars>>

ReserveAttempt(j) ==
  /\ attempts' = [attempts EXCEPT ![j] = @ + 1]
  /\ UNCHANGED <<status, handle, leaseVars, observed, report>>

\* INSERT ... ON CONFLICT (run_id, job_id) DO NOTHING, for every row given.
Merge(stored, rows) ==
  [j \in Jobs |-> IF stored[j] = "none" THEN rows[j] ELSE stored[j]]

SaveObservations(rows) ==
  /\ observed' = Merge(observed, rows)
  /\ UNCHANGED <<status, handle, leaseVars, attempts, report>>

FinalizeRow(s, rows, reported) ==
  /\ status' = s
  /\ observed' = Merge(observed, rows)
  /\ report' = [status |-> s, rows |-> reported]
  /\ NoLease
  /\ UNCHANGED <<handle, attempts>>

SaveReport(s, rows) ==
  /\ report' = [status |-> s, rows |-> rows]
  /\ UNCHANGED <<status, handle, leaseVars, attempts, observed>>

\* purge and purgeExpired: the row and everything that refers to it go.
PurgeRow ==
  /\ status' = "purged"
  /\ NoLease
  /\ attempts' = [j \in Jobs |-> 0]
  /\ observed' = NoRows
  /\ report' = NoReport
  /\ UNCHANGED handle
=============================================================================
