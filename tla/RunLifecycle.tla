---------------------------- MODULE RunLifecycle ----------------------------
(***************************************************************************)
(* One private run from its creation to its erasure: the workers that      *)
(* claim it (RunWorker), the API handlers of its owner and the retention   *)
(* sweep (RunApi), the row they share (RunStore) and the envelope of its   *)
(* credential (CredentialVault).                                           *)
(*                                                                         *)
(* Runs share no state but the workers' time, so one run is modelled; the  *)
(* order in which claimNext takes several runs is not.                     *)
(***************************************************************************)
EXTENDS RunWorker, RunApi

vars == <<rowVars, execVars, apiVars, vaultVars>>

Init ==
  /\ StoreInit
  /\ WorkerInit
  /\ ApiInit
  /\ envelopes = {}
  /\ expired = FALSE
  /\ interrupted = FALSE

TypeOK ==
  /\ StoreTypeOK
  /\ WorkerTypeOK
  /\ ApiTypeOK
  /\ envelopes \subseteq Requests
  /\ expired \in BOOLEAN
  /\ interrupted \in BOOLEAN

\* One #execute, when nothing goes wrong around it.
MainStep(v) ==
  \/ LoadCredential(v) \/ EnsureMain(v)   \/ EnterRunning(v) \/ StartLoops(v)
  \/ CollectRows(v)    \/ EnterScoring(v) \/ Finalize(v)     \/ MainRefused(v)
  \/ ReadLatest(v)     \/ FailFinalize(v) \/ FailFinalizeThrows(v)
  \/ CleanupCredential(v)

LoopStep(v, k) ==
  \/ PickJob(v, k) \/ AppendProgress(v, k) \/ EnsureAttempt(v, k) \/ Reserve(v, k)
  \/ Send(v, k)    \/ Receive(v, k)        \/ RequestAborted(v, k)
  \/ SaveObservation(v, k) \/ LoopRefused(v, k)

WorkerNext ==
  \/ \E w \in Workers : Claim(w) \/ Crash(w)
  \/ \E v \in Versions :
       \/ MainStep(v)
       \/ MainFails(v) \/ Heartbeat(v) \/ HeartbeatFails(v)
       \/ \E k \in Slots : LoopStep(v, k) \/ LoopFails(v, k) \/ DelayAborted(v, k)
  \/ LeaseExpires

RequestStep(r) == CreateRun(r) \/ CreateRefused(r) \/ DiscardEnvelope(r)

CallStep(c) ==
  \/ OwnerTransition(c) \/ CheckReport(c) \/ ListRows(c)
  \/ FileCancelReport(c) \/ DropCredential(c) \/ PurgeRun(c)

Sweep == SweepEnvelopes \/ SweepRuns

ApiNext ==
  \/ \E r \in Requests : PutCredential(r) \/ RequestStep(r) \/ AbandonRequest(r)
  \/ \E c \in Calls :
       \/ \E op \in {"cancel", "delete"} : OwnedRun(c, op)
       \/ CallStep(c)
       \/ AbandonCall(c)
  \/ Expire
  \/ Sweep

Next ==
  \/ WorkerNext /\ UNCHANGED apiVars
  \/ ApiNext /\ UNCHANGED execVars

Spec == Init /\ [][Next]_vars
-----------------------------------------------------------------------------
Live == {"queued"} \cup ActiveStatus

Contract == INSTANCE RunContract WITH
  Budget  <- MaxAttempts,
  state   <- IF status \in Live THEN "open" ELSE status,
  bill    <- attempts,
  results <- observed,
  filed   <- report

KeepsContract == Contract!Spec
-----------------------------------------------------------------------------
(* Safety.                                                                 *)

\* Every upstream call spends a reservation of its own that was stored
\* before it left: reservations about to be spent are distinct, unspent and
\* within the budget, and while the row exists all of them are counted in
\* it (reserveAttempt, before the transport call of #executeJob).
EveryCallIsPaid ==
  /\ \A v \in Versions, k \in Slots :
       task[v][k].pc = "send" =>
         /\ task[v][k].ticket \in 1..MaxAttempts
         /\ task[v][k].ticket \notin sent[task[v][k].job]
         /\ Present => task[v][k].ticket <= attempts[task[v][k].job]
  /\ \A u, v \in Versions, i, k \in Slots :
       /\ <<u, i>> # <<v, k>>
       /\ task[u][i].pc = "send" /\ task[v][k].pc = "send"
       /\ task[u][i].job = task[v][k].job
       => task[u][i].ticket # task[v][k].ticket
  /\ Present => \A j \in Jobs : sent[j] \subseteq 1..attempts[j]

\* A report says how the run ended and quotes the observations that are
\* stored, all of them (the empty report of a worker that failed apart), and
\* a run reported as worked to its end has an observation for every job
\* (finalize of the worker against saveReport of a cancel).
ReportTellsTheObservations ==
  /\ report # NoReport =>
       /\ status \in {report.status, "deleted"}
       /\ report.rows = observed \/ (report.status = "failed" /\ report.rows = NoRows)
       /\ report.status = "completed" => \A j \in Jobs : report.rows[j] = "ok"
       /\ report.status = "incomplete" => \A j \in Jobs : report.rows[j] # "none"
  /\ status \in {"completed", "incomplete", "failed"} => report # NoReport

\* A cancelled run has a report, unless the cancel that owes it is still on
\* its way there or was cut off (cancel writes the status and the report in
\* two transactions).
CancelIsReported ==
  status = "cancelled" /\ report = NoReport =>
    \/ interrupted
    \/ \E c \in Calls : call[c].pc \in {"getReport", "listRows", "saveReport"}

\* A run that can still be worked on has its credential until it expires,
\* unless the create lost the answer of its commit: no handler that loses a
\* race deletes the envelope of a run that lives.
LiveRunHasCredential ==
  status \in Live /\ ~expired /\ handle \notin envelopes => interrupted

\* An envelope that has not expired belongs to a run that lives, or somebody
\* is about to delete it, or a process was cut off before it could.
CredentialIsReleased ==
  \A e \in envelopes :
    \/ expired \/ interrupted
    \/ request[e] \in {"create", "discard"}
    \/ /\ e = handle
       /\ \/ status \in Live
          \/ \E v \in Versions : pc[v] = "cleanup"
          \/ \E c \in Calls : OwesDelete(c)

\* A job with a stored observation is never charged another attempt, by no
\* worker that takes the run over and by none that lost it ("lease recovery
\* only redoes jobs that have no sanitized observation", API_CONTRACT.md:22).
NoJobIsRedone ==
  [][\A j \in Jobs : attempts'[j] > attempts[j] => observed[j] = "none"]_vars

\* A run that has ended is closed: it can be deleted and erased, and until it
\* is erased neither its attempts nor its observations change any more,
\* whatever workers are still busy with it.
EndedRunIsClosed ==
  [][(status \in TerminalStatus /\ status' # "purged") =>
       (status' \in {status, "deleted"} /\ UNCHANGED <<attempts, observed>>)]_vars
-----------------------------------------------------------------------------
(* The inductive invariant behind the safety properties.                   *)

\* The loops of v that have taken a job and not stored its observation yet.
Busy(v, k) == task[v][k].pc \in TaskPc \ {"idle", "pick", "progress"}

\* v is the claim that holds the run, expired or not.
Current(v) == v = leaseVersion /\ status \in ActiveStatus

\* Versions are claimed in order, a row that is not being worked on has no
\* holder, and before the first claim nothing has been charged or observed.
LeaseInv ==
  /\ \A v \in Versions :
       /\ pc[v] = "unclaimed" <=> v > leaseVersion
       /\ owner[v] = NoWorker <=> v > leaseVersion
       /\ v > leaseVersion => LoopsIdle(v)
  /\ status \in ActiveStatus => leaseVersion \in Versions /\ holder = owner[leaseVersion]
  /\ status \notin ActiveStatus => holder = NoWorker
  /\ status \in {"none", "queued"} =>
       /\ leaseVersion = 0
       /\ attempts = [j \in Jobs |-> 0]
       /\ observed = NoRows
       /\ sent = [j \in Jobs |-> {}]

\* What the loops of one #execute know about their jobs.
LoopInv ==
  \A v \in Versions :
    /\ pc[v] \in {"load", "ensureStart", "start", "list", "ensureScore", "score", "finalize"}
         => LoopsIdle(v)
    /\ \A k \in Slots :
         /\ Busy(v, k) => task[v][k].job \in taken[v]
         /\ task[v][k].pc = "save" => task[v][k].out # "none"
         /\ \A l \in Slots : k # l /\ Busy(v, k) /\ Busy(v, l) => task[v][k].job # task[v][l].job
    /\ pc[v] = "jobs" /\ (\E k \in Slots : task[v][k].pc = "idle") => taken[v] = Jobs

\* The loops of the current claim work on jobs that have no observation, and
\* every job behind the cursor is observed or being worked on.
CurrentInv ==
  \A v \in Versions : Current(v) =>
    /\ \A k \in Slots : Busy(v, k) => observed[task[v][k].job] = "none"
    /\ \A k \in Slots : task[v][k].pc \in {"send", "wait", "save"}
                          => attempts[task[v][k].job] > 0
    /\ pc[v] = "jobs" \/ ~LoopsIdle(v)
         => \A j \in Jobs : observed[j] # "none" => j \in taken[v]
    /\ pc[v] = "jobs"
         => \A j \in taken[v] : observed[j] # "none"
                                \/ \E k \in Slots : Busy(v, k) /\ task[v][k].job = j
    /\ pc[v] \in {"ensureScore", "score", "finalize"}
         => rows[v] = observed /\ \A j \in Jobs : observed[j] # "none"

\* What is known of reports, and of the reports cancel handlers will file.
ReportInv ==
  /\ ReportTellsTheObservations
  /\ status \in {"none", "timed_out"} \cup Live => report = NoReport
  /\ \A c \in Calls :
       /\ call[c].pc = "getReport" /\ call[c].seen = "cancelled"
            => status \in {"cancelled", "deleted", "purged"}
       /\ call[c].pc \in {"listRows", "saveReport"}
            => status \in {"cancelled", "deleted", "purged"}
       /\ call[c].pc = "saveReport" /\ Present => call[c].rows = observed
       /\ call[c].pc = "delete" => status \in TerminalStatus \cup {"purged"}
       /\ call[c].pc # "idle" => status # "none"

IInv == TypeOK /\ LeaseInv /\ LoopInv /\ CurrentInv /\ EveryCallIsPaid /\ ReportInv

\* The handlers that have ended the run, or found it ended.
Ending(c) == OwesDelete(c) \/ call[c].pc = "purge"

\* What handlers and executions remember of the run whose credential they
\* are about to delete: it has ended, and will not live again.
VaultInv ==
  /\ status = "none" => handle = NoRequest
  /\ \A r \in Requests :
       /\ request[r] \in {"idle", "create"} => handle # r
       /\ request[r] = "create" => r \in envelopes \/ expired
       /\ request[r] = "discard" /\ handle = r => interrupted
  /\ \A v \in Versions : pc[v] = "cleanup" => status \in TerminalStatus \cup {"purged"}
  /\ \A c \in Calls :
       /\ call[c].pc = "timeOut" => expired
       /\ Ending(c) => status \in TerminalStatus \cup {"purged"}
       /\ call[c].pc = "getReport" =>
            call[c].seen \in FinishedStatus /\ status \in {call[c].seen, "deleted", "purged"}
       /\ call[c].pc \in {"deleteEnvelope", "purge"} => status \in {"deleted", "purged"}
       /\ call[c].pc = "purge" => handle \notin envelopes
  /\ status = "purged" => expired \/ handle \notin envelopes

CredentialInv ==
  VaultInv /\ LiveRunHasCredential /\ CredentialIsReleased /\ CancelIsReported
-----------------------------------------------------------------------------
(* Liveness.  The worker processes keep running and polling, an answer or  *)
(* the 60 second timeout ends every upstream request, leases that nobody   *)
(* renews run out, and the API's timer sweeps: these steps are weakly      *)
(* fair.  Owners, crashes and errors are not.                              *)

Fairness ==
  /\ \A w \in Workers : WF_vars(Claim(w) /\ UNCHANGED apiVars)
  /\ \A v \in Versions :
       /\ WF_vars(MainStep(v) /\ UNCHANGED apiVars)
       /\ \A k \in Slots : WF_vars(LoopStep(v, k) /\ UNCHANGED apiVars)
  /\ WF_vars(LeaseExpires /\ UNCHANGED apiVars)
  /\ \A r \in Requests : WF_vars(RequestStep(r) /\ UNCHANGED execVars)
  /\ \A c \in Calls : WF_vars(CallStep(c) /\ UNCHANGED execVars)
  /\ WF_vars(Sweep /\ UNCHANGED execVars)

FairSpec == Spec /\ Fairness

\* A run that was accepted ends, or is erased at its expiry, though workers
\* crash, lose leases and meet database errors on all but the last claim.
RunEnds == status = "queued" ~> status \in TerminalStatus \cup {"purged"}
=============================================================================
