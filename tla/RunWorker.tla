----------------------------- MODULE RunWorker ------------------------------
(***************************************************************************)
(* The workers of backend/src/worker/run-worker.ts executing one run.      *)
(*                                                                         *)
(* Every claim increments lease_version, so a version names one call of    *)
(* #execute: who runs it, where its main flow is, and what each of its     *)
(* concurrent job loops is doing.  Promise.all rejects on the first loop   *)
(* that throws and leaves the others running: such loops outlive the call  *)
(* that started them, and go on until their lease check refuses them.      *)
(***************************************************************************)
EXTENDS RunStore, CredentialVault

CONSTANTS
  Slots,         \* the concurrent loops, min(config.workers, jobs.length)
  NoJob

ASSUME JobsAssumption  == NoJob \notin Jobs
ASSUME SlotsAssumption == Slots # {}

VARIABLES
  owner,         \* the worker that made this claim
  pc,            \* where the main flow of #execute is
  aborted,       \* controller.signal: "no", or the kind of its reason
  rows,          \* what #executeJobs returned
  taken,         \* jobs behind the cursor, or stored before the loops began
  task,          \* the job loops
  sent           \* history: the reservations spent on an upstream call

execVars   == <<owner, pc, aborted, rows, taken, task, sent>>

Executing == {"load", "ensureStart", "start", "list", "jobs", "ensureScore",
              "score", "finalize"}
MainPc    == Executing \cup {"unclaimed", "failing", "failFinalize", "cleanup", "ended"}
TaskPc    == {"idle", "pick", "announce", "ensure", "reserve", "send", "wait",
              "save", "progress"}

IdleTask == [pc |-> "idle", job |-> NoJob, attempt |-> 0, ticket |-> 0, out |-> "none"]

\* A loop that is past "pick" has a job.
Task ==
  {t \in [pc : TaskPc, job : Jobs \cup {NoJob}, attempt : 0..(MaxAttempts - 1),
          ticket : 0..MaxAttempts, out : Outcome] :
     t.pc \in {"idle", "pick"} \/ t.job \in Jobs}

WorkerTypeOK ==
  /\ owner \in [Versions -> Workers \cup {NoWorker}]
  /\ pc \in [Versions -> MainPc]
  /\ aborted \in [Versions -> {"no", "lease", "error"}]
  /\ rows \in [Versions -> [Jobs -> Outcome]]
  /\ taken \in [Versions -> SUBSET Jobs]
  /\ task \in [Versions -> [Slots -> Task]]
  /\ sent \in [Jobs -> SUBSET (0..MaxAttempts)]

WorkerInit ==
  /\ owner = [v \in Versions |-> NoWorker]
  /\ pc = [v \in Versions |-> "unclaimed"]
  /\ aborted = [v \in Versions |-> "no"]
  /\ rows = [v \in Versions |-> NoRows]
  /\ taken = [v \in Versions |-> {}]
  /\ task = [v \in Versions |-> [k \in Slots |-> IdleTask]]
  /\ sent = [j \in Jobs |-> {}]

\* The bound on trouble: the last claim of the run is left undisturbed.
Disruptable == leaseVersion < MaxClaims

LoopsIdle(v) == \A k \in Slots : task[v][k].pc = "idle"
Answer(v)    == LeaseAnswer(owner[v], v)
Abort(v, reason) ==
  aborted' = [aborted EXCEPT ![v] = IF @ = "no" THEN reason ELSE @]
Goto(v, label) == pc' = [pc EXCEPT ![v] = label]
SetTask(v, k, t) == task' = [task EXCEPT ![v][k] = t]
-----------------------------------------------------------------------------
(* claimNext and the main flow of #execute.                                *)

\* A worker runs one #execute at a time.
Claim(w) ==
  /\ \A v \in Versions : owner[v] = w => pc[v] = "ended"
  /\ ~expired
  /\ ClaimRow(w)
  /\ owner' = [owner EXCEPT ![leaseVersion + 1] = w]
  /\ Goto(leaseVersion + 1, "load")
  /\ UNCHANGED <<aborted, rows, taken, task, sent, vaultVars>>

\* The catch of #execute: a lost lease ends it silently, anything else aborts
\* the loops and goes on to report the failure.
Catch(v, kind) ==
  IF kind = "lost" \/ aborted[v] = "lease"
  THEN Goto(v, "ended") /\ UNCHANGED aborted
  ELSE Goto(v, "failing") /\ Abort(v, "error")

\* vault.read; a missing or expired envelope is an AppError(410).
LoadCredential(v) ==
  /\ pc[v] = "load"
  /\ ReadEnvelope(handle)
  /\ IF EnvelopeReadable(handle)
     THEN Goto(v, "ensureStart") /\ UNCHANGED aborted
     ELSE Catch(v, "error")
  /\ UNCHANGED <<rowVars, owner, rows, taken, task, sent, expired, interrupted>>

\* #ensureLease of the main flow, before "running" and before "scoring".
EnsureMain(v) ==
  /\ pc[v] \in {"ensureStart", "ensureScore"}
  /\ IF aborted[v] = "no" /\ Renewable(owner[v], v)
     THEN /\ RenewLease
          /\ Goto(v, IF pc[v] = "ensureStart" THEN "start" ELSE "score")
          /\ UNCHANGED aborted
     ELSE Abort(v, "lease") /\ Goto(v, "ended") /\ UNCHANGED rowVars
  /\ UNCHANGED <<owner, rows, taken, task, sent, vaultVars>>

EnterRunning(v) ==
  /\ pc[v] = "start"
  /\ Answer(v) = "held" /\ CanMoveTo("running")
  /\ MoveTo("running")
  /\ Goto(v, "list")
  /\ UNCHANGED <<owner, aborted, rows, taken, task, sent, vaultVars>>

\* Mutant of StartLoops: a takeover starts all jobs again.
StartLoopsFromScratch(v) ==
  /\ pc[v] = "list"
  /\ task' = [task EXCEPT ![v] = [k \in Slots |-> [IdleTask EXCEPT !.pc = "pick"]]]
  /\ Goto(v, "jobs")
  /\ UNCHANGED <<rowVars, owner, aborted, rows, taken, sent, vaultVars>>

\* #executeJobs: the jobs already observed are skipped, the loops start.
StartLoops(v) ==
  /\ pc[v] = "list"
  /\ taken' = [taken EXCEPT ![v] = {j \in Jobs : observed[j] # "none"}]
  /\ task' = [task EXCEPT ![v] = [k \in Slots |-> [IdleTask EXCEPT !.pc = "pick"]]]
  /\ Goto(v, "jobs")
  /\ UNCHANGED <<rowVars, owner, aborted, rows, sent, vaultVars>>

\* Promise.all is done: listObservations gives the rows to score.
CollectRows(v) ==
  /\ pc[v] = "jobs" /\ LoopsIdle(v)
  /\ rows' = [rows EXCEPT ![v] = observed]
  /\ Goto(v, "ensureScore")
  /\ UNCHANGED <<rowVars, owner, aborted, taken, task, sent, vaultVars>>

EnterScoring(v) ==
  /\ pc[v] = "score"
  /\ Answer(v) = "held" /\ CanMoveTo("scoring")
  /\ MoveTo("scoring")
  /\ Goto(v, "finalize")
  /\ UNCHANGED <<owner, aborted, rows, taken, task, sent, vaultVars>>

\* scoreStoredRun: a row that is not there is not counted.
ScoredStatus(r) ==
  IF \A j \in Jobs : r[j] # "ok" THEN "failed"
  ELSE IF \E j \in Jobs : r[j] = "error" THEN "incomplete" ELSE "completed"

Finalize(v) ==
  /\ pc[v] = "finalize"
  /\ Answer(v) = "held" /\ CanTransition(status, ScoredStatus(rows[v]))
  /\ FinalizeRow(ScoredStatus(rows[v]), rows[v], rows[v])
  /\ \/ Goto(v, "cleanup") /\ UNCHANGED <<aborted, interrupted>>
     \/ \* the commit succeeds and its answer is lost
        "lostAnswer" \in Disturbances /\ Catch(v, "error") /\ interrupted' = TRUE
  /\ UNCHANGED <<owner, rows, taken, task, sent, envelopes, expired>>

\* A leased store call of the main flow answers 404 or LeaseLostError.
MainRefused(v) ==
  /\ pc[v] \in {"start", "score", "finalize"}
  /\ Answer(v) # "held"
  /\ Catch(v, IF Answer(v) = "lost" THEN "lost" ELSE "error")
  /\ UNCHANGED <<rowVars, owner, rows, taken, task, sent, vaultVars>>

\* A database error, a missing scoring release, a scorer that throws.
MainFails(v) ==
  /\ "error" \in Disturbances
  /\ pc[v] \in Executing
  /\ pc[v] = "jobs" => LoopsIdle(v)
  /\ Catch(v, "error")
  /\ UNCHANGED <<rowVars, owner, rows, taken, task, sent, vaultVars>>

\* The catch block reads the run again and reports the failure if it is live.
ReadLatest(v) ==
  /\ pc[v] = "failing"
  /\ Goto(v, IF status \in ActiveStatus THEN "failFinalize" ELSE "ended")
  /\ UNCHANGED <<rowVars, owner, aborted, rows, taken, task, sent, vaultVars>>

\* Mutant of FailFinalize: cleanupCredential is not set.
FailFinalizeOnly(v) ==
  /\ pc[v] = "failFinalize"
  /\ Answer(v) = "held" /\ CanTransition(status, "failed")
  /\ FinalizeRow("failed", NoRows, NoRows)
  /\ Goto(v, "ended")
  /\ UNCHANGED <<owner, aborted, rows, taken, task, sent, vaultVars>>

FailFinalize(v) ==
  /\ pc[v] = "failFinalize"
  /\ \/ /\ Answer(v) = "held" /\ CanTransition(status, "failed")
        /\ FinalizeRow("failed", NoRows, NoRows)
        /\ Goto(v, "cleanup")
     \/ /\ Answer(v) = "lost"
        /\ Goto(v, "ended")
        /\ UNCHANGED rowVars
  /\ UNCHANGED <<owner, aborted, rows, taken, task, sent, vaultVars>>

CleanupCredential(v) ==
  /\ pc[v] = "cleanup"
  /\ DeleteEnvelope(handle)
  /\ Goto(v, "ended")
  /\ UNCHANGED <<rowVars, owner, aborted, rows, taken, task, sent, expired, interrupted>>
-----------------------------------------------------------------------------
(* The job loops: execute() of #executeJobs and #executeJob.               *)

\* A loop throws.  Its error ends the main flow only while that still waits
\* for the loops; otherwise nobody listens any more.
Throw(v, k, kind) ==
  /\ SetTask(v, k, IdleTask)
  /\ IF pc[v] = "jobs" THEN Catch(v, kind) ELSE UNCHANGED <<pc, aborted>>

PickJob(v, k) ==
  /\ task[v][k].pc = "pick"
  /\ \/ \E j \in Jobs \ taken[v] :
          /\ taken' = [taken EXCEPT ![v] = @ \cup {j}]
          /\ SetTask(v, k, [IdleTask EXCEPT !.pc = "announce", !.job = j])
     \/ /\ taken[v] = Jobs
        /\ SetTask(v, k, IdleTask)
        /\ UNCHANGED taken
  /\ UNCHANGED <<rowVars, owner, pc, aborted, rows, sent, vaultVars>>

\* appendEvent("progress") before and after the job.
AppendProgress(v, k) ==
  /\ Answer(v) = "held"
  /\ \/ /\ task[v][k].pc = "announce"
        /\ SetTask(v, k, [task[v][k] EXCEPT !.pc = "ensure"])
     \/ /\ task[v][k].pc = "progress"
        /\ SetTask(v, k, [IdleTask EXCEPT !.pc = "pick"])
  /\ UNCHANGED <<rowVars, owner, pc, aborted, rows, taken, sent, vaultVars>>

\* #ensureLease before every attempt.
EnsureAttempt(v, k) ==
  /\ task[v][k].pc = "ensure"
  /\ IF aborted[v] = "no" /\ Renewable(owner[v], v)
     THEN /\ RenewLease
          /\ SetTask(v, k, [task[v][k] EXCEPT !.pc = "reserve"])
          /\ UNCHANGED <<pc, aborted>>
     ELSE /\ Abort(v, "lease")
          /\ SetTask(v, k, IdleTask)
          /\ pc' = [pc EXCEPT ![v] = IF @ = "jobs" THEN "ended" ELSE @]
          /\ UNCHANGED rowVars
  /\ UNCHANGED <<owner, rows, taken, sent, vaultVars>>

\* Mutant of Reserve: the budget is compared with <= instead of <.
ReserveOneMore(v, k) ==
  LET j == task[v][k].job IN
  /\ task[v][k].pc = "reserve"
  /\ Answer(v) = "held" /\ attempts[j] <= MaxAttempts
  /\ ReserveAttempt(j)
  /\ SetTask(v, k, [task[v][k] EXCEPT !.pc = "send", !.ticket = attempts[j] + 1])
  /\ UNCHANGED <<owner, pc, aborted, rows, taken, sent, vaultVars>>

\* reserveAttempt: the durable budget counts the attempts of every claim.
Reserve(v, k) ==
  LET j == task[v][k].job IN
  /\ task[v][k].pc = "reserve"
  /\ Answer(v) = "held"
  /\ \/ /\ attempts[j] < MaxAttempts
        /\ ReserveAttempt(j)
        /\ SetTask(v, k, [task[v][k] EXCEPT !.pc = "send", !.ticket = attempts[j] + 1])
     \/ /\ attempts[j] >= MaxAttempts
        /\ SetTask(v, k, [task[v][k] EXCEPT !.pc = "save", !.out = "error"])
        /\ UNCHANGED rowVars
  /\ UNCHANGED <<owner, pc, aborted, rows, taken, sent, vaultVars>>

\* The upstream request leaves, unless the signal is already aborted.
Send(v, k) ==
  /\ task[v][k].pc = "send" /\ aborted[v] = "no"
  /\ sent' = [sent EXCEPT ![task[v][k].job] = @ \cup {task[v][k].ticket}]
  /\ SetTask(v, k, [task[v][k] EXCEPT !.pc = "wait"])
  /\ UNCHANGED <<rowVars, owner, pc, aborted, rows, taken, vaultVars>>

\* Mutant of Outcomes: a retry does not reserve again.
OutcomesOnOneTicket(v, k) ==
  {[task[v][k] EXCEPT !.pc = "save", !.out = o] : o \in {"ok", "error"}}
    \cup {[task[v][k] EXCEPT !.pc = "send"]}

\* An answer, an error not worth a retry, or a retryable error of the last
\* attempt makes the job's row; another retryable error is tried again.
Outcomes(v, k) ==
  LET t == task[v][k] IN
  {[t EXCEPT !.pc = "save", !.out = o] : o \in {"ok", "error"}}
    \cup (IF t.attempt < MaxAttempts - 1
          THEN {[t EXCEPT !.pc = "ensure", !.attempt = @ + 1]} ELSE {})

Receive(v, k) ==
  /\ task[v][k].pc = "wait"
  /\ \E t \in Outcomes(v, k) : SetTask(v, k, t)
  /\ UNCHANGED <<rowVars, owner, pc, aborted, rows, taken, sent, vaultVars>>

\* The signal ends a request as a lost lease.
RequestAborted(v, k) ==
  /\ task[v][k].pc \in {"send", "wait"} /\ aborted[v] # "no"
  /\ Throw(v, k, "lost")
  /\ UNCHANGED <<rowVars, owner, rows, taken, sent, vaultVars>>

\* The signal ends a delay (a donated run's request slot, a retry's backoff)
\* with an AbortError, which is no LeaseLostError.
DelayAborted(v, k) ==
  /\ task[v][k].pc = "reserve" \/ (task[v][k].pc = "ensure" /\ task[v][k].attempt > 0)
  /\ aborted[v] # "no"
  /\ Throw(v, k, "error")
  /\ UNCHANGED <<rowVars, owner, rows, taken, sent, vaultVars>>

SaveObservation(v, k) ==
  LET t == task[v][k] IN
  /\ t.pc = "save"
  /\ Answer(v) = "held"
  /\ SaveObservations([j \in Jobs |-> IF j = t.job THEN t.out ELSE "none"])
  /\ SetTask(v, k, [t EXCEPT !.pc = "progress"])
  /\ UNCHANGED <<owner, pc, aborted, rows, taken, sent, vaultVars>>

\* A leased store call of a loop answers 404 or LeaseLostError.
LoopRefused(v, k) ==
  /\ task[v][k].pc \in {"announce", "reserve", "save", "progress"}
  /\ Answer(v) # "held"
  /\ Throw(v, k, IF Answer(v) = "lost" THEN "lost" ELSE "error")
  /\ UNCHANGED <<rowVars, owner, rows, taken, sent, vaultVars>>

\* A database error inside a loop.
LoopFails(v, k) ==
  /\ "error" \in Disturbances
  /\ task[v][k].pc \in {"announce", "ensure", "reserve", "save", "progress"}
  /\ Throw(v, k, "error")
  /\ UNCHANGED <<rowVars, owner, rows, taken, sent, vaultVars>>
-----------------------------------------------------------------------------
(* The heartbeat, the clocks and the process.                              *)

Heartbeat(v) ==
  /\ pc[v] \in Executing /\ aborted[v] = "no"
  /\ IF Renewable(owner[v], v)
     THEN RenewLease /\ UNCHANGED aborted
     ELSE Abort(v, "lease") /\ UNCHANGED rowVars
  /\ UNCHANGED <<owner, pc, rows, taken, task, sent, vaultVars>>

HeartbeatFails(v) ==
  /\ "error" \in Disturbances /\ Disruptable
  /\ pc[v] \in Executing /\ aborted[v] = "no"
  /\ Abort(v, "error")
  /\ UNCHANGED <<rowVars, owner, pc, rows, taken, task, sent, vaultVars>>

\* The lease runs out, by both clocks or, where they differ, by one of them.
LeaseExpires ==
  /\ Disruptable
  /\ dbLive \/ appLive
  /\ \/ dbLive' = FALSE /\ appLive' = FALSE
     \/ "skew" \in Disturbances /\ dbLive' = FALSE /\ UNCHANGED appLive
     \/ "skew" \in Disturbances /\ appLive' = FALSE /\ UNCHANGED dbLive
  /\ UNCHANGED <<status, holder, leaseVersion, handle, resultVars, execVars, vaultVars>>

\* The process goes, with every #execute and every loop it still runs.
StopWorker(w) ==
  /\ pc' = [v \in Versions |-> IF owner[v] = w THEN "ended" ELSE pc[v]]
  /\ task' = [v \in Versions |->
               IF owner[v] = w THEN [k \in Slots |-> IdleTask] ELSE task[v]]
  /\ interrupted' = (interrupted \/ \E v \in Versions : owner[v] = w /\ pc[v] = "cleanup")
  /\ UNCHANGED <<rowVars, owner, aborted, rows, taken, sent, envelopes, expired>>

Crash(w) ==
  /\ "crash" \in Disturbances /\ Disruptable
  /\ \E v \in Versions : owner[v] = w /\ (pc[v] # "ended" \/ ~LoopsIdle(v))
  /\ StopWorker(w)

\* finalize answers 404 inside the catch block: the error leaves run(), and
\* with it the process (worker.ts).
FailFinalizeThrows(v) ==
  /\ pc[v] = "failFinalize"
  /\ Answer(v) = "missing"
  /\ StopWorker(owner[v])
=============================================================================
