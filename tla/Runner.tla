------------------------------- MODULE Runner -------------------------------
(***************************************************************************)
(* The run thread of a session (run_single, run_continuous, the            *)
(* generator's run, and _run_jobs under all three), the requests that stop *)
(* it and open it again, and the death of the process. What the three      *)
(* runs promise of each job is JobContract.                                *)
(***************************************************************************)
EXTENDS RunnerSession

(* The next cycle and its jobs. A single run has one cycle, a generator    *)
(* one per window in order; a continuous run goes on with the last cycle   *)
(* that did not end, or draws the jobs of a new one.                       *)
NextCycle ==
    CASE kind = "single" -> 1
      [] kind = "generator" -> main.cycle + 1
      [] kind = "continuous" /\ begun \ over # {} ->
            CHOOSE c \in begun \ over : \A d \in begun \ over : d <= c
      [] OTHER -> Cardinality(begun) + 1

Enter(c) == main' = [main EXCEPT !.pc = "queue", !.cycle = c]

BeginCycle ==
    /\ main.pc = "cycle"
    /\ \/ /\ kind = "single" \/ ~signal.stop
          /\ NextCycle \in 1..Cycles
          /\ Enter(NextCycle)
          /\ IF NextCycle \in begun THEN UNCHANGED store
             ELSE \E S \in IF kind = "continuous" THEN SUBSET JobsOf(NextCycle)
                           ELSE {JobsOf(NextCycle)} : FreezeJobs(NextCycle, S)
       \/ kind # "single" /\ signal.stop /\ Go("report") /\ UNCHANGED store
    /\ UNCHANGED <<pool, thread, signal, server>>

(* _run_jobs returns at once when no job is pending.                       *)
Queue ==
    /\ main.pc = "queue"
    /\ LET S == Sendable(JobsOf(main.cycle)) IN
       main' = [main EXCEPT !.pc = IF S = {} THEN "cycled" ELSE "pool", !.queue = S]
    /\ UNCHANGED <<store, pool, thread, signal, server>>

(* submit_next: in the order of the manifest, while there is a worker.     *)
Submit ==
    /\ main.pc = "pool" /\ ~signal.stop
    /\ Cardinality(pool) < Workers
    /\ \E j \in main.queue :
       /\ \A i \in main.queue : j[2] <= i[2]
       /\ main' = [main EXCEPT !.queue = @ \ {j}]
       /\ pool' = pool \cup {j}
       /\ thread' = [thread EXCEPT ![j] = [NoThread EXCEPT !.pc = "check",
                                                           !.n = NextAttempt(j)]]
    /\ UNCHANGED <<store, signal, server>>

(* future.result() raises what the thread raised.                          *)
Collect(j) ==
    /\ main.pc = "pool" /\ j \in pool
    /\ \/ thread[j].pc = "done" /\ UNCHANGED main
       \/ thread[j].pc = "raised" /\ main' = [main EXCEPT !.pc = "finally", !.failed = TRUE]
    /\ pool' = pool \ {j}
    /\ thread' = [thread EXCEPT ![j] = NoThread]
    /\ UNCHANGED <<store, signal, server>>

(* The loop ends with the futures, or three seconds after a stop.          *)
Leave ==
    /\ main.pc = "pool"
    /\ \/ pool = {} /\ (signal.stop \/ main.queue = {})
       \/ signal.stop /\ \A j \in pool : thread[j].pc \notin {"done", "raised"}
    /\ Go("finally")
    /\ UNCHANGED <<store, pool, thread, signal, server>>

\* Mutant of LeftOver: what was submitted is left to its thread.
LeftInQueue == main.queue

LeftOver == LET S == JobsOf(main.cycle) IN IF Detector THEN Pending(S) ELSE Sendable(S)

Finally ==
    /\ main.pc = "finally"
    /\ main' = IF signal.stop THEN [main EXCEPT !.pc = "sweep", !.todo = LeftOver]
               ELSE [main EXCEPT !.pc = IF main.failed THEN "failed" ELSE "cycled"]
    /\ UNCHANGED <<store, pool, thread, signal, server>>

Sweep ==
    /\ main.pc = "sweep"
    /\ \/ \E j \in main.todo : /\ RecordCancelled(j)
                               /\ main' = [main EXCEPT !.todo = @ \ {j}]
       \/ /\ main.todo = {}
          /\ CancelRunningAttempts(pool)
          /\ Go(IF main.failed THEN "failed" ELSE "cycled")
    /\ UNCHANGED <<pool, thread, signal, server>>

Cycled ==
    /\ main.pc = "cycled"
    /\ LET more == kind = "generator" /\ main.cycle < Cycles
                   /\ Sendable(JobsOf(main.cycle)) = {}
       IN  IF kind = "continuous" /\ ~signal.stop
           THEN EndCycle(main.cycle) /\ Go("file")
           ELSE UNCHANGED store /\ Go(IF more /\ ~signal.stop THEN "sleep" ELSE "report")
    /\ UNCHANGED <<pool, thread, signal, server>>

File == /\ main.pc = "file"
        /\ SaveReport(signal.stop) /\ Go("sleep")
        /\ UNCHANGED <<pool, thread, signal, server>>

(* The pause is cut short by a stop; the bound on cycles ends the model,   *)
(* not the program.                                                        *)
Wake ==
    /\ main.pc = "sleep"
    /\ signal.stop \/ main.cycle < Cycles
    /\ Go("cycle")
    /\ UNCHANGED <<store, pool, thread, signal, server>>

(* A detector files its report and then asks again whether it was stopped; *)
(* a generator decides once, from the counts.                              *)
Report ==
    /\ main.pc = "report"
    /\ IF Detector
       THEN SaveReport(signal.stop) /\ Go("status")
       ELSE /\ main' = [main EXCEPT !.pc = "status", !.final =
                 IF signal.fatal THEN "error"
                 ELSE IF signal.stop THEN "stopped"
                 ELSE IF begun # {} /\ ~\E j \in Jobs : job[j] = "ok" THEN "error"
                 ELSE "collected"]
            /\ UNCHANGED store
    /\ UNCHANGED <<pool, thread, signal, server>>

Status ==
    /\ main.pc = "status"
    /\ SetStatus(IF ~Detector THEN main.final ELSE IF signal.stop THEN "stopped" ELSE "complete")
    /\ Go("publish")
    /\ UNCHANGED <<pool, thread, signal, server>>

(* The exception of a detector is written to its row, a generator's only   *)
(* noted.                                                                  *)
Failed ==
    /\ main.pc = "failed"
    /\ IF Detector THEN SetStatus("error") ELSE UNCHANGED store
    /\ main' = [main EXCEPT !.pc = "publish", !.final = "error"]
    /\ UNCHANGED <<pool, thread, signal, server>>

(* Under the server's lock: the row of a detector, or what the generator's *)
(* run returned, is noted.                                                 *)
Publish ==
    /\ main.pc = "publish" /\ ~lock
    /\ noted' = IF Detector THEN status ELSE main.final
    /\ Go("ended")
    /\ UNCHANGED <<store, pool, thread, signal, lock, faults, kind>>

Main == \/ BeginCycle \/ Queue \/ Submit \/ (\E j \in Jobs : Collect(j)) \/ Leave \/ Finally
        \/ Sweep \/ Cycled \/ File \/ Wake \/ Report \/ Status \/ Failed \/ Publish
-----------------------------------------------------------------------------
(* _stop_detector: under the lock, the event and then the row.             *)
StopRequested ==
    /\ noted = "running" /\ ~lock /\ main.pc \notin {"dead", "closed"}
    /\ signal' = [signal EXCEPT !.stop = TRUE]
    /\ lock' = TRUE
    /\ UNCHANGED <<store, main, pool, thread, noted, faults, kind>>

StopRecorded ==
    /\ lock
    /\ SetStatus("stopping")
    /\ lock' = FALSE /\ noted' = "stopping"
    /\ UNCHANGED <<run, faults, kind>>

(* The process dies; the next one restores a session from its database.    *)
Die ==
    /\ faults.crash < MaxCrashes
    /\ main' = [AtStart EXCEPT !.pc = "dead"]
    /\ pool' = {} /\ thread' = Threads /\ signal' = NoSignal
    /\ noted' = status' /\ lock' = FALSE
    /\ faults' = [faults EXCEPT !.crash = @ + 1]
    /\ UNCHANGED kind

(* The session that was under way is marked, if it was unfinished.         *)
RestoreSession == SetStatus(IF status \in {"running", "stopping"} THEN "interrupted" ELSE status)

Crash == main.pc \notin {"dead", "closed"} /\ RestoreSession /\ Die

(* Starting opens the interrupted session again.                           *)
Resume ==
    /\ main.pc = "dead" /\ status = "interrupted"
    /\ Reopen
    /\ Begin
    /\ noted' = "running"
    /\ UNCHANGED <<lock, faults, kind>>

(* safe_status shows the row, and a detector starts by it; a generator     *)
(* starts by what was noted.                                               *)
Busy == (IF Detector THEN status ELSE noted) \in {"running", "stopping"}

(* The server closes the database of this session and drops it, whatever   *)
(* threads it has left: their writes raise, and nobody waits for them.     *)
Drop ==
    /\ main' = [main EXCEPT !.pc = "closed"]
    /\ thread' = Threads /\ pool' = {}
    /\ UNCHANGED <<signal, server>>

(* Starting another session, whether it starts or fails, drops this one.   *)
Close ==
    /\ main.pc # "closed" /\ ~Busy /\ status # "interrupted" /\ ~lock
    /\ Drop
    /\ UNCHANGED store

Next ==
    \/ Main
    \/ \E j \in Jobs : Thread(j) \/ Raise(j)
    \/ StopRequested \/ StopRecorded \/ Crash \/ Resume \/ Close

Spec == Init /\ [][Next]_vars
-----------------------------------------------------------------------------
Contract == INSTANCE JobContract WITH
    Budget <- Retries + 1, sent <- [j \in Jobs |-> Used(j)], outcome <- job

(* Restarts do not renew the budget of a job, a settled job is not sent    *)
(* again, and a thread left behind never changes what a stop recorded.     *)
KeepsJobContract == Contract!Spec

(* A job has its answer exactly when one of its attempts has: no answer is *)
(* kept of a cancelled job and none is lost between the two tables.        *)
AnswerIsStored ==
    \A j \in Jobs : job[j] = "ok" <=> \E n \in Numbers : attempt[j][n] = "ok"

(* At most one request of a job is under way, across restarts and threads  *)
(* left behind.                                                            *)
OneRequestAtATime ==
    \A j \in Jobs : Cardinality({n \in Numbers : attempt[j][n] = "running"}) <= 1

(* Once a detector has ended stopped or complete, nothing of the cycle it  *)
(* ran is pending, no attempt is open, and its report tells every job as   *)
(* it is and stays.                                                        *)
FinalReportIsExact ==
    Detector /\ main.pc = "ended" /\ status \in {"stopped", "complete"} =>
        /\ Pending(JobsOf(main.cycle)) = {}
        /\ \A j \in Jobs, n \in Numbers : attempt[j][n] # "running"
        /\ report.jobs = {<<j, job[j]>> : j \in Jobs}
=============================================================================
