---------------------------- MODULE RunnerSession ----------------------------
(***************************************************************************)
(* One session of the local runner in its process: DetectorSession (single *)
(* and continuous) and ProbeGeneratorSession, whose threads run the jobs   *)
(* of a cycle while the run thread waits for them, and the part of         *)
(* server.py that stops the session, shows its status and opens it again   *)
(* after the process died. A thread that outlives the grace period goes on *)
(* beside the run thread.                                                  *)
(***************************************************************************)
EXTENDS RunnerStore

CONSTANTS Kinds,      \* of the sessions considered
          Workers,    \* config["workers"]
          MaxFaults,  \* bound: store calls that raise
          MaxCrashes  \* bound: deaths of the process

VARIABLES kind,    \* "single", "continuous" or "generator"
          main,    \* the run thread: pc, cycle, jobs to submit, to cancel, ...
          pool,    \* futures: jobs submitted and not yet waited for
          thread,  \* per job: _execute_job in its thread
          signal,  \* stop_event, and the generator's _fatal_error
          noted,   \* AppState.detector["status"], which the server keeps beside the row
          lock,    \* a stop request holds the server's lock
          faults   \* how many of either kind there were

run == <<main, pool, thread, signal>>
server == <<noted, lock, faults, kind>>
vars == <<store, run, server>>

NoThread == [pc |-> "none", n |-> 0, result |-> "none", outcome |-> "none", halt |-> FALSE]
AtStart == [pc |-> "cycle", cycle |-> 0, queue |-> {}, todo |-> {}, failed |-> FALSE,
            final |-> "none"]
Threads == [j \in Jobs |-> NoThread]
NoSignal == [stop |-> FALSE, fatal |-> FALSE]
Detector == kind # "generator"
Rest == {"ended", "dead", "closed"}

Begin ==
    /\ main' = AtStart
    /\ pool' = {}
    /\ thread' = Threads
    /\ signal' = NoSignal

Init ==
    /\ CreateSession
    /\ kind \in Kinds
    /\ main = AtStart /\ pool = {} /\ thread = Threads /\ signal = NoSignal
    /\ noted = "running" /\ lock = FALSE
    /\ faults = [store |-> 0, crash |-> 0]

Go(pc) == main' = [main EXCEPT !.pc = pc]
Step(j, pc) == thread' = [thread EXCEPT ![j].pc = pc]
-----------------------------------------------------------------------------
(* A thread: _execute_job. The checks of the stop event before an attempt. *)
Check(j) ==
    /\ thread[j].pc = "check"
    /\ IF signal.stop
       THEN RecordCancelled(j) /\ Step(j, "done")
       ELSE UNCHANGED store /\ Step(j, "start")
    /\ UNCHANGED <<main, pool, signal, server>>

Start(j) ==
    /\ thread[j].pc = "start"
    /\ IF MayStart(j, thread[j].n)
       THEN StartAttempt(j, thread[j].n) /\ Step(j, "sent")
       ELSE UNCHANGED store /\ Step(j, "raised")
    /\ UNCHANGED <<main, pool, signal, server>>

Decide(j, result, outcome, halt) ==
    thread' = [thread EXCEPT ![j] = [@ EXCEPT !.pc = "finish", !.result = result,
                                              !.outcome = outcome, !.halt = halt]]

(* The request ends, in the end by its timeout, and the stop event decides *)
(* what becomes of it. "denied" is a 401 or 403, "unsaved" an exchange the *)
(* retention could not write.                                              *)
Answer(j) ==
    /\ thread[j].pc = "sent"
    /\ IF signal.stop THEN Decide(j, "cancelled", "cancelled", FALSE)
                      ELSE Decide(j, "ok", "ok", FALSE)
    /\ UNCHANGED <<store, main, pool, signal, server>>

Fail(j, reply) ==
    /\ thread[j].pc = "sent"
    /\ reply = "unsaved" => Detector
    /\ IF Detector
       THEN CASE signal.stop -> Decide(j, "error", "cancelled", FALSE)
              [] ~signal.stop /\ reply = "retryable" /\ thread[j].n <= Retries ->
                    Decide(j, "error", "none", FALSE)
              [] OTHER -> Decide(j, "error", "error", reply \in {"denied", "unsaved"})
       ELSE IF reply = "retryable" /\ thread[j].n <= Retries /\ ~signal.stop
            THEN Decide(j, "error", "none", FALSE)
            ELSE Decide(j, "error", "error", FALSE)
    /\ signal' = IF ~Detector /\ reply = "denied" THEN [stop |-> TRUE, fatal |-> TRUE]
                 ELSE signal
    /\ UNCHANGED <<store, main, pool, server>>

Finish(j) ==
    LET t == thread[j] IN
    /\ t.pc = "finish"
    /\ FinishAttempt(j, t.n, t.result, t.outcome)
    /\ thread' = [thread EXCEPT ![j] =
                    IF t.halt THEN [NoThread EXCEPT !.pc = "halt"]
                    ELSE IF t.outcome = "none" THEN [NoThread EXCEPT !.pc = "check", !.n = t.n + 1]
                    ELSE [NoThread EXCEPT !.pc = "done"]]
    /\ signal' = [signal EXCEPT !.stop = @ \/ t.halt]
    /\ UNCHANGED <<main, pool, server>>

Halt(j) ==
    /\ thread[j].pc = "halt"
    /\ SetStatus("stopping")
    /\ Step(j, "done")
    /\ UNCHANGED <<main, pool, signal, server>>

(* A write that raises. Storing an answer is inside the try, so the answer *)
(* becomes an error; anything else ends the thread.                        *)
Raise(j) ==
    /\ thread[j].pc \in {"start", "finish", "halt"}
    /\ faults.store < MaxFaults
    /\ faults' = [faults EXCEPT !.store = @ + 1]
    /\ IF thread[j].pc = "finish" /\ thread[j].result = "ok"
       THEN Decide(j, "error", IF signal.stop /\ Detector THEN "cancelled" ELSE "error", FALSE)
       ELSE Step(j, "raised")
    /\ UNCHANGED <<store, main, pool, signal, noted, lock, kind>>

Thread(j) == Check(j) \/ Start(j) \/ Answer(j) \/ Finish(j) \/ Halt(j)
             \/ \E r \in {"retryable", "final", "denied", "unsaved"} : Fail(j, r)
=============================================================================
