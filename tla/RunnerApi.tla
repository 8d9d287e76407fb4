------------------------------ MODULE RunnerApi ------------------------------
(***************************************************************************)
(* ObservatoryApi over the sessions of the local runner: creating a run    *)
(* under an idempotency key, looking at it, and cancelling it. The api     *)
(* keeps its runs in memory, under its own lock; the session is behind the *)
(* lock of AppState, so what a call has seen of it may be old when it is   *)
(* used. Every look at a run (events, report) is one refresh.              *)
(***************************************************************************)
EXTENDS Runner

CONSTANTS Keys,        \* idempotency keys, each with its quote
          Callers,     \* HTTP requests
          MaxSessions  \* bound: sessions started

NoCaller == "none"

ASSUME ApiAssumption == NoCaller \notin Callers

VARIABLES sid,    \* the session AppState shows
          made,   \* how many sessions have a row in a database
          runs,   \* the run of each key
          owner,  \* _pending_runs: the call that creates the run of the key
          call    \* the requests under way

apivars == <<vars, sid, made, runs, owner, call>>
session == <<vars, sid, made>>

NoRun == [sid |-> 0, status |-> "none", report |-> "none", snap |-> <<>>]
Free == [pc |-> "free", key |-> "none", sid |-> 0, seen |-> <<>>, cancel |-> FALSE]
Terminal == {"completed", "cancelled", "failed", "incomplete"}

\* main.pc is "closed" as long as AppState has no session and no store: before
\* the first start, and after one that has failed.
Detached == main.pc = "closed"

ApiInit ==
    /\ CreateSession
    /\ kind = "single"
    /\ main = [AtStart EXCEPT !.pc = "closed"] /\ pool = {} /\ thread = Threads
    /\ signal = NoSignal
    /\ noted = "idle" /\ lock = FALSE
    /\ faults = [store |-> 0, crash |-> 0]
    /\ sid = 0 /\ made = 0
    /\ runs = [k \in Keys |-> NoRun]
    /\ owner = [k \in Keys |-> NoCaller]
    /\ call = [c \in Callers |-> Free]

ToStep(c, pc) == call' = [call EXCEPT ![c].pc = pc]

\* Mutant of Create: nobody waits for the call that creates the run.
CreateAtOnce(c, k) ==
    /\ call[c].pc = "free" /\ runs[k] = NoRun
    /\ owner' = [owner EXCEPT ![k] = c]
    /\ call' = [call EXCEPT ![c].pc = "start", ![c].key = k]
    /\ UNCHANGED <<session, runs>>

(* create_run: the run there is, the turn of another call, or one's own.   *)
Create(c, k) ==
    /\ call[c].pc = "free" /\ runs[k] = NoRun
    /\ IF owner[k] = NoCaller
       THEN owner' = [owner EXCEPT ![k] = c] /\ call' = [call EXCEPT ![c].pc = "start", ![c].key = k]
       ELSE UNCHANGED owner /\ call' = [call EXCEPT ![c].pc = "wait", ![c].key = k]
    /\ UNCHANGED <<session, runs>>

(* The owner ends: whoever waited for it is woken.                         *)
Release(c, k) ==
    /\ owner' = [owner EXCEPT ![k] = NoCaller]
    /\ call' = [d \in Callers |->
                  IF d = c \/ call[d].key # k \/ call[d].pc # "wait"
                  THEN IF d = c THEN Free ELSE call[d]
                  ELSE [call[d] EXCEPT !.pc = "woken"]]

(* _start_detector goes on by what safe_status shows: a row, or what was   *)
(* noted of the session that was dropped.                                  *)
MayBegin ==
    /\ ~lock
    /\ (IF Detached THEN noted ELSE status) \notin {"running", "stopping", "interrupted"}

NewSession ==
    /\ MayBegin
    /\ made < MaxSessions
    /\ made' = made + 1 /\ sid' = made'
    /\ status' = "running" /\ report' = None
    /\ job' = [j \in Jobs |-> "absent"]
    /\ attempt' = [j \in Jobs |-> [n \in Numbers |-> "none"]]
    /\ begun' = {} /\ over' = {}
    /\ Begin
    /\ noted' = "running"
    /\ UNCHANGED <<lock, faults, kind>>

(* DetectorSession raises when the session before it is already closed and *)
(* dropped: before its row is written or after it, and when a session is   *)
(* resumed, before the row is running, before the attempts are reconciled  *)
(* or after it. AppState goes on to show the session that was there.       *)
FailedNew ==
    /\ MayBegin
    /\ Close \/ (Detached /\ UNCHANGED vars)
    /\ made' \in made..MaxSessions /\ made' <= made + 1

FailedResume ==
    /\ main.pc = "dead" /\ status = "interrupted"
    /\ UNCHANGED store \/ SetStatus("running") \/ Reopen
    /\ Drop
    /\ UNCHANGED made

(* The quote may be invalid, the server busy, the configuration another    *)
(* than the one of the session that was interrupted.                       *)
StartRun(c) ==
    LET k == call[c].key IN
    /\ call[c].pc = "start"
    /\ \/ Release(c, k) /\ UNCHANGED session
       \/ Release(c, k) /\ (FailedNew \/ FailedResume) /\ UNCHANGED sid
       \/ /\ NewSession \/ (Resume /\ UNCHANGED <<sid, made>>)
          /\ call' = [call EXCEPT ![c].pc = "record", ![c].sid = sid']
          /\ UNCHANGED owner
    /\ UNCHANGED runs

RecordRun(c) ==
    LET k == call[c].key IN
    /\ call[c].pc = "record"
    /\ runs' = [runs EXCEPT ![k] = [NoRun EXCEPT !.sid = call[c].sid, !.status = "running"]]
    /\ Release(c, k)
    /\ UNCHANGED session

(* A follower returns the run, or raises the error of its owner.           *)
Follow(c) ==
    /\ call[c].pc = "woken"
    /\ call' = [call EXCEPT ![c] = Free]
    /\ UNCHANGED <<session, runs, owner>>
-----------------------------------------------------------------------------
(* _refresh: what the server shows is read, then applied under the lock,   *)
(* then the report is read and cached.                                     *)
Seen == IF Detached THEN <<noted, "nothing">>
        ELSE <<status, IF report = None THEN "progress" ELSE "report">>

Look(c, k, cancel) ==
    /\ call[c].pc = "free" /\ runs[k] # NoRun
    /\ sid = runs[k].sid
    /\ call' = [call EXCEPT ![c] = [pc |-> "apply", key |-> k, sid |-> sid, cancel |-> cancel,
                                    seen |-> Seen]]
    /\ UNCHANGED <<session, runs, owner>>

PrivateStatus(s) ==
    CASE s \in {"running", "stopping"} -> "running"
      [] s = "complete" -> "completed"
      [] s = "stopped" -> "cancelled"
      [] s = "interrupted" -> "incomplete"
      [] OTHER -> "failed"

\* Mutant of Apply: what is new is written over the whole run.
ApplyAnew(c) ==
    LET k == call[c].key  seen == call[c].seen IN
    /\ call[c].pc = "apply"
    /\ runs' = IF runs[k].sid # call[c].sid \/ seen = runs[k].snap THEN runs
               ELSE [runs EXCEPT ![k] = [sid |-> @.sid, status |-> PrivateStatus(seen[1]),
                                         report |-> "none", snap |-> seen]]
    /\ ToStep(c, "cache")
    /\ UNCHANGED <<session, owner>>

Apply(c) ==
    LET k == call[c].key  seen == call[c].seen IN
    /\ call[c].pc = "apply"
    /\ runs' = IF runs[k].sid # call[c].sid \/ seen = runs[k].snap THEN runs
               ELSE [runs EXCEPT ![k].status = PrivateStatus(seen[1]), ![k].snap = seen]
    /\ ToStep(c, "cache")
    /\ UNCHANGED <<session, owner>>

(* _cache_report: cancelled jobs count as done, and not as errors.         *)
StatusOf(r) ==
    LET told(s) == \E x \in r.jobs : x[2] = s IN
    CASE r.stopped -> "cancelled"
      [] ~r.stopped /\ told("pending") -> "incomplete"
      [] ~r.stopped /\ ~told("pending") /\ told("error") ->
            IF told("ok") THEN "incomplete" ELSE "failed"
      [] OTHER -> "completed"

(* The store is the one of the session the server shows now, if it has any. *)
ToldOf(s) == ~Detached /\ sid = s /\ report # None

\* Mutant of Cache: a report that is kept without its status.
CacheReportOnly(c) ==
    LET k == call[c].key IN
    /\ call[c].pc = "cache"
    /\ runs' = IF ToldOf(call[c].sid) /\ runs[k].sid = call[c].sid
               THEN [runs EXCEPT ![k].report = StatusOf(report)] ELSE runs
    /\ call' = [call EXCEPT ![c] = IF @.cancel THEN [@ EXCEPT !.pc = "compare"] ELSE Free]
    /\ UNCHANGED <<session, owner>>

Cache(c) ==
    LET k == call[c].key
        told == ToldOf(call[c].sid)
        s == IF told THEN StatusOf(report) ELSE "failed"
    IN
    /\ call[c].pc = "cache"
    /\ runs' = IF /\ runs[k].sid = call[c].sid
                  /\ told \/ PrivateStatus(call[c].seen[1]) = "failed"
               THEN [runs EXCEPT ![k].status = s, ![k].report = s]
               ELSE runs
    /\ call' = [call EXCEPT ![c] = IF @.cancel THEN [@ EXCEPT !.pc = "compare"] ELSE Free]
    /\ UNCHANGED <<session, owner>>

(* cancel: a run that has ended is left alone, and so is another session.  *)
Compare(c) ==
    LET ended(r) == r.sid = call[c].sid /\ r.status \in Terminal IN
    /\ call[c].pc = "compare"
    /\ call' = [call EXCEPT ![c] = IF ended(runs[@.key]) \/ sid # @.sid THEN Free
                                   ELSE [@ EXCEPT !.pc = "stop"]]
    /\ UNCHANGED <<session, runs, owner>>

(* stopper(): _stop_detector stops the session it finds.                   *)
Stop(c) ==
    /\ call[c].pc = "stop"
    /\ \/ StopRequested
       \/ ~lock /\ (noted # "running" \/ main.pc \in {"dead", "closed"}) /\ UNCHANGED vars
    /\ call' = [call EXCEPT ![c] = Free]
    /\ UNCHANGED <<sid, made, runs, owner>>

Expire(k) ==
    /\ runs[k] # NoRun
    /\ runs' = [runs EXCEPT ![k] = NoRun]
    /\ UNCHANGED <<session, owner, call>>

(* The newest session is restored: the one that was shown, or one that has *)
(* a row although its start has failed.                                    *)
RestoreNewest ==
    /\ Detached /\ made # 0
    /\ sid' = made
    /\ IF made = sid THEN RestoreSession
       ELSE /\ status' = "interrupted" /\ report' = None
            /\ job' = [j \in Jobs |-> "absent"]
            /\ attempt' = [j \in Jobs |-> [n \in Numbers |-> "none"]]
            /\ begun' = {} /\ over' = {}
    /\ Die

Restarted ==
    /\ (Crash /\ UNCHANGED sid) \/ RestoreNewest
    /\ runs' = [k \in Keys |-> NoRun]
    /\ owner' = [k \in Keys |-> NoCaller]
    /\ call' = [c \in Callers |-> Free]
    /\ UNCHANGED made

Session ==
    /\ \/ Main \/ StopRecorded
       \/ \E j \in Jobs : Thread(j) \/ Raise(j)
    /\ UNCHANGED <<sid, made, runs, owner, call>>

Caller(c) == StartRun(c) \/ RecordRun(c) \/ Follow(c) \/ Apply(c) \/ Cache(c)
             \/ Compare(c) \/ Stop(c)

ApiNext ==
    \/ Session
    \/ Restarted
    \/ \E k \in Keys : Expire(k)
    \/ \E c \in Callers : Caller(c)
    \/ \E c \in Callers, k \in Keys : Create(c, k) \/ \E x \in BOOLEAN : Look(c, k, x)

ApiSpec == ApiInit /\ [][ApiNext]_apivars
-----------------------------------------------------------------------------
(* One call at a time creates the run of a key, and none once it is there, *)
(* whichever calls fail, wait or are retried.                              *)
SingleFlight ==
    \A k \in Keys :
        LET creating == {c \in Callers : call[c].key = k /\ call[c].pc \in {"start", "record"}} IN
        /\ Cardinality(creating) <= 1
        /\ creating # {} => runs[k] = NoRun

(* A report that a caller may have read does not change afterwards (unless *)
(* the session was resumed with the report of its first life).             *)
ReportStays ==
    [][\A k \in Keys : faults.crash = 0 /\ runs[k].report # "none" /\ runs'[k] # NoRun
            => runs'[k].report = runs[k].report]_runs

(* Once every look is over, a run that has the report of its session has   *)
(* the status of it, as long as the server has that session. (A session    *)
(* that failed has no report: there a late look brings "running" back. A   *)
(* start that fails drops the session: there a look brings the status that *)
(* was noted, whatever the report says.)                                   *)
StatusIsTheReports ==
    \A k \in Keys :
        /\ runs[k].report # "none" /\ runs[k].sid = sid /\ report # None
        /\ ~Detached
        /\ \A c \in Callers : call[c].key # k
        => runs[k].status = runs[k].report
=============================================================================
