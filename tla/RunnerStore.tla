----------------------------- MODULE RunnerStore -----------------------------
(***************************************************************************)
(* The state.sqlite3 of one session of the local runner: its row in        *)
(* sessions, its jobs, the HTTP attempts of each job and the cycles that   *)
(* its events say began and ended. Every write is one call of the single   *)
(* writer thread, hence one step. A result is written with the status of   *)
(* its job, so the status stands for both; when the stop was requested and *)
(* what the results hold are left out.                                     *)
(***************************************************************************)
EXTENDS Integers, Sequences, FiniteSets

CONSTANTS Widths,  \* jobs of each cycle of a continuous run (a bound), of each
                   \* window of a generator; a single run has the first alone
          Retries  \* config["retries"]

ASSUME RunnerAssumption == Widths \in Seq(Nat \ {0}) /\ Widths # <<>> /\ Retries \in Nat

Cycles == Len(Widths)
Jobs == UNION {{c} \X (1..Widths[c]) : c \in 1..Cycles}
Numbers == 1..(Retries + 1)
JobsOf(c) == {j \in Jobs : j[1] = c}

VARIABLES status,   \* sessions.status
          report,   \* sessions.report_json: what it says of the jobs, or None
          job,      \* jobs.status, or "absent"
          attempt,  \* attempts.status by attempt_no, or "none"
          begun,    \* cycles that were frozen
          over      \* cycles with a cycle_end event

store == <<status, report, job, attempt, begun, over>>

None == [stopped |-> FALSE, jobs |-> {}]
Settled == {"ok", "error", "cancelled"}
Used(j) == {n \in Numbers : attempt[j][n] # "none"}
Pending(S) == {j \in S : job[j] = "pending"}
Sendable(S) == {j \in Pending(S) : Used(j) # Numbers}

(* create_session, then reconcile_incomplete_attempts finds nothing.       *)
CreateSession ==
    /\ status = "running"
    /\ report = None
    /\ job = [j \in Jobs |-> "absent"]
    /\ attempt = [j \in Jobs |-> [n \in Numbers |-> "none"]]
    /\ begun = {} /\ over = {}

SetStatus(s) == status' = s /\ UNCHANGED <<report, job, attempt, begun, over>>

SaveReport(stopped) ==
    /\ report' = [stopped |-> stopped, jobs |-> {<<j, job[j]>> : j \in Jobs}]
    /\ UNCHANGED <<status, job, attempt, begun, over>>

FreezeJobs(c, S) ==
    /\ job' = [j \in Jobs |-> IF j \in S THEN "pending" ELSE job[j]]
    /\ begun' = begun \cup {c}
    /\ UNCHANGED <<status, report, attempt, over>>

EndCycle(c) ==
    /\ over' = over \cup {c}
    /\ UNCHANGED <<status, report, job, attempt, begun>>

(* next_attempt_number: the greatest number used, plus one.                *)
NextAttempt(j) == CHOOSE n \in 1..(Retries + 2) :
                     n - 1 \in Used(j) \cup {0} /\ \A m \in Used(j) : m < n

\* Mutant of MayStart: the status of the job is not looked at.
MayStartAnyway(j, n) == n \in Numbers /\ attempt[j][n] = "none"

(* Refused over the budget and once the job is settled; the number is      *)
(* unique.                                                                 *)
MayStart(j, n) == n \in Numbers /\ job[j] = "pending" /\ attempt[j][n] = "none"

StartAttempt(j, n) ==
    /\ attempt' = [attempt EXCEPT ![j][n] = "running"]
    /\ UNCHANGED <<status, report, job, begun, over>>

\* Mutant of FinishAttempt: only the attempt is checked to be running.
FinishRunningAttempt(j, n, result, outcome) ==
    LET live == attempt[j][n] = "running" IN
    /\ attempt' = IF live THEN [attempt EXCEPT ![j][n] = result] ELSE attempt
    /\ job' = IF live /\ outcome # "none" /\ job[j] = "pending"
              THEN [job EXCEPT ![j] = outcome] ELSE job
    /\ UNCHANGED <<status, report, begun, over>>

(* Nothing happens to an attempt, or to a job, that was ended meanwhile.   *)
FinishAttempt(j, n, result, outcome) ==
    LET live == attempt[j][n] = "running" /\ job[j] = "pending" IN
    /\ attempt' = IF live THEN [attempt EXCEPT ![j][n] = result] ELSE attempt
    /\ job' = IF live /\ outcome # "none" THEN [job EXCEPT ![j] = outcome] ELSE job
    /\ UNCHANGED <<status, report, begun, over>>

RecordCancelled(j) ==
    /\ job' = IF job[j] = "pending" THEN [job EXCEPT ![j] = "cancelled"] ELSE job
    /\ UNCHANGED <<status, report, attempt, begun, over>>

CancelRunningAttempts(S) ==
    /\ attempt' = [j \in Jobs |-> [n \in Numbers |->
                     IF j \in S /\ attempt[j][n] = "running" THEN "cancelled"
                     ELSE attempt[j][n]]]
    /\ UNCHANGED <<status, report, job, begun, over>>

\* Mutant of Reopen: nothing is reconciled.
ReopenAsItIs == SetStatus("running")

(* A session is opened again: the attempts the last process left running   *)
(* count against the budget, and a job that has none left is an error.     *)
Reopen ==
    /\ status' = "running"
    /\ attempt' = [j \in Jobs |-> [n \in Numbers |->
                     IF attempt[j][n] = "running" THEN "error" ELSE attempt[j][n]]]
    /\ job' = [j \in Jobs |-> IF j \in Pending(Jobs) \ Sendable(Jobs) THEN "error"
                              ELSE job[j]]
    /\ UNCHANGED <<report, begun, over>>
=============================================================================
