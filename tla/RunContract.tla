---------------------------- MODULE RunContract -----------------------------
(***************************************************************************)
(* What a private run promises its owner, whatever becomes of the workers  *)
(* and of the handlers: an abstract specification of the run without       *)
(* workers, leases, calls or clocks.  RunLifecycle implements it.          *)
(*                                                                         *)
(* A run is open until it stops for good.  While it is open a job that has *)
(* no result may be charged one more upstream call, up to its budget, and  *)
(* a job that was charged may get its result, once.  A run that stops      *)
(* changes neither any more; what its report quotes is what it stored.     *)
(***************************************************************************)
EXTENDS Naturals

CONSTANTS Jobs, Budget

VARIABLES
  state,     \* "none", "open", how the run stopped, or "purged"
  bill,      \* upstream calls charged to each job
  results,   \* the result of each job
  filed      \* the report

contractVars == <<state, bill, results, filed>>

Nothing  == [j \in Jobs |-> "none"]
NoFiling == [status |-> "none", rows |-> Nothing]
Stopped  == {"completed", "incomplete", "failed", "cancelled", "timed_out"}

Init ==
  /\ state = "none"
  /\ bill = [j \in Jobs |-> 0]
  /\ results = Nothing
  /\ filed = NoFiling

Accept ==
  /\ state = "none"
  /\ state' = "open"
  /\ UNCHANGED <<bill, results, filed>>

Charge(j) ==
  /\ state = "open" /\ results[j] = "none" /\ bill[j] < Budget
  /\ bill' = [bill EXCEPT ![j] = @ + 1]
  /\ UNCHANGED <<state, results, filed>>

Settle(j) ==
  /\ state = "open" /\ results[j] = "none" /\ bill[j] > 0
  /\ \E o \in {"ok", "error"} : results' = [results EXCEPT ![j] = o]
  /\ UNCHANGED <<state, bill, filed>>

\* A run that was worked to its end has a result for every job.
Conclude(s) ==
  /\ state = "open"
  /\ \A j \in Jobs : results[j] # "none"
  /\ s = "completed"  => \A j \in Jobs : results[j] = "ok"
  /\ s = "incomplete" => \E i, j \in Jobs : results[i] = "ok" /\ results[j] = "error"
  /\ s = "failed"     => \A j \in Jobs : results[j] = "error"
  /\ state' = s
  /\ filed' = [status |-> s, rows |-> results]
  /\ UNCHANGED <<bill, results>>

\* A run that could not be worked to its end fails with an empty report.
GiveUp ==
  /\ state = "open"
  /\ state' = "failed"
  /\ filed' = [status |-> "failed", rows |-> Nothing]
  /\ UNCHANGED <<bill, results>>

Stop(s) ==
  /\ state = "open"
  /\ state' = s
  /\ UNCHANGED <<bill, results, filed>>

FileCancellation ==
  /\ state \in {"cancelled", "deleted"} /\ filed = NoFiling
  /\ filed' = [status |-> "cancelled", rows |-> results]
  /\ UNCHANGED <<state, bill, results>>

Delete ==
  /\ state \in Stopped
  /\ state' = "deleted"
  /\ UNCHANGED <<bill, results, filed>>

Erase ==
  /\ state # "none"
  /\ state' = "purged"
  /\ bill' = [j \in Jobs |-> 0]
  /\ results' = Nothing
  /\ filed' = NoFiling

Next ==
  \/ Accept
  \/ \E j \in Jobs : Charge(j) \/ Settle(j)
  \/ \E s \in {"completed", "incomplete", "failed"} : Conclude(s)
  \/ GiveUp
  \/ \E s \in {"cancelled", "timed_out"} : Stop(s)
  \/ FileCancellation
  \/ Delete
  \/ Erase

Spec == Init /\ [][Next]_contractVars
=============================================================================
