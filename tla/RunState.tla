------------------------------ MODULE RunState ------------------------------
(***************************************************************************)
(* The statuses of a private run and the table of legal moves between      *)
(* them: backend/src/contracts/common.ts and backend/src/domain/           *)
(* run-state.ts.  "none" and "purged" are no statuses of the code: they    *)
(* say that the row does not exist yet, or does not exist any more.        *)
(***************************************************************************)

RunStatus == {"queued", "provisioning", "running", "scoring", "completed",
              "failed", "cancelled", "timed_out", "incomplete", "deleted"}

\* The statuses in which a worker holds, or has lost, a lease on the run.
ActiveStatus == {"provisioning", "running", "scoring"}

\* The statuses whose arrival stamps finished_at and clears the lease.
FinishedStatus == {"completed", "failed", "cancelled", "timed_out", "incomplete"}

TerminalStatus == FinishedStatus \cup {"deleted"}

RowState == RunStatus \cup {"none", "purged"}

TransitionsFrom(s) ==
  CASE s = "queued"       -> {"provisioning", "cancelled", "timed_out", "failed", "deleted"}
    [] s = "provisioning" -> {"running", "cancelled", "timed_out", "failed"}
    [] s = "running"      -> {"scoring", "cancelled", "timed_out", "failed", "incomplete"}
    [] s = "scoring"      -> {"completed", "failed", "cancelled", "incomplete", "timed_out"}
    [] s \in FinishedStatus -> {"deleted"}
    [] OTHER              -> {}

CanTransition(from, to) == to \in TransitionsFrom(from)
=============================================================================
