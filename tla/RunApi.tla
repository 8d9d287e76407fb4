------------------------------- MODULE RunApi -------------------------------
(***************************************************************************)
(* The private-run handlers of backend/src/routes/private-runs.ts and the  *)
(* retention sweep of backend/src/app.ts, for one run.  A handler keeps    *)
(* what it read in local variables across its awaits; each await is a step *)
(* of its own, so any two handlers, and the workers, interleave.           *)
(***************************************************************************)
EXTENDS RunStore, CredentialVault

CONSTANT Calls   \* the owner's calls on the run after it was created

VARIABLES
  request,       \* where each POST /private-runs is
  call           \* where each owner call is, and what it remembers

apiVars == <<request, call>>

RequestPc == {"idle", "create", "discard", "done"}
CallPc == {"idle", "timeOut", "delete", "deleteEnvelope", "purge", "cancel",
           "getReport", "listRows", "saveReport", "dropEnvelope", "done"}

IdleCall == [pc |-> "idle", seen |-> "none", rows |-> NoRows]

ApiTypeOK ==
  /\ request \in [Requests -> RequestPc]
  /\ call \in [Calls -> [pc : CallPc, seen : RowState, rows : [Jobs -> Outcome]]]

ApiInit ==
  /\ request = [r \in Requests |-> "idle"]
  /\ call = [c \in Calls |-> IdleCall]

\* The call has ended the run, or found it ended, and vault.delete is ahead.
OwesDelete(c) == call[c].pc \in {"getReport", "listRows", "saveReport",
                                 "dropEnvelope", "deleteEnvelope"}

RequestTo(r, label) == request' = [request EXCEPT ![r] = label]
CallTo(c, label)    == call' = [call EXCEPT ![c].pc = label]
CallEnds(c)         == call' = [call EXCEPT ![c] = [IdleCall EXCEPT !.pc = "done"]]
-----------------------------------------------------------------------------
(* POST /private-runs.                                                     *)

PutCredential(r) ==
  /\ request[r] = "idle"
  /\ ~expired
  /\ PutEnvelope(r)
  /\ RequestTo(r, "create")
  /\ UNCHANGED <<rowVars, call, expired, interrupted>>

CreateRun(r) ==
  /\ request[r] = "create"
  /\ InsertRun(r)
  /\ \/ RequestTo(r, "done") /\ UNCHANGED interrupted
     \/ \* the commit succeeds and its answer is lost
        /\ "lostAnswer" \in Disturbances
        /\ RequestTo(r, "discard")
        /\ interrupted' = TRUE
  /\ UNCHANGED <<call, envelopes, expired>>

\* The key is taken (by the same request or another: both give up their own
\* envelope), or the insert fails.  A key that is free again because the run
\* was purged would start another run, which is not this one.
CreateRefused(r) ==
  /\ request[r] = "create"
  /\ status # "none" \/ "cutOff" \in Disturbances
  /\ RequestTo(r, "discard")
  /\ UNCHANGED <<rowVars, call, vaultVars>>

\* Mutant of DiscardEnvelope: the envelope of the stored record goes instead.
DiscardStoredEnvelope(r) ==
  /\ request[r] = "discard"
  /\ DeleteEnvelope(handle)
  /\ RequestTo(r, "done")
  /\ UNCHANGED <<rowVars, call, expired, interrupted>>

DiscardEnvelope(r) ==
  /\ request[r] = "discard"
  /\ DeleteEnvelope(r)
  /\ RequestTo(r, "done")
  /\ UNCHANGED <<rowVars, call, expired, interrupted>>
-----------------------------------------------------------------------------
(* The owner's calls.  Each one starts with ownedRun: 404 for a run that   *)
(* is not there or is deleted, and the end of a run past its expiry.       *)

OwnedRun(c, op) ==
  /\ call[c].pc = "idle"
  /\ status # "none"
  /\ LET finished == status \in TerminalStatus
         next == IF ~Present \/ status = "deleted" THEN "done"
                 ELSE IF expired THEN IF finished THEN "delete" ELSE "timeOut"
                 ELSE IF op = "cancel" THEN IF finished THEN "getReport" ELSE "cancel"
                 ELSE IF finished THEN "delete" ELSE "done"
     IN  call' = [call EXCEPT ![c].pc = next,
                              ![c].seen = IF next = "done" THEN "none" ELSE status]
  /\ UNCHANGED <<rowVars, request, vaultVars>>

\* A transition of an owner call that answers 404 or 409 ends the call.
TransitionTarget(c) ==
  CASE call[c].pc = "timeOut" -> "timed_out"
    [] call[c].pc = "cancel"  -> "cancelled"
    [] call[c].pc = "delete"  -> "deleted"

OwnerTransition(c) ==
  /\ call[c].pc \in {"timeOut", "cancel", "delete"}
  /\ LET target == TransitionTarget(c)
         next == CASE target = "timed_out" -> "delete"
                   [] target = "cancelled" -> "getReport"
                   [] target = "deleted"   -> "deleteEnvelope"
     IN  IF CanMoveTo(target)
         THEN /\ MoveTo(target)
              /\ call' = [call EXCEPT ![c].pc = next, ![c].seen = target]
         ELSE CallEnds(c) /\ UNCHANGED rowVars
  /\ UNCHANGED <<request, vaultVars>>

\* Mutant of CheckReport: only the run's own observations are worth a report.
CheckReportUnlessEmpty(c) ==
  /\ call[c].pc = "getReport"
  /\ CallTo(c, IF report = NoReport /\ call[c].seen = "cancelled" /\ observed # NoRows
               THEN "listRows" ELSE "dropEnvelope")
  /\ UNCHANGED <<rowVars, request, vaultVars>>

\* Cancel files a report of its own if the run is cancelled and has none.
CheckReport(c) ==
  /\ call[c].pc = "getReport"
  /\ CallTo(c, IF report = NoReport /\ call[c].seen = "cancelled"
               THEN "listRows" ELSE "dropEnvelope")
  /\ UNCHANGED <<rowVars, request, vaultVars>>

ListRows(c) ==
  /\ call[c].pc = "listRows"
  /\ call' = [call EXCEPT ![c].pc = "saveReport", ![c].rows = observed]
  /\ UNCHANGED <<rowVars, request, vaultVars>>

\* A report that exists is left alone; a run that is gone fails the insert.
FileCancelReport(c) ==
  /\ call[c].pc = "saveReport"
  /\ IF ~Present THEN CallEnds(c) /\ UNCHANGED rowVars
     ELSE /\ CallTo(c, "dropEnvelope")
          /\ IF report = NoReport THEN SaveReport("cancelled", call[c].rows)
             ELSE UNCHANGED rowVars
  /\ UNCHANGED <<request, vaultVars>>

DropCredential(c) ==
  /\ \/ call[c].pc = "dropEnvelope" /\ CallEnds(c)
     \/ call[c].pc = "deleteEnvelope" /\ CallTo(c, "purge")
  /\ DeleteEnvelope(handle)
  /\ UNCHANGED <<rowVars, request, expired, interrupted>>

PurgeRun(c) ==
  /\ call[c].pc = "purge"
  /\ PurgeRow
  /\ CallEnds(c)
  /\ UNCHANGED <<request, vaultVars>>

\* The API process stops, or a query of the handler fails.
AbandonRequest(r) ==
  /\ "cutOff" \in Disturbances
  /\ request[r] \in {"create", "discard"}
  /\ RequestTo(r, "done")
  /\ interrupted' = TRUE
  /\ UNCHANGED <<rowVars, call, envelopes, expired>>

AbandonCall(c) ==
  /\ "cutOff" \in Disturbances
  /\ call[c].pc \notin {"idle", "done"}
  /\ CallEnds(c)
  /\ interrupted' = (interrupted \/ OwesDelete(c))
  /\ UNCHANGED <<rowVars, request, envelopes, expired>>
-----------------------------------------------------------------------------
(* Time, and the sweep every 60 seconds.                                   *)

Expire ==
  /\ "expiry" \in Disturbances
  /\ ~expired
  /\ \E r \in Requests : request[r] # "idle"
  /\ expired' = TRUE
  /\ UNCHANGED <<rowVars, apiVars, envelopes, interrupted>>

SweepEnvelopes ==
  /\ expired /\ envelopes # {}
  /\ envelopes' = {}
  /\ UNCHANGED <<rowVars, apiVars, expired, interrupted>>

SweepRuns ==
  /\ expired /\ Present
  /\ PurgeRow
  /\ UNCHANGED <<apiVars, vaultVars>>
=============================================================================
