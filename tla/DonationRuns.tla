---------------------------- MODULE DonationRuns ----------------------------
(***************************************************************************)
(* The private runs of a donation, as the donation's code sees them.  What *)
(* a run does by itself is RunLifecycle's; of its contract (RunContract)   *)
(* three things matter here: whether it is open, whether it has ended with *)
(* a report or was cancelled without one, and whether its own envelope is  *)
(* still there.                                                            *)
(***************************************************************************)
EXTENDS DonationStore

VARIABLES
  run,           \* where the private run of each test stands
  envelopes,     \* the envelopes of the tests
  used,          \* history: the tests whose credential was used upstream
  swallowed      \* history: the tests whose failed cancel nobody was told of

runVars == <<run, envelopes, used, swallowed>>

RunsTypeOK ==
  /\ run \in [Tests -> {"none", "open", "reported", "cancelled"}]
  /\ envelopes \subseteq Tests
  /\ used \subseteq Tests
  /\ swallowed \subseteq Tests

RunsInit ==
  /\ run = [t \in Tests |-> "none"]
  /\ envelopes = {}
  /\ used = {}
  /\ swallowed = {}

PutTestEnvelope(t) ==
  /\ envelopes' = envelopes \cup {t}
  /\ UNCHANGED <<run, used, swallowed>>

CreateTestRun(t) ==
  /\ run' = [run EXCEPT ![t] = "open"]
  /\ UNCHANGED <<envelopes, used, swallowed>>

\* transition to cancelled: a run that has ended stays as it is.
CancelTestRun(t) ==
  /\ run' = [run EXCEPT ![t] = IF @ = "open" THEN "cancelled" ELSE @]
  /\ UNCHANGED <<envelopes, used, swallowed>>

\* transition fails, and the caller catches the error and goes on.
SwallowCancel(t) ==
  /\ swallowed' = swallowed \cup {t}
  /\ UNCHANGED <<run, envelopes, used>>

DropTestEnvelope(t) ==
  /\ envelopes' = envelopes \ {t}
  /\ UNCHANGED <<run, used, swallowed>>
-----------------------------------------------------------------------------
(* The run workers.                                                        *)

\* A worker has read the credential and sends the run's requests.
UseCredential(t) ==
  /\ run[t] = "open" /\ t \in envelopes \ used
  /\ used' = used \cup {t}
  /\ UNCHANGED <<run, envelopes, swallowed, storeVars>>

\* The run is finalized with a report, whatever it could do.
FinishTestRun(t) ==
  /\ run[t] = "open"
  /\ t \in used \/ t \notin envelopes
  /\ run' = [run EXCEPT ![t] = "reported"]
  /\ UNCHANGED <<envelopes, used, swallowed, storeVars>>

\* vault.delete of the worker that finalized the run.
CleanupTestRun(t) ==
  /\ run[t] = "reported" /\ t \in envelopes
  /\ DropTestEnvelope(t)
  /\ UNCHANGED storeVars
=============================================================================
