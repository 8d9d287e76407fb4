--------------------------- MODULE DonationRoutes ---------------------------
(***************************************************************************)
(* The donation handlers of backend/src/routes/contributions.ts: create,   *)
(* status and revoke, each await a step.                                   *)
(***************************************************************************)
EXTENDS DonationScheduler

CONSTANT Calls   \* the donor's calls on the donation

VARIABLES
  request,       \* where each POST /donations is
  call           \* where each call of the donor is, and what it remembers

routeVars == <<request, call>>

IdleCall == [pc |-> "idle", op |-> "none", target |-> "none", list |-> {}, test |-> <<>>]

RoutesTypeOK ==
  /\ request \in [Requests -> {"idle", "create", "discard", "done"}]
  /\ call \in [Calls ->
       [pc : {"idle", "list", "cancel", "dropEnvelope", "dropCredential", "done"},
        op : {"none", "status", "revoke"}, target : {"none", "expired", "revoked"},
        list : SUBSET Tests, test : Tests \cup {<<>>}]]

RoutesInit ==
  /\ request = [r \in Requests |-> "idle"]
  /\ call = [c \in Calls |-> IdleCall]

RequestTo(r, label) == request' = [request EXCEPT ![r] = label]
Continue(c, k) == call' = [call EXCEPT ![c] = k]
CallEnds(c) == Continue(c, [IdleCall EXCEPT !.pc = "done", !.op = call[c].op])
-----------------------------------------------------------------------------
(* POST /donations.                                                        *)

StoreCredential(r) ==
  /\ request[r] = "idle" /\ ~expired
  /\ stored' = stored \cup {r}
  /\ RequestTo(r, "create")
  /\ UNCHANGED <<storeVars, runVars, schedVars, call, expired, interrupted>>

\* createDonation: the first one wins; a replay and a conflict, and whoever
\* loses the answer of the commit, give up their own envelope.
CreateDonation(r) ==
  /\ request[r] = "create"
  /\ \/ InsertDonation(r) /\ RequestTo(r, "done") /\ UNCHANGED interrupted
     \/ /\ "lostAnswer" \in Disturbances
        /\ InsertDonation(r) /\ RequestTo(r, "discard") /\ interrupted' = TRUE
     \/ /\ status # "none" /\ RequestTo(r, "discard")
        /\ UNCHANGED <<storeVars, interrupted>>
  /\ UNCHANGED <<runVars, schedVars, call, stored, expired>>

\* Mutant of DiscardCredential: the envelope of the stored donation is deleted.
DiscardStoredCredential(r) ==
  /\ request[r] = "discard"
  /\ stored' = stored \ {handle}
  /\ RequestTo(r, "done")
  /\ UNCHANGED <<storeVars, runVars, schedVars, call, expired, interrupted>>

DiscardCredential(r) ==
  /\ request[r] = "discard"
  /\ stored' = stored \ {r}
  /\ RequestTo(r, "done")
  /\ UNCHANGED <<storeVars, runVars, schedVars, call, expired, interrupted>>
-----------------------------------------------------------------------------
(* GET status and POST revoke.                                             *)

\* ownedDonation: a donation past its expiry is expired first.  A status that
\* finds nothing to expire only reads, which is no step.
OwnedDonation(c, op) ==
  LET late == status \in Ongoing /\ expired IN
  /\ call[c].pc = "idle" /\ status # "none"
  /\ late \/ op = "revoke"
  /\ Continue(c, [IdleCall EXCEPT !.pc = "list", !.op = op,
                                  !.target = IF late THEN "expired" ELSE "revoked"])
  /\ UNCHANGED <<storeVars, runVars, schedVars, request, worldVars>>

\* cancelDonationRuns: the pending tests, then each of their runs.
ListRuns(c) ==
  /\ call[c].pc = "list"
  /\ Continue(c, [call[c] EXCEPT !.pc = "cancel", !.list = PendingTests])
  /\ UNCHANGED <<storeVars, runVars, schedVars, request, worldVars>>

CancelRun(c, t) ==
  /\ call[c].pc = "cancel" /\ t \in call[c].list
  /\ CancelTestRun(t)
  /\ Continue(c, [call[c] EXCEPT !.pc = "dropEnvelope", !.list = @ \ {t}, !.test = t])
  /\ UNCHANGED <<storeVars, schedVars, request, worldVars>>

DropRunEnvelope(c) ==
  /\ call[c].pc = "dropEnvelope"
  /\ DropTestEnvelope(call[c].test)
  /\ Continue(c, [call[c] EXCEPT !.pc = "cancel", !.test = <<>>])
  /\ UNCHANGED <<storeVars, schedVars, request, worldVars>>

EndDonation(c) ==
  /\ call[c].pc = "cancel" /\ call[c].list = {}
  /\ TransitionDonation(call[c].target)
  /\ Continue(c, [call[c] EXCEPT !.pc = "dropCredential"])
  /\ UNCHANGED <<runVars, schedVars, request, worldVars>>

\* vault.delete of the long-term envelope.  A revoke that had to expire the
\* donation first begins again for itself.
DropCredential(c) ==
  /\ call[c].pc = "dropCredential"
  /\ stored' = stored \ {handle}
  /\ IF call[c].op = "revoke" /\ call[c].target = "expired"
     THEN Continue(c, [call[c] EXCEPT !.pc = "list", !.target = "revoked"])
     ELSE CallEnds(c)
  /\ UNCHANGED <<storeVars, runVars, schedVars, request, expired, interrupted>>

\* The API process stops, or a query of the handler fails.
AbandonCall(c) ==
  /\ "cutOff" \in Disturbances
  /\ call[c].pc \notin {"idle", "list", "done"}
  /\ Continue(c, IdleCall)
  /\ interrupted' = TRUE
  /\ UNCHANGED <<storeVars, runVars, schedVars, request, stored, expired>>
-----------------------------------------------------------------------------
(* Time, and the sweep of envelopes every 60 seconds.                      *)

Expire ==
  /\ "expiry" \in Disturbances
  /\ ~expired /\ status # "none"
  /\ expired' = TRUE
  /\ UNCHANGED <<storeVars, runVars, schedVars, routeVars, stored, interrupted>>

SweepCredentials ==
  /\ expired /\ stored # {}
  /\ stored' = {}
  /\ UNCHANGED <<storeVars, runVars, schedVars, routeVars, expired, interrupted>>
=============================================================================
