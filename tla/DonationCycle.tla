--------------------------- MODULE DonationCycle ----------------------------
(***************************************************************************)
(* The life of one donation: its row and cycles (DonationStore), the       *)
(* private runs of its tests (DonationRuns), the donation loops of the     *)
(* worker processes (DonationScheduler) and the donor's handlers           *)
(* (DonationRoutes).                                                       *)
(***************************************************************************)
EXTENDS DonationRoutes

vars == <<storeVars, runVars, schedVars, worldVars, routeVars>>

Init ==
  /\ DonationStoreInit
  /\ RunsInit
  /\ SchedulerInit
  /\ RoutesInit
  /\ stored = {}
  /\ expired = FALSE
  /\ interrupted = FALSE

\* One turn of the donation loop of a process, up to its failures.
Reconcile(w) ==
  \/ ListPendingRuns(w)
  \/ \E t \in Tests : LookAtReport(w, t)
  \/ CompleteRun(w)
  \/ ListReadyCycles(w)
  \/ \E n \in Cycles : SumCycle(w, n)
  \/ FinalizeCycle(w)

Schedule(w) ==
  \/ ClaimDonation(w)
  \/ ReadCredential(w)
  \/ ProbeIdentity(w)
  \/ CheckQuota(w)
  \/ \E m \in Models : PutEnvelope(w, m)
  \/ CreateRun(w)
  \/ Attribute(w)
  \/ ReadRow(w)
  \/ WriteRow(w)
  \/ CreateCycle(w)
  \/ \E m \in Models : UndoRun(w, m)
  \/ UndoEnvelope(w)
  \/ UndoDone(w)

DonationLoop(w) == (Reconcile(w) \/ Schedule(w)) /\ UNCHANGED routeVars

RunsNext(t) ==
  /\ UseCredential(t) \/ FinishTestRun(t) \/ CleanupTestRun(t)
  /\ UNCHANGED <<schedVars, worldVars, routeVars>>

CreateNext(r) == StoreCredential(r) \/ CreateDonation(r) \/ DiscardCredential(r)

CallNext(c) ==
  \/ ListRuns(c)
  \/ \E t \in Tests : CancelRun(c, t)
  \/ DropRunEnvelope(c)
  \/ EndDonation(c)
  \/ DropCredential(c)

Disturb ==
  \/ \E w \in Schedulers : (QueryFails(w) \/ Crash(w)) /\ UNCHANGED routeVars
  \/ \E c \in Calls : AbandonCall(c)
  \/ Expire

Next ==
  \/ \E w \in Schedulers : DonationLoop(w)
  \/ \E t \in Tests : RunsNext(t)
  \/ \E r \in Requests : CreateNext(r)
  \/ \E c \in Calls : CallNext(c) \/ \E op \in {"status", "revoke"} : OwnedDonation(c, op)
  \/ (LeaseLapses \/ NextRunAtComes) /\ UNCHANGED routeVars
  \/ SweepCredentials
  \/ Disturb

Spec == Init /\ [][Next]_vars

\* The donation loop and the run workers poll for ever, next_run_at passes and
\* leases run out, handlers go on; nobody has to donate or to revoke.
Fairness ==
  /\ \A w \in Schedulers : WF_vars(DonationLoop(w))
  /\ \A t \in Tests : WF_vars((UseCredential(t) \/ FinishTestRun(t))
                                /\ UNCHANGED <<schedVars, worldVars, routeVars>>)
  /\ \A r \in Requests : WF_vars(CreateDonation(r) \/ DiscardCredential(r))
  /\ \A c \in Calls : WF_vars(CallNext(c))
  /\ WF_vars((LeaseLapses \/ NextRunAtComes) /\ UNCHANGED routeVars)

FairSpec == Spec /\ Fairness
-----------------------------------------------------------------------------
(* Properties.                                                             *)

\* Every variable of the donation, its cycles, tests, schedulers and calls
\* keeps its type; in particular each scheduler only remembers cycle ids that
\* were drawn, models of the group and rows it has read.
TypeOK ==
  /\ DonationStoreTypeOK
  /\ RunsTypeOK
  /\ SchedulerTypeOK
  /\ RoutesTypeOK
  /\ stored \subseteq Requests
  /\ expired \in BOOLEAN
  /\ interrupted \in BOOLEAN

Ended == status \in {"revoked", "expired"}
Linked == {t \in Tests : link[t] # "none"}
Running == {n \in Cycles : cycle[n] = "running"}

\* A donation that has been revoked or has expired is left with no cycle to
\* finalize, no test to reconcile and no scheduler that may still write to it,
\* although a scheduler may be between any two of its steps when it ends
\* (#transitionDonation against createDonationCycle).
EndedDonationIsQuiet ==
  Ended => Running = {} /\ Linked \subseteq excluded /\ lessee = NoScheduler

\* A donation that has ended never becomes active again, and a revoked one
\* stays revoked: not by a row that a scheduler read before the revocation and
\* writes back after it, not by a finalize, not by a late expiry.
EndIsFinal ==
  [][/\ Ended => status' \in {"revoked", "expired"}
     /\ status = "revoked" => status' = "revoked"]_vars

\* At most one cycle of a donation runs at a time, and while one runs no
\* scheduler holds the donation and none can claim it.
OneCycleAtATime ==
  /\ \A m, n \in Running : m = n
  /\ Running # {} => due = "never" /\ lessee = NoScheduler

\* The donation has spent exactly what its completed cycles' tests have cost:
\* two processes that reconcile the same cycle pay for it once, and the row
\* that updateDonationFromWorker writes back never undoes a payment.
SpentIsAccounted ==
  spent = SumOver([n \in Cycles |-> CostOf(n)], {n \in Cycles : cycle[n] = "completed"})

\* While a cycle runs, what is spent and what is reserved for it are within the
\* donor's quota, although the quota was checked on a row that was read long
\* before.  The tests are paid at the prices of the day on which they are
\* reconciled, so what is spent may leave the quota: by what the prices have
\* risen during one cycle, and never again by a later one.
Overrun == ReserveAt(MaxCost) - ReserveAt(MinCost)
QuotaHolds ==
  /\ Running # {} => spent + reserved <= Quota
  /\ spent <= Quota + Overrun

InFlight(c) == call[c].pc \in {"cancel", "dropEnvelope"}
Making(w, t) == sched[w].id = t[1] /\ t[2] \in sched[w].made

\* No test is forgotten: a run that is open belongs to a recorded test or to a
\* scheduler that will record it or try to cancel it, and a recorded test whose
\* run was cancelled (reconcileOnce would wait for its report for ever) belongs
\* to a revocation that is about to exclude it.  Unless a process died, a handler
\* was cut off or a commit's answer was lost.  The only open run that nobody
\* looks after is one whose cancel failed in the catch of scheduleOnce, which
\* swallows the error.
NoTestIsForgotten ==
  interrupted \/ \A t \in Tests :
    /\ run[t] = "open" /\ link[t] = "none" =>
         t \in swallowed \/ \E w \in Schedulers : Making(w, t)
    /\ run[t] = "cancelled" /\ t \in PendingTests => \E c \in Calls : InFlight(c)

\* The donation's credential is there as long as tests may be scheduled, and
\* the envelopes of replayed requests are let go; after its end it is deleted
\* as soon as the handler that ended it is done.
CredentialFollowsDonation ==
  interrupted \/ expired \/
    /\ status \in Ongoing => handle \in stored
    /\ \A r \in Requests : r \in stored \ {handle} => request[r] \in {"create", "discard"}
    /\ Ended /\ handle \in stored => \E c \in Calls : call[c].pc = "dropCredential"

\* Every cycle that is started is completed or blocked, whatever queries fail;
\* unless a handler was cut off or the answer of a commit was lost.
CycleEnds ==
  \A n \in Cycles : cycle[n] = "running" ~> (cycle[n] # "running" \/ interrupted)

\* What the donor is promised, however many processes work on the donation
\* and whatever they remember of it: DonationContract.
Contract == INSTANCE DonationContract
              WITH standing <- IF status \in Ongoing THEN "open" ELSE status,
                   test <- link
KeepsDonationContract == Contract!Spec

\* docs/API_CONTRACT.md: "revocation or expiry deletes the long-term and the
\* in-flight temporary envelopes".  Once a revoke has answered and no scheduler
\* is in the middle of an attempt, no run that is still open has an envelope.
RevokeDeletesEnvelopes ==
  (/\ \E c \in Calls : call[c].pc = "done" /\ call[c].op = "revoke"
   /\ \A w \in Schedulers : sched[w].pc = "idle")
    => \A t \in envelopes : run[t] # "open"

\* docs/API_CONTRACT.md: revocation "excludes the related public aggregates".
\* The published scores of an ended donation contain none of its tests.
ExcludedFromScores == Ended => scored \cap excluded = {}
-----------------------------------------------------------------------------
(* The inductive invariant of the proofs.                                  *)

\* Where a process is while it holds no claim of its own.
Reconciling == {"idle", "report", "complete", "ready", "finalize"}

\* Before the donation is stored it has no cycle, and nobody schedules it.
NothingBeforeInsert ==
  status = "none" => /\ \A n \in Cycles : cycle[n] = "none"
                     /\ \A w \in Schedulers : sched[w].pc \in Reconciling

\* Only the end of the donation blocks a cycle.
BlockedAtTheEnd == (\E n \in Cycles : cycle[n] = "blocked") => Ended

\* A row that a scheduler remembers may be stale, but it never knows of an end
\* that did not happen.
RowsAreOld ==
  \A w \in Schedulers :
    /\ sched[w].row.status # "none"
    /\ sched[w].row.status \in {"revoked", "expired"} => Ended

FinalizesACycle == \A w \in Schedulers : sched[w].pc = "finalize" => sched[w].id \in Cycles

CallsEndTheDonation ==
  \A c \in Calls : call[c].pc \notin {"idle", "done"} => call[c].target \in {"expired", "revoked"}

\* The inductive invariant: an ended donation stays quiet whatever the
\* processes and handlers still remember of it, and while one cycle runs no
\* row can be claimed or written back by a scheduler.
DonationInv ==
  /\ NothingBeforeInsert
  /\ BlockedAtTheEnd
  /\ RowsAreOld
  /\ FinalizesACycle
  /\ CallsEndTheDonation
  /\ EndedDonationIsQuiet
  /\ OneCycleAtATime

\* The credential, step by step: the request that created the donation is
\* done, every other one still has its own envelope to give up, and only a call
\* that has ended the donation goes on to delete the envelope it uses.
CredentialInv ==
  interrupted \/ expired \/
    /\ CredentialFollowsDonation
    /\ status = "none" => handle = NoRequest
    /\ \A r \in Requests :
         /\ request[r] # "done" => r # handle
         /\ request[r] = "create" => r \in stored
    /\ \A c \in Calls : call[c].pc = "dropCredential" => Ended

\* The schedulers that have drawn a cycle id, and those of them that may still
\* record the cycle.
Drawn(w) == sched[w].pc \notin Reconciling /\ sched[w].id # 0
Records(s) ==
  \/ s.pc \in {"put", "create", "attribute", "cycle"}
  \/ s.pc \in {"readRow", "writeRow"} /\ s.patch = "keep"
Recording(w) == Records(sched[w])

\* A drawn id is nobody else's, and its tests are not recorded yet.
IdsAreDrawnOnce ==
  /\ \A t \in Tests : link[t] # "none" \/ run[t] # "none" => t[1] <= issued
  /\ \A w \in Schedulers : Drawn(w) =>
       /\ sched[w].id \in 1..issued
       /\ \A t \in Tests : t[1] = sched[w].id => link[t] = "none"
       /\ \A u \in Schedulers \ {w} : Drawn(u) => sched[u].id # sched[w].id

\* What a scheduler has made it records, or cancels one by one in its catch;
\* it forgets none before, whatever patch it writes.
MadeIsKept ==
  \A w \in Schedulers :
    /\ sched[w].made # {} => Drawn(w) /\ sched[w].pc \notin {"read", "probe", "quota"}
    /\ sched[w].patch \in {"later", "never", "exhausted", "failed"} => sched[w].made = {}
    /\ sched[w].pc \in {"readRow", "writeRow"} /\ sched[w].patch # "keep" => sched[w].made = {}
    /\ sched[w].pc \in {"read", "probe", "quota", "put", "create", "attribute"}
         => sched[w].patch = "none"
    /\ Recording(w) =>
         Drawn(w) /\ \A t \in Tests : t[1] = sched[w].id => run[t] # "cancelled"
    /\ sched[w].pc = "dropEnvelope" =>
         \A t \in Tests :
           t = <<sched[w].id, sched[w].model>> => run[t] # "open" \/ t \in swallowed

\* A call cancels the runs of recorded tests only.
TestsInv ==
  interrupted \/
    /\ NoTestIsForgotten
    /\ IdsAreDrawnOnce
    /\ MadeIsKept
    /\ \A c \in Calls : call[c].list \subseteq Linked

\* The rest of what the contract needs. A cycle that a process is about to
\* finalize has all its tests settled, and the sum it pays is what they have cost
\* if the cycle still runs; the row it is about to write back, if it still has its
\* lease, shows what is spent; the cycle it may still record is new.
Settled(n) == cycle[n] # "none" /\ PendingTests \cap TestsOf(n) = {}

PaysWhatIsDue(w, s) ==
  /\ \A n \in Cycles :
       /\ n \in s.cycles => Settled(n)
       /\ s.pc = "finalize" /\ s.id = n =>
            Settled(n) /\ (cycle[n] = "running" => s.sum = CostOf(n))
       /\ Records(s) /\ s.id = n => cycle[n] = "none"
  /\ s.pc = "writeRow" /\ Leases(w) => s.row.spent = spent
  /\ Records(s) => s.id \in 1..issued

\* Only a stored donation is called for.
CallsHaveDonation ==
  \A c \in Calls : call[c].pc \notin {"idle", "done"} => status # "none"

\* Tests wait in the cycle that runs, which has them all.
TestsOfCycles ==
  \A t \in Tests :
    /\ link[t] # "none" => cycle[t[1]] # "none"
    /\ t \in PendingTests => cycle[t[1]] = "running"
    /\ cycle[t[1]] = "running" => link[t] # "none"
    /\ t \in excluded => Ended

ContractInv ==
  /\ TestsOfCycles
  /\ issued \in Nat /\ \A n \in Cycles : cycle[n] # "none" => n <= issued
  /\ \A w \in Schedulers : PaysWhatIsDue(w, sched[w])
  /\ \A u, w \in Schedulers :
       u # w /\ Recording(u) /\ Recording(w) => sched[u].id # sched[w].id

\* The quota, step by step. Who holds the lease knows what is spent when it
\* checks the quota, and from then on there is room for the cycle it is about to
\* record, at the prices it has read: nothing is paid while a process holds the
\* lease, and the cycle that runs has its reservation, at some prices.
Claimed == {"read", "probe", "quota"}

HasRoom(s) ==
  /\ s.pc \in Claimed => s.row.spent = spent
  /\ Records(s) => spent + ReserveAt(s.price) <= Quota

QuotaInv ==
  /\ cost \in [Tests -> 0..MaxCost]
  /\ SpentIsAccounted
  /\ spent <= Quota + Overrun
  /\ Running # {} => /\ \E price \in Prices : reserved = ReserveAt(price)
                     /\ spent + reserved <= Quota
  /\ \A w \in Schedulers : Leases(w) => HasRoom(sched[w])
=============================================================================
