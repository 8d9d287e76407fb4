-------------------------- MODULE DonationScheduler -------------------------
(***************************************************************************)
(* The donation loop of the worker processes: reconcileOnce and then       *)
(* scheduleOnce of backend/src/worker/donation-scheduler.ts, for ever.     *)
(* Each await is a step, so several processes, the donor's calls and the   *)
(* run workers interleave between any two of them.                         *)
(***************************************************************************)
EXTENDS DonationRuns

CONSTANT Disturbances   \* what may go wrong, of DonationDisturbances

DonationDisturbances ==
  {"crash",      \* a worker process ends, or a query outside every try fails
   "drift",      \* the registry drops the donation's provider group
   "error",      \* a query of scheduleOnce, or a call of its catch, fails
   "lostAnswer", \* a commit succeeds and its answer is lost
   "cutOff",     \* an API handler stops between two of its steps
   "lapse",      \* the scheduler's lease runs out before it is done
   "expiry"}     \* the donation reaches expires_at

ASSUME DisturbanceAssumption == Disturbances \subseteq DonationDisturbances

VARIABLES
  sched,         \* what each process is doing, and what it remembers
  issued,        \* how many cycle ids were drawn
  stored,        \* the long-term envelopes of the create requests
  expired,       \* expires_at has passed
  interrupted    \* history: somebody did not do what was left to do

schedVars == <<sched, issued>>
worldVars == <<stored, expired, interrupted>>

RowCopy == [status : DonationStatus, due : Due, spent : Nat, reserved : Nat]

NoCopy == [status |-> "quarantined", due |-> "now", spent |-> 0, reserved |-> 0]
IdleScheduler ==
  [pc |-> "idle", id |-> 0, row |-> NoCopy, patch |-> "none", todo |-> {},
   made |-> {}, model |-> NoModel, list |-> {}, cycles |-> {}, sum |-> 0,
   price |-> MinCost]

SchedulerPc ==
  {"idle", "report", "complete", "ready", "finalize", "read", "probe", "quota", "put",
   "create", "attribute", "cycle", "undo", "dropEnvelope", "readRow", "writeRow"}

\* What a patch does to the row, and whether the scheduler is in its catch.
Patches == {"none", "keep", "later", "never", "exhausted", "failed"}

SchedulerTypeOK ==
  /\ sched \in [Schedulers ->
       [pc : SchedulerPc, id : 0..MaxCycles, row : RowCopy, patch : Patches,
        todo : SUBSET Models, made : SUBSET Models, model : Models \cup {NoModel},
        list : SUBSET Tests, cycles : SUBSET Cycles, sum : Nat,
        price : Prices]]
  /\ issued \in 0..MaxCycles

SchedulerInit ==
  /\ sched = [w \in Schedulers |-> IdleScheduler]
  /\ issued = 0

Copy == [status |-> status, due |-> due, spent |-> spent, reserved |-> reserved]
Become(w, s) == sched' = [sched EXCEPT ![w] = s]
GoTo(w, label) == sched' = [sched EXCEPT ![w].pc = label]
-----------------------------------------------------------------------------
(* reconcileOnce.                                                          *)

ListPendingRuns(w) ==
  /\ sched[w].pc = "idle"
  /\ Become(w, [IdleScheduler EXCEPT !.pc = "report", !.list = PendingTests])
  /\ UNCHANGED <<storeVars, runVars, issued, worldVars>>

\* getReport of one listed test; without a report, or without its group in
\* the registry, the test is passed over.
LookAtReport(w, t) ==
  /\ sched[w].pc = "report" /\ t \in sched[w].list
  /\ \/ /\ run[t] = "reported"
        /\ Become(w, [sched[w] EXCEPT !.pc = "complete", !.list = @ \ {t},
                                      !.id = t[1], !.model = t[2]])
     \/ /\ run[t] # "reported" \/ "drift" \in Disturbances
        /\ Become(w, [sched[w] EXCEPT !.list = @ \ {t}])
  /\ UNCHANGED <<storeVars, runVars, issued, worldVars>>

\* actualCost is at most the estimate's maximum at the prices of the snapshot
\* of this pass, whatever they were when the cycle was scheduled, and is that
\* maximum for a report without observations.  (The tests of one pass share a
\* snapshot; here each may find prices of its own, which allows more.)
ActualCosts(t, price) == IF t \in used THEN 0..price ELSE {price}

\* Mutant of CompleteRun: a test without an answer is not completed.
CompleteSuccessfulRun(w) ==
  /\ sched[w].pc = "complete"
  /\ LET t == <<sched[w].id, sched[w].model>> IN
     \E price \in Prices, o \in {"available", "unavailable"} : \E c \in ActualCosts(t, price) :
       IF o = "available" THEN CompleteDonationRun(t, o, c) ELSE UNCHANGED storeVars
  /\ Become(w, [sched[w] EXCEPT !.pc = "report", !.id = 0, !.model = NoModel])
  /\ UNCHANGED <<runVars, issued, worldVars>>

CompleteRun(w) ==
  /\ sched[w].pc = "complete"
  /\ LET t == <<sched[w].id, sched[w].model>> IN
     \E price \in Prices, o \in {"available", "unavailable"} : \E c \in ActualCosts(t, price) :
       /\ t \notin used => o = "unavailable"
       /\ CompleteDonationRun(t, o, c)
  /\ Become(w, [sched[w] EXCEPT !.pc = "report", !.id = 0, !.model = NoModel])
  /\ UNCHANGED <<runVars, issued, worldVars>>

ListReadyCycles(w) ==
  /\ sched[w].pc = "report" /\ sched[w].list = {}
  /\ Become(w, [sched[w] EXCEPT !.pc = "ready", !.cycles = ReadyCycles])
  /\ UNCHANGED <<storeVars, runVars, issued, worldVars>>

\* listDonationCycleRuns: what the cycle's tests have cost.
SumCycle(w, n) ==
  /\ sched[w].pc = "ready" /\ n \in sched[w].cycles
  /\ Become(w, [sched[w] EXCEPT !.pc = "finalize", !.cycles = @ \ {n},
                                !.id = n, !.sum = CostOf(n)])
  /\ UNCHANGED <<storeVars, runVars, issued, worldVars>>

FinalizeCycle(w) ==
  /\ sched[w].pc = "finalize"
  /\ FinalizeDonationCycle(sched[w].id, sched[w].sum)
  /\ Become(w, [sched[w] EXCEPT !.pc = "ready", !.id = 0, !.sum = 0])
  /\ UNCHANGED <<runVars, issued, worldVars>>
-----------------------------------------------------------------------------
(* scheduleOnce.                                                           *)

\* The bound: every scheduler that has claimed may still draw a cycle id.
CycleIdsLeft ==
  issued + Cardinality({u \in Schedulers : sched[u].pc \in {"read", "probe", "quota"}})
    < MaxCycles

\* claimDueDonation; with nothing to claim the loop begins again.
ClaimDonation(w) ==
  /\ sched[w].pc = "ready" /\ sched[w].cycles = {}
  /\ IF DueDonation /\ ~expired /\ CycleIdsLeft
     THEN /\ ClaimDueDonation(w)
          /\ Become(w, [IdleScheduler EXCEPT !.pc = "read", !.row = Copy])
     ELSE Become(w, IdleScheduler) /\ UNCHANGED storeVars
  /\ UNCHANGED <<runVars, issued, worldVars>>

\* updateDonationFromWorker begins by reading the row.
Patching(w, patch) == [sched[w] EXCEPT !.pc = "readRow", !.patch = patch]

\* The catch of scheduleOnce.
Caught(w) == [sched[w] EXCEPT !.pc = "undo", !.price = MinCost]

\* The provider group in the registry, then vault.read of the long-term
\* envelope.
ReadCredential(w) ==
  /\ sched[w].pc = "read"
  /\ \/ Become(w, IF handle \in stored /\ ~expired
                  THEN [sched[w] EXCEPT !.pc = IF sched[w].row.status = "quarantined"
                                               THEN "probe" ELSE "quota"]
                  ELSE Caught(w))
     \/ "drift" \in Disturbances /\ Become(w, Patching(w, "never"))
  /\ UNCHANGED <<storeVars, runVars, issued, worldVars>>

\* The identity probe lets the donation pass, or puts it off.
ProbeIdentity(w) ==
  /\ sched[w].pc = "probe"
  /\ GoTo(w, "quota") \/ Become(w, Patching(w, "later"))
  /\ UNCHANGED <<storeVars, runVars, issued, worldVars>>

\* Mutant of CreateRun: the run is remembered once create has answered.
CreateRunFirst(w) ==
  LET t == <<sched[w].id, sched[w].model>>
      s == [sched[w] EXCEPT !.todo = @ \ {sched[w].model}, !.model = NoModel] IN
  /\ sched[w].pc = "create"
  /\ \/ /\ CreateTestRun(t)
        /\ Become(w, [s EXCEPT !.made = @ \cup {t[2]},
                               !.pc = IF s.todo = {} THEN "attribute" ELSE "put"])
     \/ /\ "error" \in Disturbances
        /\ CreateTestRun(t) \/ UNCHANGED runVars
        /\ Become(w, [s EXCEPT !.pc = "undo"])
  /\ UNCHANGED <<storeVars, issued, worldVars>>

\* Mutant of Affordable: what is left need only be positive.
AffordableAtAll(row, price) == row.spent < Quota

Affordable(row, price) == row.spent + ReserveAt(price) <= Quota

\* The quota is checked on the row as it was claimed, at the prices of the
\* attempt's snapshot; then a cycle id is drawn.
CheckQuota(w) ==
  /\ sched[w].pc = "quota"
  /\ \E price \in Prices :
       IF Affordable(sched[w].row, price)
       THEN /\ issued' = issued + 1
            /\ Become(w, [sched[w] EXCEPT !.pc = "put", !.id = issued + 1, !.todo = Models,
                                          !.price = price])
       ELSE Become(w, Patching(w, "exhausted")) /\ UNCHANGED issued
  /\ UNCHANGED <<storeVars, runVars, worldVars>>

PutEnvelope(w, m) ==
  /\ sched[w].pc = "put" /\ m \in sched[w].todo
  /\ PutTestEnvelope(<<sched[w].id, m>>)
  /\ \/ /\ Become(w, [sched[w] EXCEPT !.pc = "create", !.model = m])
        /\ UNCHANGED interrupted
     \/ /\ "lostAnswer" \in Disturbances
        /\ Become(w, Caught(w))
        /\ interrupted' = TRUE
  /\ UNCHANGED <<storeVars, issued, stored, expired>>

\* The run is pushed on createdRuns before runStore.create is called.
CreateRun(w) ==
  LET s == [sched[w] EXCEPT !.todo = @ \ {sched[w].model},
                            !.made = @ \cup {sched[w].model}] IN
  /\ sched[w].pc = "create"
  /\ \/ /\ CreateTestRun(<<sched[w].id, sched[w].model>>)
        /\ Become(w, [s EXCEPT !.model = NoModel,
                               !.pc = IF s.todo = {} THEN "attribute" ELSE "put"])
     \/ /\ "error" \in Disturbances
        /\ CreateTestRun(<<sched[w].id, sched[w].model>>) \/ UNCHANGED runVars
        /\ Become(w, [s EXCEPT !.model = NoModel, !.pc = "undo"])
  /\ UNCHANGED <<storeVars, issued, worldVars>>

Attribute(w) ==
  /\ sched[w].pc = "attribute"
  /\ Become(w, Patching(w, "keep"))
  /\ UNCHANGED <<storeVars, runVars, issued, worldVars>>

ReadRow(w) ==
  /\ sched[w].pc = "readRow"
  /\ Become(w, [sched[w] EXCEPT !.pc = "writeRow", !.row = Copy])
  /\ UNCHANGED <<storeVars, runVars, issued, worldVars>>

\* A patch sets next_run_at, or leaves it, and may clear the reservation.
Patched(row, patch) ==
  LET next == IF patch \in {"later", "failed"} THEN "later" ELSE "never" IN
  [row EXCEPT !.due      = IF patch = "keep" THEN @ ELSE next,
              !.reserved = IF patch = "exhausted" THEN 0 ELSE @]

\* Mutant of MayWrite: the row is written without its lease.
MayWriteAnyway(w) == status # "none"

MayWrite(w) == Leases(w)

\* An error is caught, swallowed if it comes from the last write of the catch,
\* and ends the process if it comes from the write before the try.
Throws(w) == IF sched[w].patch \in {"failed", "never"} THEN IdleScheduler ELSE Caught(w)

\* The guarded UPDATE; a lost lease is an error.
WriteRow(w) ==
  /\ sched[w].pc = "writeRow"
  /\ IF MayWrite(w)
     THEN /\ Write(Patched(sched[w].row, sched[w].patch), sched[w].patch # "keep")
          /\ \/ Become(w, IF sched[w].patch = "keep" THEN [sched[w] EXCEPT !.pc = "cycle"]
                          ELSE IdleScheduler)
             \/ "lostAnswer" \in Disturbances /\ Become(w, Throws(w))
     ELSE Become(w, Throws(w)) /\ UNCHANGED storeVars
  /\ UNCHANGED <<runVars, issued, worldVars>>

CreateCycle(w) ==
  /\ sched[w].pc = "cycle"
  /\ IF MayCreateCycle(w)
     THEN /\ CreateDonationCycle(sched[w].id, ReserveAt(sched[w].price))
          /\ \/ Become(w, IdleScheduler) /\ UNCHANGED interrupted
             \/ "lostAnswer" \in Disturbances /\ Become(w, Caught(w)) /\ interrupted' = TRUE
     ELSE Become(w, Caught(w)) /\ UNCHANGED <<storeVars, interrupted>>
  /\ UNCHANGED <<runVars, issued, stored, expired>>

\* The catch cancels each run that was made and deletes its envelope.  An
\* error of either call is swallowed, and the loop over the runs goes on.
UndoRun(w, m) ==
  /\ sched[w].pc = "undo" /\ m \in sched[w].made
  /\ \/ CancelTestRun(<<sched[w].id, m>>)
     \/ "error" \in Disturbances /\ SwallowCancel(<<sched[w].id, m>>)
  /\ Become(w, [sched[w] EXCEPT !.pc = "dropEnvelope", !.model = m])
  /\ UNCHANGED <<storeVars, issued, worldVars>>

UndoEnvelope(w) ==
  /\ sched[w].pc = "dropEnvelope"
  /\ \/ DropTestEnvelope(<<sched[w].id, sched[w].model>>)
     \/ "error" \in Disturbances /\ UNCHANGED runVars
  /\ Become(w, [sched[w] EXCEPT !.pc = "undo", !.made = @ \ {sched[w].model}, !.model = NoModel])
  /\ UNCHANGED <<storeVars, issued, worldVars>>

UndoDone(w) ==
  /\ sched[w].pc = "undo" /\ sched[w].made = {}
  /\ Become(w, Patching(w, "failed"))
  /\ UNCHANGED <<storeVars, runVars, issued, worldVars>>

\* A query inside the try, or the last write of the catch, fails.  Outside them
\* a query that fails ends the process (Crash).
QueryFails(w) ==
  /\ "error" \in Disturbances
  /\ sched[w].pc \in {"read", "probe", "put", "readRow", "writeRow", "cycle"}
  /\ sched[w].patch # "never"
  /\ Become(w, Throws(w))
  /\ UNCHANGED <<storeVars, runVars, issued, worldVars>>
-----------------------------------------------------------------------------
(* Processes and time.                                                     *)

\* A process ends, and another one, with an id of its own, takes its place.
Crash(w) ==
  /\ "crash" \in Disturbances
  /\ sched[w].pc # "idle"
  /\ Become(w, IdleScheduler)
  /\ lessee' = IF lessee = w THEN Gone ELSE lessee
  /\ interrupted' = (interrupted \/ sched[w].made # {} \/ sched[w].pc = "create")
  /\ UNCHANGED <<status, handle, due, leaseLive, spent, reserved, cycleVars,
                 runVars, issued, stored, expired>>

\* The 60 seconds of a lease run out: under a scheduler that is still at work
\* only if the run asks for it.
LeaseLapses ==
  /\ leaseLive
  /\ \/ "lapse" \in Disturbances
     \/ lessee = Gone
     \/ \E w \in Schedulers :
          lessee = w /\ sched[w].pc \in {"idle", "report", "complete", "ready", "finalize"}
  /\ leaseLive' = FALSE
  /\ UNCHANGED <<status, handle, due, lessee, spent, reserved, cycleVars,
                 runVars, schedVars, worldVars>>

NextRunAtComes ==
  /\ due = "later"
  /\ due' = "now"
  /\ UNCHANGED <<status, handle, lessee, leaseLive, spent, reserved, cycleVars,
                 runVars, schedVars, worldVars>>
=============================================================================
