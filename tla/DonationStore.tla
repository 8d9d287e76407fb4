--------------------------- MODULE DonationStore ----------------------------
(***************************************************************************)
(* One donation as PostgreSQL stores it (donations, donation_cycles,       *)
(* donation_test_runs, provider_source_scores), with the operations of     *)
(* backend/src/store/postgres-contribution-store.ts, each one transaction. *)
(*                                                                         *)
(* A cycle tests every model of the donation's provider group once, each   *)
(* by a private run.  Cycles are numbered in the order in which their ids  *)
(* are drawn; a test is a cycle and a model.  Money is counted in units of *)
(* the cost of one request.  What one model may cost at most, and what is  *)
(* reserved for it, is a matter of the prices in the registry, which are   *)
(* published anew from time to time; the group's models stay as they are.  *)
(***************************************************************************)
EXTENDS Naturals, FiniteSets, Functions

CONSTANTS
  Requests,      \* the create requests that carry the donation's key
  NoRequest,
  Schedulers,    \* the worker processes
  NoScheduler,   \* worker_id IS NULL
  Gone,          \* the id of a process that has ended
  Models,        \* group.models
  NoModel,
  MinCost,       \* donationModelEstimate: maximum_cost_usd at the lowest prices
  MaxCost,       \* and at the highest prices the registry ever has
  Quota,         \* constraints.quota_usd
  MaxCycles      \* bound: how many cycle ids are drawn

ASSUME DonorsAssumption == NoRequest \notin Requests
ASSUME SchedulersAssumption ==
  NoScheduler \notin Schedulers \cup {Gone} /\ Gone \notin Schedulers
ASSUME ModelsAssumption == IsFiniteSet(Models) /\ Models # {} /\ NoModel \notin Models
ASSUME MoneyAssumption ==
  MinCost \in Nat /\ MaxCost \in Nat /\ MinCost <= MaxCost /\ Quota \in Nat
ASSUME CyclesAssumption == MaxCycles \in Nat \ {0}

VARIABLES
  status,        \* donations.status, or "none"
  handle,        \* donations.credential_handle
  due,           \* next_run_at: not later than now(), later, or NULL
  lessee,        \* donations.worker_id
  leaseLive,     \* lease_expires_at > now()
  spent,         \* quota_spent_usd
  reserved,      \* quota_reserved_usd
  cycle,         \* donation_cycles.status of each cycle
  link,          \* donation_test_runs: completed_at of each test
  excluded,      \* the tests with excluded=true
  cost,          \* estimated_cost_usd of each test
  outcome,       \* outcome of each test
  scored         \* the tests in provider_source_scores

donationVars == <<status, handle, due, lessee, leaseLive, spent, reserved>>
cycleVars    == <<cycle, link, excluded, cost, outcome, scored>>
storeVars    == <<donationVars, cycleVars>>

Cycles == 1..MaxCycles
Tests  == Cycles \X Models
TestsOf(n) == {n} \X Models

DonationStatus == {"quarantined", "active", "revoked", "expired"}
Due            == {"now", "later", "never"}
Ongoing        == {"quarantined", "active"}

DonationStoreTypeOK ==
  /\ status \in DonationStatus \cup {"none"}
  /\ handle \in Requests \cup {NoRequest}
  /\ due \in Due
  /\ lessee \in Schedulers \cup {NoScheduler, Gone}
  /\ leaseLive \in BOOLEAN
  /\ spent \in Nat
  /\ reserved \in Nat
  /\ cycle \in [Cycles -> {"none", "running", "completed", "blocked"}]
  /\ link \in [Tests -> {"none", "pending", "done"}]
  /\ excluded \subseteq Tests
  /\ cost \in [Tests -> Nat]
  /\ outcome \in [Tests -> {"none", "available", "unavailable"}]
  /\ scored \subseteq Tests

DonationStoreInit ==
  /\ status = "none"
  /\ handle = NoRequest
  /\ due = "never"
  /\ lessee = NoScheduler
  /\ leaseLive = FALSE
  /\ spent = 0
  /\ reserved = 0
  /\ cycle = [n \in Cycles |-> "none"]
  /\ link = [t \in Tests |-> "none"]
  /\ excluded = {}
  /\ cost = [t \in Tests |-> 0]
  /\ outcome = [t \in Tests |-> "none"]
  /\ scored = {}

\* The prices of one registry snapshot, as what a model may cost at most.
Prices == MinCost..MaxCost
ReserveAt(price) == price * Cardinality(Models)

SumOver(f, S) == FoldFunctionOnSet(+, 0, f, S)
CostOf(n) == SumOver(cost, TestsOf(n))
-----------------------------------------------------------------------------
\* createDonation of a new key.
InsertDonation(r) ==
  /\ status = "none"
  /\ status' = "quarantined"
  /\ handle' = r
  /\ due' = "now"
  /\ UNCHANGED <<lessee, leaseLive, spent, reserved, cycleVars>>

NoLessee == lessee' = NoScheduler /\ leaseLive' = FALSE

DueDonation ==
  /\ status \in Ongoing
  /\ due = "now"
  /\ lessee = NoScheduler \/ ~leaseLive

ClaimDueDonation(w) ==
  /\ lessee' = w
  /\ leaseLive' = TRUE
  /\ UNCHANGED <<status, handle, due, spent, reserved, cycleVars>>

\* The guard of every write of a scheduler.
Leases(w) == lessee = w /\ leaseLive

\* updateDonationFromWorker writes back the columns it has read before, as
\* row, with the changes of its caller.
Write(row, release) ==
  /\ status' = row.status
  /\ due' = row.due
  /\ spent' = row.spent
  /\ reserved' = row.reserved
  /\ IF release THEN NoLessee ELSE UNCHANGED <<lessee, leaseLive>>
  /\ UNCHANGED <<handle, cycleVars>>

MayCreateCycle(w) == status \in Ongoing /\ Leases(w)

CreateDonationCycle(n, reserve) ==
  /\ cycle' = [cycle EXCEPT ![n] = "running"]
  /\ link' = [t \in Tests |-> IF t[1] = n THEN "pending" ELSE link[t]]
  /\ due' = "never"
  /\ reserved' = reserve
  /\ NoLessee
  /\ UNCHANGED <<status, handle, spent, excluded, cost, outcome, scored>>

PendingTests == {t \in Tests : link[t] = "pending" /\ t \notin excluded}

\* completeDonationRun: only a test that is pending and not excluded.
CompleteDonationRun(t, o, c) ==
  IF t \in PendingTests
  THEN /\ link' = [link EXCEPT ![t] = "done"]
       /\ outcome' = [outcome EXCEPT ![t] = o]
       /\ cost' = [cost EXCEPT ![t] = c]
       /\ UNCHANGED <<donationVars, cycle, excluded, scored>>
  ELSE UNCHANGED storeVars

ReadyCycles ==
  {n \in Cycles : cycle[n] = "running" /\ PendingTests \cap TestsOf(n) = {}}

\* Mutant of Unfinished: any cycle may be finalized.
AnyCycle(n) == cycle[n] # "none"

Unfinished(n) == cycle[n] \notin {"none", "completed"}

\* What a cycle that cost sum adds to quota_spent_usd.
Paid(sum) == spent + sum

\* The scores of the cycle's models are computed anew, from all their tests
\* that are completed and not excluded.
Score == scored' = {t \in Tests : link[t] = "done" /\ t \notin excluded}

\* finalizeDonationCycle: a completed cycle is left alone; the cycle of a
\* donation that has ended is blocked; any other is paid for and scored.
FinalizeDonationCycle(n, sum) ==
  \/ /\ ~Unfinished(n)
     /\ UNCHANGED storeVars
  \/ /\ Unfinished(n) /\ status \notin Ongoing
     /\ cycle' = [cycle EXCEPT ![n] = "blocked"]
     /\ UNCHANGED <<donationVars, link, excluded, cost, outcome, scored>>
  \/ /\ Unfinished(n) /\ status \in Ongoing
     /\ LET runs == {t \in TestsOf(n) : link[t] # "none" /\ t \notin excluded} IN
        status' = IF runs # {} /\ \A t \in runs : outcome[t] # "unavailable"
                  THEN "active" ELSE status
     /\ cycle' = [cycle EXCEPT ![n] = "completed"]
     /\ due' = "later"
     /\ spent' = Paid(sum)
     /\ reserved' = 0
     /\ Score
     /\ UNCHANGED <<handle, lessee, leaseLive, link, excluded, cost, outcome>>

\* #transitionDonation: a revoked donation stays revoked.
TransitionDonation(s) ==
  /\ status' = IF status = "revoked" THEN status ELSE s
  /\ NoLessee
  /\ excluded' = {t \in Tests : link[t] # "none"}
  /\ cycle' = [n \in Cycles |-> IF cycle[n] = "running" THEN "blocked" ELSE cycle[n]]
  /\ UNCHANGED <<handle, due, spent, reserved, link, cost, outcome, scored>>
=============================================================================
