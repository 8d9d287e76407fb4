------------------------- MODULE DonationCycleProofs ------------------------
(***************************************************************************)
(* For any numbers of schedulers, models, cycles, requests and calls, any  *)
(* prices and quota, and under every disturbance:                          *)
(*   - DonationInv is inductive, so the end of a donation is final and     *)
(*     quiet, and its cycles do not overlap;                               *)
(*   - CredentialInv: the credential follows the donation;                 *)
(*   - TestsInv: no test is forgotten;                                     *)
(*   - ContractInv: the donation implements DonationContract;              *)
(*   - QuotaInv: what is spent is what the completed cycles have cost,     *)
(*     spent and reserved are within the quota while a cycle runs, and     *)
(*     prices that rise under it are all that leads out of the quota.      *)
(* The first three do not depend on what a cycle costs: the records that a *)
(* scheduler and a call remember are only required to have their fields.   *)
(***************************************************************************)
EXTENDS DonationCycle, FiniteSetTheorems, WellFoundedInduction, TLAPS

HasFields(s) ==
  s \in [pc : {s.pc}, id : {s.id}, row : {s.row}, patch : {s.patch}, todo : {s.todo},
         made : {s.made}, model : {s.model}, list : {s.list}, cycles : {s.cycles}, sum : {s.sum},
         price : Prices]

IsRow(r) == r \in [status : DonationStatus, due : {r.due}, spent : {r.spent}, reserved : {r.reserved}]

IsCall(k) ==
  k \in [pc : {k.pc}, op : {k.op}, target : {k.target}, list : {k.list}, test : {k.test}]

StoreShape ==
  /\ status \in DonationStatus \cup {"none"}
  /\ cycle \in [Cycles -> {"none", "running", "completed", "blocked"}]
  /\ link \in [Tests -> {"none", "pending", "done"}]

LEMMA MinCostIsPrice == MinCost \in Prices
  BY MoneyAssumption DEF Prices

SchedShape ==
  /\ sched = [w \in Schedulers |-> sched[w]]
  /\ \A w \in Schedulers : HasFields(sched[w]) /\ IsRow(sched[w].row)

CallShape ==
  /\ call = [c \in Calls |-> call[c]]
  /\ \A c \in Calls : IsCall(call[c])

\* The parts of the invariant, by the component whose variables they are about.
StoreInv ==
  /\ StoreShape
  /\ status = "none" => \A n \in Cycles : cycle[n] = "none"
  /\ BlockedAtTheEnd
  /\ EndedDonationIsQuiet
  /\ OneCycleAtATime

SchedInv ==
  /\ SchedShape
  /\ status = "none" => \A w \in Schedulers : sched[w].pc \in Reconciling
  /\ RowsAreOld
  /\ FinalizesACycle

CallInv == CallShape /\ CallsEndTheDonation

AllInv == StoreInv /\ SchedInv /\ CallInv

\* What no step does to the status of the donation.
EndStep ==
  /\ Ended => status' \in {"revoked", "expired"}
  /\ status = "revoked" => status' = "revoked"
  /\ status' = "none" => status = "none"
-----------------------------------------------------------------------------
(* The store's operations.                                                 *)

LEMMA StoreUnchanged ==
  ASSUME StoreInv, UNCHANGED <<status, due, lessee, cycle, link, excluded>>
  PROVE  StoreInv' /\ EndStep
  BY DEF StoreInv, StoreShape, BlockedAtTheEnd, EndedDonationIsQuiet, OneCycleAtATime,
         EndStep, Ended, Running, Linked

LEMMA StoreInsert ==
  ASSUME StoreInv, NEW r \in Requests, InsertDonation(r)
  PROVE  StoreInv' /\ EndStep
  BY DEF StoreInv, StoreShape, BlockedAtTheEnd, EndedDonationIsQuiet, OneCycleAtATime,
         EndStep, Ended, Running, Linked, InsertDonation, cycleVars, DonationStatus

LEMMA StoreClaim ==
  ASSUME StoreInv, NEW w \in Schedulers, DueDonation, ClaimDueDonation(w)
  PROVE  StoreInv' /\ EndStep
  BY DEF StoreInv, StoreShape, BlockedAtTheEnd, EndedDonationIsQuiet, OneCycleAtATime,
         EndStep, Ended, Running, Linked, DueDonation, ClaimDueDonation, Ongoing, cycleVars

\* Whoever holds the lease knows that the donation has not ended and that no
\* cycle runs.
LEMMA LeaseMeansOpen ==
  ASSUME StoreInv, NEW w \in Schedulers, Leases(w)
  PROVE  ~Ended /\ Running = {}
  BY SchedulersAssumption DEF StoreInv, EndedDonationIsQuiet, OneCycleAtATime, Leases

LEMMA StoreWrite ==
  ASSUME StoreInv, NEW w \in Schedulers, Leases(w), NEW row, NEW release \in BOOLEAN,
         row.status \in DonationStatus, row.status \in {"revoked", "expired"} => Ended,
         Write(row, release)
  PROVE  StoreInv' /\ EndStep
<1>1. ~Ended /\ Running = {}
  BY LeaseMeansOpen
<1>2. ~Ended' /\ Running' = {} /\ UNCHANGED <<cycle, link, excluded>>
       /\ status' \in DonationStatus /\ status' # "none"
  BY <1>1 DEF DonationStatus, Write, Ended, Running, cycleVars
<1>3. QED
  BY <1>1, <1>2 DEF StoreInv, StoreShape, BlockedAtTheEnd, EndedDonationIsQuiet,
     OneCycleAtATime, EndStep, Ended

LEMMA StoreCreateCycle ==
  ASSUME StoreInv, NEW w \in Schedulers, MayCreateCycle(w), NEW n, NEW r, CreateDonationCycle(n, r)
  PROVE  StoreInv' /\ EndStep
<1>1. ~Ended /\ Running = {}
  BY LeaseMeansOpen DEF MayCreateCycle
<1>2. Running' \subseteq {n} /\ StoreShape' /\ UNCHANGED status /\ status # "none"
  BY <1>1 DEF CreateDonationCycle, Running, StoreInv, StoreShape, MayCreateCycle, Ongoing
<1>3. \A m \in Cycles : cycle'[m] = "blocked" => cycle[m] = "blocked"
  BY DEF CreateDonationCycle, StoreInv, StoreShape
<1>4. due' = "never" /\ lessee' = NoScheduler
  BY DEF CreateDonationCycle, NoLessee
<1>5. QED
  BY <1>1, <1>2, <1>3, <1>4
  DEF StoreInv, BlockedAtTheEnd, EndedDonationIsQuiet, OneCycleAtATime, EndStep, Ended

LEMMA StoreCompleteRun ==
  ASSUME StoreInv, NEW t, NEW o, NEW c, CompleteDonationRun(t, o, c)
  PROVE  StoreInv' /\ EndStep
<1>1. CASE t \in PendingTests
  <2>1. UNCHANGED <<status, due, lessee, cycle, excluded>>
    BY <1>1 DEF CompleteDonationRun, donationVars
  <2>2. link' = [link EXCEPT ![t] = "done"] /\ t \in Tests /\ link[t] = "pending"
    BY <1>1 DEF CompleteDonationRun, PendingTests
  <2>3. link' \in [Tests -> {"none", "pending", "done"}]
    BY <2>2 DEF StoreInv, StoreShape
  <2>4. \A u \in Tests : link'[u] = "none" <=> link[u] = "none"
    BY <2>2 DEF StoreInv, StoreShape
  <2>5. StoreShape' /\ Linked' = Linked
    BY <2>1, <2>3, <2>4 DEF StoreInv, StoreShape, Linked
  <2>6. QED
    BY <2>1, <2>5 DEF StoreInv, BlockedAtTheEnd, EndedDonationIsQuiet, OneCycleAtATime,
       EndStep, Ended, Running
<1>2. CASE t \notin PendingTests
  BY <1>2, StoreUnchanged DEF CompleteDonationRun, storeVars, donationVars, cycleVars
<1>3. QED
  BY <1>1, <1>2

LEMMA StoreFinalize ==
  ASSUME StoreInv, NEW n \in Cycles, NEW sum,
         FinalizeDonationCycle(n, sum)
  PROVE  StoreInv' /\ EndStep
<1>1. CASE UNCHANGED storeVars
  BY <1>1, StoreUnchanged DEF storeVars, donationVars, cycleVars
<1>2. CASE Unfinished(n) /\ status \notin Ongoing
  <2>1. Ended
    BY <1>2 DEF StoreInv, StoreShape, Unfinished, Ended, DonationStatus, Ongoing
  <2>2. QED
    BY <1>2, <2>1 DEF FinalizeDonationCycle, StoreInv, StoreShape, BlockedAtTheEnd,
       EndedDonationIsQuiet, OneCycleAtATime, EndStep, Ended, Running, Linked, donationVars
<1>3. CASE Unfinished(n) /\ status \in Ongoing
  <2>1. ~Ended /\ ~Ended' /\ status' # "none" /\ status' \in DonationStatus
    BY <1>3 DEF FinalizeDonationCycle, Ended, Ongoing, DonationStatus
  <2>2. cycle[n] = "running"
    BY <1>3, <2>1 DEF StoreInv, StoreShape, BlockedAtTheEnd, Unfinished
  <2>3. Running' = {}
    BY <1>3, <2>2 DEF FinalizeDonationCycle, StoreInv, StoreShape, OneCycleAtATime, Running
  <2>4. StoreShape' /\ UNCHANGED <<link, excluded, lessee>>
    BY <1>3, <2>1 DEF FinalizeDonationCycle, StoreInv, StoreShape
  <2>5. \A m \in Cycles : cycle'[m] = "blocked" => cycle[m] = "blocked"
    BY <1>3 DEF FinalizeDonationCycle, StoreInv, StoreShape
  <2>6. QED
    BY <2>1, <2>3, <2>4, <2>5
    DEF StoreInv, BlockedAtTheEnd, EndedDonationIsQuiet, OneCycleAtATime, EndStep, Ended
<1>4. QED
  BY <1>1, <1>2, <1>3 DEF FinalizeDonationCycle

LEMMA StoreTransition ==
  ASSUME StoreInv, NEW s \in {"expired", "revoked"}, TransitionDonation(s)
  PROVE  StoreInv' /\ EndStep
<1>1. Ended' /\ status' \in DonationStatus /\ status' # "none" /\ EndStep
  BY DEF TransitionDonation, Ended, EndStep, DonationStatus
<1>2. StoreShape' /\ Running' = {} /\ Linked' \subseteq excluded' /\ lessee' = NoScheduler
  BY <1>1 DEF TransitionDonation, NoLessee, StoreInv, StoreShape, Running, Linked
<1>3. QED
  BY <1>1, <1>2 DEF StoreInv, BlockedAtTheEnd, EndedDonationIsQuiet, OneCycleAtATime

LEMMA StoreLesseeGone ==
  ASSUME StoreInv, NEW w \in Schedulers,
         lessee' = IF lessee = w THEN Gone ELSE lessee,
         UNCHANGED <<status, due, cycle, link, excluded>>
  PROVE  StoreInv' /\ EndStep
  BY SchedulersAssumption
  DEF StoreInv, StoreShape, BlockedAtTheEnd, EndedDonationIsQuiet, OneCycleAtATime,
      EndStep, Ended, Running, Linked

LEMMA StoreDueComes ==
  ASSUME StoreInv, due = "later", UNCHANGED <<status, lessee, cycle, link, excluded>>
  PROVE  StoreInv' /\ EndStep
  BY DEF StoreInv, StoreShape, BlockedAtTheEnd, EndedDonationIsQuiet, OneCycleAtATime,
         EndStep, Ended, Running, Linked
-----------------------------------------------------------------------------
(* What the schedulers and the calls remember.                             *)

\* A scheduler's record may change freely where the rest allows it.
SoundRecord(s) ==
  /\ HasFields(s) /\ IsRow(s.row)
  /\ s.row.status \in {"revoked", "expired"} => status' \in {"revoked", "expired"}
  /\ s.pc = "finalize" => s.id \in Cycles
  /\ s.pc \in Reconciling \/ status # "none"

LEMMA SchedStep ==
  ASSUME SchedInv, EndStep, NEW w \in Schedulers, NEW s, SoundRecord(s), Become(w, s)
  PROVE  SchedInv'
<1>1. sched' = [u \in Schedulers |-> IF u = w THEN s ELSE sched[u]]
  BY DEF Become, SchedInv, SchedShape
<1>2. SchedShape'
  BY <1>1 DEF SchedInv, SchedShape, SoundRecord
<1>3. QED
  BY <1>1, <1>2 DEF SchedInv, RowsAreOld, FinalizesACycle, SoundRecord, EndStep, Ended,
     IsRow, DonationStatus

LEMMA SchedUnchanged ==
  ASSUME SchedInv, EndStep, UNCHANGED sched
  PROVE  SchedInv'
  BY DEF SchedInv, SchedShape, RowsAreOld, FinalizesACycle, EndStep, Ended

LEMMA CallStep ==
  ASSUME CallInv, NEW c \in Calls, NEW k, IsCall(k), Continue(c, k),
         k.pc \notin {"idle", "done"} => k.target \in {"expired", "revoked"}
  PROVE  CallInv'
<1>1. call' = [d \in Calls |-> IF d = c THEN k ELSE call[d]]
  BY DEF Continue, CallInv, CallShape
<1>2. CallShape'
  BY <1>1 DEF CallInv, CallShape
<1>3. QED
  BY <1>1, <1>2 DEF CallInv, CallsEndTheDonation

LEMMA CallUnchanged == CallInv /\ UNCHANGED call => CallInv'
  BY DEF CallInv, CallShape, CallsEndTheDonation

LEMMA IdleIsSound == SchedInv => SoundRecord(IdleScheduler)
  BY MinCostIsPrice DEF SoundRecord, HasFields, IsRow, IdleScheduler, NoCopy, Reconciling, DonationStatus

\* A record that keeps its row.
LEMMA SameRowIsSound ==
  ASSUME SchedInv, EndStep, NEW w \in Schedulers, NEW s, HasFields(s),
         s.row = sched[w].row, s.pc = "finalize" => s.id \in Cycles,
         s.pc \in Reconciling \/ sched[w].pc \notin Reconciling
  PROVE  SoundRecord(s)
  BY DEF SchedInv, SchedShape, RowsAreOld, SoundRecord, EndStep, Ended
-----------------------------------------------------------------------------
(* reconcileOnce.                                                          *)

LEMMA ReconcileKeeps ==
  ASSUME StoreInv, SchedInv, NEW w \in Schedulers, Reconcile(w)
  PROVE  StoreInv' /\ SchedInv' /\ EndStep
<1>0. HasFields(sched[w])
  BY DEF SchedInv, SchedShape
<1>1. CASE ListPendingRuns(w)
  <2>1. StoreInv' /\ EndStep
    BY <1>1, StoreUnchanged DEF ListPendingRuns, storeVars, donationVars, cycleVars
  <2>2. Become(w, [IdleScheduler EXCEPT !.pc = "report", !.list = PendingTests])
    BY <1>1 DEF ListPendingRuns
  <2>3. SoundRecord([IdleScheduler EXCEPT !.pc = "report", !.list = PendingTests])
    BY MinCostIsPrice DEF SoundRecord, HasFields, IsRow, IdleScheduler, NoCopy, Reconciling, DonationStatus
  <2>4. QED
    BY <2>1, <2>2, <2>3, SchedStep
<1>2. ASSUME NEW t \in Tests, LookAtReport(w, t)
      PROVE  StoreInv' /\ SchedInv' /\ EndStep
  <2> DEFINE s1 == [sched[w] EXCEPT !.pc = "complete", !.list = @ \ {t}, !.id = t[1], !.model = t[2]]
             s2 == [sched[w] EXCEPT !.list = @ \ {t}]
  <2>1. StoreInv' /\ EndStep
    BY <1>2, StoreUnchanged DEF LookAtReport, storeVars, donationVars, cycleVars
  <2>2. HasFields(s1) /\ s1.row = sched[w].row /\ s1.pc = "complete"
    BY <1>0 DEF HasFields
  <2>3. HasFields(s2) /\ s2.row = sched[w].row /\ s2.pc = "report"
    BY <1>0, <1>2 DEF HasFields, LookAtReport
  <2>4. SoundRecord(s1) /\ SoundRecord(s2)
    BY <2>1, <2>2, <2>3, SameRowIsSound DEF Reconciling
  <2>5. Become(w, s1) \/ Become(w, s2)
    BY <1>2 DEF LookAtReport
  <2>6. QED
    BY <2>1, <2>4, <2>5, SchedStep
<1>3. CASE CompleteRun(w)
  <2> DEFINE s == [sched[w] EXCEPT !.pc = "report", !.id = 0, !.model = NoModel]
  <2>1. StoreInv' /\ EndStep
    BY <1>3, StoreCompleteRun DEF CompleteRun
  <2>2. HasFields(s) /\ s.row = sched[w].row /\ s.pc = "report"
    BY <1>0 DEF HasFields
  <2>3. QED
    BY <1>3, <2>1, <2>2, SameRowIsSound, SchedStep DEF CompleteRun, Reconciling
<1>4. CASE ListReadyCycles(w)
  <2> DEFINE s == [sched[w] EXCEPT !.pc = "ready", !.cycles = ReadyCycles]
  <2>1. StoreInv' /\ EndStep
    BY <1>4, StoreUnchanged DEF ListReadyCycles, storeVars, donationVars, cycleVars
  <2>2. HasFields(s) /\ s.row = sched[w].row /\ s.pc = "ready"
    BY <1>0, MinCostIsPrice DEF HasFields
  <2>3. QED
    BY <1>4, <2>1, <2>2, SameRowIsSound, SchedStep DEF ListReadyCycles, Reconciling
<1>5. ASSUME NEW n \in Cycles, SumCycle(w, n)
      PROVE  StoreInv' /\ SchedInv' /\ EndStep
  <2> DEFINE s == [sched[w] EXCEPT !.pc = "finalize", !.cycles = @ \ {n}, !.id = n, !.sum = CostOf(n)]
  <2>1. StoreInv' /\ EndStep
    BY <1>5, StoreUnchanged DEF SumCycle, storeVars, donationVars, cycleVars
  <2>2. HasFields(s) /\ s.row = sched[w].row /\ s.pc = "finalize" /\ s.id = n
    BY <1>0 DEF HasFields
  <2>3. QED
    BY <1>5, <2>1, <2>2, SameRowIsSound, SchedStep DEF SumCycle, Reconciling
<1>6. CASE FinalizeCycle(w)
  <2> DEFINE s == [sched[w] EXCEPT !.pc = "ready", !.id = 0, !.sum = 0]
  <2>1. sched[w].id \in Cycles
    BY <1>6 DEF FinalizeCycle, SchedInv, FinalizesACycle
  <2>2. StoreInv' /\ EndStep
    BY <1>6, <2>1, StoreFinalize DEF FinalizeCycle
  <2>3. HasFields(s) /\ s.row = sched[w].row /\ s.pc = "ready"
    BY <1>0 DEF HasFields
  <2>4. QED
    BY <1>6, <2>2, <2>3, SameRowIsSound, SchedStep DEF FinalizeCycle, Reconciling
<1>7. QED
  BY <1>1, <1>2, <1>3, <1>4, <1>5, <1>6 DEF Reconcile
-----------------------------------------------------------------------------
(* scheduleOnce.                                                           *)

\* A step of an attempt that touches nothing the store's invariant reads, and
\* leaves the scheduler's row as it is.
LEMMA AttemptStep ==
  ASSUME StoreInv, SchedInv, NEW w \in Schedulers, NEW s,
         UNCHANGED <<status, due, lessee, cycle, link, excluded>>,
         HasFields(s), s.row = sched[w].row, s.pc # "finalize",
         sched[w].pc \notin Reconciling, Become(w, s)
  PROVE  StoreInv' /\ SchedInv' /\ EndStep
  BY StoreUnchanged, SameRowIsSound, SchedStep

LEMMA ClaimKeeps ==
  ASSUME StoreInv, SchedInv, NEW w \in Schedulers, ClaimDonation(w)
  PROVE  StoreInv' /\ SchedInv' /\ EndStep
<1> DEFINE s == [IdleScheduler EXCEPT !.pc = "read", !.row = Copy]
<1>1. CASE DueDonation /\ ~expired /\ CycleIdsLeft
  <2>1. ClaimDueDonation(w) /\ Become(w, s)
    BY <1>1 DEF ClaimDonation
  <2>2. StoreInv' /\ EndStep
    BY <1>1, <2>1, StoreClaim
  <2>3. status' = status /\ status \in Ongoing
    BY <1>1, <2>1 DEF ClaimDueDonation, DueDonation
  <2>4. HasFields(s) /\ IsRow(s.row) /\ s.row.status = status /\ s.pc = "read"
    BY <2>3, MinCostIsPrice
    DEF HasFields, IsRow, IdleScheduler, NoCopy, Copy, DonationStatus, Ongoing
  <2>5. SoundRecord(s)
    BY <2>3, <2>4 DEF SoundRecord, Ongoing
  <2>6. QED
    BY <2>1, <2>2, <2>5, SchedStep
<1>2. CASE ~(DueDonation /\ ~expired /\ CycleIdsLeft)
  <2>1. Become(w, IdleScheduler) /\ UNCHANGED <<status, due, lessee, cycle, link, excluded>>
    BY <1>2 DEF ClaimDonation, storeVars, donationVars, cycleVars
  <2>2. QED
    BY <2>1, StoreUnchanged, IdleIsSound, SchedStep
<1>3. QED
  BY <1>1, <1>2

\* What AttemptStep asks of the new record.
Successor(w, s) == HasFields(s) /\ s.row = sched[w].row /\ s.pc # "finalize"

LEMMA CaughtIsSuccessor ==
  ASSUME SchedInv, NEW w \in Schedulers
  PROVE  Successor(w, Caught(w)) /\ \A patch : Successor(w, Patching(w, patch))
  BY MinCostIsPrice DEF SchedInv, SchedShape, HasFields, Successor, Caught, Patching

LEMMA MakingKeeps ==
  ASSUME StoreInv, SchedInv, NEW w \in Schedulers,
         \/ ReadCredential(w)
         \/ ProbeIdentity(w)
         \/ CheckQuota(w)
         \/ \E m \in Models : PutEnvelope(w, m)
         \/ CreateRun(w)
         \/ Attribute(w)
  PROVE  StoreInv' /\ SchedInv' /\ EndStep
<1>0. HasFields(sched[w])
  BY DEF SchedInv, SchedShape
<1>1. UNCHANGED <<status, due, lessee, cycle, link, excluded>> /\ sched[w].pc \notin Reconciling
  BY DEF ReadCredential, ProbeIdentity, CheckQuota, PutEnvelope, CreateRun, Attribute,
         Reconciling, storeVars, donationVars, cycleVars
<1>2. ASSUME NEW s, Successor(w, s), Become(w, s)
      PROVE  StoreInv' /\ SchedInv' /\ EndStep
  BY <1>1, <1>2, AttemptStep DEF Successor
<1>3. \A label : label # "finalize" => Successor(w, [sched[w] EXCEPT !.pc = label])
  BY <1>0 DEF HasFields, Successor
<1>4. CASE ReadCredential(w) \/ ProbeIdentity(w)
  <2>1. \/ Become(w, Caught(w))
        \/ Become(w, [sched[w] EXCEPT !.pc = "probe"])
        \/ Become(w, [sched[w] EXCEPT !.pc = "quota"])
        \/ Become(w, Patching(w, "never"))
        \/ Become(w, Patching(w, "later"))
    BY <1>4 DEF ReadCredential, ProbeIdentity, GoTo, Become
  <2>2. QED
    BY <2>1, <1>2, <1>3, CaughtIsSuccessor
<1>5. CASE CheckQuota(w)
  <2> DEFINE s(p) == [sched[w] EXCEPT !.pc = "put", !.id = issued + 1, !.todo = Models, !.price = p]
  <2>1. \A p \in Prices : Successor(w, s(p))
    BY <1>0 DEF HasFields, Successor
  <2>2. (\E p \in Prices : Become(w, s(p))) \/ Become(w, Patching(w, "exhausted"))
    BY <1>5 DEF CheckQuota
  <2> HIDE DEF s
  <2>3. QED
    BY <2>1, <2>2, <1>2, CaughtIsSuccessor
<1>6. ASSUME NEW m \in Models, PutEnvelope(w, m)
      PROVE  StoreInv' /\ SchedInv' /\ EndStep
  <2> DEFINE s == [sched[w] EXCEPT !.pc = "create", !.model = m]
  <2>1. Successor(w, s)
    BY <1>0 DEF HasFields, Successor
  <2>2. Become(w, s) \/ Become(w, Caught(w))
    BY <1>6 DEF PutEnvelope
  <2>3. QED
    BY <2>1, <2>2, <1>2, CaughtIsSuccessor
<1>7. CASE CreateRun(w)
  <2> DEFINE s  == [sched[w] EXCEPT !.todo = @ \ {sched[w].model}, !.made = @ \cup {sched[w].model}]
             s1 == [s EXCEPT !.model = NoModel, !.pc = IF s.todo = {} THEN "attribute" ELSE "put"]
             s2 == [s EXCEPT !.model = NoModel, !.pc = "undo"]
  <2>1. HasFields(s) /\ s.row = sched[w].row
    BY <1>0 DEF HasFields
  <2>2. Become(w, s1) \/ Become(w, s2)
    BY <1>7 DEF CreateRun
  <2> HIDE DEF s
  <2>3. Successor(w, s1) /\ Successor(w, s2)
    BY <2>1 DEF HasFields, Successor
  <2>4. QED
    BY <2>2, <2>3, <1>2
<1>8. CASE Attribute(w)
  BY <1>8, <1>2, CaughtIsSuccessor DEF Attribute
<1>9. QED
  BY <1>4, <1>5, <1>6, <1>7, <1>8

LEMMA RecordingKeeps ==
  ASSUME StoreInv, SchedInv, NEW w \in Schedulers,
         ReadRow(w) \/ WriteRow(w) \/ CreateCycle(w)
  PROVE  StoreInv' /\ SchedInv' /\ EndStep
<1>0. HasFields(sched[w]) /\ IsRow(sched[w].row) /\ sched[w].pc \notin Reconciling
  BY DEF SchedInv, SchedShape, ReadRow, WriteRow, CreateCycle, Reconciling
<1>1. status # "none"
  BY <1>0 DEF SchedInv
<1>2. ASSUME NEW s, Successor(w, s), Become(w, s),
             UNCHANGED <<status, due, lessee, cycle, link, excluded>>
      PROVE  StoreInv' /\ SchedInv' /\ EndStep
  BY <1>0, <1>2, AttemptStep DEF Successor
<1>3. CASE ReadRow(w)
  <2> DEFINE s == [sched[w] EXCEPT !.pc = "writeRow", !.row = Copy]
  <2>1. StoreInv' /\ EndStep /\ status' = status
    BY <1>3, StoreUnchanged DEF ReadRow, storeVars, donationVars, cycleVars
  <2>2. HasFields(s) /\ s.row = Copy /\ s.pc = "writeRow"
    BY <1>0 DEF HasFields
  <2>3. IsRow(Copy) /\ Copy.status = status
    BY <1>1 DEF IsRow, Copy, StoreInv, StoreShape
  <2>4. SoundRecord(s)
    BY <2>1, <2>2, <2>3, <1>1 DEF SoundRecord
  <2>5. QED
    BY <1>3, <2>1, <2>4, SchedStep DEF ReadRow
<1>4. CASE WriteRow(w)
  <2> DEFINE s == [sched[w] EXCEPT !.pc = "cycle"]
             row == Patched(sched[w].row, sched[w].patch)
             release == sched[w].patch # "keep"
  <2>1. Successor(w, s)
    BY <1>0 DEF HasFields, Successor
  <2>2. Throws(w) = IdleScheduler \/ Throws(w) = Caught(w)
    BY DEF Throws
  <2>3. Become(w, s) \/ Become(w, IdleScheduler) \/ Become(w, Caught(w))
    BY <1>4, <2>2 DEF WriteRow
  <2>4. StoreInv' /\ EndStep
    <3>1. CASE MayWrite(w)
      <4>1. Write(row, release)
        BY <1>4, <3>1 DEF WriteRow
      <4>2. row.status = sched[w].row.status
        BY <1>0 DEF IsRow, Patched
      <4>3. row.status \in DonationStatus /\ (row.status \in {"revoked", "expired"} => Ended)
        BY <4>2, <1>0 DEF IsRow, SchedInv, RowsAreOld
      <4>4. QED
        BY <3>1, <4>1, <4>3, StoreWrite DEF MayWrite
    <3>2. CASE ~MayWrite(w)
      BY <1>4, <3>2, StoreUnchanged DEF WriteRow, storeVars, donationVars, cycleVars
    <3>3. QED
      BY <3>1, <3>2
  <2>5. SoundRecord(s) /\ SoundRecord(Caught(w)) /\ SoundRecord(IdleScheduler)
    BY <2>1, <2>4, <1>0, SameRowIsSound, CaughtIsSuccessor, IdleIsSound DEF Successor
  <2>6. QED
    BY <2>3, <2>4, <2>5, SchedStep
<1>5. CASE CreateCycle(w)
  <2>1. StoreInv' /\ EndStep
    BY <1>5, StoreCreateCycle, StoreUnchanged DEF CreateCycle, storeVars, donationVars, cycleVars
  <2>2. SoundRecord(Caught(w)) /\ SoundRecord(IdleScheduler)
    BY <2>1, <1>0, SameRowIsSound, CaughtIsSuccessor, IdleIsSound DEF Successor
  <2>3. QED
    BY <1>5, <2>1, <2>2, SchedStep DEF CreateCycle
<1>6. QED
  BY <1>3, <1>4, <1>5

LEMMA UndoKeeps ==
  ASSUME StoreInv, SchedInv, NEW w \in Schedulers,
         (\E m \in Models : UndoRun(w, m)) \/ UndoEnvelope(w) \/ UndoDone(w) \/ QueryFails(w)
  PROVE  StoreInv' /\ SchedInv' /\ EndStep
<1>0. HasFields(sched[w])
  BY DEF SchedInv, SchedShape
<1>1. UNCHANGED <<status, due, lessee, cycle, link, excluded>> /\ sched[w].pc \notin Reconciling
  BY DEF UndoRun, UndoEnvelope, UndoDone, QueryFails, Reconciling, storeVars, donationVars, cycleVars
<1>2. StoreInv' /\ EndStep
  BY <1>1, StoreUnchanged
<1>3. ASSUME NEW s, Successor(w, s), Become(w, s)
      PROVE  SchedInv'
  BY <1>1, <1>3, AttemptStep DEF Successor
<1>4. ASSUME NEW m \in Models, UndoRun(w, m)
      PROVE  SchedInv'
  <2> DEFINE s == [sched[w] EXCEPT !.pc = "dropEnvelope", !.model = m]
  <2>1. Successor(w, s)
    BY <1>0 DEF HasFields, Successor
  <2>2. QED
    BY <1>3, <1>4, <2>1 DEF UndoRun
<1>5. CASE UndoEnvelope(w)
  <2> DEFINE s == [sched[w] EXCEPT !.pc = "undo", !.made = @ \ {sched[w].model}, !.model = NoModel]
  <2>1. Successor(w, s)
    BY <1>0 DEF HasFields, Successor
  <2>2. QED
    BY <1>2, <1>3, <1>5, <2>1 DEF UndoEnvelope
<1>6. CASE UndoDone(w)
  BY <1>2, <1>3, <1>6, CaughtIsSuccessor DEF UndoDone
<1>7. CASE QueryFails(w)
  <2>1. Become(w, IdleScheduler) \/ Become(w, Caught(w))
    BY <1>7 DEF QueryFails, Throws
  <2>2. QED
    BY <2>1, <1>2, <1>3, IdleIsSound, SchedStep, CaughtIsSuccessor
<1>8. QED
  BY <1>2, <1>4, <1>5, <1>6, <1>7

LEMMA LoopKeeps ==
  ASSUME AllInv, NEW w \in Schedulers, DonationLoop(w) \/ (QueryFails(w) /\ UNCHANGED routeVars)
  PROVE  AllInv' /\ EndStep
<1>1. StoreInv' /\ SchedInv' /\ EndStep
  BY ReconcileKeeps, ClaimKeeps, MakingKeeps, RecordingKeeps, UndoKeeps
  DEF AllInv, DonationLoop, Schedule
<1>2. CallInv'
  BY CallUnchanged DEF AllInv, DonationLoop, routeVars
<1>3. QED
  BY <1>1, <1>2 DEF AllInv

LEMMA CrashKeeps ==
  ASSUME AllInv, NEW w \in Schedulers, Crash(w), UNCHANGED routeVars
  PROVE  AllInv' /\ EndStep
<1>1. StoreInv' /\ EndStep
  BY StoreLesseeGone DEF AllInv, Crash, cycleVars
<1>2. SchedInv'
  BY <1>1, IdleIsSound, SchedStep DEF AllInv, Crash
<1>3. CallInv'
  BY CallUnchanged DEF AllInv, routeVars
<1>4. QED
  BY <1>1, <1>2, <1>3 DEF AllInv
-----------------------------------------------------------------------------
(* Steps that leave the schedulers alone.                                  *)

\* The run workers, the lease, the vault and the expiry.
LEMMA WorldKeeps ==
  ASSUME AllInv, UNCHANGED <<sched, call>>,
         UNCHANGED <<status, lessee, cycle, link, excluded>>,
         due' = due \/ due = "later"
  PROVE  AllInv' /\ EndStep
<1>1. StoreInv' /\ EndStep
  BY StoreUnchanged, StoreDueComes DEF AllInv
<1>2. QED
  BY <1>1, SchedUnchanged, CallUnchanged DEF AllInv

LEMMA CreateKeeps ==
  ASSUME AllInv, NEW r \in Requests, CreateNext(r)
  PROVE  AllInv' /\ EndStep
<1>1. StoreInv' /\ EndStep
  BY StoreInsert, StoreUnchanged
  DEF AllInv, CreateNext, StoreCredential, CreateDonation, DiscardCredential,
      storeVars, donationVars, cycleVars
<1>2. UNCHANGED <<sched, call>>
  BY DEF CreateNext, StoreCredential, CreateDonation, DiscardCredential, schedVars
<1>3. QED
  BY <1>1, <1>2, SchedUnchanged, CallUnchanged DEF AllInv

\* A step of a handler that only remembers something.
LEMMA CallMoves ==
  ASSUME AllInv, NEW c \in Calls, NEW k, IsCall(k), Continue(c, k),
         k.pc \notin {"idle", "done"} => k.target \in {"expired", "revoked"},
         UNCHANGED <<storeVars, schedVars>>
  PROVE  AllInv' /\ EndStep
<1>1. StoreInv' /\ EndStep
  BY StoreUnchanged DEF AllInv, storeVars, donationVars, cycleVars
<1>2. SchedInv'
  BY <1>1, SchedUnchanged DEF AllInv, schedVars
<1>3. CallInv'
  BY CallStep DEF AllInv
<1>4. QED
  BY <1>1, <1>2, <1>3 DEF AllInv

LEMMA CallKeeps ==
  ASSUME AllInv, NEW c \in Calls,
         \/ CallNext(c)
         \/ \E op \in {"status", "revoke"} : OwnedDonation(c, op)
         \/ AbandonCall(c)
  PROVE  AllInv' /\ EndStep
<1>0. IsCall(call[c])
      /\ (call[c].pc \notin {"idle", "done"} => call[c].target \in {"expired", "revoked"})
  BY DEF AllInv, CallInv, CallShape, CallsEndTheDonation
<1>1. ASSUME NEW op \in {"status", "revoke"}, OwnedDonation(c, op)
      PROVE  AllInv' /\ EndStep
  <2> DEFINE k1 == [IdleCall EXCEPT !.pc = "list", !.op = op, !.target = "expired"]
             k2 == [IdleCall EXCEPT !.pc = "list", !.op = op, !.target = "revoked"]
             k3 == [IdleCall EXCEPT !.pc = "done", !.op = op]
  <2>1. Continue(c, k1) \/ Continue(c, k2) \/ Continue(c, k3)
    BY <1>1 DEF OwnedDonation
  <2>2. IsCall(k1) /\ IsCall(k2) /\ IsCall(k3)
        /\ k1.target = "expired" /\ k2.target = "revoked" /\ k3.pc = "done"
    BY DEF IsCall, IdleCall
  <2>3. UNCHANGED <<storeVars, schedVars>>
    BY <1>1 DEF OwnedDonation
  <2>4. QED
    BY <2>1, <2>2, <2>3, CallMoves
<1>2. CASE ListRuns(c)
  <2> DEFINE k == [call[c] EXCEPT !.pc = "cancel", !.list = PendingTests]
  <2>1. IsCall(k) /\ k.target \in {"expired", "revoked"}
    BY <1>0, <1>2 DEF IsCall, ListRuns
  <2>2. QED
    BY <1>2, <2>1, CallMoves DEF ListRuns
<1>3. ASSUME NEW t \in Tests, CancelRun(c, t)
      PROVE  AllInv' /\ EndStep
  <2> DEFINE k == [call[c] EXCEPT !.pc = "dropEnvelope", !.list = @ \ {t}, !.test = t]
  <2>1. IsCall(k) /\ k.target \in {"expired", "revoked"}
    BY <1>0, <1>3 DEF IsCall, CancelRun
  <2>2. QED
    BY <1>3, <2>1, CallMoves DEF CancelRun
<1>4. CASE DropRunEnvelope(c)
  <2> DEFINE k == [call[c] EXCEPT !.pc = "cancel", !.test = <<>>]
  <2>1. IsCall(k) /\ k.target \in {"expired", "revoked"}
    BY <1>0, <1>4 DEF IsCall, DropRunEnvelope
  <2>2. QED
    BY <1>4, <2>1, CallMoves DEF DropRunEnvelope
<1>5. CASE EndDonation(c)
  <2> DEFINE k == [call[c] EXCEPT !.pc = "dropCredential"]
  <2>1. call[c].target \in {"expired", "revoked"}
    BY <1>0, <1>5 DEF EndDonation
  <2>2. IsCall(k) /\ k.target \in {"expired", "revoked"}
    BY <1>0, <2>1 DEF IsCall
  <2>3. StoreInv' /\ EndStep
    BY <1>5, <2>1, StoreTransition DEF EndDonation, AllInv
  <2>4. SchedInv'
    BY <1>5, <2>3, SchedUnchanged DEF EndDonation, AllInv, schedVars
  <2>5. CallInv'
    BY <1>5, <2>2, CallStep DEF EndDonation, AllInv
  <2>6. QED
    BY <2>3, <2>4, <2>5 DEF AllInv
<1>6. CASE DropCredential(c)
  <2> DEFINE k1 == [call[c] EXCEPT !.pc = "list", !.target = "revoked"]
             k2 == [IdleCall EXCEPT !.pc = "done", !.op = call[c].op]
  <2>1. Continue(c, k1) \/ Continue(c, k2)
    BY <1>6 DEF DropCredential, CallEnds
  <2>2. IsCall(k1) /\ IsCall(k2) /\ k1.target = "revoked" /\ k2.pc = "done"
    BY <1>0 DEF IsCall, IdleCall
  <2>3. QED
    BY <1>6, <2>1, <2>2, CallMoves DEF DropCredential
<1>7. CASE AbandonCall(c)
  <2>1. IsCall(IdleCall) /\ IdleCall.pc = "idle"
    BY DEF IsCall, IdleCall
  <2>2. QED
    BY <1>7, <2>1, CallMoves DEF AbandonCall
<1>8. QED
  BY <1>1, <1>2, <1>3, <1>4, <1>5, <1>6, <1>7 DEF CallNext
-----------------------------------------------------------------------------
(* The theorems.                                                           *)

LEMMA InvInit == Init => AllInv
<1> SUFFICES ASSUME Init PROVE AllInv
  OBVIOUS
<1>1. StoreInv
  BY DEF Init, DonationStoreInit, StoreInv, StoreShape, BlockedAtTheEnd,
         EndedDonationIsQuiet, OneCycleAtATime, Ended, Running
<1>2. SchedInv
  <2>1. HasFields(IdleScheduler) /\ IsRow(IdleScheduler.row)
        /\ IdleScheduler.row.status = "quarantined" /\ IdleScheduler.pc = "idle"
    BY MinCostIsPrice DEF HasFields, IsRow, IdleScheduler, NoCopy, DonationStatus
  <2>2. QED
    BY <2>1 DEF Init, SchedulerInit, SchedInv, SchedShape, RowsAreOld, FinalizesACycle, Reconciling
<1>3. CallInv
  BY DEF Init, RoutesInit, CallInv, CallShape, IsCall, IdleCall, CallsEndTheDonation
<1>4. QED
  BY <1>1, <1>2, <1>3 DEF AllInv

LEMMA InvNext == AllInv /\ [Next]_vars => AllInv' /\ EndStep
<1> SUFFICES ASSUME AllInv, [Next]_vars PROVE AllInv' /\ EndStep
  OBVIOUS
<1>1. ASSUME NEW w \in Schedulers, DonationLoop(w)
      PROVE  AllInv' /\ EndStep
  BY <1>1, LoopKeeps
<1>2. ASSUME NEW t \in Tests, RunsNext(t)
      PROVE  AllInv' /\ EndStep
  BY <1>2, WorldKeeps
  DEF RunsNext, UseCredential, FinishTestRun, CleanupTestRun, storeVars, donationVars,
      cycleVars, schedVars, routeVars
<1>3. ASSUME NEW r \in Requests, CreateNext(r)
      PROVE  AllInv' /\ EndStep
  BY <1>3, CreateKeeps
<1>4. ASSUME NEW c \in Calls,
             CallNext(c) \/ (\E op \in {"status", "revoke"} : OwnedDonation(c, op)) \/ AbandonCall(c)
      PROVE  AllInv' /\ EndStep
  BY <1>4, CallKeeps
<1>5. CASE (LeaseLapses \/ NextRunAtComes) /\ UNCHANGED routeVars
  BY <1>5, WorldKeeps DEF LeaseLapses, NextRunAtComes, cycleVars, schedVars, routeVars
<1>6. CASE SweepCredentials \/ Expire \/ UNCHANGED vars
  BY <1>6, WorldKeeps
  DEF SweepCredentials, Expire, vars, storeVars, donationVars, cycleVars, schedVars, routeVars
<1>7. ASSUME NEW w \in Schedulers, (QueryFails(w) \/ Crash(w)) /\ UNCHANGED routeVars
      PROVE  AllInv' /\ EndStep
  BY <1>7, LoopKeeps, CrashKeeps
<1>8. QED
  BY <1>1, <1>2, <1>3, <1>4, <1>5, <1>6, <1>7 DEF Next, Disturb

\* The inductive invariant holds in every reachable state: whatever stale rows,
\* lists and targets the processes and handlers remember (donation-scheduler.ts,
\* contributions.ts), the checks inside the store's transactions suffice.
THEOREM DonationInvariantCorrect == Spec => []DonationInv
<1>1. AllInv => DonationInv
  BY DEF AllInv, StoreInv, SchedInv, CallInv, DonationInv, NothingBeforeInsert
<1>2. QED
  BY <1>1, InvInit, InvNext, PTL DEF Spec

\* A donation that has ended is left with no running cycle, no test to
\* reconcile and no scheduler that may write to it.
THEOREM EndedDonationIsQuietCorrect == Spec => []EndedDonationIsQuiet
<1>1. DonationInv => EndedDonationIsQuiet
  BY DEF DonationInv
<1>2. QED
  BY <1>1, DonationInvariantCorrect, PTL

\* At most one cycle runs at a time, and while one runs no scheduler holds the
\* donation and none can claim it.
THEOREM OneCycleAtATimeCorrect == Spec => []OneCycleAtATime
<1>1. DonationInv => OneCycleAtATime
  BY DEF DonationInv
<1>2. QED
  BY <1>1, DonationInvariantCorrect, PTL

\* No stale row, finalize or late expiry brings an ended donation back.
THEOREM EndIsFinalCorrect == Spec => EndIsFinal
<1>1. AllInv /\ [Next]_vars =>
        [/\ Ended => status' \in {"revoked", "expired"}
         /\ status = "revoked" => status' = "revoked"]_vars
  BY InvNext DEF EndStep
<1>2. QED
  BY <1>1, InvInit, InvNext, PTL DEF Spec, EndIsFinal
-----------------------------------------------------------------------------
(* The long-term credential of the donation.                               *)

\* A step that leaves the credential alone, does not end the donation and does
\* not store it.
LEMMA CredentialStays ==
  ASSUME AllInv, CredentialInv, EndStep, UNCHANGED <<handle, request, stored>>,
         expired => expired', interrupted => interrupted',
         Ended' => Ended, status = "none" => status' = "none",
         \A c \in Calls : call'[c].pc = "dropCredential" <=> call[c].pc = "dropCredential"
  PROVE  CredentialInv'
<1>1. CASE expired \/ interrupted
  BY <1>1 DEF CredentialInv
<1>2. CASE ~(expired \/ interrupted)
  <2>1. status' \in Ongoing => status \in Ongoing
    BY DEF EndStep, Ended, AllInv, StoreInv, StoreShape, DonationStatus, Ongoing
  <2>2. status' = "none" => status = "none"
    BY DEF EndStep
  <2>3. CredentialFollowsDonation'
    BY <1>2, <2>1 DEF CredentialInv, CredentialFollowsDonation
  <2>4. \A c \in Calls : call'[c].pc = "dropCredential" => Ended'
    BY <1>2 DEF CredentialInv, EndStep, Ended
  <2>5. QED
    BY <1>2, <2>2, <2>3, <2>4 DEF CredentialInv
<1>3. QED
  BY <1>1, <1>2

\* Only the donor's calls end a donation, and only a request stores it.
LEMMA SchedulersDontEnd ==
  ASSUME AllInv, NEW w \in Schedulers, DonationLoop(w) \/ QueryFails(w) \/ Crash(w)
  PROVE  /\ Ended' => Ended
         /\ status = "none" => status' = "none"
         /\ UNCHANGED <<handle, stored, expired>>
         /\ interrupted => interrupted'
<1>1. CASE UNCHANGED <<status, handle, stored, expired>> /\ (interrupted => interrupted')
  BY <1>1 DEF Ended
<1>2. CASE FinalizeCycle(w)
  BY <1>2 DEF FinalizeCycle, FinalizeDonationCycle, storeVars, donationVars, worldVars, Ended, Ongoing
<1>3. CASE WriteRow(w)
  <2>1. UNCHANGED <<handle, stored, expired, interrupted>> /\ sched[w].pc = "writeRow"
    BY <1>3 DEF WriteRow, Write, worldVars, storeVars, donationVars
  <2>2. status # "none" /\ IsRow(sched[w].row) /\ (sched[w].row.status \in {"revoked", "expired"} => Ended)
    BY <2>1 DEF AllInv, SchedInv, SchedShape, RowsAreOld, Reconciling
  <2>3. Patched(sched[w].row, sched[w].patch).status = sched[w].row.status
    BY <2>2 DEF IsRow, Patched
  <2>4. status' = sched[w].row.status \/ status' = status
    BY <1>3, <2>3 DEF WriteRow, Write, storeVars, donationVars
  <2>5. QED
    BY <2>1, <2>2, <2>4 DEF Ended
<1>4. CASE CompleteRun(w)
  <2>1. UNCHANGED donationVars /\ UNCHANGED worldVars
    BY <1>4 DEF CompleteRun, CompleteDonationRun, storeVars
  <2>2. QED
    BY <1>1, <2>1 DEF donationVars, worldVars
<1>5. CASE CreateCycle(w)
  BY <1>1, <1>5 DEF CreateCycle, CreateDonationCycle, storeVars, donationVars
<1>6. CASE ClaimDonation(w)
  BY <1>1, <1>6 DEF ClaimDonation, ClaimDueDonation, storeVars, donationVars, worldVars
<1>7. CASE Reconcile(w) /\ ~FinalizeCycle(w) /\ ~CompleteRun(w)
  <2>1. UNCHANGED <<storeVars, worldVars>>
    BY <1>7 DEF Reconcile, ListPendingRuns, LookAtReport, ListReadyCycles, SumCycle
  <2>2. QED
    BY <1>1, <2>1 DEF storeVars, donationVars, worldVars
<1>8. CASE Schedule(w) /\ ~WriteRow(w) /\ ~CreateCycle(w) /\ ~ClaimDonation(w)
  <2>1. UNCHANGED <<storeVars, stored, expired>> /\ (interrupted => interrupted')
    <3>1. CASE ReadCredential(w) \/ ProbeIdentity(w) \/ Attribute(w) \/ ReadRow(w) \/ UndoDone(w)
      BY <3>1 DEF ReadCredential, ProbeIdentity, Attribute, ReadRow, UndoDone, worldVars
    <3>2. CASE CreateRun(w)
      BY <3>2 DEF CreateRun, worldVars
    <3>3. ASSUME NEW m \in Models, PutEnvelope(w, m) \/ UndoRun(w, m)
          PROVE  UNCHANGED <<storeVars, stored, expired>> /\ (interrupted => interrupted')
      BY <3>3 DEF PutEnvelope, UndoRun, worldVars
    <3>4. CASE UndoEnvelope(w)
      BY <3>4 DEF UndoEnvelope, worldVars
    <3>5. CASE CheckQuota(w)
      <4>1. UNCHANGED <<storeVars, worldVars>>
        BY <3>5 DEF CheckQuota
      <4>2. QED
        BY <4>1 DEF worldVars
    <3>6. QED
      BY <1>8, <3>1, <3>2, <3>3, <3>4, <3>5 DEF Schedule
  <2>2. QED
    BY <1>1, <2>1 DEF storeVars, donationVars
<1>9. CASE QueryFails(w) \/ Crash(w)
  BY <1>1, <1>9 DEF QueryFails, Crash, storeVars, donationVars, worldVars
<1>10. QED
  BY <1>2, <1>3, <1>4, <1>5, <1>6, <1>7, <1>8, <1>9 DEF DonationLoop

LEMMA CreateKeepsCredential ==
  ASSUME AllInv, AllInv', CredentialInv, NEW r \in Requests, CreateNext(r),
         request \in [Requests -> {"idle", "create", "discard", "done"}]
  PROVE  CredentialInv'
<1>1. CASE expired \/ interrupted
  BY <1>1 DEF CredentialInv, CreateNext, StoreCredential, CreateDonation, DiscardCredential
<1>2. CASE ~(expired \/ interrupted)
  <2>1. UNCHANGED <<call, expired>> /\ \A s \in Requests \ {r} : request'[s] = request[s]
    BY DEF CreateNext, StoreCredential, CreateDonation, DiscardCredential, RequestTo
  <2>2. /\ status = "none" => handle = NoRequest
        /\ \A s \in Requests : (request[s] # "done" => s # handle)
                               /\ (request[s] = "create" => s \in stored)
        /\ \A c \in Calls : call[c].pc = "dropCredential" => Ended
        /\ status \in Ongoing => handle \in stored
        /\ \A s \in Requests : s \in stored \ {handle} => request[s] \in {"create", "discard"}
        /\ Ended /\ handle \in stored => \E c \in Calls : call[c].pc = "dropCredential"
    BY <1>2 DEF CredentialInv, CredentialFollowsDonation
  <2>3. CASE StoreCredential(r)
    <3>1. /\ UNCHANGED <<status, handle, interrupted>> /\ stored' = stored \cup {r}
          /\ request[r] = "idle" /\ request'[r] = "create"
      BY <2>3 DEF StoreCredential, RequestTo, storeVars, donationVars
    <3>2. QED
      BY <2>1, <2>2, <3>1 DEF CredentialInv, CredentialFollowsDonation, Ended
  <2>4. CASE DiscardCredential(r)
    <3>1. /\ UNCHANGED <<status, handle, interrupted>> /\ stored' = stored \ {r}
          /\ request[r] = "discard" /\ request'[r] = "done"
      BY <2>4 DEF DiscardCredential, RequestTo, storeVars, donationVars
    <3>2. QED
      BY <2>1, <2>2, <3>1 DEF CredentialInv, CredentialFollowsDonation, Ended
  <2>5. CASE CreateDonation(r) /\ ~interrupted'
    <3>1. request[r] = "create" /\ UNCHANGED stored
      BY <2>5 DEF CreateDonation
    <3>2. CASE InsertDonation(r) /\ request'[r] = "done"
      <4>1. status = "none" /\ status' = "quarantined" /\ handle' = r
        BY <3>2 DEF InsertDonation
      <4>2. QED
        BY <2>1, <2>2, <3>1, <3>2, <4>1, DonorsAssumption
        DEF CredentialInv, CredentialFollowsDonation, Ended, Ongoing
    <3>3. CASE status # "none" /\ UNCHANGED <<status, handle>> /\ request'[r] = "discard"
      BY <2>1, <2>2, <3>1, <3>3 DEF CredentialInv, CredentialFollowsDonation, Ended
    <3>4. QED
      BY <1>2, <2>5, <3>2, <3>3 DEF CreateDonation, RequestTo, storeVars, donationVars
  <2>6. QED
    BY <2>3, <2>4, <2>5 DEF CreateNext, CredentialInv
<1>3. QED
  BY <1>1, <1>2

LEMMA CallKeepsCredential ==
  ASSUME AllInv, AllInv', EndStep, CredentialInv, NEW c \in Calls,
         \/ CallNext(c)
         \/ \E op \in {"status", "revoke"} : OwnedDonation(c, op)
         \/ AbandonCall(c)
  PROVE  CredentialInv'
<1>0. /\ \A d \in Calls \ {c} : call'[d] = call[d]
      /\ UNCHANGED <<handle, request, expired>>
      /\ interrupted => interrupted'
      /\ IsCall(call[c])
  <2>1. PICK k : Continue(c, k)
    BY DEF CallNext, ListRuns, CancelRun, DropRunEnvelope, EndDonation, DropCredential,
           OwnedDonation, AbandonCall, CallEnds
  <2>2. IsCall(call[c]) /\ \A d \in Calls \ {c} : call'[d] = call[d]
    BY <2>1 DEF AllInv, CallInv, CallShape, Continue
  <2>3. UNCHANGED <<handle, request, expired>> /\ (interrupted => interrupted')
    <3>1. ASSUME NEW t \in Tests, CancelRun(c, t)
          PROVE  UNCHANGED <<handle, request, worldVars>>
      BY <3>1 DEF CancelRun, storeVars, donationVars
    <3>2. CASE ListRuns(c) \/ DropRunEnvelope(c) \/ \E op \in {"status", "revoke"} : OwnedDonation(c, op)
      BY <3>2 DEF ListRuns, DropRunEnvelope, OwnedDonation, storeVars, donationVars, worldVars
    <3>3. CASE EndDonation(c)
      BY <3>3 DEF EndDonation, TransitionDonation, worldVars
    <3>4. CASE DropCredential(c) \/ AbandonCall(c)
      BY <3>4 DEF DropCredential, AbandonCall, storeVars, donationVars
    <3>5. QED
      BY <3>1, <3>2, <3>3, <3>4 DEF CallNext, worldVars
  <2>4. QED
    BY <2>2, <2>3
<1>1. CASE expired \/ interrupted
  BY <1>0, <1>1 DEF CredentialInv
<1>2. CASE ~(expired \/ interrupted) /\ ~AbandonCall(c) /\ ~DropCredential(c) /\ ~EndDonation(c)
  <2>1. UNCHANGED <<stored, interrupted, status>>
    BY <1>2 DEF CallNext, ListRuns, CancelRun, DropRunEnvelope, OwnedDonation, storeVars,
       donationVars, worldVars
  <2>2. call[c].pc # "dropCredential" /\ call'[c].pc # "dropCredential"
    <3>1. PICK k : /\ Continue(c, k) /\ k.pc # "dropCredential"
                   /\ call[c].pc # "dropCredential"
      BY <1>0, <1>2 DEF CallNext, ListRuns, CancelRun, DropRunEnvelope, OwnedDonation, IsCall, IdleCall
    <3>2. call'[c] = k
      BY <3>1 DEF Continue, AllInv, CallInv, CallShape
    <3>3. QED
      BY <3>1, <3>2
  <2>3. QED
    BY <1>0, <2>1, <2>2, CredentialStays DEF Ended
<1>3. CASE ~(expired \/ interrupted) /\ EndDonation(c)
  <2>1. call'[c].pc = "dropCredential"
    <3> DEFINE k == [call[c] EXCEPT !.pc = "dropCredential"]
    <3>1. k.pc = "dropCredential" /\ Continue(c, k)
      BY <1>0, <1>3 DEF EndDonation, IsCall
    <3>2. call'[c] = k
      BY <3>1 DEF Continue, AllInv, CallInv, CallShape
    <3>3. QED
      BY <3>1, <3>2
  <2>2. Ended' /\ UNCHANGED <<stored, interrupted>>
    BY <1>3 DEF EndDonation, TransitionDonation, AllInv, CallInv, CallsEndTheDonation, Ended,
       worldVars
  <2>3. QED
    BY <1>0, <1>3, <2>1, <2>2 DEF CredentialInv, CredentialFollowsDonation, Ended, Ongoing
<1>4. CASE ~(expired \/ interrupted) /\ DropCredential(c)
  <2>1. Ended /\ stored' = stored \ {handle} /\ UNCHANGED <<status, interrupted>>
    BY <1>4 DEF DropCredential, CredentialInv, storeVars, donationVars
  <2>2. \A r \in Requests : request[r] = "create" => r # handle
    BY <1>4 DEF CredentialInv
  <2>3. QED
    BY <1>0, <1>4, <2>1, <2>2 DEF CredentialInv, CredentialFollowsDonation, Ended, Ongoing
<1>5. CASE AbandonCall(c)
  BY <1>5 DEF AbandonCall, CredentialInv
<1>6. QED
  BY <1>1, <1>2, <1>3, <1>4, <1>5

RequestShape == request \in [Requests -> {"idle", "create", "discard", "done"}]

LEMMA CredentialNext ==
  ASSUME AllInv, CredentialInv, RequestShape, [Next]_vars
  PROVE  CredentialInv' /\ RequestShape'
<1>0. AllInv' /\ EndStep
  BY InvNext
<1>1. ASSUME NEW w \in Schedulers,
             DonationLoop(w) \/ ((QueryFails(w) \/ Crash(w)) /\ UNCHANGED routeVars)
      PROVE  CredentialInv' /\ RequestShape'
  <2>1. UNCHANGED <<request, call>>
    BY <1>1 DEF DonationLoop, routeVars
  <2>2. QED
    BY <1>0, <1>1, <2>1, SchedulersDontEnd, CredentialStays DEF RequestShape
<1>2. ASSUME NEW r \in Requests, CreateNext(r)
      PROVE  CredentialInv' /\ RequestShape'
  BY <1>0, <1>2, CreateKeepsCredential
  DEF RequestShape, CreateNext, StoreCredential, CreateDonation, DiscardCredential, RequestTo
<1>3. ASSUME NEW c \in Calls,
             CallNext(c) \/ (\E op \in {"status", "revoke"} : OwnedDonation(c, op)) \/ AbandonCall(c)
      PROVE  CredentialInv' /\ RequestShape'
  <2>1. UNCHANGED request
    BY <1>3 DEF CallNext, ListRuns, CancelRun, DropRunEnvelope, EndDonation, DropCredential,
       OwnedDonation, AbandonCall
  <2>2. QED
    BY <1>0, <1>3, <2>1, CallKeepsCredential DEF RequestShape
<1>4. CASE \/ \E t \in Tests : RunsNext(t)
           \/ (LeaseLapses \/ NextRunAtComes) /\ UNCHANGED routeVars
           \/ UNCHANGED vars
  <2>1. UNCHANGED <<status, handle, request, call, stored, expired, interrupted>>
    BY <1>4 DEF RunsNext, UseCredential, FinishTestRun, CleanupTestRun, LeaseLapses, NextRunAtComes,
       vars, storeVars, donationVars, routeVars, worldVars
  <2>2. QED
    BY <1>0, <2>1, CredentialStays DEF RequestShape, Ended
<1>5. CASE Expire \/ SweepCredentials
  BY <1>5 DEF Expire, SweepCredentials, CredentialInv, RequestShape, routeVars
<1>6. QED
  BY <1>1, <1>2, <1>3, <1>4, <1>5 DEF Next, Disturb

\* The credential of a donation is there while tests may be scheduled with it
\* and is given up when the donation has ended (createDonation's replays,
\* revoke and ownedDonation each delete an envelope).
THEOREM CredentialFollowsDonationCorrect == Spec => []CredentialFollowsDonation
<1>1. Init => CredentialInv /\ RequestShape
  BY DonorsAssumption
  DEF Init, DonationStoreInit, RoutesInit, IdleCall, CredentialInv, CredentialFollowsDonation,
      RequestShape, Ended, Ongoing
<1>2. CredentialInv => CredentialFollowsDonation
  BY DEF CredentialInv, CredentialFollowsDonation
<1>3. QED
  BY <1>1, <1>2, InvInit, InvNext, CredentialNext, PTL DEF Spec
-----------------------------------------------------------------------------
(* The tests of the donation's cycles.                                     *)

TestsShape ==
  issued \in Nat /\ run \in [Tests -> {"none", "open", "reported", "cancelled"}]

\* Where a record may go without making or forgetting a test.
Quiet(w, s) ==
  /\ sched[w].made \subseteq s.made
  /\ s.pc \notin Reconciling /\ s.id # 0 => Drawn(w) /\ s.id = sched[w].id
  /\ s.made # {} => /\ s.made = sched[w].made
                    /\ s.pc \notin Reconciling \cup {"read", "probe", "quota"} /\ s.id # 0
  /\ s.patch \in {"later", "never", "exhausted", "failed"} => s.made = {}
  /\ s.pc \in {"readRow", "writeRow"} /\ s.patch # "keep" => s.made = {}
  /\ s.pc \in {"read", "probe", "quota", "put", "create", "attribute"} => s.patch = "none"
  /\ \/ s.pc \in {"put", "create", "attribute", "cycle"}
     \/ s.pc \in {"readRow", "writeRow"} /\ s.patch = "keep"
     => Recording(w) /\ s.id = sched[w].id
  /\ s.pc # "dropEnvelope"

\* A step of one scheduler that makes and forgets no test.
LEMMA QuietKeepsTests ==
  ASSUME AllInv, TestsInv, TestsShape, NEW w \in Schedulers, NEW s, Become(w, s), Quiet(w, s),
         UNCHANGED <<run, swallowed, issued, call>>, Linked' = Linked, PendingTests' \subseteq PendingTests,
         interrupted => interrupted'
  PROVE  TestsInv'
<1> SUFFICES ASSUME ~interrupted' PROVE TestsInv'
  BY DEF TestsInv
<1> USE DEF TestsInv
<1>1. sched'[w] = s /\ \A u \in Schedulers \ {w} : sched'[u] = sched[u]
  BY DEF Become, AllInv, SchedInv, SchedShape
<1>2. NoTestIsForgotten'
  <2>1. ASSUME NEW t \in Tests, run'[t] = "open", link'[t] = "none", t \notin swallowed'
        PROVE  \E u \in Schedulers : Making(u, t)'
    <3>1. run[t] = "open" /\ link[t] = "none" /\ t \notin swallowed
      BY <2>1 DEF Linked
    <3>2. PICK u \in Schedulers : Making(u, t)
      BY <3>1 DEF NoTestIsForgotten
    <3>3. CASE u # w
      BY <1>1, <3>2, <3>3 DEF Making
    <3>4. CASE u = w
      <4>1. s.made # {} /\ s.id = sched[w].id /\ t[2] \in s.made
        BY <3>2, <3>4 DEF Making, Quiet
      <4>2. QED
        BY <1>1, <3>2, <3>4, <4>1 DEF Making
    <3>5. QED
      BY <3>3, <3>4
  <2>2. QED
    BY <2>1 DEF NoTestIsForgotten, InFlight
<1>3. IdsAreDrawnOnce'
  <2>1. \A u \in Schedulers : Drawn(u)' => Drawn(u) /\ sched'[u].id = sched[u].id
    BY <1>1 DEF Drawn, Quiet
  <2>2. \A t \in Tests : link'[t] = "none" <=> link[t] = "none"
    BY DEF Linked
  <2>3. QED
    BY <2>1, <2>2 DEF IdsAreDrawnOnce
<1>4. MadeIsKept'
  <2>1. ASSUME NEW u \in Schedulers \ {w}
        PROVE  sched'[u] = sched[u] /\ (Drawn(u)' <=> Drawn(u)) /\ (Recording(u)' <=> Recording(u))
    BY <1>1 DEF Drawn, Recording, Records
  <2>2. Recording(w)' => Recording(w) /\ s.id = sched[w].id /\ Drawn(w)'
    BY <1>1 DEF Recording, Records, Quiet, MadeIsKept, Drawn, Reconciling
  <2>3. s.made # {} => Drawn(w)'
    BY <1>1 DEF Quiet, Drawn
  <2>4. QED
    BY <1>1, <2>1, <2>2, <2>3 DEF MadeIsKept, Quiet
<1>5. \A c \in Calls : call'[c].list \subseteq Linked'
  OBVIOUS
<1>6. QED
  BY <1>2, <1>3, <1>4, <1>5

\* The records that every failure leads to.
LEMMA IdleIsQuiet ==
  ASSUME NEW w \in Schedulers, sched[w].made = {} PROVE Quiet(w, IdleScheduler)
  BY DEF Quiet, IdleScheduler, Reconciling

LEMMA CaughtIsQuiet ==
  ASSUME AllInv, MadeIsKept, NEW w \in Schedulers, sched[w].pc \notin Reconciling
  PROVE  Quiet(w, Caught(w))
<1>1. HasFields(sched[w])
  BY DEF AllInv, SchedInv, SchedShape
<1>2. /\ Caught(w).pc = "undo" /\ Caught(w).id = sched[w].id /\ Caught(w).made = sched[w].made
      /\ Caught(w).patch = sched[w].patch
  BY <1>1 DEF HasFields, Caught
<1>3. QED
  BY <1>2 DEF Quiet, MadeIsKept, Drawn, Reconciling

LEMMA PatchingIsQuiet ==
  ASSUME AllInv, MadeIsKept, NEW w \in Schedulers, sched[w].pc \notin Reconciling, NEW patch,
         patch = "keep" => Recording(w), patch # "keep" => sched[w].made = {}
  PROVE  Quiet(w, Patching(w, patch))
<1>1. HasFields(sched[w])
  BY DEF AllInv, SchedInv, SchedShape
<1>2. /\ Patching(w, patch).pc = "readRow" /\ Patching(w, patch).id = sched[w].id
      /\ Patching(w, patch).made = sched[w].made /\ Patching(w, patch).patch = patch
  BY <1>1 DEF HasFields, Patching
<1>3. QED
  BY <1>2 DEF Quiet, MadeIsKept, Drawn, Reconciling

LEMMA ThrowsIsQuiet ==
  ASSUME AllInv, MadeIsKept, NEW w \in Schedulers, sched[w].pc \notin Reconciling
  PROVE  Quiet(w, Throws(w))
  BY CaughtIsQuiet, IdleIsQuiet DEF Throws, MadeIsKept

\* What a process remembers while it reconciles.
LEMMA ReconcilingIsQuiet ==
  ASSUME MadeIsKept, NEW w \in Schedulers, NEW s, s.pc \in Reconciling,
         sched[w].pc \in Reconciling, s.made = sched[w].made \/ s.made = {},
         s.patch = sched[w].patch \/ s.patch = "none"
  PROVE  Quiet(w, s)
  BY DEF Quiet, MadeIsKept, Drawn, Reconciling

LEMMA ReconcileKeepsTests ==
  ASSUME AllInv, TestsInv, TestsShape, ~interrupted, NEW w \in Schedulers,
         Reconcile(w) \/ ClaimDonation(w), UNCHANGED routeVars
  PROVE  TestsInv'
<1>0. /\ MadeIsKept /\ HasFields(sched[w]) /\ sched[w].pc \in Reconciling
      /\ UNCHANGED <<run, swallowed, issued, call, interrupted>>
  BY DEF TestsInv, AllInv, SchedInv, SchedShape, Reconcile, ListPendingRuns, LookAtReport,
     CompleteRun, ListReadyCycles, SumCycle, FinalizeCycle, ClaimDonation, Reconciling, runVars,
     worldVars, routeVars
<1>1. sched[w].made = {}
  BY <1>0 DEF MadeIsKept, Drawn
<1>2. Linked' = Linked /\ PendingTests' \subseteq PendingTests
  <2>1. CASE UNCHANGED <<link, excluded>>
    BY <2>1 DEF Linked, PendingTests
  <2>2. CASE CompleteRun(w)
    <3>1. PICK t, o, c : CompleteDonationRun(t, o, c)
      BY <2>2 DEF CompleteRun
    <3>2. CASE t \in PendingTests
      <4>1. link' = [link EXCEPT ![t] = "done"] /\ excluded' = excluded /\ link[t] = "pending"
        BY <3>1, <3>2 DEF CompleteDonationRun, PendingTests
      <4>2. QED
        BY <4>1 DEF AllInv, StoreInv, StoreShape, Linked, PendingTests
    <3>3. CASE t \notin PendingTests
      BY <2>1, <3>1, <3>3 DEF CompleteDonationRun, storeVars, cycleVars
    <3>4. QED
      BY <3>2, <3>3
  <2>3. CASE FinalizeCycle(w)
    BY <2>1, <2>3 DEF FinalizeCycle, FinalizeDonationCycle, storeVars, cycleVars
  <2>4. CASE ClaimDonation(w)
    BY <2>1, <2>4 DEF ClaimDonation, ClaimDueDonation, storeVars, cycleVars
  <2>5. QED
    BY <2>1, <2>2, <2>3, <2>4
    DEF Reconcile, ListPendingRuns, LookAtReport, ListReadyCycles, SumCycle, storeVars, cycleVars
<1>3. ASSUME NEW s, Become(w, s), Quiet(w, s)
      PROVE  TestsInv'
  BY <1>0, <1>2, <1>3, QuietKeepsTests
<1>4. ASSUME NEW s, Become(w, s), s.pc \in Reconciling, s.made = sched[w].made \/ s.made = {},
             s.patch = sched[w].patch \/ s.patch = "none"
      PROVE  TestsInv'
  BY <1>0, <1>3, <1>4, ReconcilingIsQuiet
<1>5. CASE ListPendingRuns(w)
  <2> DEFINE s == [IdleScheduler EXCEPT !.pc = "report", !.list = PendingTests]
  <2>1. s.pc = "report" /\ s.made = {} /\ s.patch = "none"
    BY DEF IdleScheduler
  <2>2. Become(w, s)
    BY <1>5 DEF ListPendingRuns
  <2> HIDE DEF s
  <2>3. QED
    BY <1>4, <2>1, <2>2 DEF Reconciling
<1>6. ASSUME NEW t \in Tests, LookAtReport(w, t)
      PROVE  TestsInv'
  <2> DEFINE s1 == [sched[w] EXCEPT !.pc = "complete", !.list = @ \ {t}, !.id = t[1], !.model = t[2]]
             s2 == [sched[w] EXCEPT !.list = @ \ {t}]
  <2>1. s1.pc = "complete" /\ s1.made = sched[w].made /\ s1.patch = sched[w].patch
    BY <1>0 DEF HasFields
  <2>2. s2.pc = "report" /\ s2.made = sched[w].made /\ s2.patch = sched[w].patch
    BY <1>0, <1>6 DEF HasFields, LookAtReport
  <2>3. Become(w, s1) \/ Become(w, s2)
    BY <1>6 DEF LookAtReport
  <2> HIDE DEF s1, s2
  <2>4. QED
    BY <1>4, <2>1, <2>2, <2>3 DEF Reconciling
<1>7. CASE CompleteRun(w)
  <2> DEFINE s == [sched[w] EXCEPT !.pc = "report", !.id = 0, !.model = NoModel]
  <2>1. s.pc = "report" /\ s.made = sched[w].made /\ s.patch = sched[w].patch
    BY <1>0 DEF HasFields
  <2>2. QED
    BY <1>4, <1>7, <2>1 DEF CompleteRun, Reconciling
<1>8. CASE ListReadyCycles(w)
  <2> DEFINE s == [sched[w] EXCEPT !.pc = "ready", !.cycles = ReadyCycles]
  <2>1. s.pc = "ready" /\ s.made = sched[w].made /\ s.patch = sched[w].patch
    BY <1>0 DEF HasFields
  <2>2. QED
    BY <1>4, <1>8, <2>1 DEF ListReadyCycles, Reconciling
<1>9. ASSUME NEW n \in Cycles, SumCycle(w, n)
      PROVE  TestsInv'
  <2> DEFINE s == [sched[w] EXCEPT !.pc = "finalize", !.cycles = @ \ {n}, !.id = n, !.sum = CostOf(n)]
  <2>1. s.pc = "finalize" /\ s.made = sched[w].made /\ s.patch = sched[w].patch
    BY <1>0 DEF HasFields
  <2>2. QED
    BY <1>4, <1>9, <2>1 DEF SumCycle, Reconciling
<1>10. CASE FinalizeCycle(w)
  <2> DEFINE s == [sched[w] EXCEPT !.pc = "ready", !.id = 0, !.sum = 0]
  <2>1. s.pc = "ready" /\ s.made = sched[w].made /\ s.patch = sched[w].patch
    BY <1>0 DEF HasFields
  <2>2. QED
    BY <1>4, <1>10, <2>1 DEF FinalizeCycle, Reconciling
<1>11. CASE ClaimDonation(w)
  <2> DEFINE s == [IdleScheduler EXCEPT !.pc = "read", !.row = Copy]
  <2>1. Quiet(w, s)
    BY <1>1 DEF Quiet, IdleScheduler, Reconciling
  <2>2. Become(w, s) \/ Become(w, IdleScheduler)
    BY <1>11 DEF ClaimDonation
  <2>3. QED
    BY <1>1, <1>3, <2>1, <2>2, IdleIsQuiet
<1>12. QED
  BY <1>5, <1>6, <1>7, <1>8, <1>9, <1>10, <1>11 DEF Reconcile

\* The steps of an attempt that make no run, record no cycle and undo nothing.
LEMMA AttemptKeepsTests ==
  ASSUME AllInv, TestsInv, TestsShape, ~interrupted, ~interrupted', NEW w \in Schedulers,
         UNCHANGED routeVars,
         \/ ReadCredential(w)
         \/ ProbeIdentity(w)
         \/ CheckQuota(w) /\ UNCHANGED issued
         \/ \E m \in Models : PutEnvelope(w, m)
         \/ Attribute(w)
         \/ ReadRow(w)
         \/ WriteRow(w)
         \/ CreateCycle(w) /\ ~MayCreateCycle(w)
         \/ UndoDone(w)
         \/ QueryFails(w)
         \/ Crash(w)
  PROVE  TestsInv'
<1>0. /\ MadeIsKept /\ HasFields(sched[w]) /\ UNCHANGED call
      /\ Crash(w) \/ sched[w].pc \notin Reconciling
  BY DEF TestsInv, AllInv, SchedInv, SchedShape, ReadCredential, ProbeIdentity, CheckQuota,
     PutEnvelope, Attribute, ReadRow, WriteRow, CreateCycle, UndoDone, QueryFails, Reconciling,
     routeVars
<1>1. UNCHANGED <<run, swallowed, issued, link, excluded>>
  BY DEF ReadCredential, ProbeIdentity, CheckQuota, PutEnvelope, PutTestEnvelope, Attribute, ReadRow,
     WriteRow, Write, CreateCycle, UndoDone, QueryFails, Crash, runVars, storeVars, cycleVars
<1>2. ASSUME NEW s, Become(w, s), Quiet(w, s)
      PROVE  TestsInv'
  BY <1>0, <1>1, <1>2, QuietKeepsTests DEF Linked, PendingTests
<1>3. ASSUME NEW label, Become(w, [sched[w] EXCEPT !.pc = label]),
             \/ sched[w].pc \in {"read", "probe"} /\ label \in {"probe", "quota"}
             \/ sched[w].pc = "writeRow" /\ sched[w].patch = "keep" /\ label = "cycle"
      PROVE  TestsInv'
  <2> DEFINE s == [sched[w] EXCEPT !.pc = label]
  <2>1. /\ s.pc = label /\ s.made = sched[w].made /\ s.patch = sched[w].patch
        /\ s.id = sched[w].id
    BY <1>0 DEF HasFields
  <2> HIDE DEF s
  <2>2. Quiet(w, s)
    BY <1>0, <1>3, <2>1 DEF Quiet, MadeIsKept, Drawn, Recording, Records, Reconciling
  <2>3. QED
    BY <1>2, <1>3, <2>2 DEF s
<1>4. CASE ReadCredential(w)
  <2>1. /\ sched[w].pc = "read"
        /\ \/ Become(w, Caught(w))
           \/ Become(w, [sched[w] EXCEPT !.pc = "probe"])
           \/ Become(w, [sched[w] EXCEPT !.pc = "quota"])
           \/ Become(w, Patching(w, "never"))
    BY <1>4 DEF ReadCredential
  <2>2. sched[w].pc \notin Reconciling /\ sched[w].made = {}
    BY <1>0, <2>1 DEF MadeIsKept, Reconciling
  <2>3. QED
    BY <1>0, <1>2, <1>3, <2>1, <2>2, CaughtIsQuiet, PatchingIsQuiet
<1>5. CASE ProbeIdentity(w)
  <2>1. /\ sched[w].pc = "probe"
        /\ \/ Become(w, [sched[w] EXCEPT !.pc = "quota"])
           \/ Become(w, Patching(w, "later"))
    BY <1>5 DEF ProbeIdentity, GoTo, Become
  <2>2. sched[w].pc \notin Reconciling /\ sched[w].made = {}
    BY <1>0, <2>1 DEF MadeIsKept, Reconciling
  <2>3. QED
    BY <1>0, <1>2, <1>3, <2>1, <2>2, PatchingIsQuiet
<1>6. CASE CheckQuota(w) /\ UNCHANGED issued
  <2>1. sched[w].pc = "quota" /\ issued' # issued + 1
    <3>1. issued \in Nat /\ issued' = issued
      BY <1>0, <1>6 DEF TestsShape
    <3>2. sched[w].pc = "quota"
      BY <1>6 DEF CheckQuota
    <3>3. QED
      BY <3>1, <3>2
  <2>2. Become(w, Patching(w, "exhausted"))
    BY <1>6, <2>1 DEF CheckQuota
  <2>3. sched[w].pc \notin Reconciling /\ sched[w].made = {}
    BY <1>0, <2>1 DEF MadeIsKept, Reconciling
  <2>4. QED
    BY <1>0, <1>2, <2>2, <2>3, PatchingIsQuiet
<1>7. ASSUME NEW m \in Models, PutEnvelope(w, m)
      PROVE  TestsInv'
  <2> DEFINE s == [sched[w] EXCEPT !.pc = "create", !.model = m]
  <2>1. sched[w].pc = "put" /\ Become(w, s)
    BY <1>7 DEF PutEnvelope
  <2>2. /\ s.pc = "create" /\ s.made = sched[w].made /\ s.patch = sched[w].patch
        /\ s.id = sched[w].id
    BY <1>0 DEF HasFields
  <2> HIDE DEF s
  <2>3. Quiet(w, s)
    BY <1>0, <2>1, <2>2 DEF Quiet, MadeIsKept, Drawn, Recording, Records, Reconciling
  <2>4. QED
    BY <1>2, <2>1, <2>3
<1>8. CASE Attribute(w)
  BY <1>0, <1>2, <1>8, PatchingIsQuiet DEF Attribute, Recording, Records, Reconciling
<1>9. CASE ReadRow(w)
  <2> DEFINE s == [sched[w] EXCEPT !.pc = "writeRow", !.row = Copy]
  <2>1. sched[w].pc = "readRow" /\ Become(w, s)
    BY <1>9 DEF ReadRow
  <2>2. /\ s.pc = "writeRow" /\ s.made = sched[w].made /\ s.patch = sched[w].patch
        /\ s.id = sched[w].id
    BY <1>0 DEF HasFields
  <2> HIDE DEF s
  <2>3. Quiet(w, s)
    BY <1>0, <2>1, <2>2 DEF Quiet, MadeIsKept, Drawn, Recording, Records, Reconciling
  <2>4. QED
    BY <1>2, <2>1, <2>3
<1>10. CASE WriteRow(w)
  <2>1. sched[w].pc = "writeRow" /\ sched[w].pc \notin Reconciling
    BY <1>10 DEF WriteRow, Reconciling
  <2>2. \/ sched[w].patch = "keep" /\ Become(w, [sched[w] EXCEPT !.pc = "cycle"])
        \/ sched[w].patch # "keep" /\ Become(w, IdleScheduler)
        \/ Become(w, Throws(w))
    BY <1>10 DEF WriteRow
  <2>3. sched[w].patch # "keep" => sched[w].made = {}
    BY <1>0, <2>1 DEF MadeIsKept
  <2>4. QED
    BY <1>0, <1>2, <1>3, <2>1, <2>2, <2>3, IdleIsQuiet, ThrowsIsQuiet
<1>11. CASE CreateCycle(w) /\ ~MayCreateCycle(w)
  BY <1>0, <1>2, <1>11, CaughtIsQuiet DEF CreateCycle, Reconciling
<1>12. CASE UndoDone(w)
  BY <1>0, <1>2, <1>12, PatchingIsQuiet DEF UndoDone, Reconciling
<1>13. CASE QueryFails(w)
  BY <1>0, <1>2, <1>13, ThrowsIsQuiet DEF QueryFails, Reconciling
<1>14. CASE Crash(w)
  <2>1. sched[w].made = {} /\ Become(w, IdleScheduler)
    BY <1>14 DEF Crash
  <2>2. QED
    BY <1>2, <2>1, IdleIsQuiet
<1>15. QED
  BY <1>4, <1>5, <1>6, <1>7, <1>8, <1>9, <1>10, <1>11, <1>12, <1>13, <1>14

\* A drawn id is new: no test of it is recorded or has a run, and nobody else
\* has it.
LEMMA DrawKeepsTests ==
  ASSUME AllInv, TestsInv, TestsShape, ~interrupted, NEW w \in Schedulers, CheckQuota(w),
         ~UNCHANGED issued, UNCHANGED routeVars
  PROVE  TestsInv'
<1>0. PICK p \in Prices :
        \/ Become(w, [sched[w] EXCEPT !.pc = "put", !.id = issued + 1, !.todo = Models, !.price = p])
        \/ UNCHANGED issued
  BY DEF CheckQuota
<1> DEFINE s == [sched[w] EXCEPT !.pc = "put", !.id = issued + 1, !.todo = Models, !.price = p]
<1>1. /\ sched[w].pc = "quota" /\ issued' = issued + 1 /\ Become(w, s) /\ issued \in Nat
      /\ UNCHANGED <<run, swallowed, link, excluded, call>>
  BY <1>0 DEF CheckQuota, TestsShape, routeVars, runVars, storeVars, cycleVars
<1>2. HasFields(sched[w])
  BY DEF AllInv, SchedInv, SchedShape
<1>3. s.pc = "put" /\ s.id = issued + 1 /\ s.made = sched[w].made /\ s.patch = sched[w].patch
  BY <1>2 DEF HasFields
<1> HIDE DEF s
<1>4. sched'[w] = s /\ \A u \in Schedulers \ {w} : sched'[u] = sched[u]
  BY <1>1 DEF Become, AllInv, SchedInv, SchedShape
<1>5. sched[w].made = {} /\ sched[w].patch = "none"
  BY <1>1 DEF TestsInv, MadeIsKept
<1>6. \A u \in Schedulers \ {w} :
        (Drawn(u)' <=> Drawn(u)) /\ (Recording(u)' <=> Recording(u)) /\ (Drawn(u) => sched[u].id \in 1..issued)
  BY <1>4 DEF Drawn, Recording, Records, TestsInv, IdsAreDrawnOnce
<1>7. \A t \in Tests : t[1] = issued + 1 => link[t] = "none" /\ run[t] = "none"
  BY <1>1 DEF TestsInv, IdsAreDrawnOnce
<1>8. NoTestIsForgotten'
  BY <1>1, <1>4, <1>5 DEF TestsInv, NoTestIsForgotten, Making, InFlight, PendingTests
<1>9. IdsAreDrawnOnce'
  <2>1. \A t \in Tests : t[1] <= issued => t[1] <= issued + 1
    BY <1>1, CyclesAssumption DEF Tests, Cycles
  <2>2. s.id \in 1..issued' /\ \A i \in 1..issued : i \in 1..issued' /\ i # s.id
    BY <1>1, <1>3
  <2>3. QED
    BY <1>1, <1>3, <1>4, <1>6, <1>7, <2>1, <2>2 DEF TestsInv, IdsAreDrawnOnce
<1>10. MadeIsKept'
  <2>1. Drawn(w)'
    BY <1>1, <1>3, <1>4 DEF Drawn, Reconciling
  <2>2. \A t \in Tests : t[1] = s.id => run'[t] # "cancelled"
    BY <1>1, <1>3, <1>7
  <2>3. QED
    BY <1>1, <1>3, <1>4, <1>5, <1>6, <2>1, <2>2 DEF TestsInv, MadeIsKept
<1>11. \A c \in Calls : call'[c].list \subseteq Linked'
  BY <1>1 DEF TestsInv, Linked
<1>12. QED
  BY <1>8, <1>9, <1>10, <1>11 DEF TestsInv

\* A step of scheduler w that keeps its id and its record's phase, and changes
\* the run of one of its own tests only.
OwnRun(w, s, t) ==
  /\ Become(w, s) /\ Drawn(w) /\ s.pc \notin Reconciling \cup {"read", "probe", "quota"}
  /\ s.id = sched[w].id /\ t[1] = s.id
  /\ \A x \in Tests \ {t} : run'[x] = run[x]
  /\ swallowed \subseteq swallowed'
  /\ UNCHANGED <<link, excluded, issued, call, interrupted>>

LEMMA OwnRunKeepsTests ==
  ASSUME AllInv, TestsInv, TestsShape, ~interrupted, NEW w \in Schedulers, NEW s, NEW t,
         OwnRun(w, s, t),
         s.patch = "none" \/ s.pc \notin {"put", "create", "attribute"},
         s.patch \in {"later", "never", "exhausted", "failed"} => s.made = {},
         s.pc \notin {"readRow", "writeRow"},
         s.pc \in {"put", "create", "attribute", "cycle"} =>
            Recording(w) /\ (t \in Tests => run'[t] # "cancelled"),
         s.pc = "dropEnvelope" =>
            t = <<s.id, s.model>> /\ (t \in Tests => run'[t] # "open" \/ t \in swallowed'),
         \A m \in sched[w].made : m \in s.made
            \/ (t = <<s.id, m>> /\ (t \in Tests => run'[t] # "open" \/ t \in swallowed')),
         t \in Tests /\ run'[t] = "open" => t[2] \in s.made \/ t \in swallowed'
  PROVE  TestsInv'
<1>0. NoTestIsForgotten /\ IdsAreDrawnOnce /\ MadeIsKept /\ issued \in Nat
  BY DEF TestsInv, TestsShape
<1> USE DEF OwnRun
<1>1. sched'[w] = s /\ \A u \in Schedulers \ {w} : sched'[u] = sched[u]
  BY DEF Become, AllInv, SchedInv, SchedShape
<1>2. /\ Drawn(w)' /\ sched[w].id \in 1..issued
      /\ \A u \in Schedulers \ {w} :
           /\ sched'[u] = sched[u]
           /\ Drawn(u)' <=> Drawn(u)
           /\ Recording(u)' <=> Recording(u)
           /\ Drawn(u) => sched[u].id # sched[w].id
  <2>1. Drawn(w)'
    BY <1>1 DEF Drawn
  <2>2. sched[w].id \in 1..issued
    BY DEF TestsInv, IdsAreDrawnOnce
  <2>3. ASSUME NEW u \in Schedulers \ {w}
        PROVE  (Drawn(u)' <=> Drawn(u)) /\ (Recording(u)' <=> Recording(u))
    BY <1>1 DEF Drawn, Recording, Records
  <2>4. ASSUME NEW u \in Schedulers \ {w}, Drawn(u)
        PROVE  sched[u].id # sched[w].id
    BY <2>4 DEF TestsInv, IdsAreDrawnOnce
  <2>5. QED
    BY <1>1, <2>1, <2>2, <2>3, <2>4
<1>3. t \in Tests => link[t] = "none" /\ t \notin PendingTests
  BY DEF TestsInv, IdsAreDrawnOnce, PendingTests
<1>4. NoTestIsForgotten'
  <2>1. ASSUME NEW x \in Tests, run'[x] = "open", link'[x] = "none", x \notin swallowed'
        PROVE  \E u \in Schedulers : Making(u, x)'
    <3>1. CASE x = t
      BY <1>1, <2>1, <3>1 DEF Making
    <3>2. CASE x # t
      <4>1. PICK u \in Schedulers : Making(u, x)
        BY <2>1, <3>2 DEF TestsInv, NoTestIsForgotten
      <4>2. x = <<x[1], x[2]>>
        BY DEF Tests
      <4>3. CASE u = w
        BY <1>1, <3>2, <4>1, <4>2, <4>3 DEF Making
      <4>4. CASE u # w
        BY <1>1, <4>1, <4>4 DEF Making
      <4>5. QED
        BY <4>3, <4>4
    <3>3. QED
      BY <3>1, <3>2
  <2>2. ASSUME NEW x \in Tests, run'[x] = "cancelled", x \in PendingTests'
        PROVE  \E c \in Calls : InFlight(c)'
    <3>1. x \in PendingTests /\ x # t /\ run[x] = "cancelled"
      BY <1>3, <2>2 DEF PendingTests
    <3>2. QED
      BY <3>1 DEF TestsInv, NoTestIsForgotten, InFlight
  <2>3. QED
    BY <2>1, <2>2 DEF NoTestIsForgotten
<1>5. IdsAreDrawnOnce'
  <2>1. t \in Tests => t[1] <= issued
    BY <1>0, <1>2
  <2>2. \A x \in Tests : link'[x] # "none" \/ run'[x] # "none" => x[1] <= issued'
    BY <1>0, <2>1 DEF IdsAreDrawnOnce
  <2>3. ASSUME NEW u \in Schedulers, Drawn(u)'
        PROVE  sched'[u].id = sched[u].id /\ Drawn(u)
    BY <1>1, <1>2, <2>3 DEF Drawn
  <2>4. QED
    BY <1>0, <1>2, <2>2, <2>3 DEF IdsAreDrawnOnce
<1>6. MadeIsKept'
  <2>1. ASSUME NEW u \in Schedulers \ {w}
        PROVE  /\ Recording(u)' => \A x \in Tests : x[1] = sched[u].id => run'[x] # "cancelled"
               /\ sched[u].pc = "dropEnvelope" =>
                    \A x \in Tests : x = <<sched[u].id, sched[u].model>> =>
                      run'[x] # "open" \/ x \in swallowed'
    <3>1. CASE Drawn(u)
      <4>0. sched[u].id # sched[w].id /\ sched'[u] = sched[u]
        BY <1>2, <3>1
      <4>1. \A x \in Tests : x[1] = sched[u].id => run'[x] = run[x]
        BY <4>0
      <4>2. \A x \in Tests : x = <<sched[u].id, sched[u].model>> => x[1] = sched[u].id
        OBVIOUS
      <4>3. QED
        BY <1>0, <1>2, <4>1, <4>2 DEF MadeIsKept, Recording, Records, Drawn
    <3>2. CASE ~Drawn(u)
      <4>1. sched[u].pc = "dropEnvelope" => sched[u].id = 0
        BY <3>2 DEF Drawn, Reconciling
      <4>2. \A x \in Tests : x[1] # 0
        BY DEF Tests, Cycles
      <4>3. \A x \in Tests : x = <<sched[u].id, sched[u].model>> => x[1] = sched[u].id
        OBVIOUS
      <4>4. ~Recording(u)'
        BY <1>0, <1>2, <3>2 DEF MadeIsKept, Recording, Records, Drawn
      <4>5. QED
        BY <4>1, <4>2, <4>3, <4>4
    <3>3. QED
      BY <3>1, <3>2
  <2>2. Recording(w)' => s.pc \in {"put", "create", "attribute", "cycle"}
    BY <1>1 DEF Recording, Records
  <2>3. Recording(w)' => \A x \in Tests : x[1] = s.id => run'[x] # "cancelled"
    BY <2>2 DEF TestsInv, MadeIsKept
  <2>4. s.pc = "dropEnvelope" =>
          \A x \in Tests : x = <<s.id, s.model>> => run'[x] # "open" \/ x \in swallowed'
    OBVIOUS
  <2>5. s.pc \in {"read", "probe", "quota", "put", "create", "attribute"} => s.patch = "none"
    OBVIOUS
  <2>6. ASSUME NEW u \in Schedulers \ {w}
        PROVE  /\ sched'[u].made # {} => Drawn(u)' /\ sched'[u].pc \notin {"read", "probe", "quota"}
               /\ sched'[u].patch \in {"later", "never", "exhausted", "failed"} => sched'[u].made = {}
               /\ sched'[u].pc \in {"readRow", "writeRow"} /\ sched'[u].patch # "keep" =>
                    sched'[u].made = {}
               /\ sched'[u].pc \in {"read", "probe", "quota", "put", "create", "attribute"} =>
                    sched'[u].patch = "none"
               /\ Recording(u)' => Drawn(u)'
    BY <1>0, <1>2 DEF MadeIsKept, Recording, Records, Drawn
  <2>7. QED
    BY <1>1, <1>2, <2>1, <2>3, <2>4, <2>5, <2>6 DEF MadeIsKept
<1>7. \A c \in Calls : call'[c].list \subseteq Linked'
  BY DEF TestsInv, Linked
<1>8. QED
  BY <1>4, <1>5, <1>6, <1>7 DEF TestsInv

LEMMA CreateRunKeepsTests ==
  ASSUME AllInv, TestsInv, TestsShape, ~interrupted, NEW w \in Schedulers, CreateRun(w),
         UNCHANGED routeVars
  PROVE  TestsInv'
<1> DEFINE t  == <<sched[w].id, sched[w].model>>
           s  == [sched[w] EXCEPT !.todo = @ \ {sched[w].model}, !.made = @ \cup {sched[w].model}]
           s1 == [s EXCEPT !.model = NoModel, !.pc = IF s.todo = {} THEN "attribute" ELSE "put"]
           s2 == [s EXCEPT !.model = NoModel, !.pc = "undo"]
<1>1. HasFields(sched[w]) /\ MadeIsKept /\ sched[w].pc = "create"
  BY DEF TestsInv, AllInv, SchedInv, SchedShape, CreateRun
<1>2. Drawn(w) /\ Recording(w) /\ sched[w].patch = "none"
  BY <1>1 DEF MadeIsKept, Recording, Records
<1>3. /\ HasFields(s) /\ s.id = sched[w].id /\ s.made = sched[w].made \cup {sched[w].model}
      /\ s.patch = "none"
  BY <1>1, <1>2 DEF HasFields
<1>4. /\ Become(w, s1) \/ Become(w, s2)
      /\ CreateTestRun(t) \/ (Become(w, s2) /\ UNCHANGED runVars)
      /\ UNCHANGED <<storeVars, issued, worldVars>>
  BY DEF CreateRun
<1> HIDE DEF s
<1>5. /\ s1.pc \in {"attribute", "put"} /\ s1.id = sched[w].id /\ s1.made = s.made /\ s1.patch = "none"
      /\ s2.pc = "undo" /\ s2.id = sched[w].id /\ s2.made = s.made /\ s2.patch = "none"
  BY <1>3 DEF HasFields
<1>6. UNCHANGED <<swallowed, link, excluded, issued, call, interrupted>>
  BY <1>4 DEF CreateTestRun, runVars, storeVars, cycleVars, worldVars, routeVars
<1>7. /\ \A x \in Tests \ {t} : run'[x] = run[x]
      /\ t \in Tests => run'[t] = "open" \/ (Become(w, s2) /\ run'[t] = run[t])
      /\ t \in Tests => run[t] # "cancelled"
  BY <1>1, <1>2, <1>4 DEF CreateTestRun, runVars, TestsShape, MadeIsKept
<1>8. t[1] = sched[w].id /\ t[2] = sched[w].model
  OBVIOUS
<1> HIDE DEF s1, s2, t
<1>9. CASE Become(w, s1) \/ Become(w, s2)
  <2>1. PICK q \in {s1, s2} : Become(w, q)
    BY <1>9
  <2>2. OwnRun(w, q, t)
    BY <1>2, <1>5, <1>6, <1>7, <1>8, <2>1 DEF OwnRun, Reconciling
  <2>3. t \in Tests => run'[t] # "cancelled"
    BY <1>7
  <2>4. QED
    BY <1>2, <1>3, <1>5, <1>8, <2>2, <2>3, OwnRunKeepsTests
<1>10. QED
  BY <1>4, <1>9

LEMMA UndoKeepsTests ==
  ASSUME AllInv, TestsInv, TestsShape, ~interrupted, NEW w \in Schedulers,
         (\E m \in Models : UndoRun(w, m)) \/ UndoEnvelope(w), UNCHANGED routeVars
  PROVE  TestsInv'
<1>1. HasFields(sched[w]) /\ MadeIsKept
      /\ UNCHANGED <<link, excluded, issued, call, interrupted>>
  BY DEF TestsInv, AllInv, SchedInv, SchedShape, UndoRun, UndoEnvelope, storeVars, cycleVars,
     worldVars, routeVars
<1>2. ASSUME NEW m \in Models, UndoRun(w, m)
      PROVE  TestsInv'
  <2> DEFINE s == [sched[w] EXCEPT !.pc = "dropEnvelope", !.model = m]
             t == <<sched[w].id, m>>
  <2>1. /\ Become(w, s) /\ m \in sched[w].made /\ sched[w].pc = "undo"
        /\ CancelTestRun(t) \/ SwallowCancel(t)
    BY <1>2 DEF UndoRun
  <2>2. /\ s.pc = "dropEnvelope" /\ s.id = sched[w].id /\ s.made = sched[w].made
        /\ s.patch = sched[w].patch /\ s.model = m
    BY <1>1 DEF HasFields
  <2>3. /\ Drawn(w) /\ (s.patch \in {"later", "never", "exhausted", "failed"} => s.made = {})
    BY <1>1, <2>1, <2>2 DEF MadeIsKept
  <2>4. /\ \A x \in Tests \ {t} : run'[x] = run[x]
        /\ t \in Tests => run'[t] # "open" \/ t \in swallowed'
        /\ swallowed \subseteq swallowed'
    BY <2>1, <2>2 DEF CancelTestRun, SwallowCancel, TestsShape
  <2>5. t[1] = sched[w].id
    OBVIOUS
  <2>6. t = <<s.id, s.model>>
    BY <2>2
  <2> HIDE DEF s, t
  <2>7. OwnRun(w, s, t)
    BY <1>1, <2>1, <2>2, <2>3, <2>4, <2>5 DEF OwnRun, Reconciling
  <2>8. QED
    BY <2>2, <2>3, <2>4, <2>6, <2>7, OwnRunKeepsTests
<1>3. CASE UndoEnvelope(w)
  <2> DEFINE s == [sched[w] EXCEPT !.pc = "undo", !.made = @ \ {sched[w].model}, !.model = NoModel]
             t == <<sched[w].id, sched[w].model>>
  <2>1. Become(w, s) /\ sched[w].pc = "dropEnvelope" /\ UNCHANGED <<run, swallowed>>
    BY <1>3 DEF UndoEnvelope, DropTestEnvelope, runVars
  <2>2. /\ s.pc = "undo" /\ s.id = sched[w].id /\ s.made = sched[w].made \ {sched[w].model}
        /\ s.patch = sched[w].patch
    BY <1>1 DEF HasFields
  <2>3. /\ s.patch \in {"later", "never", "exhausted", "failed"} => s.made = {}
        /\ t \in Tests => run'[t] # "open" \/ t \in swallowed'
    BY <1>1, <2>1, <2>2 DEF MadeIsKept
  <2>4. t[1] = sched[w].id /\ \A m \in sched[w].made : m \in s.made \/ t = <<s.id, m>>
    BY <2>2
  <2> HIDE DEF s, t
  <2>5. CASE Drawn(w)
    <3>1. OwnRun(w, s, t)
      BY <1>1, <2>1, <2>2, <2>4, <2>5 DEF OwnRun, Reconciling
    <3>2. QED
      BY <2>2, <2>3, <2>4, <3>1, OwnRunKeepsTests
  <2>6. CASE ~Drawn(w)
    <3>1. sched[w].made = {} /\ s.made = {}
      BY <1>1, <2>2, <2>6 DEF MadeIsKept
    <3>2. Quiet(w, s)
      BY <2>1, <2>2, <2>6, <3>1 DEF Quiet, Drawn, Reconciling
    <3>3. QED
      BY <1>1, <2>1, <3>2, QuietKeepsTests DEF Linked, PendingTests
  <2>7. QED
    BY <2>5, <2>6
<1>4. QED
  BY <1>2, <1>3

\* The cycle that is recorded takes its tests over from the scheduler.
LEMMA CreateCycleKeepsTests ==
  ASSUME AllInv, TestsInv, TestsShape, ~interrupted, ~interrupted', NEW w \in Schedulers,
         CreateCycle(w), MayCreateCycle(w), UNCHANGED routeVars
  PROVE  TestsInv'
<1> DEFINE n == sched[w].id
<1>0. NoTestIsForgotten /\ IdsAreDrawnOnce /\ MadeIsKept
  BY DEF TestsInv
<1>1. /\ sched[w].pc = "cycle" /\ Become(w, IdleScheduler) /\ CreateDonationCycle(n, ReserveAt(sched[w].price))
      /\ UNCHANGED <<run, swallowed, issued, excluded, call>>
  BY DEF CreateCycle, CreateDonationCycle, runVars, routeVars
<1>2. /\ \A u \in Schedulers \ {w} : sched'[u] = sched[u]
      /\ sched'[w] = IdleScheduler
  BY <1>1 DEF Become, AllInv, SchedInv, SchedShape
<1>3. \A t \in Tests : /\ t[1] = n => link'[t] = "pending" /\ run[t] # "cancelled"
                       /\ t[1] # n => link'[t] = link[t]
  BY <1>0, <1>1 DEF CreateDonationCycle, MadeIsKept, Recording, Records
<1>4. ~Drawn(w)' /\ ~Recording(w)' /\ Drawn(w)
  BY <1>0, <1>1, <1>2 DEF Drawn, Recording, Records, IdleScheduler, Reconciling, MadeIsKept
<1>5. NoTestIsForgotten'
  <2>1. ASSUME NEW t \in Tests, run'[t] = "open", link'[t] = "none", t \notin swallowed'
        PROVE  \E u \in Schedulers : Making(u, t)'
    <3>1. t[1] # n /\ run[t] = "open" /\ link[t] = "none" /\ t \notin swallowed
      BY <1>1, <1>3, <2>1
    <3>2. PICK u \in Schedulers : Making(u, t)
      BY <1>0, <3>1 DEF NoTestIsForgotten
    <3>3. QED
      BY <1>2, <3>1, <3>2 DEF Making
  <2>2. ASSUME NEW t \in Tests, run'[t] = "cancelled", t \in PendingTests'
        PROVE  \E c \in Calls : InFlight(c)'
    <3>1. t \in PendingTests /\ run[t] = "cancelled"
      BY <1>1, <1>3, <2>2 DEF PendingTests
    <3>2. QED
      BY <1>0, <1>1, <3>1 DEF NoTestIsForgotten, InFlight
  <2>3. QED
    BY <2>1, <2>2 DEF NoTestIsForgotten
<1>6. IdsAreDrawnOnce'
  <2>1. n \in 1..issued /\ issued \in Nat
    BY <1>0, <1>4 DEF IdsAreDrawnOnce, TestsShape
  <2>2. \A t \in Tests : link'[t] # "none" \/ run'[t] # "none" => t[1] <= issued'
    BY <1>0, <1>1, <1>3, <2>1 DEF IdsAreDrawnOnce
  <2>3. ASSUME NEW u \in Schedulers, Drawn(u)'
        PROVE  u # w /\ sched'[u] = sched[u] /\ Drawn(u) /\ sched[u].id # n
    <3>1. u # w
      BY <1>4, <2>3
    <3>2. sched'[u] = sched[u] /\ Drawn(u)
      BY <1>2, <2>3, <3>1 DEF Drawn
    <3>3. QED
      BY <1>0, <1>4, <3>1, <3>2 DEF IdsAreDrawnOnce
  <2>4. ASSUME NEW u \in Schedulers, Drawn(u)', NEW t \in Tests, t[1] = sched'[u].id
        PROVE  link'[t] = "none"
    BY <1>0, <1>3, <2>3, <2>4 DEF IdsAreDrawnOnce
  <2>5. QED
    BY <1>0, <1>1, <2>2, <2>3, <2>4 DEF IdsAreDrawnOnce
<1>7. MadeIsKept'
  <2>1. ASSUME NEW u \in Schedulers \ {w}
        PROVE  sched'[u] = sched[u] /\ (Drawn(u)' <=> Drawn(u)) /\ (Recording(u)' <=> Recording(u))
    BY <1>2 DEF Drawn, Recording, Records
  <2>2. IdleScheduler.made = {} /\ IdleScheduler.pc = "idle" /\ IdleScheduler.patch = "none"
    BY DEF IdleScheduler
  <2>3. QED
    BY <1>0, <1>1, <1>2, <1>4, <2>1, <2>2 DEF MadeIsKept
<1>8. \A c \in Calls : call'[c].list \subseteq Linked'
  BY <1>1, <1>3 DEF TestsInv, Linked
<1>9. QED
  BY <1>5, <1>6, <1>7, <1>8 DEF TestsInv

LEMMA LoopKeepsTests ==
  ASSUME AllInv, TestsInv, TestsShape, NEW w \in Schedulers,
         DonationLoop(w) \/ ((QueryFails(w) \/ Crash(w)) /\ UNCHANGED routeVars)
  PROVE  TestsInv'
<1>1. interrupted => interrupted'
  BY SchedulersDontEnd
<1>2. CASE interrupted'
  BY <1>2 DEF TestsInv
<1>3. CASE ~interrupted'
  <2>1. ~interrupted /\ UNCHANGED routeVars
    BY <1>1, <1>3 DEF DonationLoop
  <2>2. CASE Reconcile(w) \/ ClaimDonation(w)
    BY <2>1, <2>2, ReconcileKeepsTests
  <2>3. CASE CheckQuota(w) /\ ~UNCHANGED issued
    BY <2>1, <2>3, DrawKeepsTests
  <2>4. CASE CreateRun(w)
    BY <2>1, <2>4, CreateRunKeepsTests
  <2>5. CASE CreateCycle(w) /\ MayCreateCycle(w)
    BY <1>3, <2>1, <2>5, CreateCycleKeepsTests
  <2>6. CASE (\E m \in Models : UndoRun(w, m)) \/ UndoEnvelope(w)
    BY <2>1, <2>6, UndoKeepsTests
  <2>7. CASE \/ ReadCredential(w) \/ ProbeIdentity(w) \/ (CheckQuota(w) /\ UNCHANGED issued)
             \/ (\E m \in Models : PutEnvelope(w, m)) \/ Attribute(w) \/ ReadRow(w)
             \/ WriteRow(w) \/ (CreateCycle(w) /\ ~MayCreateCycle(w)) \/ UndoDone(w)
             \/ QueryFails(w) \/ Crash(w)
    BY <1>3, <2>1, <2>7, AttemptKeepsTests
  <2>8. QED
    BY <2>2, <2>3, <2>4, <2>5, <2>6, <2>7 DEF DonationLoop, Schedule
<1>4. QED
  BY <1>2, <1>3

\* The run workers, the donor's requests and time: they open and cancel no run
\* and record no test.
LEMMA WorldKeepsTests ==
  ASSUME AllInv, TestsInv, TestsShape, UNCHANGED <<swallowed, sched, issued, call, link, excluded>>,
         interrupted => interrupted',
         \A t \in Tests : run'[t] = run[t] \/ (run[t] = "open" /\ run'[t] = "reported")
  PROVE  TestsInv'
<1> SUFFICES ASSUME ~interrupted, ~interrupted' PROVE TestsInv'
  BY DEF TestsInv
<1>0. NoTestIsForgotten /\ IdsAreDrawnOnce /\ MadeIsKept
  BY DEF TestsInv
<1>1. NoTestIsForgotten'
  BY <1>0 DEF NoTestIsForgotten, Making, InFlight, PendingTests
<1>2. IdsAreDrawnOnce'
  BY <1>0 DEF IdsAreDrawnOnce, Drawn
<1>3. MadeIsKept'
  BY <1>0 DEF MadeIsKept, Drawn, Recording, Records
<1>4. \A c \in Calls : call'[c].list \subseteq Linked'
  BY DEF TestsInv, Linked
<1>5. QED
  BY <1>1, <1>2, <1>3, <1>4 DEF TestsInv

\* A step of a call that only remembers something, and is on its way to
\* exclude what it has cancelled.
LEMMA CallMovesKeepTests ==
  ASSUME AllInv, TestsInv, TestsShape, NEW c \in Calls, NEW k, Continue(c, k),
         UNCHANGED <<run, swallowed, sched, issued, link, excluded, interrupted>>,
         k.list \subseteq Linked,
         InFlight(c) => k.pc \in {"cancel", "dropEnvelope"}
  PROVE  TestsInv'
<1> SUFFICES ASSUME ~interrupted PROVE TestsInv'
  BY DEF TestsInv
<1>0. NoTestIsForgotten /\ IdsAreDrawnOnce /\ MadeIsKept
  BY DEF TestsInv
<1>1. call'[c] = k /\ \A d \in Calls \ {c} : call'[d] = call[d]
  BY DEF Continue, AllInv, CallInv, CallShape
<1>2. \A d \in Calls : InFlight(d) => InFlight(d)'
  BY <1>1 DEF InFlight
<1>3. NoTestIsForgotten'
  BY <1>0, <1>2 DEF NoTestIsForgotten, Making, PendingTests
<1>4. IdsAreDrawnOnce' /\ MadeIsKept'
  BY <1>0 DEF IdsAreDrawnOnce, MadeIsKept, Drawn, Recording, Records
<1>5. \A d \in Calls : call'[d].list \subseteq Linked'
  BY <1>1 DEF TestsInv, Linked
<1>6. QED
  BY <1>3, <1>4, <1>5 DEF TestsInv

LEMMA CallKeepsTests ==
  ASSUME AllInv, TestsInv, TestsShape, NEW c \in Calls,
         \/ CallNext(c)
         \/ \E op \in {"status", "revoke"} : OwnedDonation(c, op)
         \/ AbandonCall(c)
  PROVE  TestsInv'
<1>1. CASE interrupted
  BY <1>1 DEF TestsInv, CallNext, ListRuns, CancelRun, DropRunEnvelope, EndDonation, DropCredential,
     OwnedDonation, AbandonCall, worldVars
<1>2. CASE AbandonCall(c)
  BY <1>2 DEF TestsInv, AbandonCall
<1>3. CASE ~interrupted
  <2>0. NoTestIsForgotten /\ IdsAreDrawnOnce /\ MadeIsKept /\ call[c].list \subseteq Linked
    BY <1>3 DEF TestsInv
  <2>1. IsCall(call[c])
    BY DEF AllInv, CallInv, CallShape
  <2>2. ASSUME NEW op \in {"status", "revoke"}, OwnedDonation(c, op)
        PROVE  TestsInv'
    <3> DEFINE k1 == [IdleCall EXCEPT !.pc = "list", !.op = op, !.target = "expired"]
               k2 == [IdleCall EXCEPT !.pc = "list", !.op = op, !.target = "revoked"]
               k3 == [IdleCall EXCEPT !.pc = "done", !.op = op]
    <3>1. Continue(c, k1) \/ Continue(c, k2) \/ Continue(c, k3)
      BY <2>2 DEF OwnedDonation
    <3>2. k1.list = {} /\ k2.list = {} /\ k3.list = {}
      BY DEF IdleCall
    <3>3. ~InFlight(c) /\ UNCHANGED <<run, swallowed, sched, issued, link, excluded, interrupted>>
      BY <2>2 DEF OwnedDonation, InFlight, storeVars, cycleVars, runVars, schedVars, worldVars
    <3> HIDE DEF k1, k2, k3
    <3>4. QED
      BY <3>1, <3>2, <3>3, CallMovesKeepTests
  <2>3. CASE ListRuns(c)
    <3> DEFINE k == [call[c] EXCEPT !.pc = "cancel", !.list = PendingTests]
    <3>1. k.list = PendingTests /\ k.pc = "cancel"
      BY <2>1 DEF IsCall
    <3>2. Continue(c, k) /\ UNCHANGED <<run, swallowed, sched, issued, link, excluded, interrupted>>
      BY <2>3 DEF ListRuns, storeVars, cycleVars, runVars, schedVars, worldVars
    <3> HIDE DEF k
    <3>3. QED
      BY <3>1, <3>2, CallMovesKeepTests DEF PendingTests, Linked
  <2>4. ASSUME NEW t \in Tests, CancelRun(c, t)
        PROVE  TestsInv'
    <3> DEFINE k == [call[c] EXCEPT !.pc = "dropEnvelope", !.list = @ \ {t}, !.test = t]
    <3>1. k.list = call[c].list \ {t} /\ k.pc = "dropEnvelope"
      BY <2>1 DEF IsCall
    <3>2. /\ Continue(c, k) /\ t \in call[c].list /\ CancelTestRun(t)
          /\ UNCHANGED <<swallowed, sched, issued, link, excluded, interrupted>>
      BY <2>4 DEF CancelRun, CancelTestRun, storeVars, cycleVars, schedVars, worldVars
    <3> HIDE DEF k
    <3>3. call'[c] = k /\ \A d \in Calls \ {c} : call'[d] = call[d]
      BY <3>2 DEF Continue, AllInv, CallInv, CallShape
    <3>4. InFlight(c)' /\ link[t] # "none"
      BY <2>0, <3>1, <3>2, <3>3 DEF InFlight, Linked
    <3>5. /\ \A x \in Tests : run'[x] = run[x] \/ (x = t /\ run'[x] = "cancelled")
          /\ \A x \in Tests : run'[x] # "none" <=> run[x] # "none"
      BY <3>2 DEF CancelTestRun, TestsShape
    <3>6. NoTestIsForgotten'
      BY <2>0, <3>2, <3>4, <3>5 DEF NoTestIsForgotten, Making, PendingTests
    <3>7. IdsAreDrawnOnce'
      BY <2>0, <3>2, <3>5 DEF IdsAreDrawnOnce, Drawn
    <3>8. MadeIsKept'
      <4>1. \A u \in Schedulers : Drawn(u) => t[1] # sched[u].id
        BY <2>0, <3>4 DEF IdsAreDrawnOnce
      <4>2. QED
        BY <2>0, <3>2, <3>5, <4>1 DEF MadeIsKept, Drawn, Recording, Records
    <3>9. \A d \in Calls : call'[d].list \subseteq Linked'
      BY <1>3, <3>1, <3>2, <3>3 DEF TestsInv, Linked
    <3>10. QED
      BY <3>6, <3>7, <3>8, <3>9 DEF TestsInv
  <2>5. CASE DropRunEnvelope(c)
    <3> DEFINE k == [call[c] EXCEPT !.pc = "cancel", !.test = <<>>]
    <3>1. k.list = call[c].list /\ k.pc = "cancel"
      BY <2>1 DEF IsCall
    <3>2. Continue(c, k) /\ UNCHANGED <<run, swallowed, sched, issued, link, excluded, interrupted>>
      BY <2>5 DEF DropRunEnvelope, DropTestEnvelope, storeVars, cycleVars, schedVars, worldVars
    <3> HIDE DEF k
    <3>3. QED
      BY <2>0, <3>1, <3>2, CallMovesKeepTests
  <2>6. CASE EndDonation(c)
    <3> DEFINE k == [call[c] EXCEPT !.pc = "dropCredential"]
    <3>1. k.list = call[c].list /\ k.pc = "dropCredential"
      BY <2>1 DEF IsCall
    <3>2. /\ Continue(c, k) /\ excluded' = Linked
          /\ UNCHANGED <<run, swallowed, sched, issued, link, interrupted>>
      BY <2>6 DEF EndDonation, TransitionDonation, runVars, schedVars, worldVars, Linked
    <3> HIDE DEF k
    <3>3. call'[c] = k /\ \A d \in Calls \ {c} : call'[d] = call[d]
      BY <3>2 DEF Continue, AllInv, CallInv, CallShape
    <3>4. PendingTests' = {}
      BY <3>2 DEF PendingTests, Linked
    <3>5. NoTestIsForgotten'
      BY <2>0, <3>2, <3>4 DEF NoTestIsForgotten, Making
    <3>6. IdsAreDrawnOnce' /\ MadeIsKept'
      BY <2>0, <3>2 DEF IdsAreDrawnOnce, MadeIsKept, Drawn, Recording, Records
    <3>7. \A d \in Calls : call'[d].list \subseteq Linked'
      BY <1>3, <3>1, <3>2, <3>3 DEF TestsInv, Linked
    <3>8. QED
      BY <3>5, <3>6, <3>7 DEF TestsInv
  <2>7. CASE DropCredential(c)
    <3> DEFINE k1 == [call[c] EXCEPT !.pc = "list", !.target = "revoked"]
               k2 == [IdleCall EXCEPT !.pc = "done", !.op = call[c].op]
    <3>1. Continue(c, k1) \/ Continue(c, k2)
      BY <2>7 DEF DropCredential, CallEnds
    <3>2. k1.list = call[c].list /\ k2.list = {}
      BY <2>1 DEF IsCall, IdleCall
    <3>3. ~InFlight(c) /\ UNCHANGED <<run, swallowed, sched, issued, link, excluded, interrupted>>
      BY <2>7 DEF DropCredential, InFlight, storeVars, cycleVars, runVars, schedVars
    <3> HIDE DEF k1, k2
    <3>4. QED
      BY <2>0, <3>1, <3>2, <3>3, CallMovesKeepTests
  <2>8. QED
    BY <1>2, <2>2, <2>3, <2>4, <2>5, <2>6, <2>7 DEF CallNext
<1>4. QED
  BY <1>1, <1>2, <1>3

LEMMA ShapeNext == TestsShape /\ [Next]_vars => TestsShape'
<1> SUFFICES ASSUME TestsShape, [Next]_vars PROVE TestsShape'
  OBVIOUS
<1>1. CASE UNCHANGED <<run, issued>>
  BY <1>1 DEF TestsShape
<1>2. ASSUME NEW w \in Schedulers, DonationLoop(w)
      PROVE  TestsShape'
  <2>1. CASE Reconcile(w)
    BY <1>1, <2>1 DEF Reconcile, ListPendingRuns, LookAtReport, CompleteRun, ListReadyCycles,
       SumCycle, FinalizeCycle, runVars
  <2>2. ASSUME NEW m \in Models, PutEnvelope(w, m) \/ UndoRun(w, m)
        PROVE  TestsShape'
    BY <2>2 DEF PutEnvelope, PutTestEnvelope, UndoRun, CancelTestRun, SwallowCancel, TestsShape
  <2>3. CASE CheckQuota(w)
    BY <2>3 DEF CheckQuota, TestsShape, runVars
  <2>4. CASE CreateRun(w)
    BY <2>4 DEF CreateRun, CreateTestRun, TestsShape, runVars
  <2>5. CASE UndoEnvelope(w)
    BY <1>1, <2>5 DEF UndoEnvelope, DropTestEnvelope, runVars
  <2>6. QED
    BY <1>1, <1>2, <2>1, <2>2, <2>3, <2>4, <2>5
    DEF DonationLoop, Schedule, ClaimDonation, ReadCredential, ProbeIdentity, Attribute, ReadRow,
        WriteRow, CreateCycle, UndoDone, runVars
<1>3. ASSUME NEW w \in Schedulers, QueryFails(w) \/ Crash(w)
      PROVE  TestsShape'
  BY <1>1, <1>3 DEF QueryFails, Crash, runVars
<1>4. ASSUME NEW t \in Tests, RunsNext(t)
      PROVE  TestsShape'
  BY <1>4 DEF RunsNext, UseCredential, FinishTestRun, CleanupTestRun, DropTestEnvelope, TestsShape,
     schedVars
<1>5. ASSUME NEW r \in Requests, CreateNext(r)
      PROVE  TestsShape'
  BY <1>1, <1>5 DEF CreateNext, StoreCredential, CreateDonation, DiscardCredential, runVars, schedVars
<1>6. ASSUME NEW c \in Calls,
             CallNext(c) \/ (\E op \in {"status", "revoke"} : OwnedDonation(c, op)) \/ AbandonCall(c)
      PROVE  TestsShape'
  <2>1. ASSUME NEW t \in Tests, CancelRun(c, t)
        PROVE  TestsShape'
    BY <2>1 DEF CancelRun, CancelTestRun, TestsShape, schedVars
  <2>2. QED
    BY <1>1, <1>6, <2>1 DEF CallNext, ListRuns, DropRunEnvelope, DropTestEnvelope, EndDonation,
       DropCredential, OwnedDonation, AbandonCall, runVars, schedVars
<1>7. CASE LeaseLapses \/ NextRunAtComes \/ SweepCredentials \/ Expire \/ UNCHANGED vars
  BY <1>1, <1>7 DEF LeaseLapses, NextRunAtComes, SweepCredentials, Expire, vars, runVars, schedVars
<1>8. QED
  BY <1>2, <1>3, <1>4, <1>5, <1>6, <1>7 DEF Next, Disturb

LEMMA TestsNext ==
  ASSUME AllInv, TestsInv, TestsShape, [Next]_vars
  PROVE  TestsInv'
<1>1. ASSUME NEW w \in Schedulers,
             DonationLoop(w) \/ ((QueryFails(w) \/ Crash(w)) /\ UNCHANGED routeVars)
      PROVE  TestsInv'
  BY <1>1, LoopKeepsTests
<1>2. ASSUME NEW t \in Tests, RunsNext(t)
      PROVE  TestsInv'
  <2>1. UNCHANGED <<swallowed, sched, issued, call, link, excluded, interrupted>>
    BY <1>2 DEF RunsNext, UseCredential, FinishTestRun, CleanupTestRun, DropTestEnvelope, storeVars,
       cycleVars, schedVars, worldVars, routeVars
  <2>2. \A x \in Tests : run'[x] = run[x] \/ (run[x] = "open" /\ run'[x] = "reported")
    BY <1>2 DEF RunsNext, UseCredential, FinishTestRun, CleanupTestRun, DropTestEnvelope, TestsShape
  <2>3. QED
    BY <2>1, <2>2, WorldKeepsTests
<1>3. ASSUME NEW r \in Requests, CreateNext(r)
      PROVE  TestsInv'
  <2>1. UNCHANGED <<run, swallowed, sched, issued, call, link, excluded>> /\ (interrupted => interrupted')
    BY <1>3 DEF CreateNext, StoreCredential, CreateDonation, InsertDonation, DiscardCredential,
       storeVars, cycleVars, runVars, schedVars
  <2>2. QED
    BY <2>1, WorldKeepsTests
<1>4. ASSUME NEW c \in Calls,
             CallNext(c) \/ (\E op \in {"status", "revoke"} : OwnedDonation(c, op)) \/ AbandonCall(c)
      PROVE  TestsInv'
  BY <1>4, CallKeepsTests
<1>5. CASE \/ (LeaseLapses \/ NextRunAtComes) /\ UNCHANGED routeVars
           \/ SweepCredentials \/ Expire \/ UNCHANGED vars
  <2>1. UNCHANGED <<run, swallowed, sched, issued, call, link, excluded, interrupted>>
    BY <1>5 DEF LeaseLapses, NextRunAtComes, SweepCredentials, Expire, vars, storeVars, cycleVars,
       runVars, schedVars, worldVars, routeVars
  <2>2. QED
    BY <2>1, WorldKeepsTests
<1>6. QED
  BY <1>1, <1>2, <1>3, <1>4, <1>5 DEF Next, Disturb

LEMMA TestsInit == Init => TestsInv /\ TestsShape
<1> SUFFICES ASSUME Init PROVE TestsInv /\ TestsShape
  OBVIOUS
<1>1. /\ issued = 0 /\ sched = [w \in Schedulers |-> IdleScheduler]
      /\ run = [t \in Tests |-> "none"] /\ link = [t \in Tests |-> "none"]
      /\ call = [c \in Calls |-> IdleCall]
  BY DEF Init, DonationStoreInit, RunsInit, SchedulerInit, RoutesInit
<1>2. IdleScheduler.pc = "idle" /\ IdleScheduler.made = {} /\ IdleScheduler.patch = "none"
      /\ IdleCall.list = {}
  BY DEF IdleScheduler, IdleCall
<1>3. \A w \in Schedulers : ~Drawn(w) /\ ~Recording(w)
  BY <1>1, <1>2 DEF Drawn, Recording, Records, Reconciling
<1>4. NoTestIsForgotten /\ IdsAreDrawnOnce
  BY <1>1, <1>3 DEF NoTestIsForgotten, IdsAreDrawnOnce
<1>5. MadeIsKept
  BY <1>1, <1>2, <1>3 DEF MadeIsKept
<1>6. QED
  BY <1>1, <1>2, <1>4, <1>5 DEF TestsInv, TestsShape

\* The run of every test is recorded, or a scheduler still has to record or
\* cancel it; a recorded test whose run was cancelled is about to be excluded
\* (createdRuns and the catch of scheduleOnce, cancelDonationRuns).
THEOREM NoTestIsForgottenCorrect == Spec => []NoTestIsForgotten
<1>1. TestsInv => NoTestIsForgotten
  BY DEF TestsInv, NoTestIsForgotten
<1>2. QED
  BY <1>1, TestsInit, InvInit, InvNext, ShapeNext, TestsNext, PTL DEF Spec
-----------------------------------------------------------------------------
(* The contract of a donation.                                             *)

\* What a step of the store leaves of what the processes know of the cycles.
Stands ==
  \A n \in Cycles :
    Settled(n) => /\ Settled(n)'
                  /\ cycle'[n] = "running" => cycle[n] = "running" /\ CostOf(n)' = CostOf(n)

CyclesAreDrawn == \A n \in Cycles : cycle[n] # "none" => n <= issued

ContractStep == Contract!Next \/ UNCHANGED Contract!contractVars

LEMMA CostStands == ASSUME UNCHANGED cost, NEW n PROVE CostOf(n)' = CostOf(n)
  BY DEF CostOf, TestsOf

LEMMA CostIsTheContracts == ASSUME NEW n PROVE Contract!CostOf(n) = CostOf(n)
  BY DEF CostOf, TestsOf, Contract!CostOf

LEMMA ContractSets == Contract!Cycles = Cycles /\ Contract!Tests = Tests
  BY DEF Contract!Cycles, Contract!Tests, Cycles, Tests

LEMMA ContractStands ==
  ASSUME TestsOfCycles, UNCHANGED <<cycle, link, excluded, cost>>,
         Ended => Ended', UNCHANGED spent,
         status' = status \/ {status, status'} \subseteq Ongoing
  PROVE  TestsOfCycles' /\ Stands /\ ContractStep
<1>1. TestsOfCycles'
  BY DEF TestsOfCycles, PendingTests
<1>2. \A n \in Cycles : Settled(n)' <=> Settled(n)
  BY DEF Settled, PendingTests, TestsOf
<1>3. Stands
  BY <1>2, CostStands DEF Stands
<1>4. UNCHANGED Contract!contractVars
  BY DEF Contract!contractVars
<1>5. QED
  BY <1>1, <1>3, <1>4 DEF ContractStep

LEMMA ContractInsert ==
  ASSUME StoreInv, TestsOfCycles, NEW r \in Requests, InsertDonation(r)
  PROVE  TestsOfCycles' /\ Stands /\ ContractStep
<1>1. /\ status = "none" /\ status' = "quarantined" /\ UNCHANGED <<cycle, link, excluded, cost, spent>>
  BY DEF InsertDonation, cycleVars
<1>2. ~Ended
  BY <1>1 DEF Ended
<1>3. TestsOfCycles'
  BY <1>1, <1>2 DEF TestsOfCycles, PendingTests
<1>4. \A n \in Cycles : Settled(n)' <=> Settled(n)
  BY <1>1 DEF Settled, PendingTests, TestsOf
<1>5. Stands
  BY <1>1, <1>4, CostStands DEF Stands
<1>6. Contract!Accept
  BY <1>1 DEF Contract!Accept, Ongoing
<1>7. QED
  BY <1>3, <1>5, <1>6 DEF ContractStep, Contract!Next

LEMMA ContractBegin ==
  ASSUME StoreInv, TestsOfCycles, NEW w \in Schedulers, MayCreateCycle(w), NEW n,
         n \in Cycles => cycle[n] = "none", NEW r, CreateDonationCycle(n, r)
  PROVE  TestsOfCycles' /\ Stands /\ ContractStep
<1>1. ~Ended /\ Running = {} /\ status \in Ongoing
  BY LeaseMeansOpen DEF MayCreateCycle
<1>2. /\ cycle' = [cycle EXCEPT ![n] = "running"]
      /\ link' = [t \in Tests |-> IF t[1] = n THEN "pending" ELSE link[t]]
      /\ UNCHANGED <<status, spent, excluded, cost>>
  BY DEF CreateDonationCycle
<1>3. \A t \in Tests : t[1] \in Cycles
  BY DEF Tests
<1>4. TestsOfCycles'
  <2>1. SUFFICES ASSUME NEW t \in Tests
                 PROVE  /\ link'[t] # "none" => cycle'[t[1]] # "none"
                        /\ t \in PendingTests' => cycle'[t[1]] = "running"
                        /\ cycle'[t[1]] = "running" => link'[t] # "none"
                        /\ t \in excluded' => Ended'
    BY DEF TestsOfCycles
  <2>2. CASE t[1] = n
    BY <1>1, <1>2, <1>3, <2>2 DEF TestsOfCycles, StoreInv, StoreShape, Ended
  <2>3. CASE t[1] # n
    <3>1. cycle'[t[1]] = cycle[t[1]] /\ link'[t] = link[t]
      BY <1>2, <1>3, <2>3 DEF StoreInv, StoreShape
    <3>2. QED
      BY <1>1, <1>2, <3>1 DEF TestsOfCycles, PendingTests, Ended
  <2>4. QED
    BY <2>2, <2>3
<1>5. Stands
  <2>1. SUFFICES ASSUME NEW m \in Cycles, Settled(m)
                 PROVE  Settled(m)' /\ cycle'[m] = cycle[m]
    BY <1>2, CostStands DEF Stands
  <2>2. m # n /\ cycle'[m] = cycle[m]
    BY <1>2, <2>1 DEF Settled, StoreInv, StoreShape
  <2>3. \A t \in TestsOf(m) \cap Tests : link'[t] = link[t]
    BY <1>2, <2>2 DEF TestsOf
  <2>4. QED
    BY <1>2, <2>1, <2>2, <2>3 DEF Settled, PendingTests
<1>6. CASE n \in Cycles
  <2>1. Contract!Begin(n)
    BY <1>1, <1>2, <1>6, ContractSets DEF Contract!Begin, Running
  <2>2. QED
    BY <1>4, <1>5, <1>6, <2>1, ContractSets DEF ContractStep, Contract!Next
<1>7. CASE n \notin Cycles
  <2>1. cycle' = cycle /\ link' = link
    BY <1>2, <1>3, <1>7 DEF StoreInv, StoreShape
  <2>2. QED
    BY <1>2, <1>4, <1>5, <2>1 DEF ContractStep, Contract!contractVars
<1>8. QED
  BY <1>6, <1>7

LEMMA ContractSettle ==
  ASSUME StoreInv, TestsOfCycles, NEW t, NEW o, NEW c \in 0..MaxCost, CompleteDonationRun(t, o, c)
  PROVE  TestsOfCycles' /\ Stands /\ ContractStep
<1>1. CASE t \in PendingTests
  <2>1. /\ link' = [link EXCEPT ![t] = "done"] /\ cost' = [cost EXCEPT ![t] = c]
        /\ UNCHANGED <<status, spent, cycle, excluded>>
    BY <1>1 DEF CompleteDonationRun, donationVars
  <2>2. /\ t \in Tests /\ link[t] = "pending" /\ cycle[t[1]] = "running" /\ t[1] \in Cycles
    BY <1>1 DEF PendingTests, TestsOfCycles, Tests
  <2>3. status \in Ongoing
    BY <2>2 DEF StoreInv, StoreShape, EndedDonationIsQuiet, Ended, Running, Ongoing, DonationStatus
  <2>4. /\ \A u \in Tests : u # t => link'[u] = link[u]
        /\ link'[t] = "done" /\ PendingTests' \subseteq PendingTests
    BY <2>1, <2>2 DEF StoreInv, StoreShape, PendingTests
  <2>5. TestsOfCycles'
    BY <2>1, <2>2, <2>4 DEF TestsOfCycles, Ended
  <2>6. Stands
    <3>1. SUFFICES ASSUME NEW n \in Cycles, Settled(n)
                   PROVE  /\ Settled(n)'
                          /\ cycle'[n] = "running" => cycle[n] = "running" /\ CostOf(n)' = CostOf(n)
      BY DEF Stands
    <3>2. Settled(n)'
      BY <2>1, <2>4, <3>1 DEF Settled, TestsOf
    <3>3. cycle[n] # "running"
      <4>1. SUFFICES ASSUME cycle[n] = "running" PROVE FALSE
        OBVIOUS
      <4>2. t[1] = n
        BY <2>2, <4>1 DEF StoreInv, OneCycleAtATime, Running
      <4>3. t \in TestsOf(n)
        BY <2>2, <4>2 DEF Tests, TestsOf
      <4>4. QED
        BY <1>1, <3>1, <4>3 DEF Settled
    <3>4. QED
      BY <2>1, <3>2, <3>3
  <2>7. Contract!Settle(t)
    BY <2>1, <2>2, <2>3 DEF Contract!Settle
  <2>8. QED
    BY <2>2, <2>5, <2>6, <2>7, ContractSets DEF ContractStep, Contract!Next
<1>2. CASE t \notin PendingTests
  BY <1>2, ContractStands DEF CompleteDonationRun, storeVars, donationVars, cycleVars, Ended
<1>3. QED
  BY <1>1, <1>2

LEMMA ContractPay ==
  ASSUME StoreInv, TestsOfCycles, NEW n \in Cycles, Settled(n), NEW sum,
         cycle[n] = "running" => sum = CostOf(n), FinalizeDonationCycle(n, sum)
  PROVE  /\ TestsOfCycles' /\ Stands /\ ContractStep
         /\ spent' # spent => Running # {}
         /\ \A m \in Cycles : cycle[m] = "none" => cycle'[m] = "none"
<1>1. CASE UNCHANGED storeVars
  BY <1>1, ContractStands DEF storeVars, donationVars, cycleVars, Ended
<1>2. CASE Unfinished(n) /\ status \notin Ongoing
  <2>1. Ended
    BY <1>2 DEF StoreInv, StoreShape, Unfinished, Ended, DonationStatus, Ongoing
  <2>2. cycle[n] = "blocked"
    BY <1>2, <2>1 DEF StoreInv, StoreShape, EndedDonationIsQuiet, Running, Unfinished
  <2>3. /\ cycle' = [cycle EXCEPT ![n] = "blocked"]
        /\ UNCHANGED <<status, spent, link, excluded, cost>>
    BY <1>2 DEF FinalizeDonationCycle, donationVars
  <2>4. cycle' = cycle
    BY <2>2, <2>3 DEF StoreInv, StoreShape
  <2>5. QED
    BY <2>3, <2>4, ContractStands DEF Ended
<1>3. CASE Unfinished(n) /\ status \in Ongoing
  <2>1. /\ cycle' = [cycle EXCEPT ![n] = "completed"] /\ spent' = spent + sum
        /\ status' \in Ongoing /\ UNCHANGED <<link, excluded, cost>>
    BY <1>3 DEF FinalizeDonationCycle, Paid, Ongoing
  <2>2. ~Ended /\ ~Ended'
    BY <1>3, <2>1 DEF Ended, Ongoing
  <2>3. cycle[n] = "running" /\ Running # {}
    BY <1>3, <2>2 DEF StoreInv, StoreShape, BlockedAtTheEnd, Unfinished, Running
  <2>4. \A m \in Cycles : cycle'[m] = IF m = n THEN "completed" ELSE cycle[m]
    BY <2>1 DEF StoreInv, StoreShape
  <2>5. \A t \in Tests : t[1] = n => link[t] = "done" /\ t \notin PendingTests
    <3>1. SUFFICES ASSUME NEW t \in Tests, t[1] = n PROVE link[t] = "done" /\ t \notin PendingTests
      OBVIOUS
    <3>2. t \in TestsOf(n)
      BY <3>1 DEF Tests, TestsOf
    <3>3. t \notin PendingTests /\ t \notin excluded /\ link[t] # "none"
      BY <2>2, <2>3, <3>1, <3>2 DEF Settled, TestsOfCycles
    <3>4. QED
      BY <3>3 DEF PendingTests, StoreInv, StoreShape
  <2>6. TestsOfCycles'
    <3>1. PendingTests' = PendingTests /\ \A t \in Tests : t[1] \in Cycles
      BY <2>1 DEF PendingTests, Tests
    <3>2. QED
      BY <2>1, <2>2, <2>4, <2>5, <3>1 DEF TestsOfCycles
  <2>7. Stands
    <3>1. PendingTests' = PendingTests
      BY <2>1 DEF PendingTests
    <3>2. QED
      BY <2>1, <2>4, <3>1, CostStands DEF Stands, Settled, TestsOf
  <2>8. Contract!Pay(n)
    BY <1>3, <2>1, <2>3, <2>5, ContractSets, CostIsTheContracts DEF Contract!Pay
  <2>9. QED
    BY <2>3, <2>4, <2>6, <2>7, <2>8, ContractSets DEF ContractStep, Contract!Next
<1>4. QED
  BY <1>1, <1>2, <1>3 DEF FinalizeDonationCycle

LEMMA ContractEnd ==
  ASSUME StoreInv, TestsOfCycles, NEW s \in {"expired", "revoked"}, status # "none",
         TransitionDonation(s)
  PROVE  TestsOfCycles' /\ Stands /\ ContractStep
<1>1. /\ status' = IF status = "revoked" THEN status ELSE s
      /\ excluded' = {t \in Tests : link[t] # "none"}
      /\ cycle' = [n \in Cycles |-> IF cycle[n] = "running" THEN "blocked" ELSE cycle[n]]
      /\ UNCHANGED <<spent, link, cost>>
  BY DEF TransitionDonation
<1>2. Ended' /\ PendingTests' = {}
  BY <1>1 DEF Ended, PendingTests
<1>3. \A t \in Tests : t[1] \in Cycles
  BY DEF Tests
<1>4. TestsOfCycles'
  BY <1>1, <1>2, <1>3 DEF TestsOfCycles
<1>5. Stands
  BY <1>1, <1>2 DEF Stands, Settled
<1>6. CASE status = "revoked"
  <2>1. cycle' = cycle
    BY <1>1, <1>6 DEF StoreInv, StoreShape, EndedDonationIsQuiet, Ended, Running
  <2>2. QED
    BY <1>1, <1>4, <1>5, <1>6, <2>1 DEF ContractStep, Contract!contractVars
<1>7. CASE status # "revoked"
  <2>1. status \in Ongoing \cup {"expired"}
    BY <1>7 DEF StoreInv, StoreShape, Ongoing, DonationStatus
  <2>2. Contract!End(s)
    BY <1>1, <1>7, <2>1, ContractSets DEF Contract!End, Ongoing
  <2>3. QED
    BY <1>4, <1>5, <2>2 DEF ContractStep, Contract!Next
<1>8. QED
  BY <1>6, <1>7
-----------------------------------------------------------------------------
(* What the processes know of the contract.                                *)

\* PaysWhatIsDue of a record that w is about to have.
PaysNext(w, s) ==
  /\ \A n \in Cycles :
       /\ n \in s.cycles => Settled(n)'
       /\ s.pc = "finalize" /\ s.id = n =>
            Settled(n)' /\ (cycle'[n] = "running" => s.sum = CostOf(n)')
       /\ Records(s) /\ s.id = n => cycle'[n] = "none"
  /\ s.pc = "writeRow" /\ Leases(w)' => s.row.spent = spent'
  /\ Records(s) => s.id \in 1..issued'

LEMMA PayStep ==
  ASSUME AllInv, ContractInv, NEW w \in Schedulers, NEW s, Become(w, s), PaysNext(w, s),
         Stands, TestsOfCycles', CyclesAreDrawn', issued' \in Nat, issued <= issued',
         \A u \in Schedulers \ {w} : Leases(u)' => Leases(u) /\ spent' = spent,
         \A u \in Schedulers \ {w} : \A n \in Cycles :
            Recording(u) /\ sched[u].id = n => cycle'[n] = "none",
         Records(s) => \A u \in Schedulers \ {w} : Recording(u) => s.id # sched[u].id
  PROVE  ContractInv'
<1>1. sched'[w] = s /\ \A u \in Schedulers \ {w} : sched'[u] = sched[u]
  BY DEF Become, AllInv, SchedInv, SchedShape
<1>2. (Recording(w)' <=> Records(s)) /\ \A u \in Schedulers \ {w} : Recording(u)' <=> Recording(u)
  BY <1>1 DEF Recording, Records
<1>3. \A u \in Schedulers : PaysWhatIsDue(u, sched[u])'
  <2>1. PaysWhatIsDue(w, sched[w])'
    BY <1>1 DEF PaysWhatIsDue, PaysNext, Records
  <2>2. ASSUME NEW u \in Schedulers \ {w} PROVE PaysWhatIsDue(u, sched[u])'
    <3>1. PaysWhatIsDue(u, sched[u]) /\ sched'[u] = sched[u] /\ (Recording(u)' <=> Recording(u))
      BY <1>1, <1>2 DEF ContractInv
    <3>2. ASSUME NEW n \in Cycles
          PROVE  /\ n \in sched'[u].cycles => Settled(n)'
                 /\ sched'[u].pc = "finalize" /\ sched'[u].id = n =>
                      Settled(n)' /\ (cycle'[n] = "running" => sched'[u].sum = CostOf(n)')
                 /\ Recording(u)' /\ sched'[u].id = n => cycle'[n] = "none"
      BY <3>1 DEF PaysWhatIsDue, Stands
    <3>3. sched'[u].pc = "writeRow" /\ Leases(u)' => sched'[u].row.spent = spent'
      BY <3>1 DEF PaysWhatIsDue
    <3>4. Recording(u)' => sched'[u].id \in 1..issued'
      BY <3>1 DEF PaysWhatIsDue, ContractInv, Recording
    <3>5. QED
      BY <3>2, <3>3, <3>4 DEF PaysWhatIsDue, Recording
  <2>3. QED
    BY <2>1, <2>2
<1>4. \A u, v \in Schedulers :
        u # v /\ Recording(u)' /\ Recording(v)' => sched'[u].id # sched'[v].id
  BY <1>1, <1>2 DEF ContractInv
<1>5. QED
  BY <1>3, <1>4 DEF ContractInv, CyclesAreDrawn

LEMMA PayStays ==
  ASSUME ContractInv, UNCHANGED <<sched, issued>>, Stands, TestsOfCycles',
         \A n \in Cycles : cycle[n] = "none" => cycle'[n] = "none",
         \A u \in Schedulers : Leases(u)' => Leases(u), UNCHANGED spent
  PROVE  ContractInv'
<1>1. ASSUME NEW u \in Schedulers PROVE PaysWhatIsDue(u, sched[u])'
  <2>1. PaysWhatIsDue(u, sched[u]) /\ sched'[u] = sched[u]
    BY DEF ContractInv
  <2>2. QED
    BY <2>1 DEF PaysWhatIsDue, Stands, Records
<1>2. \A u \in Schedulers : Recording(u)' <=> Recording(u)
  BY DEF Recording, Records
<1>3. CyclesAreDrawn'
  BY DEF ContractInv, CyclesAreDrawn
<1>4. QED
  BY <1>1, <1>2, <1>3 DEF ContractInv, CyclesAreDrawn

\* A record that is nearer to no payment and to no new cycle.
Plain(w, s) ==
  /\ s.cycles \subseteq sched[w].cycles
  /\ s.pc # "finalize"
  /\ s.pc = "writeRow" => s.row.spent = spent
  /\ Records(s) => Recording(w) /\ s.id = sched[w].id

LEMMA PlainPays ==
  ASSUME AllInv, ContractInv, NEW w \in Schedulers, NEW s, Become(w, s), Plain(w, s),
         Stands, TestsOfCycles', UNCHANGED <<cycle, issued, spent>>,
         \A u \in Schedulers \ {w} : Leases(u)' => Leases(u)
  PROVE  ContractInv'
<1>1. PaysWhatIsDue(w, sched[w])
  BY DEF ContractInv
<1>2. PaysNext(w, s)
  BY <1>1 DEF PaysWhatIsDue, PaysNext, Plain, Stands, Recording
<1>3. CyclesAreDrawn' /\ issued' \in Nat /\ issued <= issued'
  BY DEF CyclesAreDrawn, ContractInv
<1>4. \A u \in Schedulers \ {w} : \A n \in Cycles :
        Recording(u) /\ sched[u].id = n => cycle'[n] = "none"
  BY DEF ContractInv, PaysWhatIsDue, Recording
<1>5. Records(s) => \A u \in Schedulers \ {w} : Recording(u) => s.id # sched[u].id
  BY DEF Plain, ContractInv
<1>6. QED
  BY <1>2, <1>3, <1>4, <1>5, PayStep

\* A step of one process that leaves the donation alone.
LEMMA PlainKeeps ==
  ASSUME AllInv, ContractInv, NEW w \in Schedulers, NEW s, Become(w, s), Plain(w, s),
         UNCHANGED <<status, cycle, link, excluded, cost, spent, issued>>,
         \A u \in Schedulers \ {w} : Leases(u)' => Leases(u)
  PROVE  ContractInv' /\ ContractStep
<1>1. TestsOfCycles' /\ Stands /\ ContractStep
  BY ContractStands DEF ContractInv, Ended
<1>2. QED
  BY <1>1, PlainPays

LEMMA IdleIsPlain == ASSUME NEW w PROVE Plain(w, IdleScheduler)
  BY DEF Plain, IdleScheduler, Records

LEMMA PatchingIsPlain ==
  ASSUME AllInv, NEW w \in Schedulers
  PROVE  /\ Plain(w, Caught(w)) /\ Plain(w, Throws(w))
         /\ \A patch : patch # "keep" \/ Recording(w) => Plain(w, Patching(w, patch))
<1>1. HasFields(sched[w])
  BY DEF AllInv, SchedInv, SchedShape
<1>2. Plain(w, Caught(w))
  BY <1>1 DEF HasFields, Caught, Plain, Records
<1>3. ASSUME NEW patch
      PROVE  /\ Patching(w, patch).pc = "readRow" /\ Patching(w, patch).id = sched[w].id
             /\ Patching(w, patch).cycles = sched[w].cycles /\ Patching(w, patch).patch = patch
  BY <1>1 DEF HasFields, Patching
<1>4. QED
  BY <1>2, <1>3, IdleIsPlain DEF Plain, Records, Throws
-----------------------------------------------------------------------------
(* The steps of a process, against the contract.                           *)

\* Most steps pay nothing and start nothing.
LEMMA PlainStepsKeep ==
  ASSUME AllInv, ContractInv, NEW w \in Schedulers,
         \/ ListPendingRuns(w) \/ (\E t \in Tests : LookAtReport(w, t)) \/ ClaimDonation(w)
         \/ ReadCredential(w) \/ ProbeIdentity(w) \/ (CheckQuota(w) /\ UNCHANGED issued)
         \/ (\E m \in Models : PutEnvelope(w, m)) \/ CreateRun(w) \/ Attribute(w) \/ ReadRow(w)
         \/ (\E m \in Models : UndoRun(w, m)) \/ UndoEnvelope(w) \/ UndoDone(w)
         \/ QueryFails(w) \/ Crash(w)
  PROVE  ContractInv' /\ ContractStep
<1>0. HasFields(sched[w])
  BY DEF AllInv, SchedInv, SchedShape
<1>1. UNCHANGED <<status, cycle, link, excluded, cost, spent, issued>>
  BY DEF ListPendingRuns, LookAtReport, ClaimDonation, ClaimDueDonation, ReadCredential,
     ProbeIdentity, PutEnvelope, CheckQuota, CreateRun, Attribute, ReadRow, UndoRun, UndoEnvelope,
     UndoDone, QueryFails, Crash, storeVars, donationVars, cycleVars
<1>2. \A u \in Schedulers \ {w} : Leases(u)' => Leases(u)
  <2>1. CASE ClaimDonation(w) \/ Crash(w)
    BY <2>1, SchedulersAssumption DEF ClaimDonation, ClaimDueDonation, Crash, Leases,
       storeVars, donationVars
  <2>2. CASE UNCHANGED storeVars
    BY <2>2 DEF Leases, storeVars, donationVars
  <2>3. QED
    BY <2>1, <2>2 DEF ListPendingRuns, LookAtReport, ReadCredential, ProbeIdentity, PutEnvelope,
       CheckQuota, CreateRun, Attribute, ReadRow, UndoRun, UndoEnvelope, UndoDone, QueryFails
<1>3. ASSUME NEW s, Become(w, s), Plain(w, s)
      PROVE  ContractInv' /\ ContractStep
  BY <1>1, <1>2, <1>3, PlainKeeps
<1>4. CASE ListPendingRuns(w) \/ ClaimDonation(w)
  <2> DEFINE s1 == [IdleScheduler EXCEPT !.pc = "report", !.list = PendingTests]
             s2 == [IdleScheduler EXCEPT !.pc = "read", !.row = Copy]
  <2>1. Plain(w, s1) /\ Plain(w, s2)
    BY DEF Plain, IdleScheduler, Records
  <2>2. Become(w, s1) \/ Become(w, s2) \/ Become(w, IdleScheduler)
    BY <1>4 DEF ListPendingRuns, ClaimDonation
  <2> HIDE DEF s1, s2
  <2>3. QED
    BY <1>3, <2>1, <2>2, IdleIsPlain
<1>5. ASSUME NEW t \in Tests, LookAtReport(w, t)
      PROVE  ContractInv' /\ ContractStep
  <2> DEFINE s1 == [sched[w] EXCEPT !.pc = "complete", !.list = @ \ {t}, !.id = t[1], !.model = t[2]]
             s2 == [sched[w] EXCEPT !.list = @ \ {t}]
  <2>1. Plain(w, s1)
    BY <1>0 DEF Plain, HasFields, Records
  <2>2. Plain(w, s2)
    BY <1>0, <1>5 DEF Plain, HasFields, Records, LookAtReport
  <2>3. Become(w, s1) \/ Become(w, s2)
    BY <1>5 DEF LookAtReport
  <2> HIDE DEF s1, s2
  <2>4. QED
    BY <1>3, <2>1, <2>2, <2>3
<1>6. CASE ReadCredential(w) \/ ProbeIdentity(w)
  <2>1. \/ Become(w, Caught(w))
        \/ Become(w, [sched[w] EXCEPT !.pc = "probe"])
        \/ Become(w, [sched[w] EXCEPT !.pc = "quota"])
        \/ Become(w, Patching(w, "never"))
        \/ Become(w, Patching(w, "later"))
    BY <1>6 DEF ReadCredential, ProbeIdentity, GoTo, Become
  <2>2. Plain(w, [sched[w] EXCEPT !.pc = "probe"]) /\ Plain(w, [sched[w] EXCEPT !.pc = "quota"])
    BY <1>0 DEF Plain, HasFields, Records
  <2>3. QED
    BY <1>3, <2>1, <2>2, PatchingIsPlain
<1>7. CASE CheckQuota(w) /\ UNCHANGED issued
  <2>1. Become(w, Patching(w, "exhausted"))
    <3>1. issued' # issued + 1
      BY <1>7 DEF ContractInv
    <3>2. QED
      BY <1>7, <3>1 DEF CheckQuota
  <2>2. QED
    BY <1>3, <2>1, PatchingIsPlain
<1>8. ASSUME NEW m \in Models, PutEnvelope(w, m)
      PROVE  ContractInv' /\ ContractStep
  <2> DEFINE s == [sched[w] EXCEPT !.pc = "create", !.model = m]
  <2>1. Plain(w, s)
    BY <1>0, <1>8 DEF HasFields, Plain, Records, Recording, PutEnvelope
  <2>2. Become(w, s) \/ Become(w, Caught(w))
    BY <1>8 DEF PutEnvelope
  <2> HIDE DEF s
  <2>3. QED
    BY <1>3, <2>1, <2>2, PatchingIsPlain
<1>9. CASE CreateRun(w)
  <2> DEFINE s  == [sched[w] EXCEPT !.todo = @ \ {sched[w].model}, !.made = @ \cup {sched[w].model}]
             s1 == [s EXCEPT !.model = NoModel, !.pc = IF s.todo = {} THEN "attribute" ELSE "put"]
             s2 == [s EXCEPT !.model = NoModel, !.pc = "undo"]
  <2>1. HasFields(s) /\ s.id = sched[w].id /\ s.cycles = sched[w].cycles
    BY <1>0 DEF HasFields
  <2>2. Become(w, s1) \/ Become(w, s2)
    BY <1>9 DEF CreateRun
  <2>3. Recording(w)
    BY <1>9 DEF CreateRun, Recording, Records
  <2> HIDE DEF s
  <2>4. Plain(w, s1) /\ Plain(w, s2)
    BY <2>1, <2>3 DEF HasFields, Plain, Records
  <2> HIDE DEF s1, s2
  <2>5. QED
    BY <1>3, <2>2, <2>4
<1>10. CASE Attribute(w)
  <2>1. Recording(w)
    BY <1>10 DEF Attribute, Recording, Records
  <2>2. QED
    BY <1>3, <1>10, <2>1, PatchingIsPlain DEF Attribute
<1>11. CASE ReadRow(w)
  <2> DEFINE s == [sched[w] EXCEPT !.pc = "writeRow", !.row = Copy]
  <2>1. s.pc = "writeRow" /\ s.row.spent = spent /\ s.id = sched[w].id
        /\ s.cycles = sched[w].cycles /\ s.patch = sched[w].patch
    BY <1>0 DEF HasFields, Copy
  <2>2. Become(w, s)
    BY <1>11 DEF ReadRow
  <2> HIDE DEF s
  <2>3. Plain(w, s)
    BY <1>11, <2>1 DEF Plain, Records, Recording, ReadRow
  <2>4. QED
    BY <1>3, <2>2, <2>3
<1>12. ASSUME NEW m \in Models, UndoRun(w, m)
       PROVE  ContractInv' /\ ContractStep
  <2> DEFINE s == [sched[w] EXCEPT !.pc = "dropEnvelope", !.model = m]
  <2>1. Plain(w, s)
    BY <1>0 DEF HasFields, Plain, Records
  <2>2. QED
    BY <1>3, <1>12, <2>1 DEF UndoRun
<1>13. CASE UndoEnvelope(w)
  <2> DEFINE s == [sched[w] EXCEPT !.pc = "undo", !.made = @ \ {sched[w].model}, !.model = NoModel]
  <2>1. Plain(w, s)
    BY <1>0 DEF HasFields, Plain, Records
  <2>2. QED
    BY <1>3, <1>13, <2>1 DEF UndoEnvelope
<1>14. CASE UndoDone(w) \/ QueryFails(w) \/ Crash(w)
  BY <1>3, <1>14, PatchingIsPlain, IdleIsPlain DEF UndoDone, QueryFails, Crash
<1>15. QED
  BY <1>4, <1>5, <1>6, <1>7, <1>8, <1>9, <1>10, <1>11, <1>12, <1>13, <1>14

LEMMA DrawPays ==
  ASSUME AllInv, ContractInv, NEW w \in Schedulers, CheckQuota(w), ~UNCHANGED issued
  PROVE  ContractInv' /\ ContractStep
<1>a. PICK p \in Prices :
        \/ Become(w, [sched[w] EXCEPT !.pc = "put", !.id = issued + 1, !.todo = Models, !.price = p])
        \/ UNCHANGED issued
  BY DEF CheckQuota
<1> DEFINE s == [sched[w] EXCEPT !.pc = "put", !.id = issued + 1, !.todo = Models, !.price = p]
<1>0. HasFields(sched[w]) /\ issued \in Nat
  BY DEF AllInv, SchedInv, SchedShape, ContractInv
<1>1. issued' = issued + 1 /\ Become(w, s)
      /\ UNCHANGED <<status, cycle, link, excluded, cost, spent, lessee, leaseLive>>
  BY <1>a DEF CheckQuota, storeVars, donationVars, cycleVars
<1>2. s.pc = "put" /\ s.id = issued + 1 /\ s.cycles = sched[w].cycles
  BY <1>0 DEF HasFields
<1> HIDE DEF s
<1>3. TestsOfCycles' /\ Stands /\ ContractStep
  BY <1>1, ContractStands DEF ContractInv, Ended
<1>4. \A n \in Cycles : cycle[n] # "none" => n <= issued
  BY DEF ContractInv
<1>5. PaysNext(w, s)
  <2>1. \A n \in Cycles : n = issued + 1 => cycle'[n] = "none"
    BY <1>0, <1>1, <1>4
  <2>2. issued + 1 \in 1..issued'
    BY <1>0, <1>1
  <2>3. \A n \in s.cycles \cap Cycles : Settled(n)'
    BY <1>2, <1>3 DEF ContractInv, PaysWhatIsDue, Stands
  <2>4. QED
    BY <1>2, <2>1, <2>2, <2>3 DEF PaysNext
<1>6. CyclesAreDrawn' /\ issued' \in Nat /\ issued <= issued'
  BY <1>0, <1>1, <1>4 DEF CyclesAreDrawn, Cycles
<1>7. \A u \in Schedulers \ {w} : Leases(u)' => Leases(u) /\ spent' = spent
  BY <1>1 DEF Leases
<1>8. \A u \in Schedulers \ {w} : \A n \in Cycles :
        Recording(u) /\ sched[u].id = n => cycle'[n] = "none"
  BY <1>1 DEF ContractInv, PaysWhatIsDue, Recording
<1>9. \A u \in Schedulers \ {w} : Recording(u) => s.id # sched[u].id
  <2>1. \A u \in Schedulers : Recording(u) => sched[u].id \in 1..issued
    BY DEF ContractInv, PaysWhatIsDue, Recording
  <2>2. QED
    BY <1>0, <1>2, <2>1
<1>10. QED
  BY <1>1, <1>3, <1>5, <1>6, <1>7, <1>8, <1>9, PayStep

LEMMA ListPays ==
  ASSUME AllInv, ContractInv, NEW w \in Schedulers,
         ListReadyCycles(w) \/ \E n \in Cycles : SumCycle(w, n)
  PROVE  ContractInv' /\ ContractStep
<1>0. HasFields(sched[w]) /\ PaysWhatIsDue(w, sched[w])
  BY DEF AllInv, SchedInv, SchedShape, ContractInv
<1>1. UNCHANGED <<status, cycle, link, excluded, cost, spent, lessee, leaseLive, issued>>
  BY DEF ListReadyCycles, SumCycle, storeVars, donationVars, cycleVars
<1>2. TestsOfCycles' /\ Stands /\ ContractStep
  BY <1>1, ContractStands DEF ContractInv, Ended
<1>3. CyclesAreDrawn' /\ issued' \in Nat /\ issued <= issued'
  BY <1>1 DEF CyclesAreDrawn, ContractInv
<1>4. \A u \in Schedulers \ {w} : Leases(u)' => Leases(u) /\ spent' = spent
  BY <1>1 DEF Leases
<1>5. \A u \in Schedulers \ {w} : \A n \in Cycles :
        Recording(u) /\ sched[u].id = n => cycle'[n] = "none"
  BY <1>1 DEF ContractInv, PaysWhatIsDue, Recording
<1>6. ASSUME NEW s, Become(w, s), PaysNext(w, s), ~Records(s)
      PROVE  ContractInv' /\ ContractStep
  BY <1>2, <1>3, <1>4, <1>5, <1>6, PayStep
<1>7. \A n \in Cycles : Settled(n)' <=> Settled(n)
  BY <1>1 DEF Settled, PendingTests, TestsOf
<1>8. CASE ListReadyCycles(w)
  <2> DEFINE s == [sched[w] EXCEPT !.pc = "ready", !.cycles = ReadyCycles]
  <2>1. s.pc = "ready" /\ s.cycles = ReadyCycles
    BY <1>0 DEF HasFields
  <2>2. Become(w, s)
    BY <1>8 DEF ListReadyCycles
  <2> HIDE DEF s
  <2>3. \A n \in ReadyCycles : Settled(n)
    BY DEF ReadyCycles, Settled
  <2>4. PaysNext(w, s) /\ ~Records(s)
    BY <1>7, <2>1, <2>3 DEF PaysNext, Records
  <2>5. QED
    BY <1>6, <2>2, <2>4
<1>9. ASSUME NEW n \in Cycles, SumCycle(w, n)
      PROVE  ContractInv' /\ ContractStep
  <2> DEFINE s == [sched[w] EXCEPT !.pc = "finalize", !.cycles = @ \ {n}, !.id = n, !.sum = CostOf(n)]
  <2>1. s.pc = "finalize" /\ s.cycles = sched[w].cycles \ {n} /\ s.id = n /\ s.sum = CostOf(n)
    BY <1>0 DEF HasFields
  <2>2. Become(w, s) /\ n \in sched[w].cycles
    BY <1>9 DEF SumCycle
  <2> HIDE DEF s
  <2>3. CostOf(n)' = CostOf(n)
    BY <1>1, CostStands
  <2>4. PaysNext(w, s) /\ ~Records(s)
    BY <1>0, <1>7, <2>1, <2>2, <2>3 DEF PaysNext, Records, PaysWhatIsDue
  <2>5. QED
    BY <1>6, <2>2, <2>4
<1>10. QED
  BY <1>8, <1>9

LEMMA FinalizePays ==
  ASSUME AllInv, ContractInv, NEW w \in Schedulers, FinalizeCycle(w)
  PROVE  ContractInv' /\ ContractStep
<1> DEFINE n == sched[w].id
           s == [sched[w] EXCEPT !.pc = "ready", !.id = 0, !.sum = 0]
<1>0. HasFields(sched[w]) /\ PaysWhatIsDue(w, sched[w]) /\ n \in Cycles /\ sched[w].pc = "finalize"
  BY DEF AllInv, SchedInv, SchedShape, ContractInv, FinalizesACycle, FinalizeCycle
<1>1. /\ FinalizeDonationCycle(n, sched[w].sum) /\ Become(w, s)
      /\ UNCHANGED <<lessee, leaseLive, issued>>
  BY DEF FinalizeCycle, FinalizeDonationCycle, storeVars, donationVars
<1>2. s.pc = "ready" /\ s.cycles = sched[w].cycles
  BY <1>0 DEF HasFields
<1>3. Settled(n) /\ (cycle[n] = "running" => sched[w].sum = CostOf(n))
  BY <1>0 DEF PaysWhatIsDue
<1> HIDE DEF s, n
<1>4. /\ TestsOfCycles' /\ Stands /\ ContractStep
      /\ spent' # spent => Running # {}
      /\ \A m \in Cycles : cycle[m] = "none" => cycle'[m] = "none"
  BY <1>0, <1>1, <1>3, ContractPay DEF AllInv, ContractInv
<1>5. PaysNext(w, s) /\ ~Records(s)
  BY <1>0, <1>2, <1>4 DEF PaysNext, PaysWhatIsDue, Stands, Records
<1>6. CyclesAreDrawn' /\ issued' \in Nat /\ issued <= issued'
  BY <1>1, <1>4 DEF CyclesAreDrawn, ContractInv
<1>7. \A u \in Schedulers \ {w} : Leases(u)' => Leases(u) /\ spent' = spent
  <2>1. \A u \in Schedulers : Leases(u) => Running = {}
    BY LeaseMeansOpen DEF AllInv
  <2>2. QED
    BY <1>1, <1>4, <2>1 DEF Leases
<1>8. \A u \in Schedulers \ {w} : \A m \in Cycles :
        Recording(u) /\ sched[u].id = m => cycle'[m] = "none"
  BY <1>4 DEF ContractInv, PaysWhatIsDue, Recording
<1>9. QED
  BY <1>1, <1>4, <1>5, <1>6, <1>7, <1>8, PayStep

LEMMA CompletePays ==
  ASSUME AllInv, ContractInv, NEW w \in Schedulers, CompleteRun(w)
  PROVE  ContractInv' /\ ContractStep
<1> DEFINE t == <<sched[w].id, sched[w].model>>
           s == [sched[w] EXCEPT !.pc = "report", !.id = 0, !.model = NoModel]
<1>0. HasFields(sched[w])
  BY DEF AllInv, SchedInv, SchedShape
<1>1. PICK p \in Prices, o \in {"available", "unavailable"} :
        \E c \in ActualCosts(t, p) : CompleteDonationRun(t, o, c)
  BY DEF CompleteRun
<1>a. PICK c \in ActualCosts(t, p) : CompleteDonationRun(t, o, c)
  BY <1>1
<1>2. c \in 0..MaxCost
  BY MoneyAssumption DEF ActualCosts, Prices
<1>3. TestsOfCycles' /\ Stands /\ ContractStep
  BY <1>a, <1>2, ContractSettle DEF AllInv, ContractInv
<1>4. UNCHANGED <<cycle, spent, lessee, leaseLive, issued>>
  BY <1>a DEF CompleteRun, CompleteDonationRun, storeVars, donationVars, cycleVars
<1>5. Become(w, s)
  BY DEF CompleteRun
<1>6. Plain(w, s)
  BY <1>0 DEF HasFields, Plain, Records
<1> HIDE DEF s
<1>7. \A u \in Schedulers \ {w} : Leases(u)' => Leases(u)
  BY <1>4 DEF Leases
<1>8. QED
  BY <1>3, <1>4, <1>5, <1>6, <1>7, PlainPays

LEMMA WriteRowPays ==
  ASSUME AllInv, ContractInv, NEW w \in Schedulers, WriteRow(w)
  PROVE  ContractInv' /\ ContractStep
<1> DEFINE s   == [sched[w] EXCEPT !.pc = "cycle"]
           row == Patched(sched[w].row, sched[w].patch)
<1>0. /\ HasFields(sched[w]) /\ IsRow(sched[w].row) /\ sched[w].pc = "writeRow"
      /\ PaysWhatIsDue(w, sched[w])
  BY DEF AllInv, SchedInv, SchedShape, WriteRow, ContractInv
<1>1. Plain(w, Throws(w)) /\ Plain(w, IdleScheduler)
  BY PatchingIsPlain, IdleIsPlain
<1>2. sched[w].patch = "keep" => Plain(w, s)
  BY <1>0 DEF HasFields, Plain, Records, Recording
<1>3. UNCHANGED <<cycle, link, excluded, cost, issued>>
  BY DEF WriteRow, Write, storeVars, cycleVars
<1>4. /\ UNCHANGED spent
      /\ status' = status \/ {status, status'} \subseteq Ongoing
      /\ \A u \in Schedulers \ {w} : Leases(u)' => Leases(u)
  <2>1. CASE MayWrite(w)
    <3>1. Leases(w) /\ Write(row, sched[w].patch # "keep")
      BY <2>1 DEF WriteRow, MayWrite
    <3>2. row.status = sched[w].row.status /\ row.spent = sched[w].row.spent
      BY <1>0 DEF IsRow, Patched
    <3>3. sched[w].row.spent = spent
      BY <1>0, <3>1 DEF PaysWhatIsDue
    <3>4. ~Ended
      BY <3>1, LeaseMeansOpen DEF AllInv
    <3>5. row.status \in Ongoing
      BY <1>0, <3>2, <3>4 DEF AllInv, SchedInv, RowsAreOld, IsRow, DonationStatus, Ongoing
    <3>6. status \in Ongoing
      BY <1>0, <3>4 DEF AllInv, SchedInv, StoreInv, StoreShape, Reconciling, DonationStatus, Ended, Ongoing
    <3> HIDE DEF row
    <3>7. QED
      BY <3>1, <3>2, <3>3, <3>5, <3>6, SchedulersAssumption DEF Write, NoLessee, Leases
  <2>2. CASE ~MayWrite(w)
    BY <2>2 DEF WriteRow, storeVars, donationVars, Leases
  <2>3. QED
    BY <2>1, <2>2
<1>5. TestsOfCycles' /\ Stands /\ ContractStep
  BY <1>3, <1>4, ContractStands DEF ContractInv, Ended, Ongoing
<1>6. \/ sched[w].patch = "keep" /\ Become(w, s)
      \/ Become(w, IdleScheduler) \/ Become(w, Throws(w))
  BY DEF WriteRow
<1> HIDE DEF s
<1>7. QED
  BY <1>1, <1>2, <1>3, <1>4, <1>5, <1>6, PlainPays

LEMMA CreateCyclePays ==
  ASSUME AllInv, ContractInv, NEW w \in Schedulers, CreateCycle(w)
  PROVE  ContractInv' /\ ContractStep
<1> DEFINE n == sched[w].id
<1>0. HasFields(sched[w]) /\ Recording(w) /\ PaysWhatIsDue(w, sched[w])
  BY DEF AllInv, SchedInv, SchedShape, CreateCycle, ContractInv, Recording, Records
<1>1. Plain(w, Caught(w)) /\ Plain(w, IdleScheduler)
  BY PatchingIsPlain, IdleIsPlain
<1>2. CASE ~MayCreateCycle(w)
  <2>1. UNCHANGED <<storeVars, issued>> /\ Become(w, Caught(w))
    BY <1>2 DEF CreateCycle
  <2>2. \A u \in Schedulers \ {w} : Leases(u)' => Leases(u)
    BY <2>1 DEF Leases, storeVars, donationVars
  <2>3. QED
    BY <1>1, <2>1, <2>2, PlainKeeps DEF storeVars, donationVars, cycleVars
<1>3. CASE MayCreateCycle(w)
  <2>1. CreateDonationCycle(n, ReserveAt(sched[w].price)) /\ UNCHANGED issued
    BY <1>3 DEF CreateCycle
  <2>2. (n \in Cycles => cycle[n] = "none") /\ n \in 1..issued
    BY <1>0 DEF PaysWhatIsDue, Recording
  <2>3. TestsOfCycles' /\ Stands /\ ContractStep
    BY <1>3, <2>1, <2>2, ContractBegin DEF AllInv, ContractInv
  <2>4. \A m \in Cycles : m # n => cycle'[m] = cycle[m]
    BY <2>1 DEF CreateDonationCycle, AllInv, StoreInv, StoreShape
  <2>5. CyclesAreDrawn' /\ issued' \in Nat /\ issued <= issued'
    BY <2>1, <2>2, <2>4 DEF CyclesAreDrawn, ContractInv
  <2>6. \A u \in Schedulers : ~Leases(u)'
    BY <2>1, SchedulersAssumption DEF CreateDonationCycle, NoLessee, Leases
  <2>7. \A u \in Schedulers \ {w} : \A m \in Cycles :
          Recording(u) /\ sched[u].id = m => cycle'[m] = "none"
    BY <1>0, <2>4 DEF ContractInv, PaysWhatIsDue, Recording
  <2>8. ASSUME NEW s, Become(w, s), s.cycles \subseteq sched[w].cycles, s.pc # "finalize", ~Records(s)
        PROVE  ContractInv'
    <3>1. PaysNext(w, s)
      BY <1>0, <2>3, <2>6, <2>8 DEF PaysNext, PaysWhatIsDue, Stands
    <3>2. QED
      BY <2>3, <2>5, <2>6, <2>7, <2>8, <3>1, PayStep
  <2>9. /\ Caught(w).cycles = sched[w].cycles /\ Caught(w).pc = "undo"
        /\ IdleScheduler.cycles = {} /\ IdleScheduler.pc = "idle"
    BY <1>0 DEF HasFields, Caught, IdleScheduler
  <2>10. ~Records(Caught(w)) /\ ~Records(IdleScheduler)
    BY <2>9 DEF Records
  <2>11. Become(w, Caught(w)) \/ Become(w, IdleScheduler)
    BY <1>3 DEF CreateCycle
  <2>12. QED
    BY <2>3, <2>8, <2>9, <2>10, <2>11
<1>4. QED
  BY <1>2, <1>3

LEMMA LoopPays ==
  ASSUME AllInv, ContractInv, NEW w \in Schedulers,
         DonationLoop(w) \/ QueryFails(w) \/ Crash(w)
  PROVE  ContractInv' /\ ContractStep
<1>1. CASE CheckQuota(w)
  BY <1>1, PlainStepsKeep, DrawPays
<1>2. CASE CompleteRun(w) \/ FinalizeCycle(w) \/ WriteRow(w) \/ CreateCycle(w)
  BY <1>2, CompletePays, FinalizePays, WriteRowPays, CreateCyclePays
<1>3. CASE ListReadyCycles(w) \/ \E n \in Cycles : SumCycle(w, n)
  BY <1>3, ListPays
<1>4. QED
  BY <1>1, <1>2, <1>3, PlainStepsKeep DEF DonationLoop, Reconcile, Schedule

\* Handlers that only remember something, the private runs, the vault and time.
LEMMA WorldPays ==
  ASSUME ContractInv, UNCHANGED <<sched, issued, status, cycle, link, excluded, cost, spent, lessee>>,
         leaseLive' => leaseLive
  PROVE  ContractInv' /\ ContractStep
<1>1. TestsOfCycles' /\ Stands /\ ContractStep
  BY ContractStands DEF ContractInv, Ended
<1>2. \A u \in Schedulers : Leases(u)' => Leases(u)
  BY DEF Leases
<1>3. QED
  BY <1>1, <1>2, PayStays

LEMMA CreatePays ==
  ASSUME AllInv, ContractInv, NEW r \in Requests, CreateNext(r)
  PROVE  ContractInv' /\ ContractStep
<1>1. CASE InsertDonation(r) /\ UNCHANGED schedVars
  <2>1. TestsOfCycles' /\ Stands /\ ContractStep
    BY <1>1, ContractInsert DEF AllInv, ContractInv
  <2>2. UNCHANGED <<sched, issued, cycle, spent, lessee, leaseLive>>
    BY <1>1 DEF InsertDonation, cycleVars, schedVars
  <2>3. \A u \in Schedulers : Leases(u)' => Leases(u)
    BY <2>2 DEF Leases
  <2>4. QED
    BY <2>1, <2>2, <2>3, PayStays
<1>2. CASE UNCHANGED <<storeVars, schedVars>>
  BY <1>2, WorldPays DEF storeVars, donationVars, cycleVars, schedVars
<1>3. QED
  BY <1>1, <1>2 DEF CreateNext, StoreCredential, CreateDonation, DiscardCredential

LEMMA CallPays ==
  ASSUME AllInv, ContractInv, CallsHaveDonation, NEW c \in Calls,
         \/ CallNext(c)
         \/ \E op \in {"status", "revoke"} : OwnedDonation(c, op)
         \/ AbandonCall(c)
  PROVE  ContractInv' /\ ContractStep
<1>1. CASE EndDonation(c)
  <2>1. /\ TransitionDonation(call[c].target) /\ status # "none"
        /\ call[c].target \in {"expired", "revoked"}
        /\ UNCHANGED schedVars
    BY <1>1 DEF EndDonation, AllInv, CallInv, CallsEndTheDonation, CallsHaveDonation
  <2>2. TestsOfCycles' /\ Stands /\ ContractStep
    BY <2>1, ContractEnd DEF AllInv, ContractInv
  <2>3. \A n \in Cycles : cycle[n] = "none" => cycle'[n] = "none"
    BY <2>1 DEF TransitionDonation
  <2>4. UNCHANGED <<sched, issued, spent>> /\ \A u \in Schedulers : ~Leases(u)'
    BY <2>1 DEF TransitionDonation, NoLessee, Leases, schedVars
  <2>5. QED
    BY <2>2, <2>3, <2>4, PayStays
<1>2. CASE UNCHANGED <<storeVars, schedVars>>
  BY <1>2, WorldPays DEF storeVars, donationVars, cycleVars, schedVars
<1>3. QED
  BY <1>1, <1>2 DEF CallNext, ListRuns, CancelRun, DropRunEnvelope, DropCredential, OwnedDonation,
     AbandonCall

LEMMA ContractNext ==
  ASSUME AllInv, ContractInv, CallsHaveDonation, [Next]_vars
  PROVE  ContractInv' /\ ContractStep
<1>1. ASSUME NEW w \in Schedulers, DonationLoop(w) \/ QueryFails(w) \/ Crash(w)
      PROVE  ContractInv' /\ ContractStep
  BY <1>1, LoopPays
<1>2. ASSUME NEW t \in Tests, RunsNext(t)
      PROVE  ContractInv' /\ ContractStep
  BY <1>2, WorldPays
  DEF RunsNext, UseCredential, FinishTestRun, CleanupTestRun, storeVars, donationVars,
      cycleVars, schedVars
<1>3. ASSUME NEW r \in Requests, CreateNext(r)
      PROVE  ContractInv' /\ ContractStep
  BY <1>3, CreatePays
<1>4. ASSUME NEW c \in Calls,
             CallNext(c) \/ (\E op \in {"status", "revoke"} : OwnedDonation(c, op)) \/ AbandonCall(c)
      PROVE  ContractInv' /\ ContractStep
  BY <1>4, CallPays
<1>5. CASE LeaseLapses \/ NextRunAtComes
  BY <1>5, WorldPays DEF LeaseLapses, NextRunAtComes, cycleVars, schedVars
<1>6. CASE SweepCredentials \/ Expire \/ UNCHANGED vars
  BY <1>6, WorldPays
  DEF SweepCredentials, Expire, vars, storeVars, donationVars, cycleVars, schedVars
<1>7. QED
  BY <1>1, <1>2, <1>3, <1>4, <1>5, <1>6 DEF Next, Disturb

LEMMA CallsNext ==
  ASSUME AllInv, CallsHaveDonation, [Next]_vars
  PROVE  CallsHaveDonation'
<1>1. status' = "none" => status = "none"
  BY InvNext DEF EndStep
<1>2. CASE UNCHANGED call
  BY <1>1, <1>2 DEF CallsHaveDonation
<1>3. ASSUME NEW c \in Calls, NEW k, Continue(c, k), status # "none" \/ k.pc \in {"idle", "done"}
      PROVE  CallsHaveDonation'
  <2>1. \A d \in Calls : call'[d] = IF d = c THEN k ELSE call[d]
    BY <1>3 DEF Continue, AllInv, CallInv, CallShape
  <2>2. QED
    BY <1>1, <1>3, <2>1 DEF CallsHaveDonation
<1>4. ASSUME NEW c \in Calls,
             CallNext(c) \/ (\E op \in {"status", "revoke"} : OwnedDonation(c, op)) \/ AbandonCall(c)
      PROVE  CallsHaveDonation'
  <2>1. (\E k : Continue(c, k)) /\ (status # "none" \/ call[c].pc = "idle")
    BY <1>4 DEF CallNext, ListRuns, CancelRun, DropRunEnvelope, EndDonation, DropCredential,
       CallEnds, OwnedDonation, AbandonCall, CallsHaveDonation
  <2>2. status # "none"
    BY <1>4, <2>1 DEF CallNext, ListRuns, CancelRun, DropRunEnvelope, EndDonation, DropCredential,
       OwnedDonation, AbandonCall, CallsHaveDonation
  <2>3. QED
    BY <1>3, <2>1, <2>2
<1>5. ASSUME NEW w \in Schedulers,
             DonationLoop(w) \/ ((QueryFails(w) \/ Crash(w)) /\ UNCHANGED routeVars)
      PROVE  UNCHANGED call
  BY <1>5 DEF DonationLoop, routeVars
<1>6. ASSUME NEW t \in Tests, RunsNext(t)
      PROVE  UNCHANGED call
  BY <1>6 DEF RunsNext, routeVars
<1>7. ASSUME NEW r \in Requests, CreateNext(r)
      PROVE  UNCHANGED call
  BY <1>7 DEF CreateNext, StoreCredential, CreateDonation, DiscardCredential
<1>8. CASE \/ (LeaseLapses \/ NextRunAtComes) /\ UNCHANGED routeVars
           \/ SweepCredentials \/ Expire \/ UNCHANGED vars
  BY <1>2, <1>8 DEF SweepCredentials, Expire, vars, routeVars
<1>9. QED
  BY <1>2, <1>4, <1>5, <1>6, <1>7, <1>8 DEF Next, Disturb

LEMMA ContractStarts == Init => ContractInv /\ CallsHaveDonation /\ Contract!Init
<1> SUFFICES ASSUME Init PROVE ContractInv /\ CallsHaveDonation /\ Contract!Init
  OBVIOUS
<1>1. /\ status = "none" /\ spent = 0 /\ excluded = {} /\ issued = 0
      /\ cycle = [n \in Cycles |-> "none"] /\ link = [t \in Tests |-> "none"]
      /\ cost = [t \in Tests |-> 0]
      /\ sched = [w \in Schedulers |-> IdleScheduler] /\ call = [c \in Calls |-> IdleCall]
  BY DEF Init, DonationStoreInit, SchedulerInit, RoutesInit
<1>2. /\ IdleScheduler.pc = "idle" /\ IdleScheduler.cycles = {} /\ IdleCall.pc = "idle"
  BY DEF IdleScheduler, IdleCall
<1>3. ~Records(IdleScheduler) /\ \A w \in Schedulers : ~Recording(w)
  BY <1>1, <1>2 DEF Records, Recording
<1>4. TestsOfCycles
  <2>1. \A t \in Tests : t[1] \in Cycles
    BY DEF Tests
  <2>2. QED
    BY <1>1, <2>1 DEF TestsOfCycles, PendingTests
<1>5. \A w \in Schedulers : PaysWhatIsDue(w, sched[w])
  BY <1>1, <1>2, <1>3 DEF PaysWhatIsDue
<1>6. ContractInv
  BY <1>1, <1>3, <1>4, <1>5 DEF ContractInv
<1>7. CallsHaveDonation
  BY <1>1, <1>2 DEF CallsHaveDonation
<1>8. Contract!Init
  BY <1>1, ContractSets DEF Contract!Init, Ongoing
<1>9. QED
  BY <1>6, <1>7, <1>8

\* The donation's store and schedulers implement DonationContract: whatever
\* the processes remember and whenever they lose their lease, each cycle begins
\* while no other runs, is paid for once, with what all its tests have cost, and
\* never after the end of the donation, which blocks the cycle that is running
\* (createDonationCycle, completeDonationRun, finalizeDonationCycle,
\* updateDonationFromWorker, #transitionDonation).
THEOREM DonationContractKept == Spec => KeepsDonationContract
<1>1. AllInv /\ ContractInv /\ CallsHaveDonation /\ [Next]_vars =>
        ContractInv' /\ CallsHaveDonation' /\ [Contract!Next]_Contract!contractVars
  BY ContractNext, CallsNext DEF ContractStep
<1>2. QED
  BY <1>1, InvInit, InvNext, ContractStarts, PTL DEF Spec, KeepsDonationContract, Contract!Spec
-----------------------------------------------------------------------------
(* Sums.  The library's induction theorems take an operator; the lemmas    *)
(* below take a set, and rest on its theorem that every non-empty set of a *)
(* well-founded order has a minimal element.                               *)

LEMMA LessIsWellFounded == IsWellFoundedOn({p \in Nat \X Nat : p[1] < p[2]}, Nat)
  BY NatLessThanWellFounded DEF OpToRel

\* A set of numbers with 0 and the successor of each of its numbers has all.
LEMMA NumberInduction ==
  ASSUME NEW X \in SUBSET Nat, 0 \in X, \A n \in X : n + 1 \in X
  PROVE  \A n \in Nat : n \in X
<1> DEFINE R == {p \in Nat \X Nat : p[1] < p[2]}
           T == Nat \ X
<1>1. SUFFICES ASSUME T # {} PROVE FALSE
  OBVIOUS
<1>2. IsWellFoundedOn(R, Nat)
  BY LessIsWellFounded
<1>3. \E x \in T : \A y \in T : ~ (<<y, x>> \in R)
  <2>1. T \subseteq Nat
    OBVIOUS
  <2> HIDE DEF R, T
  <2>2. QED
    BY <1>1, <1>2, <2>1, WFMin
<1>4. PICK x \in T : \A y \in T : ~ (<<y, x>> \in R)
  BY <1>3
<1>5. x \in Nat /\ x # 0
  OBVIOUS
<1>6. x - 1 \in Nat /\ <<x - 1, x>> \in R
  BY <1>5
<1>7. x - 1 \in X
  BY <1>4, <1>6
<1>8. QED
  BY <1>5, <1>6, <1>7

\* So has a set of subsets of S with {} and each subset that follows from its
\* own.
LEMMA SetInduction ==
  ASSUME NEW S, IsFiniteSet(S), NEW X, {} \in X,
         \A T \in SUBSET S : T # {} /\ (\A x \in T : T \ {x} \in X) => T \in X
  PROVE  \A T \in SUBSET S : T \in X
<1> DEFINE Y == {n \in Nat : \A T \in SUBSET S : Cardinality(T) = n => T \in X}
<1>1. \A T \in SUBSET S : IsFiniteSet(T) /\ Cardinality(T) \in Nat
  BY FS_Subset, FS_CardinalityType
<1>2. 0 \in Y
  BY <1>1, FS_EmptySet
<1>3. ASSUME NEW n \in Y PROVE n + 1 \in Y
  <2>1. n \in Nat /\ \A T \in SUBSET S : Cardinality(T) = n => T \in X
    BY <1>3
  <2>2. SUFFICES ASSUME NEW T \in SUBSET S, Cardinality(T) = n + 1 PROVE T \in X
    BY <2>1
  <2>3. T # {}
    <3>1. n + 1 # 0 /\ Cardinality({}) = 0
      BY <2>1, FS_EmptySet
    <3>2. QED
      BY <2>2, <3>1
  <2>4. ASSUME NEW x \in T PROVE T \ {x} \in X
    <3>1. Cardinality(T \ {x}) = Cardinality(T) - 1
      BY <1>1, <2>4, FS_RemoveElement
    <3>2. QED
      BY <2>1, <2>2, <3>1
  <2>5. QED
    BY <2>3, <2>4
<1>4. \A n \in Nat : n \in Y
  <2>1. Y \in SUBSET Nat
    OBVIOUS
  <2> HIDE DEF Y
  <2>2. QED
    BY <1>2, <1>3, <2>1, NumberInduction
<1>5. QED
  BY <1>1, <1>4

\* The table that the fold builds.
Pick(T) == CHOOSE x \in T : TRUE
Entry(f, g, T) == IF T = {} THEN 0 ELSE f[Pick(T)] + g[T \ {Pick(T)}]
Table(f, S) == CHOOSE g : g = [T \in SUBSET S |-> Entry(f, g, T)]

LEMMA SumIsInTable == ASSUME NEW f, NEW S PROVE SumOver(f, S) = Table(f, S)[S]
  BY DEF SumOver, FoldFunctionOnSet, MapThenFoldSet, Table, Pick, Entry

\* The recursion of the fold has a solution: for the subsets of at most n
\* elements, and so for all.
LEMMA TableEntry ==
  ASSUME NEW f, NEW S, IsFiniteSet(S)
  PROVE  \A T \in SUBSET S : Table(f, S)[T] = Entry(f, Table(f, S), T)
<1> DEFINE Small(n) == {T \in SUBSET S : Cardinality(T) <= n}
           Y == {n \in Nat : \E g : g = [T \in Small(n) |-> Entry(f, g, T)]}
<1>1. \A T \in SUBSET S : IsFiniteSet(T) /\ Cardinality(T) \in Nat
  BY FS_Subset, FS_CardinalityType
<1>2. \A T \in SUBSET S : Cardinality(T) = 0 <=> T = {}
  BY <1>1, FS_EmptySet
<1>3. \A T \in SUBSET S : T # {} =>
         T \ {Pick(T)} \in SUBSET S /\ Cardinality(T \ {Pick(T)}) = Cardinality(T) - 1
  BY <1>1, FS_RemoveElement DEF Pick
<1>4. 0 \in Y
  <2> DEFINE g == [T \in Small(0) |-> 0]
  <2>1. \A T \in Small(0) : T = {}
    BY <1>1, <1>2
  <2>2. g = [T \in Small(0) |-> Entry(f, g, T)]
    BY <2>1 DEF Entry
  <2>3. QED
    BY <2>2
<1>5. ASSUME NEW n \in Y PROVE n + 1 \in Y
  <2>1. PICK g : g = [T \in Small(n) |-> Entry(f, g, T)]
    BY <1>5
  <2> DEFINE h == [T \in Small(n + 1) |-> Entry(f, g, T)]
  <2>2. \A T \in Small(n) : h[T] = g[T]
    <3>1. Small(n) \subseteq Small(n + 1)
      BY <1>1, <1>5
    <3>2. \A T \in Small(n) : g[T] = Entry(f, g, T)
      BY <2>1
    <3>3. \A T \in Small(n + 1) : h[T] = Entry(f, g, T)
      OBVIOUS
    <3> HIDE DEF h
    <3>4. QED
      BY <3>1, <3>2, <3>3
  <2>3. \A T \in Small(n + 1) : T # {} => T \ {Pick(T)} \in Small(n)
    BY <1>1, <1>3, <1>5
  <2>4. \A T \in Small(n + 1) : Entry(f, g, T) = Entry(f, h, T)
    <3> HIDE DEF h
    <3>1. QED
      BY <2>2, <2>3 DEF Entry
  <2>5. h = [T \in Small(n + 1) |-> Entry(f, h, T)]
    BY <2>4
  <2> HIDE DEF h
  <2>6. QED
    BY <1>5, <2>5
<1>6. \A n \in Nat : n \in Y
  <2>1. Y \in SUBSET Nat
    OBVIOUS
  <2> HIDE DEF Y
  <2>2. QED
    BY <1>4, <1>5, <2>1, NumberInduction
<1>7. Cardinality(S) \in Y
  BY <1>1, <1>6
<1>8. Small(Cardinality(S)) = SUBSET S
  BY <1>1, FS_Subset
<1>9. \E g : g = [T \in SUBSET S |-> Entry(f, g, T)]
  BY <1>7, <1>8
<1>10. Table(f, S) = [T \in SUBSET S |-> Entry(f, Table(f, S), T)]
  BY <1>9 DEF Table
<1>11. QED
  BY <1>10

\* What a table says of a subset is what the subset's own table says.
LEMMA TableIsLocal ==
  ASSUME NEW f, NEW S, IsFiniteSet(S), NEW T \in SUBSET S
  PROVE  Table(f, S)[T] = Table(f, T)[T]
<1> DEFINE X == {U \in SUBSET T : Table(f, S)[U] = Table(f, T)[U]}
<1>1. IsFiniteSet(T)
  BY FS_Subset
<1>2. \A U \in SUBSET T : /\ Table(f, S)[U] = Entry(f, Table(f, S), U)
                          /\ Table(f, T)[U] = Entry(f, Table(f, T), U)
  BY <1>1, TableEntry
<1>3. {} \in X
  BY <1>2 DEF Entry
<1>4. ASSUME NEW U \in SUBSET T, U # {}, \A x \in U : U \ {x} \in X
      PROVE  U \in X
  <2>1. Pick(U) \in U
    BY <1>4 DEF Pick
  <2>2. Table(f, S)[U \ {Pick(U)}] = Table(f, T)[U \ {Pick(U)}]
    BY <1>4, <2>1
  <2>3. QED
    BY <1>2, <1>4, <2>2 DEF Entry
<1>5. \A U \in SUBSET T : U \in X
  <2> HIDE DEF X
  <2>1. QED
    BY <1>1, <1>3, <1>4, SetInduction
<1>6. QED
  BY <1>5

\* A sum is that of one element and the rest; SumSplits: of any element.
LEMMA SumUnfolds ==
  ASSUME NEW f, NEW S, IsFiniteSet(S)
  PROVE  /\ S = {} => SumOver(f, S) = 0
         /\ S # {} => Pick(S) \in S /\ SumOver(f, S) = f[Pick(S)] + SumOver(f, S \ {Pick(S)})
<1>1. SumOver(f, S) = Entry(f, Table(f, S), S)
  BY SumIsInTable, TableEntry
<1>2. Table(f, S)[S \ {Pick(S)}] = SumOver(f, S \ {Pick(S)})
  BY TableIsLocal, SumIsInTable
<1>3. QED
  BY <1>1, <1>2 DEF Entry, Pick

LEMMA SumIsNat ==
  ASSUME NEW f, NEW S, IsFiniteSet(S), \A x \in S : f[x] \in Nat
  PROVE  \A T \in SUBSET S : SumOver(f, T) \in Nat
<1> DEFINE X == {T \in SUBSET S : SumOver(f, T) \in Nat}
<1>1. \A T \in SUBSET S : IsFiniteSet(T)
  BY FS_Subset
<1>2. {} \in X
  BY <1>1, SumUnfolds
<1>3. ASSUME NEW T \in SUBSET S, T # {}, \A x \in T : T \ {x} \in X
      PROVE  T \in X
  <2>1. Pick(T) \in T /\ SumOver(f, T) = f[Pick(T)] + SumOver(f, T \ {Pick(T)})
    BY <1>1, <1>3, SumUnfolds
  <2>2. QED
    BY <1>3, <2>1
<1>4. \A T \in SUBSET S : T \in X
  <2> HIDE DEF X
  <2>1. QED
    BY <1>2, <1>3, SetInduction
<1>5. QED
  BY <1>4

LEMMA SumSplits ==
  ASSUME NEW f, NEW S, IsFiniteSet(S), \A x \in S : f[x] \in Nat
  PROVE  \A x \in S : SumOver(f, S) = f[x] + SumOver(f, S \ {x})
<1> DEFINE X == {T \in SUBSET S : \A x \in T : SumOver(f, T) = f[x] + SumOver(f, T \ {x})}
<1>1. \A T \in SUBSET S : IsFiniteSet(T) /\ SumOver(f, T) \in Nat
  BY FS_Subset, SumIsNat
<1>2. {} \in X
  OBVIOUS
<1>3. ASSUME NEW T \in SUBSET S, T # {}, \A x \in T : T \ {x} \in X
      PROVE  T \in X
  <2> DEFINE c == Pick(T)
  <2>1. c \in T /\ SumOver(f, T) = f[c] + SumOver(f, T \ {c})
    BY <1>1, <1>3, SumUnfolds
  <2> HIDE DEF c
  <2>2. SUFFICES ASSUME NEW x \in T, x # c
                 PROVE  SumOver(f, T) = f[x] + SumOver(f, T \ {x})
    BY <2>1
  <2>3. SumOver(f, T \ {c}) = f[x] + SumOver(f, (T \ {c}) \ {x})
    BY <1>3, <2>1, <2>2
  <2>4. SumOver(f, T \ {x}) = f[c] + SumOver(f, (T \ {x}) \ {c})
    BY <1>3, <2>1, <2>2
  <2>5. (T \ {c}) \ {x} = (T \ {x}) \ {c}
    OBVIOUS
  <2> DEFINE rest == SumOver(f, (T \ {x}) \ {c})
  <2>6. f[x] \in Nat /\ f[c] \in Nat /\ rest \in Nat
    BY <1>1, <2>1, <2>2
  <2>7. SumOver(f, T) = f[c] + (f[x] + rest) /\ SumOver(f, T \ {x}) = f[c] + rest
    BY <2>1, <2>3, <2>4, <2>5
  <2> HIDE DEF rest
  <2>8. QED
    BY <2>6, <2>7
<1>4. \A T \in SUBSET S : T \in X
  <2> HIDE DEF X
  <2>1. QED
    BY <1>2, <1>3, SetInduction
<1>5. QED
  BY <1>4

LEMMA SumIsBounded ==
  ASSUME NEW f, NEW S, IsFiniteSet(S), NEW M \in Nat, \A x \in S : f[x] \in 0..M
  PROVE  SumOver(f, S) <= M * Cardinality(S)
<1> DEFINE X == {T \in SUBSET S : SumOver(f, T) <= M * Cardinality(T)}
<1>1. \A T \in SUBSET S : IsFiniteSet(T) /\ SumOver(f, T) \in Nat /\ Cardinality(T) \in Nat
  <2>1. \A x \in S : f[x] \in Nat
    OBVIOUS
  <2>2. \A T \in SUBSET S : IsFiniteSet(T) /\ Cardinality(T) \in Nat
    BY FS_Subset, FS_CardinalityType
  <2>3. QED
    BY <2>1, <2>2, SumIsNat
<1>2. {} \in X
  <2>1. SumOver(f, {}) = 0 /\ Cardinality({}) = 0
    BY <1>1, SumUnfolds, FS_EmptySet
  <2>2. QED
    BY <2>1
<1>3. ASSUME NEW T \in SUBSET S, T # {}, \A x \in T : T \ {x} \in X
      PROVE  T \in X
  <2> DEFINE c == Pick(T)
  <2>1. c \in T /\ SumOver(f, T) = f[c] + SumOver(f, T \ {c})
    BY <1>1, <1>3, SumUnfolds
  <2> HIDE DEF c
  <2>2. Cardinality(T \ {c}) = Cardinality(T) - 1
    BY <1>1, <2>1, FS_RemoveElement
  <2>3. SumOver(f, T \ {c}) <= M * (Cardinality(T) - 1)
    BY <1>3, <2>1, <2>2
  <2>4. M * (Cardinality(T) - 1) = M * Cardinality(T) - M
    BY <1>1
  <2>5. f[c] \in 0..M /\ SumOver(f, T \ {c}) \in Nat /\ M * Cardinality(T) \in Int
    BY <1>1, <2>1
  <2>6. QED
    BY <2>1, <2>3, <2>4, <2>5
<1>4. \A T \in SUBSET S : T \in X
  <2> HIDE DEF X
  <2>1. QED
    BY <1>2, <1>3, SetInduction
<1>5. QED
  BY <1>4

LEMMA SumsAgree ==
  ASSUME NEW f, NEW g, NEW S, IsFiniteSet(S), \A x \in S : f[x] = g[x]
  PROVE  SumOver(f, S) = SumOver(g, S)
<1> DEFINE X == {T \in SUBSET S : SumOver(f, T) = SumOver(g, T)}
<1>1. \A T \in SUBSET S : IsFiniteSet(T)
  BY FS_Subset
<1>2. {} \in X
  BY <1>1, SumUnfolds
<1>3. ASSUME NEW T \in SUBSET S, T # {}, \A x \in T : T \ {x} \in X
      PROVE  T \in X
  <2> DEFINE c == Pick(T)
  <2>1. /\ c \in T /\ SumOver(f, T) = f[c] + SumOver(f, T \ {c})
        /\ SumOver(g, T) = g[c] + SumOver(g, T \ {c})
    BY <1>1, <1>3, SumUnfolds
  <2> HIDE DEF c
  <2>2. QED
    BY <1>3, <2>1
<1>4. \A T \in SUBSET S : T \in X
  <2> HIDE DEF X
  <2>1. QED
    BY <1>2, <1>3, SetInduction
<1>5. QED
  BY <1>4
-----------------------------------------------------------------------------
(* What is spent.                                                          *)

Completed == {n \in Cycles : cycle[n] = "completed"}

LEMMA ReservesAreNat ==
  /\ \A p \in Prices : /\ ReserveAt(p) \in Nat
                       /\ ReserveAt(MinCost) <= ReserveAt(p) /\ ReserveAt(p) <= ReserveAt(MaxCost)
  /\ MinCost \in Prices /\ MaxCost \in Prices
<1>1. Cardinality(Models) \in Nat
  BY ModelsAssumption, FS_CardinalityType
<1> DEFINE c == Cardinality(Models)
<1> HIDE DEF c
<1>2. \A p, q, k \in Nat : p <= q => p * k \in Nat /\ p * k <= q * k
  OBVIOUS
<1>3. MinCost \in Prices /\ MaxCost \in Prices
      /\ \A p \in Prices : p \in Nat /\ MinCost <= p /\ p <= MaxCost
  BY MoneyAssumption DEF Prices
<1>4. QED
  BY <1>1, <1>2, <1>3, MoneyAssumption DEF ReserveAt

LEMMA CyclesAreFinite == IsFiniteSet(Cycles)
<1>1. 1 \in Int /\ MaxCycles \in Int
  BY CyclesAssumption
<1>2. QED
  BY <1>1, FS_Interval DEF Cycles

LEMMA CyclesCost ==
  ASSUME cost \in [Tests -> 0..MaxCost], NEW n \in Cycles
  PROVE  CostOf(n) \in Nat /\ CostOf(n) <= ReserveAt(MaxCost)
<1>1. IsFiniteSet(TestsOf(n)) /\ Cardinality(TestsOf(n)) = Cardinality(Models)
  <2>1. IsFiniteSet({n}) /\ Cardinality({n}) = 1
    BY FS_Singleton
  <2>2. /\ IsFiniteSet({n} \X Models)
        /\ Cardinality({n} \X Models) = Cardinality({n}) * Cardinality(Models)
    BY <2>1, ModelsAssumption, FS_Product
  <2>3. Cardinality(Models) \in Nat
    BY ModelsAssumption, FS_CardinalityType
  <2>4. QED
    BY <2>1, <2>2, <2>3 DEF TestsOf
<1>2. \A t \in TestsOf(n) : cost[t] \in 0..MaxCost
  BY DEF TestsOf, Tests
<1>3. MaxCost \in Nat /\ \A t \in TestsOf(n) : cost[t] \in Nat
  BY <1>2, MoneyAssumption
<1>4. SumOver(cost, TestsOf(n)) \in Nat
  BY <1>1, <1>3, SumIsNat
<1>5. SumOver(cost, TestsOf(n)) <= MaxCost * Cardinality(TestsOf(n))
  BY <1>1, <1>2, <1>3, SumIsBounded
<1>6. QED
  BY <1>1, <1>4, <1>5 DEF CostOf, ReserveAt

\* The sum over some cycles, at two times.
LEMMA SumOfCycles ==
  ASSUME cost \in [Tests -> 0..MaxCost], NEW C \in SUBSET Cycles
  PROVE  /\ SumOver([n \in Cycles |-> CostOf(n)], C) \in Nat
         /\ \A n \in C : SumOver([m \in Cycles |-> CostOf(m)], C)
                           = CostOf(n) + SumOver([m \in Cycles |-> CostOf(m)], C \ {n})
<1> DEFINE f == [n \in Cycles |-> CostOf(n)]
<1>1. IsFiniteSet(C)
  BY CyclesAreFinite, FS_Subset
<1>2. \A n \in C : f[n] \in Nat /\ f[n] = CostOf(n)
  BY CyclesCost
<1> HIDE DEF f
<1>3. SumOver(f, C) \in Nat
  BY <1>1, <1>2, SumIsNat
<1>4. \A n \in C : SumOver(f, C) = f[n] + SumOver(f, C \ {n})
  BY <1>1, <1>2, SumSplits
<1>5. QED
  BY <1>2, <1>3, <1>4 DEF f

LEMMA SumsOfCyclesAgree ==
  ASSUME NEW C \in SUBSET Cycles, \A n \in C : CostOf(n)' = CostOf(n)
  PROVE  SumOver([n \in Cycles |-> CostOf(n)'], C) = SumOver([n \in Cycles |-> CostOf(n)], C)
<1> DEFINE f == [n \in Cycles |-> CostOf(n)]
           g == [n \in Cycles |-> CostOf(n)']
<1>1. IsFiniteSet(C)
  BY CyclesAreFinite, FS_Subset
<1>2. \A n \in C : g[n] = f[n]
  OBVIOUS
<1> HIDE DEF f, g
<1>3. SumOver(g, C) = SumOver(f, C)
  BY <1>1, <1>2, SumsAgree
<1>4. QED
  BY <1>3 DEF f, g

SpentShape == cost \in [Tests -> 0..MaxCost] /\ SpentIsAccounted

\* The contract's steps keep the account.
LEMMA ContractKeepsAccount ==
  ASSUME StoreShape, SpentShape, ContractStep
  PROVE  /\ SpentShape'
         /\ spent' # spent => \E n \in Cycles : Contract!Pay(n)
<1> DEFINE f == [n \in Cycles |-> CostOf(n)]
<1>0. cost \in [Tests -> 0..MaxCost] /\ spent = SumOver(f, Completed)
  BY DEF SpentShape, SpentIsAccounted, Completed
<1>1. SpentIsAccounted' <=> spent' = SumOver([n \in Cycles |-> CostOf(n)'], Completed')
  BY DEF SpentIsAccounted, Completed
<1>2. CASE UNCHANGED spent /\ UNCHANGED cost /\ Completed' = Completed
  <2>1. \A n \in Completed : CostOf(n)' = CostOf(n)
    BY <1>2, CostStands
  <2>2. QED
    BY <1>0, <1>1, <1>2, <2>1, SumsOfCyclesAgree DEF SpentShape, Completed
<1>3. CASE Contract!Accept \/ UNCHANGED Contract!contractVars \/ \E how \in {"revoked", "expired"} : Contract!End(how)
  <2>1. Completed' = Completed
    BY <1>3, ContractSets DEF Contract!Accept, Contract!contractVars, Contract!End, Completed
  <2>2. QED
    BY <1>2, <1>3, <2>1 DEF Contract!Accept, Contract!contractVars, Contract!End
<1>4. ASSUME NEW n \in Cycles, Contract!Begin(n)
      PROVE  SpentShape' /\ spent' = spent
  <2>1. Completed' = Completed
    BY <1>4 DEF Contract!Begin, Completed, StoreShape
  <2>2. QED
    BY <1>2, <1>4, <2>1 DEF Contract!Begin
<1>5. ASSUME NEW t \in Tests, Contract!Settle(t)
      PROVE  SpentShape' /\ spent' = spent
  <2>1. UNCHANGED <<cycle, spent>> /\ cycle[t[1]] = "running"
    BY <1>5 DEF Contract!Settle
  <2>2. PICK c \in 0..MaxCost : cost' = [cost EXCEPT ![t] = c]
    BY <1>5 DEF Contract!Settle
  <2>3. cost' \in [Tests -> 0..MaxCost]
    BY <1>0, <2>2
  <2>4. ASSUME NEW n \in Completed PROVE CostOf(n)' = CostOf(n)
    <3>1. IsFiniteSet(TestsOf(n))
      <4>1. IsFiniteSet({n})
        BY FS_Singleton
      <4>2. QED
        BY <4>1, ModelsAssumption, FS_Product DEF TestsOf
    <3>2. \A u \in TestsOf(n) : cost'[u] = cost[u]
      BY <1>0, <2>1, <2>2 DEF TestsOf, Tests, Completed
    <3>3. SumOver(cost', TestsOf(n)) = SumOver(cost, TestsOf(n))
      BY <3>1, <3>2, SumsAgree
    <3>4. QED
      BY <3>3 DEF CostOf, TestsOf
  <2>5. Completed' = Completed
    BY <2>1 DEF Completed
  <2>6. QED
    BY <1>0, <1>1, <2>1, <2>3, <2>4, <2>5, SumsOfCyclesAgree DEF SpentShape, Completed
<1>6. ASSUME NEW n \in Cycles, Contract!Pay(n)
      PROVE  SpentShape'
  <2>1. /\ cycle[n] = "running" /\ cycle' = [cycle EXCEPT ![n] = "completed"]
        /\ spent' = spent + CostOf(n) /\ UNCHANGED cost
    BY <1>6, CostIsTheContracts DEF Contract!Pay
  <2>2. Completed' = Completed \cup {n} /\ n \notin Completed
    BY <2>1 DEF Completed, StoreShape
  <2>3. \A m \in Completed' : CostOf(m)' = CostOf(m)
    BY <2>1, CostStands
  <2>4. SumOver([m \in Cycles |-> CostOf(m)'], Completed') = SumOver(f, Completed')
    BY <2>3, SumsOfCyclesAgree DEF Completed
  <2>5. SumOver(f, Completed') = CostOf(n) + SumOver(f, Completed' \ {n})
    <3>1. Completed' \in SUBSET Cycles
      BY DEF Completed
    <3>2. QED
      BY <1>0, <2>2, <3>1, SumOfCycles
  <2>6. Completed' \ {n} = Completed
    BY <2>2
  <2>7. CostOf(n) \in Nat /\ spent \in Nat
    BY <1>0, CyclesCost, SumOfCycles DEF Completed
  <2> HIDE DEF f
  <2>8. SumOver(f, Completed') = spent + CostOf(n)
    BY <1>0, <2>5, <2>6, <2>7
  <2>9. SpentIsAccounted'
    BY <1>1, <2>1, <2>4, <2>8
  <2>10. QED
    BY <1>0, <2>1, <2>9 DEF SpentShape
<1>7. QED
  BY <1>3, <1>4, <1>5, <1>6, ContractSets
  DEF ContractStep, Contract!Next, Contract!Accept, Contract!contractVars, Contract!End
-----------------------------------------------------------------------------
(* The quota.                                                              *)

Reserved == Running # {} => /\ \E price \in Prices : reserved = ReserveAt(price)
                            /\ spent + reserved <= Quota
Room == \A w \in Schedulers : Leases(w) => HasRoom(sched[w])
Within == spent <= Quota + Overrun
KeepsQuota == Within' /\ Reserved' /\ Room'

LEMMA ReservedStays ==
  ASSUME Reserved, UNCHANGED <<spent, reserved>>, Running' \subseteq Running
  PROVE  Reserved'
  BY DEF Reserved

LEMMA RoomStays ==
  ASSUME Room, UNCHANGED <<sched, spent>>, \A u \in Schedulers : Leases(u)' => Leases(u)
  PROVE  Room'
  BY DEF Room, HasRoom, Records

\* What HasRoom says of a record that a process is about to have.
RoomNext(s) ==
  /\ s.pc \in Claimed => s.row.spent = spent'
  /\ Records(s) => spent' + ReserveAt(s.price) <= Quota

LEMMA RoomStep ==
  ASSUME AllInv, Room, NEW w \in Schedulers, NEW s, Become(w, s), Leases(w)' => RoomNext(s),
         \A u \in Schedulers \ {w} : Leases(u)' => Leases(u) /\ spent' = spent
  PROVE  Room'
<1>1. sched'[w] = s /\ \A u \in Schedulers \ {w} : sched'[u] = sched[u]
  BY DEF Become, AllInv, SchedInv, SchedShape
<1>2. Leases(w)' => HasRoom(sched[w])'
  BY <1>1 DEF RoomNext, HasRoom, Records
<1>3. ASSUME NEW u \in Schedulers \ {w}, Leases(u)' PROVE HasRoom(sched[u])'
  BY <1>1, <1>3 DEF Room, HasRoom, Records
<1>4. QED
  BY <1>2, <1>3 DEF Room

\* A record that has come no nearer to a payment.
Tame(w, s) ==
  /\ s.pc \in Claimed => sched[w].pc \in Claimed /\ s.row = sched[w].row
  /\ Records(s) => Recording(w) /\ s.price = sched[w].price

LEMMA TameKeeps ==
  ASSUME AllInv, Room, Reserved, Within, NEW w \in Schedulers, NEW s, Become(w, s), Tame(w, s),
         UNCHANGED spent, \A u \in Schedulers : Leases(u)' => Leases(u),
         (UNCHANGED reserved /\ Running' \subseteq Running) \/ Running' = {}
  PROVE  KeepsQuota
<1>1. Leases(w)' => RoomNext(s)
  BY DEF Room, HasRoom, Tame, RoomNext, Recording
<1>2. Room'
  BY <1>1, RoomStep
<1>3. Reserved'
  BY ReservedStays DEF Reserved
<1>4. QED
  BY <1>2, <1>3 DEF KeepsQuota, Within, Overrun

LEMMA CaughtIsTame ==
  ASSUME AllInv, NEW w \in Schedulers
  PROVE  /\ Tame(w, IdleScheduler) /\ Tame(w, Caught(w)) /\ Tame(w, Throws(w))
         /\ \A patch : patch # "keep" \/ Recording(w) => Tame(w, Patching(w, patch))
<1>1. HasFields(sched[w])
  BY DEF AllInv, SchedInv, SchedShape
<1>2. Tame(w, IdleScheduler)
  BY DEF Tame, IdleScheduler, Records, Claimed
<1>3. Tame(w, Caught(w))
  BY <1>1 DEF HasFields, Caught, Tame, Records, Claimed
<1>4. ASSUME NEW patch
      PROVE  /\ Patching(w, patch).pc = "readRow" /\ Patching(w, patch).patch = patch
             /\ Patching(w, patch).price = sched[w].price
  BY <1>1 DEF HasFields, Patching
<1>5. QED
  BY <1>2, <1>3, <1>4 DEF Tame, Records, Claimed, Throws

LEMMA ReconcileIsTame ==
  ASSUME AllInv, NEW w \in Schedulers, Reconcile(w)
  PROVE  \E s : Become(w, s) /\ Tame(w, s)
<1>0. HasFields(sched[w])
  BY DEF AllInv, SchedInv, SchedShape
<1>1. ASSUME NEW s, s.pc \in Reconciling
      PROVE  Tame(w, s)
  BY <1>1 DEF Reconciling, Tame, Claimed, Records
<1>2. CASE ListPendingRuns(w)
  <2> DEFINE s == [IdleScheduler EXCEPT !.pc = "report", !.list = PendingTests]
  <2>1. s.pc = "report"
    BY DEF IdleScheduler
  <2>2. Become(w, s)
    BY <1>2 DEF ListPendingRuns
  <2> HIDE DEF s
  <2>3. QED
    BY <1>1, <2>1, <2>2 DEF Reconciling
<1>3. ASSUME NEW t \in Tests, LookAtReport(w, t)
      PROVE  \E s : Become(w, s) /\ Tame(w, s)
  <2> DEFINE s1 == [sched[w] EXCEPT !.pc = "complete", !.list = @ \ {t}, !.id = t[1], !.model = t[2]]
             s2 == [sched[w] EXCEPT !.list = @ \ {t}]
  <2>1. s1.pc = "complete" /\ s2.pc = "report"
    BY <1>0, <1>3 DEF HasFields, LookAtReport
  <2>2. Become(w, s1) \/ Become(w, s2)
    BY <1>3 DEF LookAtReport
  <2> HIDE DEF s1, s2
  <2>3. QED
    BY <1>1, <2>1, <2>2 DEF Reconciling
<1>4. CASE CompleteRun(w)
  <2> DEFINE s == [sched[w] EXCEPT !.pc = "report", !.id = 0, !.model = NoModel]
  <2>1. s.pc = "report" /\ Become(w, s)
    BY <1>0, <1>4 DEF HasFields, IdleScheduler, CompleteRun
  <2> HIDE DEF s
  <2>2. QED
    BY <1>1, <2>1 DEF Reconciling
<1>5. CASE ListReadyCycles(w)
  <2> DEFINE s == [sched[w] EXCEPT !.pc = "ready", !.cycles = ReadyCycles]
  <2>1. s.pc = "ready" /\ Become(w, s)
    BY <1>0, <1>5 DEF HasFields, IdleScheduler, ListReadyCycles
  <2> HIDE DEF s
  <2>2. QED
    BY <1>1, <2>1 DEF Reconciling
<1>6. ASSUME NEW n \in Cycles, SumCycle(w, n)
      PROVE  \E s : Become(w, s) /\ Tame(w, s)
  <2> DEFINE s == [sched[w] EXCEPT !.pc = "finalize", !.cycles = @ \ {n}, !.id = n, !.sum = CostOf(n)]
  <2>1. s.pc = "finalize" /\ Become(w, s)
    BY <1>0, <1>6 DEF HasFields, IdleScheduler, SumCycle
  <2> HIDE DEF s
  <2>2. QED
    BY <1>1, <2>1 DEF Reconciling
<1>7. CASE FinalizeCycle(w)
  <2> DEFINE s == [sched[w] EXCEPT !.pc = "ready", !.id = 0, !.sum = 0]
  <2>1. s.pc = "ready" /\ Become(w, s)
    BY <1>0, <1>7 DEF HasFields, IdleScheduler, FinalizeCycle
  <2> HIDE DEF s
  <2>2. QED
    BY <1>1, <2>1 DEF Reconciling
<1>8. QED
  BY <1>2, <1>3, <1>4, <1>5, <1>6, <1>7 DEF Reconcile

LEMMA AttemptIsTame ==
  ASSUME AllInv, NEW w \in Schedulers,
         \/ ReadCredential(w) \/ ProbeIdentity(w) \/ (CheckQuota(w) /\ UNCHANGED issued /\ issued \in Nat)
         \/ (\E m \in Models : PutEnvelope(w, m)) \/ CreateRun(w) \/ Attribute(w) \/ ReadRow(w)
         \/ WriteRow(w) \/ CreateCycle(w)
         \/ (\E m \in Models : UndoRun(w, m)) \/ UndoEnvelope(w) \/ UndoDone(w)
         \/ QueryFails(w) \/ Crash(w)
  PROVE  \E s : Become(w, s) /\ Tame(w, s)
<1>0. HasFields(sched[w])
  BY DEF AllInv, SchedInv, SchedShape
<1>1. CASE ReadCredential(w) \/ ProbeIdentity(w)
  <2>1. \/ Become(w, Caught(w))
        \/ Become(w, [sched[w] EXCEPT !.pc = "probe"])
        \/ Become(w, [sched[w] EXCEPT !.pc = "quota"])
        \/ Become(w, Patching(w, "never"))
        \/ Become(w, Patching(w, "later"))
    BY <1>1 DEF ReadCredential, ProbeIdentity, GoTo, Become
  <2>2. sched[w].pc \in Claimed
    BY <1>1 DEF ReadCredential, ProbeIdentity, Claimed
  <2>3. Tame(w, [sched[w] EXCEPT !.pc = "probe"]) /\ Tame(w, [sched[w] EXCEPT !.pc = "quota"])
    BY <1>0, <2>2 DEF Tame, HasFields, Records
  <2>4. QED
    BY <2>1, <2>3, CaughtIsTame
<1>2. CASE CheckQuota(w) /\ UNCHANGED issued /\ issued \in Nat
  <2>1. Become(w, Patching(w, "exhausted"))
    <3>1. issued' # issued + 1
      BY <1>2
    <3>2. QED
      BY <1>2, <3>1 DEF CheckQuota
  <2>2. QED
    BY <2>1, CaughtIsTame
<1>3. ASSUME NEW m \in Models, PutEnvelope(w, m)
      PROVE  \E s : Become(w, s) /\ Tame(w, s)
  <2> DEFINE s == [sched[w] EXCEPT !.pc = "create", !.model = m]
  <2>1. Tame(w, s)
    BY <1>0, <1>3 DEF HasFields, Tame, Records, Recording, PutEnvelope, Claimed
  <2>2. Become(w, s) \/ Become(w, Caught(w))
    BY <1>3 DEF PutEnvelope
  <2> HIDE DEF s
  <2>3. QED
    BY <2>1, <2>2, CaughtIsTame
<1>4. CASE CreateRun(w)
  <2> DEFINE s  == [sched[w] EXCEPT !.todo = @ \ {sched[w].model}, !.made = @ \cup {sched[w].model}]
             s1 == [s EXCEPT !.model = NoModel, !.pc = IF s.todo = {} THEN "attribute" ELSE "put"]
             s2 == [s EXCEPT !.model = NoModel, !.pc = "undo"]
  <2>1. HasFields(s)
    BY <1>0 DEF HasFields
  <2>2. Become(w, s1) \/ Become(w, s2)
    BY <1>4 DEF CreateRun
  <2>3. Recording(w) /\ s.price = sched[w].price
    BY <1>0, <1>4 DEF CreateRun, Recording, Records, HasFields
  <2> HIDE DEF s
  <2>4. Tame(w, s1) /\ Tame(w, s2)
    BY <2>1, <2>3 DEF HasFields, Tame, Records, Claimed
  <2> HIDE DEF s1, s2
  <2>5. QED
    BY <2>2, <2>4
<1>5. CASE Attribute(w)
  <2>1. Recording(w)
    BY <1>5 DEF Attribute, Recording, Records
  <2>2. QED
    BY <1>5, <2>1, CaughtIsTame DEF Attribute
<1>6. CASE ReadRow(w)
  <2> DEFINE s == [sched[w] EXCEPT !.pc = "writeRow", !.row = Copy]
  <2>1. s.pc = "writeRow" /\ s.patch = sched[w].patch /\ s.price = sched[w].price
    BY <1>0 DEF HasFields
  <2>2. Become(w, s)
    BY <1>6 DEF ReadRow
  <2> HIDE DEF s
  <2>3. Tame(w, s)
    BY <1>6, <2>1 DEF Tame, Records, Recording, ReadRow, Claimed
  <2>4. QED
    BY <2>2, <2>3
<1>7. CASE WriteRow(w)
  <2> DEFINE s == [sched[w] EXCEPT !.pc = "cycle"]
  <2>1. sched[w].patch = "keep" => Tame(w, s)
    BY <1>0, <1>7 DEF HasFields, Tame, Records, Recording, WriteRow, Claimed
  <2>2. \/ sched[w].patch = "keep" /\ Become(w, s)
        \/ Become(w, IdleScheduler) \/ Become(w, Throws(w))
    BY <1>7 DEF WriteRow
  <2> HIDE DEF s
  <2>3. QED
    BY <2>1, <2>2, CaughtIsTame
<1>8. ASSUME NEW m \in Models, UndoRun(w, m)
      PROVE  \E s : Become(w, s) /\ Tame(w, s)
  <2> DEFINE s == [sched[w] EXCEPT !.pc = "dropEnvelope", !.model = m]
  <2>1. Tame(w, s)
    BY <1>0 DEF HasFields, Tame, Records, Claimed
  <2>2. QED
    BY <1>8, <2>1 DEF UndoRun
<1>9. CASE UndoEnvelope(w)
  <2> DEFINE s == [sched[w] EXCEPT !.pc = "undo", !.made = @ \ {sched[w].model}, !.model = NoModel]
  <2>1. Tame(w, s)
    BY <1>0 DEF HasFields, Tame, Records, Claimed
  <2>2. QED
    BY <1>9, <2>1 DEF UndoEnvelope
<1>10. CASE CreateCycle(w) \/ UndoDone(w) \/ QueryFails(w) \/ Crash(w)
  BY <1>10, CaughtIsTame DEF CreateCycle, UndoDone, QueryFails, Crash
<1>11. QED
  BY <1>1, <1>2, <1>3, <1>4, <1>5, <1>6, <1>7, <1>8, <1>9, <1>10

LEMMA ClaimKeepsQuota ==
  ASSUME AllInv, QuotaInv, NEW w \in Schedulers, ClaimDonation(w)
  PROVE  KeepsQuota
<1> DEFINE s == [IdleScheduler EXCEPT !.pc = "read", !.row = Copy]
<1>0. Room /\ Reserved /\ Within
  BY DEF QuotaInv, Room, Reserved, Within
<1>1. CASE DueDonation /\ ~expired /\ CycleIdsLeft
  <2>1. ClaimDueDonation(w) /\ Become(w, s)
    BY <1>1 DEF ClaimDonation
  <2>2. UNCHANGED <<spent, reserved, cycle>> /\ \A u \in Schedulers \ {w} : ~Leases(u)'
    BY <2>1 DEF ClaimDueDonation, Leases, cycleVars
  <2>3. s.pc = "read" /\ s.row.spent = spent /\ s.patch = "none"
    BY DEF IdleScheduler, Copy
  <2> HIDE DEF s
  <2>4. RoomNext(s)
    BY <2>2, <2>3 DEF RoomNext, Records
  <2>5. Room'
    BY <1>0, <2>1, <2>2, <2>4, RoomStep
  <2>6. QED
    BY <1>0, <2>2, <2>5, ReservedStays DEF KeepsQuota, Running, Within, Overrun
<1>2. CASE ~(DueDonation /\ ~expired /\ CycleIdsLeft)
  <2>1. Become(w, IdleScheduler) /\ UNCHANGED storeVars
    BY <1>2 DEF ClaimDonation
  <2>2. /\ UNCHANGED <<spent, reserved>> /\ Running' \subseteq Running
        /\ \A u \in Schedulers : Leases(u)' => Leases(u)
    BY <2>1 DEF storeVars, donationVars, cycleVars, Leases, Running
  <2>3. QED
    BY <1>0, <2>1, <2>2, CaughtIsTame, TameKeeps
<1>3. QED
  BY <1>1, <1>2

LEMMA DrawKeepsQuota ==
  ASSUME AllInv, QuotaInv, NEW w \in Schedulers, CheckQuota(w), ~UNCHANGED issued
  PROVE  KeepsQuota
<1>a. PICK p \in Prices :
        \/ /\ Affordable(sched[w].row, p)
           /\ Become(w, [sched[w] EXCEPT !.pc = "put", !.id = issued + 1, !.todo = Models, !.price = p])
        \/ UNCHANGED issued
  BY DEF CheckQuota
<1> DEFINE s == [sched[w] EXCEPT !.pc = "put", !.id = issued + 1, !.todo = Models, !.price = p]
<1>0. Room /\ Reserved /\ Within /\ HasFields(sched[w])
  BY DEF QuotaInv, Room, Reserved, Within, AllInv, SchedInv, SchedShape
<1>1. /\ Become(w, s) /\ UNCHANGED storeVars
      /\ Affordable(sched[w].row, p) /\ sched[w].pc \in Claimed
  BY <1>a DEF CheckQuota, Claimed
<1>2. /\ UNCHANGED <<spent, reserved>> /\ Running' \subseteq Running
      /\ \A u \in Schedulers : Leases(u)' => Leases(u)
  BY <1>1 DEF storeVars, donationVars, cycleVars, Leases, Running
<1>3. s.pc = "put" /\ s.price = p
  BY <1>0 DEF HasFields
<1> HIDE DEF s
<1>4. Leases(w)' => RoomNext(s)
  BY <1>0, <1>1, <1>2, <1>3 DEF Room, HasRoom, RoomNext, Affordable, Claimed
<1>5. Room'
  BY <1>0, <1>1, <1>2, <1>4, RoomStep
<1>6. QED
  BY <1>0, <1>2, <1>5, ReservedStays DEF KeepsQuota, Within, Overrun

LEMMA CreateCycleKeepsQuota ==
  ASSUME AllInv, QuotaInv, NEW w \in Schedulers, CreateCycle(w), MayCreateCycle(w)
  PROVE  KeepsQuota
<1>0. Room /\ Within /\ sched[w].price \in Prices
  BY DEF QuotaInv, Room, Within, AllInv, SchedInv, SchedShape, HasFields
<1>1. /\ UNCHANGED spent /\ reserved' = ReserveAt(sched[w].price) /\ \A u \in Schedulers : ~Leases(u)'
  BY SchedulersAssumption DEF CreateCycle, CreateDonationCycle, NoLessee, Leases
<1>2. spent + ReserveAt(sched[w].price) <= Quota
  BY <1>0 DEF MayCreateCycle, Room, HasRoom, Records, CreateCycle
<1>3. QED
  BY <1>0, <1>1, <1>2 DEF KeepsQuota, Reserved, Room, Within, Overrun

LEMMA FinalizeKeepsQuota ==
  ASSUME AllInv, QuotaInv, ContractStep, NEW w \in Schedulers, FinalizeCycle(w)
  PROVE  KeepsQuota
<1>0. Room /\ Reserved /\ Within /\ SpentShape /\ StoreShape
  BY DEF QuotaInv, Room, Reserved, Within, SpentShape, AllInv, StoreInv
<1>1. PICK s : Become(w, s) /\ Tame(w, s)
  BY ReconcileIsTame DEF Reconcile
<1>2. UNCHANGED <<lessee, leaseLive>>
  BY DEF FinalizeCycle, FinalizeDonationCycle, storeVars, donationVars
<1>3. CASE spent' # spent
  <2>1. PICK n \in Cycles : Contract!Pay(n)
    BY <1>0, <1>3, ContractKeepsAccount
  <2>2. n \in Running /\ cycle' = [cycle EXCEPT ![n] = "completed"] /\ spent' = spent + CostOf(n)
    BY <2>1, CostIsTheContracts DEF Contract!Pay, Running
  <2>3. lessee = NoScheduler /\ Running' = {}
    BY <2>2 DEF AllInv, StoreInv, StoreShape, OneCycleAtATime, Running
  <2>4. \A u \in Schedulers : ~Leases(u)'
    BY <1>2, <2>3, SchedulersAssumption DEF Leases
  <2>5. PICK p \in Prices : reserved = ReserveAt(p) /\ spent + reserved <= Quota
    BY <1>0, <2>2 DEF Reserved
  <2>6. /\ CostOf(n) \in Nat /\ CostOf(n) <= ReserveAt(MaxCost) /\ spent \in Nat /\ Quota \in Nat
        /\ reserved \in Nat /\ ReserveAt(MinCost) \in Nat /\ ReserveAt(MaxCost) \in Nat
        /\ ReserveAt(MinCost) <= reserved
    <3>1. cost \in [Tests -> 0..MaxCost] /\ spent = SumOver([m \in Cycles |-> CostOf(m)], Completed)
      BY <1>0 DEF SpentShape, SpentIsAccounted, Completed
    <3>2. Completed \in SUBSET Cycles
      BY DEF Completed
    <3>3. QED
      BY <2>5, <3>1, <3>2, CyclesCost, ReservesAreNat, SumOfCycles, MoneyAssumption
  <2>7. Within'
    BY <2>2, <2>5, <2>6 DEF Within, Overrun
  <2>8. QED
    BY <2>3, <2>4, <2>7 DEF KeepsQuota, Reserved, Room
<1>4. CASE spent' = spent
  <2>1. \A u \in Schedulers : Leases(u)' => Leases(u)
    BY <1>2 DEF Leases
  <2>2. (UNCHANGED reserved /\ Running' \subseteq Running) \/ Running' = {}
    <3> DEFINE n == sched[w].id
    <3>0. n \in Cycles /\ FinalizeDonationCycle(n, sched[w].sum)
      BY DEF AllInv, SchedInv, FinalizesACycle, FinalizeCycle
    <3>1. CASE Unfinished(n) /\ status \in Ongoing
      <4>1. ~Ended /\ cycle' = [cycle EXCEPT ![n] = "completed"]
        BY <3>0, <3>1 DEF FinalizeDonationCycle, Ended, Ongoing
      <4>2. cycle[n] = "running"
        BY <3>0, <3>1, <4>1 DEF AllInv, StoreInv, StoreShape, BlockedAtTheEnd, Unfinished
      <4>3. QED
        BY <3>0, <4>1, <4>2 DEF AllInv, StoreInv, StoreShape, OneCycleAtATime, Running
    <3>2. CASE ~(Unfinished(n) /\ status \in Ongoing)
      <4>1. UNCHANGED reserved /\ (cycle' = cycle \/ cycle' = [cycle EXCEPT ![n] = "blocked"])
        BY <3>0, <3>2 DEF FinalizeDonationCycle, storeVars, donationVars, cycleVars
      <4>2. QED
        BY <3>0, <4>1 DEF AllInv, StoreInv, StoreShape, Running
    <3>3. QED
      BY <3>1, <3>2
  <2>3. QED
    BY <1>0, <1>1, <1>4, <2>1, <2>2, TameKeeps
<1>5. QED
  BY <1>3, <1>4

LEMMA LoopKeepsQuota ==
  ASSUME AllInv, QuotaInv, ContractInv, ContractStep, NEW w \in Schedulers,
         DonationLoop(w) \/ QueryFails(w) \/ Crash(w)
  PROVE  KeepsQuota
<1>0. Room /\ Reserved /\ Within /\ issued \in Nat
  BY DEF QuotaInv, Room, Reserved, Within, ContractInv
<1>1. CASE ClaimDonation(w)
  BY <1>1, ClaimKeepsQuota
<1>2. CASE CheckQuota(w) /\ ~UNCHANGED issued
  BY <1>2, DrawKeepsQuota
<1>3. CASE CreateCycle(w) /\ MayCreateCycle(w)
  BY <1>3, CreateCycleKeepsQuota
<1>4. CASE FinalizeCycle(w)
  BY <1>4, FinalizeKeepsQuota
<1>5. ASSUME UNCHANGED <<spent, cycle>>,
             reserved' = reserved \/ Running = {},
             \A u \in Schedulers : Leases(u)' => Leases(u),
             \E s : Become(w, s) /\ Tame(w, s)
      PROVE  KeepsQuota
  <2>1. PICK s : Become(w, s) /\ Tame(w, s)
    BY <1>5
  <2>2. (UNCHANGED reserved /\ Running' \subseteq Running) \/ Running' = {}
    BY <1>5 DEF Running
  <2>3. QED
    BY <1>0, <1>5, <2>1, <2>2, TameKeeps
<1>6. CASE /\ \/ Reconcile(w) /\ ~FinalizeCycle(w)
              \/ ReadCredential(w) \/ ProbeIdentity(w) \/ (CheckQuota(w) /\ UNCHANGED issued)
              \/ (\E m \in Models : PutEnvelope(w, m)) \/ CreateRun(w) \/ Attribute(w) \/ ReadRow(w)
              \/ (CreateCycle(w) /\ ~MayCreateCycle(w))
              \/ (\E m \in Models : UndoRun(w, m)) \/ UndoEnvelope(w) \/ UndoDone(w)
              \/ QueryFails(w) \/ Crash(w)
  <2>1. \E s : Become(w, s) /\ Tame(w, s)
    BY <1>0, <1>6, ReconcileIsTame, AttemptIsTame
  <2>2. UNCHANGED <<spent, cycle, reserved>> /\ \A u \in Schedulers : Leases(u)' => Leases(u)
    <3>1. CASE UNCHANGED storeVars
      BY <3>1 DEF storeVars, donationVars, cycleVars, Leases
    <3>2. CASE Crash(w)
      BY <3>2, SchedulersAssumption DEF Crash, cycleVars, Leases
    <3>3. CASE CompleteRun(w)
      BY <3>3 DEF CompleteRun, CompleteDonationRun, storeVars, donationVars, cycleVars, Leases
    <3>4. QED
      BY <1>6, <3>1, <3>2, <3>3
      DEF Reconcile, ListPendingRuns, LookAtReport, ListReadyCycles, SumCycle, ReadCredential,
          ProbeIdentity, CheckQuota, PutEnvelope, CreateRun, Attribute, ReadRow, CreateCycle,
          UndoRun, UndoEnvelope, UndoDone, QueryFails
  <2>3. QED
    BY <1>5, <2>1, <2>2
<1>7. CASE WriteRow(w)
  <2>1. \E s : Become(w, s) /\ Tame(w, s)
    BY <1>7, AttemptIsTame
  <2>2. UNCHANGED cycle /\ \A u \in Schedulers : Leases(u)' => Leases(u)
    BY <1>7, SchedulersAssumption
    DEF WriteRow, Write, NoLessee, Leases, storeVars, donationVars, cycleVars
  <2>3. UNCHANGED spent /\ (reserved' = reserved \/ Running = {})
    <3>1. CASE MayWrite(w)
      <4>1. Running = {}
        BY <3>1, LeaseMeansOpen DEF AllInv, MayWrite
      <4>2. sched[w].pc = "writeRow" /\ IsRow(sched[w].row)
        BY <1>7 DEF WriteRow, AllInv, SchedInv, SchedShape
      <4>3. sched[w].row.spent = spent
        BY <3>1, <4>2 DEF ContractInv, PaysWhatIsDue, MayWrite
      <4>4. spent' = Patched(sched[w].row, sched[w].patch).spent
        BY <1>7, <3>1 DEF WriteRow, Write
      <4>5. QED
        BY <4>1, <4>2, <4>3, <4>4 DEF Patched, IsRow
    <3>2. CASE ~MayWrite(w)
      BY <1>7, <3>2 DEF WriteRow, storeVars, donationVars
    <3>3. QED
      BY <3>1, <3>2
  <2>4. QED
    BY <1>5, <2>1, <2>2, <2>3
<1>8. QED
  BY <1>1, <1>2, <1>3, <1>4, <1>6, <1>7 DEF DonationLoop, Schedule

LEMMA WorldKeepsQuota ==
  ASSUME QuotaInv, UNCHANGED <<sched, spent, reserved>>, Running' \subseteq Running,
         lessee' = lessee \/ lessee' = NoScheduler, leaseLive' => leaseLive
  PROVE  KeepsQuota
<1>1. \A u \in Schedulers : Leases(u)' => Leases(u)
  BY SchedulersAssumption DEF Leases
<1>2. QED
  BY <1>1, ReservedStays, RoomStays DEF QuotaInv, Room, Reserved, Within, Overrun, KeepsQuota

LEMMA QuotaNext ==
  ASSUME AllInv, ContractInv, CallsHaveDonation, QuotaInv, [Next]_vars
  PROVE  QuotaInv'
<1>1. ContractStep
  BY ContractNext
<1>2. SpentShape'
  BY <1>1, ContractKeepsAccount DEF QuotaInv, SpentShape, AllInv, StoreInv
<1>3. ASSUME NEW w \in Schedulers, DonationLoop(w) \/ QueryFails(w) \/ Crash(w)
      PROVE  KeepsQuota
  BY <1>1, <1>3, LoopKeepsQuota
<1>4. ASSUME UNCHANGED <<storeVars, schedVars>>
      PROVE  KeepsQuota
  BY <1>4, WorldKeepsQuota DEF storeVars, donationVars, cycleVars, schedVars, Running
<1>5. ASSUME NEW t \in Tests, RunsNext(t)
      PROVE  KeepsQuota
  BY <1>4, <1>5 DEF RunsNext, UseCredential, FinishTestRun, CleanupTestRun
<1>6. ASSUME NEW r \in Requests, CreateNext(r)
      PROVE  KeepsQuota
  <2>1. CASE InsertDonation(r) /\ UNCHANGED schedVars
    BY <2>1, WorldKeepsQuota DEF InsertDonation, cycleVars, schedVars, Running
  <2>2. QED
    BY <1>4, <1>6, <2>1 DEF CreateNext, StoreCredential, CreateDonation, DiscardCredential
<1>7. ASSUME NEW c \in Calls,
             CallNext(c) \/ (\E op \in {"status", "revoke"} : OwnedDonation(c, op)) \/ AbandonCall(c)
      PROVE  KeepsQuota
  <2>1. CASE EndDonation(c)
    <3>1. TransitionDonation(call[c].target) /\ UNCHANGED schedVars
      BY <2>1 DEF EndDonation
    <3>2. Running' \subseteq Running
      BY <3>1 DEF TransitionDonation, Running
    <3>3. QED
      BY <3>1, <3>2, WorldKeepsQuota DEF TransitionDonation, NoLessee, schedVars
  <2>2. QED
    BY <1>4, <1>7, <2>1 DEF CallNext, ListRuns, CancelRun, DropRunEnvelope, DropCredential,
       OwnedDonation, AbandonCall
<1>8. ASSUME LeaseLapses \/ NextRunAtComes
      PROVE  KeepsQuota
  BY <1>8, WorldKeepsQuota DEF LeaseLapses, NextRunAtComes, cycleVars, schedVars, Running
<1>9. ASSUME SweepCredentials \/ Expire \/ UNCHANGED vars
      PROVE  KeepsQuota
  BY <1>4, <1>9 DEF SweepCredentials, Expire, vars
<1>10. KeepsQuota
  BY <1>3, <1>5, <1>6, <1>7, <1>8, <1>9 DEF Next, Disturb
<1>11. QED
  BY <1>2, <1>10 DEF KeepsQuota, SpentShape, QuotaInv, Reserved, Room, Within

LEMMA QuotaInit == Init => QuotaInv
<1> SUFFICES ASSUME Init PROVE QuotaInv
  OBVIOUS
<1>1. /\ spent = 0 /\ lessee = NoScheduler /\ cycle = [n \in Cycles |-> "none"]
      /\ cost = [t \in Tests |-> 0]
  BY DEF Init, DonationStoreInit
<1>2. cost \in [Tests -> 0..MaxCost] /\ spent <= Quota + Overrun
  BY <1>1, MoneyAssumption, ReservesAreNat DEF Overrun
<1>3. {n \in Cycles : cycle[n] = "completed"} = {} /\ Running = {}
  BY <1>1 DEF Running
<1>4. SpentIsAccounted
  BY <1>1, <1>3, SumUnfolds, FS_EmptySet DEF SpentIsAccounted
<1>5. QED
  BY <1>1, <1>2, <1>3, <1>4, SchedulersAssumption DEF QuotaInv, Leases

LEMMA QuotaInvariant == Spec => []QuotaInv
  BY InvInit, InvNext, ContractStarts, ContractNext, CallsNext, QuotaInit, QuotaNext, PTL DEF Spec

\* What is spent is what the tests of the completed cycles have cost, whichever
\* processes paid for them and whatever rows were written back
\* (finalizeDonationCycle, updateDonationFromWorker).
THEOREM SpentIsAccountedCorrect == Spec => []SpentIsAccounted
<1>1. QuotaInv => SpentIsAccounted
  BY DEF QuotaInv
<1>2. QED
  BY <1>1, QuotaInvariant, PTL

\* While a cycle runs, what is spent and reserved is within the donor's quota,
\* although the quota is checked on a row read long before the cycle is recorded
\* (scheduleOnce, createDonationCycle); and what is spent leaves the quota by no
\* more than the prices may rise during one cycle (reconcileOnce).
THEOREM QuotaHoldsCorrect == Spec => []QuotaHolds
<1>1. QuotaInv => QuotaHolds
  <2>1. SUFFICES ASSUME QuotaInv PROVE QuotaHolds
    OBVIOUS
  <2>2. QED
    BY <2>1 DEF QuotaInv, QuotaHolds
<1>2. QED
  BY <1>1, QuotaInvariant, PTL
=============================================================================
