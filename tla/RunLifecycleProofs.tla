------------------------- MODULE RunLifecycleProofs -------------------------
(***************************************************************************)
(* The types of RunLifecycle, its invariant IInv, and what follows from    *)
(* them.                                                                   *)
(*                                                                         *)
(* Most steps belong to one of a few families (a move of one main flow, a  *)
(* loop that throws, a loop that goes on with its job, a handler that only *)
(* reads), so each family has a lemma; the steps that change the row have  *)
(* one of their own.                                                       *)
(***************************************************************************)
EXTENDS RunLifecycle, TLAPS

(* Types: TypeOK is inductive by itself.                                   *)
LEMMA TypeIdle == IdleTask \in Task
  BY AttemptsAssumption DEF IdleTask, Task, TaskPc, Outcome

LEMMA TypeInit == Init => TypeOK
<1> SUFFICES ASSUME Init PROVE TypeOK
  OBVIOUS
<1> USE DEF Init
<1>0. NoRows \in [Jobs -> Outcome]
  BY DEF NoRows, Outcome
<1>1. StoreTypeOK
  <2>1. 0 \in 0..MaxClaims /\ 0 \in 0..MaxAttempts
    BY AttemptsAssumption, ClaimsAssumption
  <2>2. NoReport \in [status : FinishedStatus \cup {"none"}, rows : [Jobs -> Outcome]]
    BY <1>0 DEF NoReport
  <2>3. QED
    BY <1>0, <2>1, <2>2 DEF StoreInit, StoreTypeOK, RowState
<1>2. WorkerTypeOK
  BY <1>0, TypeIdle DEF WorkerInit, WorkerTypeOK, MainPc
<1>3. ApiTypeOK
  BY <1>0 DEF ApiInit, ApiTypeOK, IdleCall, RequestPc, CallPc, RowState
<1>4. QED
  BY <1>1, <1>2, <1>3 DEF TypeOK

LEMMA TypeSetTask ==
  ASSUME WorkerTypeOK, NEW v \in Versions, NEW k \in Slots, NEW t \in Task, SetTask(v, k, t)
  PROVE  task' \in [Versions -> [Slots -> Task]]
  BY DEF WorkerTypeOK, SetTask

LEMMA TypeCatch ==
  ASSUME WorkerTypeOK, NEW v \in Versions, NEW kind, Catch(v, kind)
  PROVE  /\ pc' \in [Versions -> MainPc]
         /\ aborted' \in [Versions -> {"no", "lease", "error"}]
  BY DEF WorkerTypeOK, Catch, Goto, Abort, MainPc

LEMMA TypeThrow ==
  ASSUME WorkerTypeOK, NEW v \in Versions, NEW k \in Slots, NEW kind, Throw(v, k, kind)
  PROVE  /\ task' \in [Versions -> [Slots -> Task]]
         /\ pc' \in [Versions -> MainPc]
         /\ aborted' \in [Versions -> {"no", "lease", "error"}]
  BY TypeSetTask, TypeCatch, TypeIdle DEF WorkerTypeOK, Throw
-----------------------------------------------------------------------------
(* The operations of the store keep its types.                             *)

LEMMA TypeStoreUnchanged == StoreTypeOK /\ UNCHANGED rowVars => StoreTypeOK'
  BY DEF StoreTypeOK, rowVars, leaseVars, resultVars

LEMMA TypeNoLease ==
  ASSUME StoreTypeOK, NoLease
  PROVE  /\ holder' \in Workers \cup {NoWorker}
         /\ leaseVersion' \in 0..MaxClaims
         /\ dbLive' \in BOOLEAN /\ appLive' \in BOOLEAN
  BY DEF StoreTypeOK, NoLease

LEMMA TypeInsertRun ==
  ASSUME StoreTypeOK, NEW h \in Requests, InsertRun(h)
  PROVE  StoreTypeOK'
  BY DEF StoreTypeOK, InsertRun, leaseVars, resultVars, RowState, RunStatus

LEMMA TypeMoveTo ==
  ASSUME StoreTypeOK, NEW s \in RowState, MoveTo(s)
  PROVE  StoreTypeOK'
  BY TypeNoLease DEF StoreTypeOK, MoveTo, leaseVars, resultVars

LEMMA TypeClaimRow ==
  ASSUME StoreTypeOK, NEW w \in Workers, ClaimRow(w)
  PROVE  StoreTypeOK' /\ leaseVersion + 1 \in Versions
  BY ClaimsAssumption
  DEF StoreTypeOK, ClaimRow, Claimable, NewExpiry, resultVars, RowState, RunStatus, Versions

LEMMA TypeRenewLease == StoreTypeOK /\ RenewLease => StoreTypeOK'
  BY DEF StoreTypeOK, RenewLease, NewExpiry, resultVars

LEMMA TypeReserveAttempt ==
  ASSUME StoreTypeOK, NEW j \in Jobs, attempts[j] < MaxAttempts, ReserveAttempt(j)
  PROVE  StoreTypeOK'
<1>1. attempts[j] + 1 \in 0..MaxAttempts
  BY AttemptsAssumption DEF StoreTypeOK
<1>2. QED
  BY <1>1 DEF StoreTypeOK, ReserveAttempt, leaseVars

LEMMA TypeMerge ==
  ASSUME NEW a \in [Jobs -> Outcome], NEW b \in [Jobs -> Outcome]
  PROVE  Merge(a, b) \in [Jobs -> Outcome]
  BY DEF Merge

LEMMA TypeSaveObservations ==
  ASSUME StoreTypeOK, NEW r \in [Jobs -> Outcome], SaveObservations(r)
  PROVE  StoreTypeOK'
  BY TypeMerge DEF StoreTypeOK, SaveObservations, leaseVars

LEMMA TypeFinalizeRow ==
  ASSUME StoreTypeOK, NEW s \in FinishedStatus, NEW r \in [Jobs -> Outcome],
         NEW q \in [Jobs -> Outcome], FinalizeRow(s, r, q)
  PROVE  StoreTypeOK'
<1>1. s \in RowState
  BY DEF FinishedStatus, RowState, RunStatus
<1>2. QED
  BY <1>1, TypeMerge, TypeNoLease DEF StoreTypeOK, FinalizeRow

LEMMA TypeSaveReport ==
  ASSUME StoreTypeOK, NEW s \in FinishedStatus, NEW r \in [Jobs -> Outcome],
         SaveReport(s, r)
  PROVE  StoreTypeOK'
  BY DEF StoreTypeOK, SaveReport, leaseVars

LEMMA TypePurgeRow == StoreTypeOK /\ PurgeRow => StoreTypeOK'
<1> SUFFICES ASSUME StoreTypeOK, PurgeRow PROVE StoreTypeOK'
  OBVIOUS
<1>1. 0 \in 0..MaxAttempts
  BY AttemptsAssumption
<1>2. NoRows \in [Jobs -> Outcome]
  BY DEF NoRows, Outcome
<1>3. NoReport \in [status : FinishedStatus \cup {"none"}, rows : [Jobs -> Outcome]]
  BY <1>2 DEF NoReport
<1>4. QED
  BY <1>1, <1>2, <1>3, TypeNoLease DEF StoreTypeOK, PurgeRow, RowState
-----------------------------------------------------------------------------
(* Every action keeps the types.                                           *)

LEMMA TypeApiUnchanged == ApiTypeOK /\ UNCHANGED apiVars => ApiTypeOK'
  BY DEF ApiTypeOK, apiVars

LEMMA TypeMainStep ==
  ASSUME TypeOK, UNCHANGED apiVars, NEW v \in Versions, MainStep(v) \/ MainFails(v)
  PROVE  TypeOK'
<1> USE DEF TypeOK, vaultVars
<1>0. ApiTypeOK'
  BY TypeApiUnchanged
<1>1. CASE LoadCredential(v)
  BY <1>0, <1>1, TypeStoreUnchanged, TypeCatch
  DEF LoadCredential, WorkerTypeOK, Goto, MainPc, Executing, ReadEnvelope
<1>2. CASE EnsureMain(v)
  BY <1>0, <1>2, TypeStoreUnchanged, TypeRenewLease
  DEF EnsureMain, WorkerTypeOK, Goto, Abort, MainPc, Executing
<1>3. CASE EnterRunning(v)
  BY <1>0, <1>3, TypeMoveTo
  DEF EnterRunning, WorkerTypeOK, Goto, MainPc, Executing, RowState, RunStatus
<1>4. CASE StartLoops(v)
  <2>1. [IdleTask EXCEPT !.pc = "pick"] \in Task
    BY TypeIdle DEF Task, IdleTask, TaskPc
  <2>2. QED
    BY <1>0, <1>4, <2>1, TypeStoreUnchanged
    DEF StartLoops, WorkerTypeOK, Goto, MainPc, Executing
<1>5. CASE CollectRows(v)
  BY <1>0, <1>5, TypeStoreUnchanged
  DEF CollectRows, WorkerTypeOK, StoreTypeOK, Goto, MainPc, Executing
<1>6. CASE EnterScoring(v)
  BY <1>0, <1>6, TypeMoveTo
  DEF EnterScoring, WorkerTypeOK, Goto, MainPc, Executing, RowState, RunStatus
<1>7. CASE Finalize(v)
  <2>1. ScoredStatus(rows[v]) \in FinishedStatus
    BY DEF ScoredStatus, FinishedStatus
  <2>2. rows[v] \in [Jobs -> Outcome]
    BY DEF WorkerTypeOK
  <2>3. StoreTypeOK'
    BY <1>7, <2>1, <2>2, TypeFinalizeRow DEF Finalize
  <2>4. QED
    BY <1>0, <1>7, <2>3, TypeCatch DEF Finalize, WorkerTypeOK, Goto, MainPc
<1>8. CASE MainRefused(v)
  BY <1>0, <1>8, TypeStoreUnchanged, TypeCatch DEF MainRefused, WorkerTypeOK
<1>9. CASE ReadLatest(v)
  BY <1>0, <1>9, TypeStoreUnchanged DEF ReadLatest, WorkerTypeOK, Goto, MainPc
<1>10. CASE FailFinalize(v)
  <2>1. NoRows \in [Jobs -> Outcome]
    BY DEF NoRows, Outcome
  <2>2. StoreTypeOK'
    BY <1>10, <2>1, TypeFinalizeRow, TypeStoreUnchanged DEF FailFinalize, FinishedStatus
  <2>3. QED
    BY <1>0, <1>10, <2>2 DEF FailFinalize, WorkerTypeOK, Goto, MainPc
<1>11. CASE FailFinalizeThrows(v)
  BY <1>0, <1>11, TypeStoreUnchanged, TypeIdle
  DEF FailFinalizeThrows, StopWorker, WorkerTypeOK, MainPc
<1>12. CASE CleanupCredential(v)
  BY <1>0, <1>12, TypeStoreUnchanged
  DEF CleanupCredential, DeleteEnvelope, WorkerTypeOK, Goto, MainPc
<1>13. CASE MainFails(v)
  BY <1>0, <1>13, TypeStoreUnchanged, TypeCatch DEF MainFails, WorkerTypeOK
<1>14. QED
  BY <1>1, <1>2, <1>3, <1>4, <1>5, <1>6, <1>7, <1>8, <1>9, <1>10, <1>11, <1>12, <1>13
  DEF MainStep

LEMMA TypeLoopStep ==
  ASSUME TypeOK, UNCHANGED apiVars, NEW v \in Versions, NEW k \in Slots,
         LoopStep(v, k) \/ LoopFails(v, k) \/ DelayAborted(v, k)
  PROVE  TypeOK'
<1> USE DEF TypeOK, vaultVars
<1>0. ApiTypeOK'
  BY TypeApiUnchanged
<1>a. task[v][k] \in Task
  BY DEF WorkerTypeOK
<1>b. \A t \in Task : SetTask(v, k, t) => task' \in [Versions -> [Slots -> Task]]
  BY TypeSetTask
<1>1. CASE PickJob(v, k)
  <2>1. \A j \in Jobs : [IdleTask EXCEPT !.pc = "announce", !.job = j] \in Task
    BY TypeIdle DEF Task, IdleTask, TaskPc
  <2>2. task' \in [Versions -> [Slots -> Task]]
    BY <1>1, <1>b, <2>1, TypeIdle DEF PickJob
  <2>3. taken' \in [Versions -> SUBSET Jobs]
    <3>1. \A j \in Jobs : taken[v] \cup {j} \in SUBSET Jobs
      BY DEF WorkerTypeOK
    <3>2. CASE UNCHANGED taken
      BY <3>2 DEF WorkerTypeOK
    <3>3. CASE \E j \in Jobs : taken' = [taken EXCEPT ![v] = @ \cup {j}]
      BY <3>1, <3>3 DEF WorkerTypeOK
    <3>4. QED
      BY <1>1, <3>2, <3>3 DEF PickJob
  <2>4. QED
    BY <1>0, <1>1, <2>2, <2>3, TypeStoreUnchanged DEF PickJob, WorkerTypeOK
<1>2. CASE AppendProgress(v, k)
  <2>1. [IdleTask EXCEPT !.pc = "pick"] \in Task
    BY TypeIdle DEF Task, IdleTask, TaskPc
  <2>2. task[v][k].pc = "announce" => [task[v][k] EXCEPT !.pc = "ensure"] \in Task
    BY <1>a DEF Task, TaskPc
  <2>3. task' \in [Versions -> [Slots -> Task]]
    BY <1>2, <1>b, <2>1, <2>2 DEF AppendProgress
  <2>4. QED
    BY <1>0, <1>2, <2>3, TypeStoreUnchanged DEF AppendProgress, WorkerTypeOK
<1>3. CASE EnsureAttempt(v, k)
  <2>1. task[v][k].pc = "ensure" => [task[v][k] EXCEPT !.pc = "reserve"] \in Task
    BY <1>a DEF Task, TaskPc
  <2>2. task' \in [Versions -> [Slots -> Task]]
    BY <1>3, <1>b, <2>1, TypeIdle DEF EnsureAttempt
  <2>3. StoreTypeOK'
    BY <1>3, TypeStoreUnchanged, TypeRenewLease DEF EnsureAttempt
  <2>4. QED
    BY <1>0, <1>3, <2>2, <2>3 DEF EnsureAttempt, Abort, WorkerTypeOK, MainPc
<1>4. CASE Reserve(v, k)
  <2> DEFINE j == task[v][k].job
             granted == [task[v][k] EXCEPT !.pc = "send", !.ticket = attempts[j] + 1]
             refused == [task[v][k] EXCEPT !.pc = "save", !.out = "error"]
  <2>1. j \in Jobs /\ attempts[j] \in 0..MaxAttempts
    BY <1>4, <1>a DEF Reserve, Task, StoreTypeOK
  <2>2. refused \in Task
    BY <1>a, <2>1 DEF Task, TaskPc, Outcome
  <2>3. CASE attempts[j] < MaxAttempts /\ ReserveAttempt(j) /\ SetTask(v, k, granted)
    <3>1. attempts[j] + 1 \in 0..MaxAttempts
      BY <2>1, <2>3, AttemptsAssumption
    <3>2. granted \in Task
      BY <1>a, <2>1, <3>1 DEF Task, TaskPc
    <3>3. StoreTypeOK' /\ task' \in [Versions -> [Slots -> Task]]
      BY <1>b, <2>1, <2>3, <3>2, TypeReserveAttempt
    <3>4. QED
      BY <1>0, <1>4, <3>3 DEF Reserve, WorkerTypeOK
  <2>4. CASE SetTask(v, k, refused) /\ UNCHANGED rowVars
    <3>1. StoreTypeOK' /\ task' \in [Versions -> [Slots -> Task]]
      BY <1>b, <2>2, <2>4, TypeStoreUnchanged
    <3>2. QED
      BY <1>0, <1>4, <3>1 DEF Reserve, WorkerTypeOK
  <2>5. QED
    BY <1>4, <2>3, <2>4 DEF Reserve
<1>5. CASE Send(v, k)
  <2>1. task[v][k].job \in Jobs /\ task[v][k].ticket \in 0..MaxAttempts
    BY <1>5, <1>a DEF Send, Task
  <2>2. [task[v][k] EXCEPT !.pc = "wait"] \in Task
    BY <1>a, <2>1 DEF Task, TaskPc
  <2>3. sent' \in [Jobs -> SUBSET (0..MaxAttempts)]
    BY <1>5, <2>1 DEF Send, WorkerTypeOK
  <2>4. QED
    BY <1>0, <1>5, <1>b, <2>2, <2>3, TypeStoreUnchanged DEF Send, WorkerTypeOK
<1>6. CASE Receive(v, k)
  <2>1. task[v][k].job \in Jobs
    BY <1>6, <1>a DEF Receive, Task
  <2>2. \A t \in Outcomes(v, k) : t \in Task
    <3>1. \A o \in {"ok", "error"} : [task[v][k] EXCEPT !.pc = "save", !.out = o] \in Task
      BY <1>a, <2>1 DEF Task, TaskPc, Outcome
    <3>2. ASSUME task[v][k].attempt < MaxAttempts - 1
          PROVE  [task[v][k] EXCEPT !.pc = "ensure", !.attempt = @ + 1] \in Task
      <4>1. task[v][k].attempt + 1 \in 0..(MaxAttempts - 1)
        BY <1>a, <3>2, AttemptsAssumption DEF Task
      <4>2. QED
        BY <1>a, <2>1, <4>1 DEF Task, TaskPc
    <3>3. QED
      BY <3>1, <3>2 DEF Outcomes
  <2>3. QED
    BY <1>0, <1>6, <1>b, <2>2, TypeStoreUnchanged DEF Receive, WorkerTypeOK
<1>7. CASE RequestAborted(v, k)
  BY <1>0, <1>7, TypeThrow, TypeStoreUnchanged DEF RequestAborted, WorkerTypeOK
<1>8. CASE SaveObservation(v, k)
  <2> DEFINE r == [j \in Jobs |-> IF j = task[v][k].job THEN task[v][k].out ELSE "none"]
  <2>1. r \in [Jobs -> Outcome] /\ [task[v][k] EXCEPT !.pc = "progress"] \in Task
    BY <1>8, <1>a DEF SaveObservation, Task, TaskPc, Outcome
  <2>2. StoreTypeOK' /\ task' \in [Versions -> [Slots -> Task]]
    BY <1>8, <1>b, <2>1, TypeSaveObservations DEF SaveObservation
  <2>3. QED
    BY <1>0, <1>8, <2>2 DEF SaveObservation, WorkerTypeOK
<1>9. CASE LoopRefused(v, k)
  BY <1>0, <1>9, TypeThrow, TypeStoreUnchanged DEF LoopRefused, WorkerTypeOK
<1>10. CASE LoopFails(v, k)
  BY <1>0, <1>10, TypeThrow, TypeStoreUnchanged DEF LoopFails, WorkerTypeOK
<1>11. CASE DelayAborted(v, k)
  BY <1>0, <1>11, TypeThrow, TypeStoreUnchanged DEF DelayAborted, WorkerTypeOK
<1>12. QED
  BY <1>1, <1>2, <1>3, <1>4, <1>5, <1>6, <1>7, <1>8, <1>9, <1>10, <1>11 DEF LoopStep

LEMMA TypeWorkerNext == TypeOK /\ WorkerNext /\ UNCHANGED apiVars => TypeOK'
<1> SUFFICES ASSUME TypeOK, WorkerNext, UNCHANGED apiVars PROVE TypeOK'
  OBVIOUS
<1> USE DEF TypeOK, vaultVars
<1>0. ApiTypeOK'
  BY TypeApiUnchanged
<1>1. ASSUME NEW w \in Workers, Claim(w) PROVE TypeOK'
  <2>1. StoreTypeOK' /\ leaseVersion + 1 \in Versions
    BY <1>1, TypeClaimRow DEF Claim
  <2>2. QED
    BY <1>0, <1>1, <2>1 DEF Claim, Goto, WorkerTypeOK, MainPc, Executing
<1>2. ASSUME NEW w \in Workers, Crash(w) PROVE TypeOK'
  BY <1>0, <1>2, TypeStoreUnchanged, TypeIdle DEF Crash, StopWorker, WorkerTypeOK, MainPc
<1>3. ASSUME NEW v \in Versions, Heartbeat(v) PROVE TypeOK'
  BY <1>0, <1>3, TypeStoreUnchanged, TypeRenewLease DEF Heartbeat, Abort, WorkerTypeOK
<1>4. ASSUME NEW v \in Versions, HeartbeatFails(v) PROVE TypeOK'
  BY <1>0, <1>4, TypeStoreUnchanged DEF HeartbeatFails, Abort, WorkerTypeOK
<1>5. CASE LeaseExpires
  BY <1>0, <1>5 DEF LeaseExpires, StoreTypeOK, WorkerTypeOK, resultVars, execVars
<1>6. QED
  BY <1>1, <1>2, <1>3, <1>4, <1>5, TypeMainStep, TypeLoopStep DEF WorkerNext

LEMMA TypeExecUnchanged == WorkerTypeOK /\ UNCHANGED execVars => WorkerTypeOK'
  BY DEF WorkerTypeOK, execVars

LEMMA TypeApiNext == TypeOK /\ ApiNext /\ UNCHANGED execVars => TypeOK'
<1> SUFFICES ASSUME TypeOK, ApiNext, UNCHANGED execVars PROVE TypeOK'
  OBVIOUS
<1> USE DEF TypeOK, vaultVars
<1>0. WorkerTypeOK'
  BY TypeExecUnchanged
<1>1. ASSUME NEW r \in Requests, PutCredential(r) PROVE TypeOK'
  BY <1>0, <1>1, TypeStoreUnchanged DEF PutCredential, PutEnvelope, RequestTo, ApiTypeOK, RequestPc
<1>2. ASSUME NEW r \in Requests, CreateRun(r) PROVE TypeOK'
  BY <1>0, <1>2, TypeInsertRun DEF CreateRun, RequestTo, ApiTypeOK, RequestPc
<1>3. ASSUME NEW r \in Requests, CreateRefused(r) PROVE TypeOK'
  BY <1>0, <1>3, TypeStoreUnchanged DEF CreateRefused, RequestTo, ApiTypeOK, RequestPc
<1>4. ASSUME NEW r \in Requests, DiscardEnvelope(r) PROVE TypeOK'
  BY <1>0, <1>4, TypeStoreUnchanged
  DEF DiscardEnvelope, DeleteEnvelope, RequestTo, ApiTypeOK, RequestPc
<1>5. ASSUME NEW r \in Requests, AbandonRequest(r) PROVE TypeOK'
  BY <1>0, <1>5, TypeStoreUnchanged DEF AbandonRequest, RequestTo, ApiTypeOK, RequestPc
<1>b. ASSUME NEW c \in Calls, NEW q \in CallPc, NEW s \in RowState, UNCHANGED request,
             call' = [call EXCEPT ![c].pc = q, ![c].seen = s]
      PROVE  ApiTypeOK'
  BY <1>b DEF ApiTypeOK
<1>6. ASSUME NEW c \in Calls, NEW op, OwnedRun(c, op) PROVE TypeOK'
  <2>1. PICK q \in CallPc, s \in RowState : call' = [call EXCEPT ![c].pc = q, ![c].seen = s]
    <3> DEFINE finished == status \in TerminalStatus
               next == IF ~Present \/ status = "deleted" THEN "done"
                       ELSE IF expired THEN IF finished THEN "delete" ELSE "timeOut"
                       ELSE IF op = "cancel" THEN IF finished THEN "getReport" ELSE "cancel"
                       ELSE IF finished THEN "delete" ELSE "done"
               seen == IF next = "done" THEN "none" ELSE status
    <3>1. next \in CallPc
      BY DEF CallPc
    <3>2. seen \in RowState
      BY DEF StoreTypeOK, RowState
    <3>3. call' = [call EXCEPT ![c].pc = next, ![c].seen = seen]
      BY <1>6 DEF OwnedRun
    <3> HIDE DEF next, seen
    <3>4. QED
      BY <3>1, <3>2, <3>3
  <2>2. ApiTypeOK'
    BY <1>6, <1>b, <2>1 DEF OwnedRun
  <2>3. QED
    BY <1>0, <1>6, <2>2, TypeStoreUnchanged DEF OwnedRun
<1>a. ASSUME NEW c \in Calls, CallEnds(c), UNCHANGED request PROVE ApiTypeOK'
  <2>1. [IdleCall EXCEPT !.pc = "done"] \in [pc : CallPc, seen : RowState, rows : [Jobs -> Outcome]]
    BY DEF IdleCall, CallPc, RowState, NoRows, Outcome
  <2>2. QED
    BY <1>a, <2>1 DEF CallEnds, ApiTypeOK
<1>7. ASSUME NEW c \in Calls, OwnerTransition(c) PROVE TypeOK'
  <2> DEFINE target == TransitionTarget(c)
  <2>1. target \in {"timed_out", "cancelled", "deleted"} /\ target \in RowState
    BY <1>7 DEF OwnerTransition, TransitionTarget, RowState, RunStatus
  <2>2. CASE CanMoveTo(target)
    <3>1. StoreTypeOK'
      BY <1>7, <2>1, <2>2, TypeMoveTo DEF OwnerTransition
    <3>2. PICK q \in CallPc : call' = [call EXCEPT ![c].pc = q, ![c].seen = target]
      BY <1>7, <2>1, <2>2 DEF OwnerTransition, CallPc
    <3>3. ApiTypeOK'
      BY <1>7, <1>b, <2>1, <3>2 DEF OwnerTransition
    <3>4. QED
      BY <1>0, <1>7, <3>1, <3>3 DEF OwnerTransition
  <2>3. CASE ~CanMoveTo(target)
    BY <1>0, <1>7, <1>a, <2>3, TypeStoreUnchanged DEF OwnerTransition
  <2>4. QED
    BY <2>2, <2>3
<1>8. ASSUME NEW c \in Calls, CheckReport(c) PROVE TypeOK'
  BY <1>0, <1>8, TypeStoreUnchanged DEF CheckReport, CallTo, ApiTypeOK, CallPc
<1>9. ASSUME NEW c \in Calls, ListRows(c) PROVE TypeOK'
  BY <1>0, <1>9, TypeStoreUnchanged DEF ListRows, ApiTypeOK, CallPc, StoreTypeOK
<1>10. ASSUME NEW c \in Calls, FileCancelReport(c) PROVE TypeOK'
  <2>1. call[c].rows \in [Jobs -> Outcome]
    BY DEF ApiTypeOK
  <2>2. StoreTypeOK'
    BY <1>10, <2>1, TypeSaveReport, TypeStoreUnchanged DEF FileCancelReport, FinishedStatus
  <2>3. ApiTypeOK'
    BY <1>10, <1>a DEF FileCancelReport, CallTo, ApiTypeOK, CallPc
  <2>4. QED
    BY <1>0, <1>10, <2>2, <2>3 DEF FileCancelReport
<1>11. ASSUME NEW c \in Calls, DropCredential(c) PROVE TypeOK'
  <2>1. ApiTypeOK'
    BY <1>11, <1>a DEF DropCredential, CallTo, ApiTypeOK, CallPc
  <2>2. QED
    BY <1>0, <1>11, <2>1, TypeStoreUnchanged DEF DropCredential, DeleteEnvelope
<1>12. ASSUME NEW c \in Calls, PurgeRun(c) PROVE TypeOK'
  BY <1>0, <1>12, <1>a, TypePurgeRow DEF PurgeRun
<1>13. ASSUME NEW c \in Calls, AbandonCall(c) PROVE TypeOK'
  BY <1>0, <1>13, <1>a, TypeStoreUnchanged DEF AbandonCall
<1>14. CASE Expire
  BY <1>0, <1>14, TypeStoreUnchanged, TypeApiUnchanged DEF Expire
<1>15. CASE Sweep
  BY <1>0, <1>15, TypeStoreUnchanged, TypePurgeRow, TypeApiUnchanged
  DEF Sweep, SweepEnvelopes, SweepRuns
<1>16. QED
  BY <1>1, <1>2, <1>3, <1>4, <1>5, <1>6, <1>7, <1>8, <1>9, <1>10, <1>11, <1>12, <1>13,
     <1>14, <1>15
  DEF ApiNext, RequestStep, CallStep

LEMMA TypeNext == TypeOK /\ [Next]_vars => TypeOK'
<1> SUFFICES ASSUME TypeOK, [Next]_vars PROVE TypeOK'
  OBVIOUS
<1>1. CASE UNCHANGED vars
  BY <1>1, TypeStoreUnchanged, TypeExecUnchanged, TypeApiUnchanged
  DEF TypeOK, vars, vaultVars
<1>2. QED
  BY <1>1, TypeWorkerNext, TypeApiNext DEF Next

\* The variables of the run, its workers, its handlers and its envelopes stay
\* within their types; in particular no job is charged more attempts than
\* config.retries + 1 over all the claims of the run.
THEOREM TypeCorrect == Spec => []TypeOK
  BY TypeInit, TypeNext, PTL DEF Spec
-----------------------------------------------------------------------------
(* The parts of the invariant IInv.                                        *)


Parts == LeaseInv /\ LoopInv /\ CurrentInv /\ EveryCallIsPaid /\ ReportInv

-----------------------------------------------------------------------------
(* What the loops and the lease look like.                                 *)

LEMMA TaskAfter ==
  ASSUME TypeOK, NEW v \in Versions, NEW k \in Slots, NEW t, SetTask(v, k, t)
  PROVE  /\ task'[v][k] = t
         /\ \A u \in Versions, i \in Slots : u # v \/ i # k => task'[u][i] = task[u][i]
  BY DEF TypeOK, WorkerTypeOK, SetTask

\* Who passes the lease check is the current claim of an active run.
LEMMA HeldIsCurrent ==
  ASSUME TypeOK, LeaseInv, NEW v \in Versions, Answer(v) = "held"
  PROVE  Current(v)
<1>1. holder = owner[v] /\ leaseVersion = v
  BY DEF Answer, LeaseAnswer, HoldsLease
<1>2. owner[v] # NoWorker
  BY <1>1 DEF LeaseInv, Versions
<1>3. QED
  BY <1>1, <1>2 DEF LeaseInv, Current

\* A claim that has begun.
LEMMA BegunIsClaimed ==
  ASSUME TypeOK, LeaseInv, NEW v \in Versions, pc[v] # "unclaimed" \/ ~LoopsIdle(v)
  PROVE  v <= leaseVersion /\ owner[v] \in Workers /\ pc[v] # "unclaimed"
         /\ status \notin {"none", "queued"}
  BY ClaimsAssumption DEF LeaseInv, TypeOK, StoreTypeOK, WorkerTypeOK, Versions
-----------------------------------------------------------------------------
(* Moves of a main flow.                                                   *)

\* The moves that need nothing and promise nothing.
MainMove(p, q) ==
  \/ p # "unclaimed" /\ q \in {"failing", "failFinalize", "cleanup", "ended"}
  \/ p = "load"        /\ q = "ensureStart"
  \/ p = "ensureStart" /\ q = "start"
  \/ p = "start"       /\ q = "list"
  \/ p = "ensureScore" /\ q = "score"
  \/ p = "score"       /\ q = "finalize"

LEMMA MainMoves ==
  ASSUME IInv, NEW v \in Versions,
         UNCHANGED <<holder, leaseVersion, attempts, observed, report,
                     owner, rows, taken, task, sent, call>>,
         status' = status \/ (status \in ActiveStatus /\ status' \in ActiveStatus),
         \A u \in Versions \ {v} : pc'[u] = pc[u],
         pc'[v] = pc[v] \/ MainMove(pc[v], pc'[v])
  PROVE  Parts'
<1> USE DEF IInv
<1>1. LeaseInv'
  BY DEF LeaseInv, MainMove, LoopsIdle, ActiveStatus
<1>2. LoopInv'
  BY DEF LoopInv, MainMove, LoopsIdle, Busy
<1>3. CurrentInv'
  BY DEF CurrentInv, Current, MainMove, LoopsIdle, Busy
<1>4. EveryCallIsPaid'
  BY DEF EveryCallIsPaid, Present, ActiveStatus, RunStatus
<1>5. ReportInv'
  BY DEF ReportInv, ReportTellsTheObservations, Live, ActiveStatus, Present, TerminalStatus,
     FinishedStatus
<1>6. QED
  BY <1>1, <1>2, <1>3, <1>4, <1>5 DEF Parts

-----------------------------------------------------------------------------
(* Moves of a job loop.                                                    *)

\* A loop that throws frees its job, and ends the wait of its main flow.
LEMMA LoopThrows ==
  ASSUME IInv, NEW v \in Versions, NEW k \in Slots, task[v][k].pc # "idle",
         SetTask(v, k, IdleTask),
         UNCHANGED <<status, holder, leaseVersion, attempts, observed, report,
                     owner, rows, taken, sent, call>>,
         \A u \in Versions \ {v} : pc'[u] = pc[u],
         pc'[v] = pc[v] \/ pc'[v] \in {"failing", "ended"},
         pc[v] = "jobs" => pc'[v] # "jobs"
  PROVE  Parts'
<1> USE DEF IInv
<1>1. task'[v][k].pc = "idle"
  BY TaskAfter DEF IdleTask
<1>2. \A u \in Versions, i \in Slots : u # v \/ i # k => task'[u][i] = task[u][i]
  BY TaskAfter
<1>3. v <= leaseVersion /\ pc[v] # "unclaimed"
  BY BegunIsClaimed DEF LoopsIdle
<1>4. LeaseInv'
  BY <1>2, <1>3 DEF LeaseInv, LoopsIdle, TypeOK, StoreTypeOK, Versions
<1>5. LoopInv'
  BY <1>1, <1>2 DEF LoopInv, LoopsIdle, Busy
<1>6. CurrentInv'
  BY <1>1, <1>2 DEF CurrentInv, Current, LoopsIdle, Busy
<1>7. EveryCallIsPaid'
  BY <1>1, <1>2 DEF EveryCallIsPaid, Present
<1>8. ReportInv'
  BY DEF ReportInv, ReportTellsTheObservations, Live, Present
<1>9. QED
  BY <1>4, <1>5, <1>6, <1>7, <1>8 DEF Parts

\* A busy loop goes on with its job, short of spending a reservation.
LEMMA LoopGoesOn ==
  ASSUME IInv, NEW v \in Versions, NEW k \in Slots, NEW t,
         SetTask(v, k, t),
         Busy(v, k),
         t.pc \in {"ensure", "reserve", "wait", "save"},
         t.job = task[v][k].job,
         t.pc = "save" => t.out # "none",
         t.pc \in {"wait", "save"} /\ Current(v) => attempts[t.job] > 0,
         UNCHANGED <<status, holder, leaseVersion, attempts, observed, report,
                     owner, pc, rows, taken, sent, call>>
  PROVE  Parts'
<1> USE DEF IInv
<1>1. task'[v][k] = t
  BY TaskAfter
<1>2. \A u \in Versions, i \in Slots : u # v \/ i # k => task'[u][i] = task[u][i]
  BY TaskAfter
<1>a. \A u \in Versions, i \in Slots :
        Busy(u, i)' = Busy(u, i) /\ task'[u][i].job = task[u][i].job
  BY <1>1, <1>2 DEF Busy, TaskPc
<1>b. \A u \in Versions : LoopsIdle(u)' = LoopsIdle(u)
  BY <1>1, <1>2 DEF LoopsIdle, Busy
<1>3. v <= leaseVersion /\ pc[v] # "unclaimed"
  BY BegunIsClaimed DEF LoopsIdle, Busy
<1>4. LeaseInv'
  BY <1>b DEF LeaseInv
<1>5. LoopInv'
  BY <1>1, <1>2, <1>a, <1>b DEF LoopInv
<1>6. CurrentInv'
  BY <1>1, <1>2, <1>a, <1>b DEF CurrentInv, Current
<1>7. EveryCallIsPaid'
  BY <1>1, <1>2 DEF EveryCallIsPaid, Present
<1>8. ReportInv'
  BY DEF ReportInv, ReportTellsTheObservations, Live, Present
<1>9. QED
  BY <1>4, <1>5, <1>6, <1>7, <1>8 DEF Parts

\* A loop takes the next job.
LEMMA LoopPicks ==
  ASSUME IInv, NEW v \in Versions, NEW k \in Slots, PickJob(v, k), UNCHANGED call
  PROVE  Parts'
<1> USE DEF IInv
<1>0. task[v][k].pc = "pick"
  BY DEF PickJob
<1>1. v <= leaseVersion /\ pc[v] # "unclaimed"
  BY <1>0, BegunIsClaimed DEF LoopsIdle
<1> DEFINE Others == \A u \in Versions, i \in Slots : u # v \/ i # k => task'[u][i] = task[u][i]
<1>a. ASSUME NEW j \in Jobs, SetTask(v, k, [IdleTask EXCEPT !.pc = "announce", !.job = j])
      PROVE  task'[v][k].pc = "announce" /\ task'[v][k].job = j /\ Others
  BY <1>a DEF SetTask, IdleTask, TypeOK, WorkerTypeOK
<1>b. ASSUME SetTask(v, k, IdleTask)
      PROVE  task'[v][k].pc = "idle" /\ Others
  BY <1>b DEF SetTask, IdleTask, TypeOK, WorkerTypeOK
<1>2. \/ \E j \in Jobs \ taken[v] :
           /\ taken' = [taken EXCEPT ![v] = @ \cup {j}]
           /\ task'[v][k].pc = "announce"
           /\ task'[v][k].job = j
      \/ taken[v] = Jobs /\ task'[v][k].pc = "idle" /\ UNCHANGED taken
  BY <1>a, <1>b DEF PickJob
<1>3. task'[v][k].pc \in {"idle", "announce"}
  BY <1>2
<1>4. Others
  BY <1>a, <1>b DEF PickJob
<1>u. UNCHANGED <<status, holder, leaseVersion, attempts, observed, report,
                  owner, pc, rows, sent, call>>
  BY DEF PickJob, rowVars, leaseVars, resultVars
<1>5. LeaseInv'
  BY <1>1, <1>3, <1>4, <1>u DEF LeaseInv, LoopsIdle, TypeOK, StoreTypeOK, Versions
<1>6. EveryCallIsPaid'
  BY <1>3, <1>4, <1>u DEF EveryCallIsPaid, Present
<1>7. ReportInv'
  BY <1>u DEF ReportInv, ReportTellsTheObservations, Live, Present
<1>8. CASE \E j \in Jobs \ taken[v] :
             /\ taken' = [taken EXCEPT ![v] = @ \cup {j}]
             /\ task'[v][k].pc = "announce"
             /\ task'[v][k].job = j
  <2>1. PICK j \in Jobs \ taken[v] :
             /\ taken' = [taken EXCEPT ![v] = @ \cup {j}]
             /\ task'[v][k].pc = "announce"
             /\ task'[v][k].job = j
    BY <1>8
  <2>2. /\ taken'[v] = taken[v] \cup {j}
        /\ \A u \in Versions \ {v} : taken'[u] = taken[u]
    BY <2>1 DEF TypeOK, WorkerTypeOK
  <2>3. LoopInv'
    BY <1>0, <1>4, <1>u, <2>1, <2>2 DEF LoopInv, LoopsIdle, Busy, TaskPc
  <2>4. CurrentInv'
    BY <1>0, <1>4, <1>u, <2>1, <2>2 DEF CurrentInv, Current, LoopsIdle, Busy, TaskPc
  <2>5. QED
    BY <1>5, <1>6, <1>7, <2>3, <2>4 DEF Parts
<1>9. CASE taken[v] = Jobs /\ task'[v][k].pc = "idle" /\ UNCHANGED taken
  <2>1. LoopInv'
    BY <1>0, <1>4, <1>9, <1>u DEF LoopInv, LoopsIdle, Busy, TaskPc
  <2>2. CurrentInv'
    BY <1>0, <1>4, <1>9, <1>u DEF CurrentInv, Current, LoopsIdle, Busy, TaskPc
  <2>3. QED
    BY <1>5, <1>6, <1>7, <2>1, <2>2 DEF Parts
<1>10. QED
  BY <1>2, <1>8, <1>9

\* A loop is done with its job and goes back for another.
LEMMA LoopRests ==
  ASSUME IInv, NEW v \in Versions, NEW k \in Slots,
         task[v][k].pc = "progress",
         SetTask(v, k, [IdleTask EXCEPT !.pc = "pick"]),
         UNCHANGED <<status, holder, leaseVersion, attempts, observed, report,
                     owner, pc, rows, taken, sent, call>>
  PROVE  Parts'
<1> USE DEF IInv
<1>1. task'[v][k].pc = "pick"
  BY TaskAfter DEF IdleTask
<1>2. \A u \in Versions, i \in Slots : u # v \/ i # k => task'[u][i] = task[u][i]
  BY TaskAfter
<1>3. v <= leaseVersion /\ pc[v] # "unclaimed"
  BY BegunIsClaimed DEF LoopsIdle
<1>4. LeaseInv'
  BY <1>1, <1>2, <1>3 DEF LeaseInv, LoopsIdle, TypeOK, StoreTypeOK, Versions
<1>5. LoopInv'
  BY <1>1, <1>2 DEF LoopInv, LoopsIdle, Busy, TaskPc
<1>6. CurrentInv'
  BY <1>1, <1>2 DEF CurrentInv, Current, LoopsIdle, Busy, TaskPc
<1>7. EveryCallIsPaid'
  BY <1>1, <1>2 DEF EveryCallIsPaid, Present
<1>8. ReportInv'
  BY DEF ReportInv, ReportTellsTheObservations, Live, Present
<1>9. QED
  BY <1>4, <1>5, <1>6, <1>7, <1>8 DEF Parts

\* A reservation is granted: its number is new, whoever asks.
LEMMA LoopReserves ==
  ASSUME IInv, NEW v \in Versions, NEW k \in Slots, Reserve(v, k), UNCHANGED call,
         ReserveAttempt(task[v][k].job), attempts[task[v][k].job] < MaxAttempts,
         SetTask(v, k, [task[v][k] EXCEPT !.pc = "send",
                                          !.ticket = attempts[task[v][k].job] + 1])
  PROVE  Parts'
<1> DEFINE j == task[v][k].job
<1> USE DEF IInv
<1>0. task[v][k].pc = "reserve" /\ Present /\ Current(v) /\ task[v][k] \in Task
  BY HeldIsCurrent DEF Reserve, Answer, LeaseAnswer, TypeOK, WorkerTypeOK
<1>1. v <= leaseVersion /\ pc[v] # "unclaimed"
  BY <1>0, BegunIsClaimed DEF LoopsIdle
<1>2. j \in Jobs /\ attempts[j] \in 0..MaxAttempts
  BY <1>0 DEF Task, TypeOK, StoreTypeOK
<1>3. task'[v][k].pc = "send" /\ task'[v][k].job = j /\ task'[v][k].ticket = attempts[j] + 1
  BY <1>0 DEF SetTask, Task, TypeOK, WorkerTypeOK
<1>4. \A u \in Versions, i \in Slots : u # v \/ i # k => task'[u][i] = task[u][i]
  BY DEF SetTask, TypeOK, WorkerTypeOK
<1>5. attempts'[j] = attempts[j] + 1 /\ \A i \in Jobs \ {j} : attempts'[i] = attempts[i]
  BY <1>2 DEF ReserveAttempt, TypeOK, StoreTypeOK
<1>u. UNCHANGED <<status, holder, leaseVersion, observed, report,
                  owner, pc, rows, taken, sent, call>>
  BY DEF Reserve, ReserveAttempt, leaseVars
<1>t. \A u \in Versions, i \in Slots : task[u][i] \in Task
  BY DEF TypeOK, WorkerTypeOK
<1>6. LeaseInv'
  BY <1>0, <1>1, <1>4, <1>u DEF LeaseInv, LoopsIdle, Current, ActiveStatus
<1>7. LoopInv'
  BY <1>0, <1>3, <1>4, <1>u DEF LoopInv, LoopsIdle, Busy, TaskPc
<1>8. CurrentInv'
  <2>1. \A i \in Jobs : attempts[i] > 0 => attempts'[i] > 0
    BY <1>2, <1>5, AttemptsAssumption DEF TypeOK, StoreTypeOK
  <2>2. attempts'[j] > 0
    BY <1>2, <1>5, AttemptsAssumption
  <2>3. QED
    BY <1>0, <1>3, <1>4, <1>t, <1>u, <2>1, <2>2
    DEF CurrentInv, Current, LoopsIdle, Busy, TaskPc, Task
<1>9. EveryCallIsPaid'
  <2>1. \A i \in Jobs : attempts[i] \in Nat /\ attempts'[i] \in Nat /\ attempts[i] <= attempts'[i]
    BY <1>2, <1>5, AttemptsAssumption DEF TypeOK, StoreTypeOK
  <2>2. attempts[j] + 1 \in 1..MaxAttempts
    BY <1>2, AttemptsAssumption
  <2>3. attempts[j] + 1 \notin sent[j]
    BY <1>0, <1>2, AttemptsAssumption DEF EveryCallIsPaid
  <2>4. ASSUME NEW u \in Versions, NEW i \in Slots, task'[u][i].pc = "send"
        PROVE  /\ task'[u][i].ticket \in 1..MaxAttempts
               /\ task'[u][i].ticket \notin sent'[task'[u][i].job]
               /\ task'[u][i].ticket <= attempts'[task'[u][i].job]
    <3>1. CASE u = v /\ i = k
      BY <1>3, <1>5, <1>u, <2>1, <2>2, <2>3, <3>1, AttemptsAssumption
    <3>2. CASE u # v \/ i # k
      BY <1>0, <1>4, <1>t, <1>u, <2>1, <2>4, <3>2, AttemptsAssumption
      DEF EveryCallIsPaid, Task, Present
    <3>3. QED
      BY <3>1, <3>2
  <2>5. ASSUME NEW u \in Versions, NEW i \in Slots, task[u][i].pc = "send", task[u][i].job = j
        PROVE  task[u][i].ticket # attempts[j] + 1
    BY <1>0, <1>2, <2>5, AttemptsAssumption DEF EveryCallIsPaid
  <2>6. ASSUME NEW u \in Versions, NEW w \in Versions, NEW i \in Slots, NEW l \in Slots,
               <<u, i>> # <<w, l>>, task'[u][i].pc = "send", task'[w][l].pc = "send",
               task'[u][i].job = task'[w][l].job
        PROVE  task'[u][i].ticket # task'[w][l].ticket
    BY <1>3, <1>4, <2>5, <2>6 DEF EveryCallIsPaid
  <2>7. \A i \in Jobs : sent'[i] \subseteq 1..attempts'[i]
    BY <1>0, <1>u, <2>1 DEF EveryCallIsPaid
  <2>8. QED
    BY <2>4, <2>6, <2>7 DEF EveryCallIsPaid
<1>10. ReportInv'
  BY <1>u DEF ReportInv, ReportTellsTheObservations, Live, Present
<1>11. QED
  BY <1>6, <1>7, <1>8, <1>9, <1>10 DEF Parts

\* A reservation is spent: nobody else holds it.
LEMMA LoopSends ==
  ASSUME IInv, NEW v \in Versions, NEW k \in Slots, Send(v, k), UNCHANGED call
  PROVE  Parts'
<1> DEFINE j == task[v][k].job
           n == task[v][k].ticket
<1> USE DEF IInv
<1>0. task[v][k].pc = "send" /\ task[v][k] \in Task
  BY DEF Send, TypeOK, WorkerTypeOK
<1>1. v <= leaseVersion /\ pc[v] # "unclaimed" /\ status \notin {"none", "queued"}
  BY <1>0, BegunIsClaimed DEF LoopsIdle
<1>2. j \in Jobs
  BY <1>0 DEF Task
<1>3. task'[v][k].pc = "wait" /\ task'[v][k].job = j
  BY <1>0 DEF Send, SetTask, Task, TypeOK, WorkerTypeOK
<1>4. \A u \in Versions, i \in Slots : u # v \/ i # k => task'[u][i] = task[u][i]
  BY DEF Send, SetTask, TypeOK, WorkerTypeOK
<1>5. sent'[j] = sent[j] \cup {n} /\ \A i \in Jobs \ {j} : sent'[i] = sent[i]
  BY <1>2 DEF Send, TypeOK, WorkerTypeOK
<1>u. UNCHANGED <<status, holder, leaseVersion, attempts, observed, report,
                  owner, pc, rows, taken, call>>
  BY DEF Send, rowVars, leaseVars, resultVars
<1>t. \A u \in Versions, i \in Slots : task[u][i].pc = "send" => task[u][i].job \in Jobs
  BY DEF TypeOK, WorkerTypeOK, Task
<1>6. LeaseInv'
  BY <1>1, <1>4, <1>u DEF LeaseInv, LoopsIdle, TypeOK, StoreTypeOK, Versions
<1>7. LoopInv'
  BY <1>0, <1>3, <1>4, <1>u DEF LoopInv, LoopsIdle, Busy, TaskPc
<1>8. CurrentInv'
  BY <1>0, <1>3, <1>4, <1>u DEF CurrentInv, Current, LoopsIdle, Busy, TaskPc
<1>9. EveryCallIsPaid'
  <2>1. n \in 1..MaxAttempts /\ n \notin sent[j] /\ (Present => n <= attempts[j])
    BY <1>0 DEF EveryCallIsPaid
  <2>2. ASSUME NEW u \in Versions, NEW i \in Slots, task'[u][i].pc = "send"
        PROVE  /\ task[u][i].pc = "send" /\ task'[u][i] = task[u][i]
               /\ task[u][i].ticket \notin sent'[task[u][i].job]
    <3>1. (u # v \/ i # k) /\ task'[u][i] = task[u][i]
      BY <1>3, <1>4, <2>2
    <3>2. task[u][i].job = j => task[u][i].ticket # n
      BY <1>0, <2>2, <3>1 DEF EveryCallIsPaid
    <3>3. QED
      BY <1>5, <1>t, <2>2, <3>1, <3>2 DEF EveryCallIsPaid
  <2>3. Present => \A i \in Jobs : sent'[i] \subseteq 1..attempts'[i]
    BY <1>2, <1>5, <1>u, <2>1, AttemptsAssumption DEF EveryCallIsPaid, TypeOK, StoreTypeOK
  <2>4. QED
    BY <1>u, <2>2, <2>3 DEF EveryCallIsPaid, Present
<1>10. ReportInv'
  BY <1>u DEF ReportInv, ReportTellsTheObservations, Live, Present
<1>11. QED
  BY <1>6, <1>7, <1>8, <1>9, <1>10 DEF Parts

\* An observation is stored, for a job that had none.
LEMMA LoopSaves ==
  ASSUME IInv, NEW v \in Versions, NEW k \in Slots, SaveObservation(v, k), UNCHANGED call
  PROVE  /\ Parts'
         /\ observed' = [observed EXCEPT ![task[v][k].job] = task[v][k].out]
<1> DEFINE j == task[v][k].job
<1> USE DEF IInv
<1>0. task[v][k].pc = "save" /\ task[v][k] \in Task /\ Present /\ Current(v)
  BY HeldIsCurrent DEF SaveObservation, Answer, LeaseAnswer, TypeOK, WorkerTypeOK
<1>1. v <= leaseVersion /\ pc[v] # "unclaimed" /\ status \notin {"none", "queued"}
  BY <1>0, BegunIsClaimed DEF LoopsIdle
<1>2. j \in Jobs /\ j \in taken[v] /\ observed[j] = "none"
      /\ task[v][k].out \in {"ok", "error"}
  BY <1>0 DEF Task, LoopInv, CurrentInv, Busy, TaskPc, Outcome
<1>3. task'[v][k].pc = "progress"
  BY <1>0 DEF SaveObservation, SetTask, Task, TypeOK, WorkerTypeOK
<1>4. \A u \in Versions, i \in Slots : u # v \/ i # k => task'[u][i] = task[u][i]
  BY DEF SaveObservation, SetTask, TypeOK, WorkerTypeOK
<1>5. observed' = [observed EXCEPT ![j] = task[v][k].out]
  BY <1>2 DEF SaveObservation, SaveObservations, Merge, TypeOK, StoreTypeOK
<1>6. observed'[j] # "none" /\ \A i \in Jobs \ {j} : observed'[i] = observed[i]
  BY <1>2, <1>5 DEF TypeOK, StoreTypeOK
<1>u. UNCHANGED <<status, holder, leaseVersion, attempts, report,
                  owner, pc, rows, taken, sent, call>>
  BY DEF SaveObservation, SaveObservations, leaseVars
<1>7. LeaseInv'
  BY <1>1, <1>4, <1>u DEF LeaseInv, LoopsIdle, TypeOK, StoreTypeOK, Versions
<1>8. LoopInv'
  BY <1>0, <1>3, <1>4, <1>u DEF LoopInv, LoopsIdle, Busy, TaskPc
<1>9. CurrentInv'
  <2>1. \A u \in Versions : Current(u)' => u = v
    BY <1>0, <1>u DEF Current
  <2>2. \A i \in Slots : i # k /\ Busy(v, i) => task[v][i].job # j
    BY <1>0 DEF LoopInv, Busy, TaskPc
  <2>3. \A i \in Slots : task[v][i] \in Task
    BY DEF TypeOK, WorkerTypeOK
  <2>4. \A i \in Slots : Busy(v, i)' <=> i # k /\ Busy(v, i)
    BY <1>3, <1>4 DEF Busy
  <2>5. \A i \in Slots : Busy(v, i) => task[v][i].job \in Jobs
    BY <2>3 DEF Busy, TaskPc, Task
  <2>6. ~LoopsIdle(v)
    BY <1>0 DEF LoopsIdle
  <2>7. pc[v] \notin {"ensureScore", "score", "finalize"}
    BY <2>6 DEF LoopInv
  <2>8. \A i \in Slots : Busy(v, i)' => observed'[task'[v][i].job] = "none"
    BY <1>0, <1>4, <1>6, <2>2, <2>4, <2>5 DEF CurrentInv
  <2>9. \A i \in Slots : task'[v][i].pc \in {"send", "wait", "save"}
                           => attempts'[task'[v][i].job] > 0
    BY <1>0, <1>3, <1>4, <1>u DEF CurrentInv
  <2>10. \A i \in Jobs : observed'[i] # "none" => i \in taken'[v]
    BY <1>0, <1>2, <1>6, <1>u, <2>6 DEF CurrentInv
  <2>11. ASSUME pc'[v] = "jobs", NEW i \in taken'[v]
         PROVE  observed'[i] # "none" \/ \E l \in Slots : Busy(v, l)' /\ task'[v][l].job = i
    <3>1. i \in taken[v] /\ i \in Jobs /\ pc[v] = "jobs"
      BY <1>u, <2>11 DEF TypeOK, WorkerTypeOK
    <3>2. CASE i = j \/ observed[i] # "none"
      BY <1>6, <3>1, <3>2
    <3>3. CASE i # j /\ observed[i] = "none"
      <4>1. PICK l \in Slots : Busy(v, l) /\ task[v][l].job = i
        BY <1>0, <3>1, <3>3 DEF CurrentInv
      <4>2. Busy(v, l)' /\ task'[v][l].job = i
        BY <1>4, <2>4, <3>3, <4>1
      <4>3. QED
        BY <4>2
    <3>4. QED
      BY <3>2, <3>3
  <2>12. QED
    BY <1>u, <2>1, <2>7, <2>8, <2>9, <2>10, <2>11 DEF CurrentInv
<1>10. EveryCallIsPaid'
  BY <1>3, <1>4, <1>u DEF EveryCallIsPaid, Present
<1>11. ReportInv'
  BY <1>0, <1>u DEF ReportInv, ReportTellsTheObservations, Live, Present, Current, ActiveStatus
<1>12. QED
  BY <1>5, <1>7, <1>8, <1>9, <1>10, <1>11 DEF Parts
-----------------------------------------------------------------------------
(* The loops as a whole, and the steps that end or take over a run.        *)

LEMMA LoopsStart ==
  ASSUME IInv, NEW v \in Versions, StartLoops(v), UNCHANGED call
  PROVE  Parts'
<1> USE DEF IInv
<1>0. pc[v] = "list"
  BY DEF StartLoops
<1>1. v <= leaseVersion /\ LoopsIdle(v)
  BY <1>0, BegunIsClaimed DEF LoopInv
<1>2. /\ \A k \in Slots : task'[v][k].pc = "pick"
      /\ \A u \in Versions \ {v} : task'[u] = task[u]
  BY DEF StartLoops, IdleTask, TypeOK, WorkerTypeOK
<1>3. /\ taken'[v] = {j \in Jobs : observed[j] # "none"}
      /\ \A u \in Versions \ {v} : taken'[u] = taken[u]
  BY DEF StartLoops, TypeOK, WorkerTypeOK
<1>4. pc'[v] = "jobs" /\ \A u \in Versions \ {v} : pc'[u] = pc[u]
  BY DEF StartLoops, Goto, TypeOK, WorkerTypeOK
<1>u. UNCHANGED <<status, holder, leaseVersion, attempts, observed, report,
                  owner, rows, sent, call>>
  BY DEF StartLoops, rowVars, leaseVars, resultVars
<1>5. LeaseInv'
  BY <1>0, <1>1, <1>2, <1>4, <1>u DEF LeaseInv, LoopsIdle, TypeOK, StoreTypeOK, Versions
<1>6. LoopInv'
  BY <1>2, <1>3, <1>4 DEF LoopInv, LoopsIdle, Busy
<1>7. CurrentInv'
  BY <1>0, <1>2, <1>3, <1>4, <1>u DEF CurrentInv, Current, LoopsIdle, Busy
<1>8. EveryCallIsPaid'
  BY <1>2, <1>u DEF EveryCallIsPaid, Present
<1>9. ReportInv'
  BY <1>u DEF ReportInv, ReportTellsTheObservations, Live, Present
<1>10. QED
  BY <1>5, <1>6, <1>7, <1>8, <1>9 DEF Parts

\* The loops are done: every job is observed.
LEMMA RowsCollected ==
  ASSUME IInv, NEW v \in Versions, CollectRows(v), UNCHANGED call
  PROVE  Parts'
<1> USE DEF IInv
<1>0. pc[v] = "jobs" /\ LoopsIdle(v)
  BY DEF CollectRows
<1>1. taken[v] = Jobs
  BY <1>0, SlotsAssumption DEF LoopInv, LoopsIdle
<1>2. Current(v) => \A j \in Jobs : observed[j] # "none"
  BY <1>0, <1>1 DEF CurrentInv, LoopsIdle, Busy
<1>3. pc'[v] = "ensureScore" /\ \A u \in Versions \ {v} : pc'[u] = pc[u]
  BY DEF CollectRows, Goto, TypeOK, WorkerTypeOK
<1>4. rows'[v] = observed /\ \A u \in Versions \ {v} : rows'[u] = rows[u]
  BY DEF CollectRows, TypeOK, WorkerTypeOK
<1>u. UNCHANGED <<status, holder, leaseVersion, attempts, observed, report,
                  owner, taken, task, sent, call>>
  BY DEF CollectRows, rowVars, leaseVars, resultVars
<1>5. LeaseInv'
  BY <1>0, <1>3, <1>u DEF LeaseInv, LoopsIdle
<1>6. LoopInv'
  BY <1>0, <1>3, <1>u DEF LoopInv, LoopsIdle, Busy
<1>7. CurrentInv'
  BY <1>0, <1>2, <1>3, <1>4, <1>u DEF CurrentInv, Current, LoopsIdle, Busy
<1>8. EveryCallIsPaid'
  BY <1>u DEF EveryCallIsPaid, Present
<1>9. ReportInv'
  BY <1>u DEF ReportInv, ReportTellsTheObservations, Live, Present
<1>10. QED
  BY <1>5, <1>6, <1>7, <1>8, <1>9 DEF Parts

\* What a step of v leaves of the other parts when it ends the run.
LEMMA RunStops ==
  ASSUME IInv, NEW v \in Versions, pc[v] # "unclaimed",
         status' \in FinishedStatus, NoLease,
         \A u \in Versions \ {v} : pc'[u] = pc[u],
         pc'[v] \in {"failing", "cleanup", "ended"},
         UNCHANGED <<attempts, owner, rows, taken, task, sent, call>>
  PROVE  LeaseInv' /\ LoopInv' /\ CurrentInv' /\ (Present => EveryCallIsPaid')
<1> USE DEF IInv
<1>1. LeaseInv'
  BY BegunIsClaimed DEF LeaseInv, LoopsIdle, NoLease, FinishedStatus, ActiveStatus
<1>2. LoopInv'
  BY DEF LoopInv, LoopsIdle, Busy
<1>3. CurrentInv'
  BY DEF CurrentInv, Current, FinishedStatus, ActiveStatus
<1>4. Present => EveryCallIsPaid'
  BY DEF EveryCallIsPaid, Present
<1>5. QED
  BY <1>1, <1>2, <1>3, <1>4

\* The worker scores what is stored and files it.
LEMMA RunIsScored ==
  ASSUME IInv, NEW v \in Versions, Finalize(v), UNCHANGED call
  PROVE  /\ Parts'
         /\ \A j \in Jobs : observed[j] # "none"
         /\ observed' = observed
         /\ report' = [status |-> ScoredStatus(observed), rows |-> observed]
<1> USE DEF IInv
<1>0. pc[v] = "finalize" /\ Present /\ Current(v)
  BY HeldIsCurrent DEF Finalize, Answer, LeaseAnswer
<1>1. rows[v] = observed /\ \A j \in Jobs : observed[j] # "none"
  BY <1>0 DEF CurrentInv
<1>2. observed' = observed
  BY <1>1 DEF Finalize, FinalizeRow, Merge, TypeOK, StoreTypeOK
<1>3. /\ status' = ScoredStatus(observed)
      /\ report' = [status |-> ScoredStatus(observed), rows |-> observed]
  BY <1>1 DEF Finalize, FinalizeRow
<1>4. pc'[v] \in {"failing", "cleanup", "ended"} /\ \A u \in Versions \ {v} : pc'[u] = pc[u]
  BY DEF Finalize, Catch, Goto, TypeOK, WorkerTypeOK
<1>5. ScoredStatus(observed) \in {"completed", "incomplete", "failed"}
  BY DEF ScoredStatus
<1>6. LeaseInv' /\ LoopInv' /\ CurrentInv' /\ EveryCallIsPaid'
  <2>1. status' \in FinishedStatus /\ NoLease
        /\ UNCHANGED <<attempts, owner, rows, taken, task, sent>>
    BY <1>3, <1>5 DEF Finalize, FinalizeRow, FinishedStatus
  <2>2. QED
    BY <1>0, <1>4, <2>1, RunStops
<1>7. ReportInv'
  <2>1. report' # NoReport /\ report'.rows = observed' /\ report'.status = status'
    BY <1>2, <1>3, <1>5 DEF NoReport
  <2>2. /\ report'.status = "completed" => \A j \in Jobs : report'.rows[j] = "ok"
        /\ report'.status = "incomplete" => \A j \in Jobs : report'.rows[j] # "none"
    BY <1>1, <1>3 DEF ScoredStatus, TypeOK, StoreTypeOK, Outcome
  <2>3. ReportTellsTheObservations'
    BY <2>1, <2>2 DEF ReportTellsTheObservations
  <2>4. QED
    BY <1>0, <1>2, <1>3, <1>5, <2>1, <2>3
    DEF ReportInv, Current, ActiveStatus, Live, Present, TerminalStatus, FinishedStatus
<1>8. QED
  BY <1>1, <1>2, <1>3, <1>6, <1>7 DEF Parts

\* The worker gives up and files an empty report.
LEMMA RunFails ==
  ASSUME IInv, NEW v \in Versions, pc[v] = "failFinalize", Answer(v) = "held",
         FinalizeRow("failed", NoRows, NoRows), Goto(v, "cleanup"),
         UNCHANGED <<owner, rows, taken, task, sent, call>>
  PROVE  Parts' /\ observed' = observed
<1> USE DEF IInv
<1>0. Present /\ Current(v)
  BY HeldIsCurrent DEF Answer, LeaseAnswer
<1>1. observed' = observed
  BY DEF FinalizeRow, Merge, NoRows, TypeOK, StoreTypeOK
<1>2. status' = "failed" /\ report' = [status |-> "failed", rows |-> NoRows] /\ NoLease
      /\ UNCHANGED attempts
  BY DEF FinalizeRow
<1>3. pc'[v] = "cleanup" /\ \A u \in Versions \ {v} : pc'[u] = pc[u]
  BY DEF Goto, TypeOK, WorkerTypeOK
<1>4. LeaseInv' /\ LoopInv' /\ CurrentInv' /\ EveryCallIsPaid'
  BY <1>0, <1>2, <1>3, RunStops DEF FinishedStatus
<1>5. ReportInv'
  BY <1>0, <1>1, <1>2
  DEF ReportInv, ReportTellsTheObservations, NoReport, Current, ActiveStatus, Live, Present,
      TerminalStatus, FinishedStatus
<1>6. QED
  BY <1>1, <1>4, <1>5 DEF Parts

\* A worker takes the run, or takes it over.
LEMMA RunIsClaimed ==
  ASSUME IInv, NEW w \in Workers, Claim(w), UNCHANGED call
  PROVE  Parts'
<1> DEFINE n == leaseVersion + 1
<1> USE DEF IInv
<1>1. n \in Versions /\ leaseVersion \in Nat /\ status \in {"queued"} \cup ActiveStatus
  BY TypeClaimRow, ClaimsAssumption DEF Claim, ClaimRow, Claimable, TypeOK, StoreTypeOK
<1>2. leaseVersion' = n /\ holder' = w /\ status' = "provisioning"
  BY DEF Claim, ClaimRow
<1>3. /\ pc'[n] = "load" /\ \A u \in Versions \ {n} : pc'[u] = pc[u]
      /\ owner'[n] = w /\ \A u \in Versions \ {n} : owner'[u] = owner[u]
  BY <1>1 DEF Claim, Goto, TypeOK, WorkerTypeOK
<1>4. w # NoWorker
  BY WorkersAssumption
<1>5. LoopsIdle(n)
  BY <1>1 DEF LeaseInv
<1>u. UNCHANGED <<attempts, observed, report, rows, taken, task, sent, call>>
  BY DEF Claim, ClaimRow, resultVars
<1>6. LeaseInv'
  <2>1. \A u \in Versions : u > n <=> u > leaseVersion /\ u # n
    BY <1>1 DEF Versions
  <2>2. \A u \in Versions : LoopsIdle(u)' = LoopsIdle(u)
    BY <1>u DEF LoopsIdle
  <2>3. ~(n > n)
    BY <1>1
  <2>4. QED
    BY <1>1, <1>2, <1>3, <1>4, <2>1, <2>2, <2>3 DEF LeaseInv, ActiveStatus
<1>7. LoopInv'
  BY <1>3, <1>5, <1>u DEF LoopInv, LoopsIdle, Busy
<1>8. CurrentInv'
  BY <1>2, <1>3, <1>5, <1>u DEF CurrentInv, Current, LoopsIdle, Busy
<1>9. EveryCallIsPaid'
  BY <1>1, <1>u DEF EveryCallIsPaid, Present, RunStatus, ActiveStatus
<1>10. ReportInv'
  BY <1>1, <1>2, <1>u
  DEF ReportInv, ReportTellsTheObservations, Live, ActiveStatus, Present, RunStatus,
      TerminalStatus, FinishedStatus
<1>11. QED
  BY <1>6, <1>7, <1>8, <1>9, <1>10 DEF Parts

\* A process stops, with all its executions and loops.
LEMMA WorkerStops ==
  ASSUME IInv, NEW w \in Workers, StopWorker(w), UNCHANGED call
  PROVE  Parts'
<1> USE DEF IInv
<1>1. \A u \in Versions : /\ owner[u] = w => /\ pc'[u] = "ended"
                                             /\ \A k \in Slots : task'[u][k].pc = "idle"
                          /\ owner[u] # w => pc'[u] = pc[u] /\ task'[u] = task[u]
  BY DEF StopWorker, IdleTask
<1>2. w # NoWorker
  BY WorkersAssumption
<1>u. UNCHANGED <<status, holder, leaseVersion, attempts, observed, report,
                  owner, rows, taken, sent, call>>
  BY DEF StopWorker, rowVars, leaseVars, resultVars
<1>3. LeaseInv'
  BY <1>1, <1>2, <1>u DEF LeaseInv, LoopsIdle
<1>4. LoopInv'
  BY <1>1, <1>u DEF LoopInv, LoopsIdle, Busy
<1>5. CurrentInv'
  BY <1>1, <1>u DEF CurrentInv, Current, LoopsIdle, Busy
<1>6. EveryCallIsPaid'
  BY <1>1, <1>u DEF EveryCallIsPaid, Present
<1>7. ReportInv'
  BY <1>u DEF ReportInv, ReportTellsTheObservations, Live, Present
<1>8. QED
  BY <1>3, <1>4, <1>5, <1>6, <1>7 DEF Parts
-----------------------------------------------------------------------------
(* Every action keeps the invariant.                                       *)

LEMMA PcAfter ==
  ASSUME TypeOK, NEW v \in Versions, NEW q, Goto(v, q)
  PROVE  pc'[v] = q /\ \A u \in Versions \ {v} : pc'[u] = pc[u]
  BY DEF Goto, TypeOK, WorkerTypeOK

LEMMA PcAfterCatch ==
  ASSUME TypeOK, NEW v \in Versions, NEW kind, Catch(v, kind)
  PROVE  pc'[v] \in {"failing", "ended"} /\ \A u \in Versions \ {v} : pc'[u] = pc[u]
  BY DEF Catch, Goto, TypeOK, WorkerTypeOK

LEMMA MainStepKeeps ==
  ASSUME IInv, NEW v \in Versions, MainStep(v) \/ MainFails(v) \/ Heartbeat(v) \/ HeartbeatFails(v),
         UNCHANGED call
  PROVE  Parts'
<1> USE DEF rowVars, leaseVars, resultVars
<1>t. TypeOK
  BY DEF IInv
<1>1. CASE LoadCredential(v)
  BY <1>t, <1>1, PcAfter, PcAfterCatch, MainMoves DEF LoadCredential, MainMove
<1>2. CASE EnsureMain(v)
  BY <1>t, <1>2, PcAfter, MainMoves DEF EnsureMain, RenewLease, MainMove
<1>3. CASE EnterRunning(v)
  <2>1. Current(v)
    BY <1>3, HeldIsCurrent DEF EnterRunning, IInv
  <2>2. status' = "running" /\ UNCHANGED <<holder, leaseVersion, attempts, observed, report>>
    BY <1>3 DEF EnterRunning, MoveTo, FinishedStatus
  <2>3. QED
    BY <1>t, <1>3, <2>1, <2>2, PcAfter, MainMoves
    DEF EnterRunning, MainMove, Current, ActiveStatus
<1>4. CASE StartLoops(v)
  BY <1>4, LoopsStart
<1>5. CASE CollectRows(v)
  BY <1>5, RowsCollected
<1>6. CASE EnterScoring(v)
  <2>1. Current(v)
    BY <1>6, HeldIsCurrent DEF EnterScoring, IInv
  <2>2. status' = "scoring" /\ UNCHANGED <<holder, leaseVersion, attempts, observed, report>>
    BY <1>6 DEF EnterScoring, MoveTo, FinishedStatus
  <2>3. QED
    BY <1>t, <1>6, <2>1, <2>2, PcAfter, MainMoves
    DEF EnterScoring, MainMove, Current, ActiveStatus
<1>7. CASE Finalize(v)
  BY <1>7, RunIsScored
<1>8. CASE MainRefused(v)
  BY <1>t, <1>8, PcAfterCatch, MainMoves DEF MainRefused, MainMove
<1>9. CASE ReadLatest(v)
  BY <1>t, <1>9, PcAfter, MainMoves DEF ReadLatest, MainMove
<1>10. CASE FailFinalize(v)
  <2>1. CASE /\ Answer(v) = "held" /\ CanTransition(status, "failed")
             /\ FinalizeRow("failed", NoRows, NoRows)
             /\ Goto(v, "cleanup")
    BY <1>10, <2>1, RunFails DEF FailFinalize
  <2>2. CASE Answer(v) = "lost" /\ Goto(v, "ended") /\ UNCHANGED rowVars
    BY <1>t, <1>10, <2>2, PcAfter, MainMoves DEF FailFinalize, MainMove
  <2>3. QED
    BY <1>10, <2>1, <2>2 DEF FailFinalize
<1>11. CASE FailFinalizeThrows(v)
  <2>1. owner[v] \in Workers
    BY <1>11, BegunIsClaimed DEF FailFinalizeThrows, IInv
  <2>2. QED
    BY <1>11, <2>1, WorkerStops DEF FailFinalizeThrows
<1>12. CASE CleanupCredential(v)
  BY <1>t, <1>12, PcAfter, MainMoves DEF CleanupCredential, MainMove
<1>13. CASE MainFails(v)
  BY <1>t, <1>13, PcAfterCatch, MainMoves DEF MainFails, MainMove, Executing
<1>14. CASE Heartbeat(v)
  BY <1>14, MainMoves DEF Heartbeat, RenewLease
<1>15. CASE HeartbeatFails(v)
  BY <1>15, MainMoves DEF HeartbeatFails
<1>16. QED
  BY <1>1, <1>2, <1>3, <1>4, <1>5, <1>6, <1>7, <1>8, <1>9, <1>10, <1>11, <1>12, <1>13,
     <1>14, <1>15
  DEF MainStep

LEMMA ThrowKeeps ==
  ASSUME IInv, NEW v \in Versions, NEW k \in Slots, NEW kind, Throw(v, k, kind),
         task[v][k].pc # "idle",
         UNCHANGED <<rowVars, owner, rows, taken, sent, call>>
  PROVE  Parts'
<1>1. \/ UNCHANGED pc /\ pc[v] # "jobs"
      \/ pc'[v] \in {"failing", "ended"} /\ \A u \in Versions \ {v} : pc'[u] = pc[u]
  BY PcAfterCatch DEF Throw, IInv
<1>2. QED
  BY <1>1, LoopThrows DEF Throw, rowVars, leaseVars, resultVars

LEMMA LoopStepKeeps ==
  ASSUME IInv, NEW v \in Versions, NEW k \in Slots,
         LoopStep(v, k) \/ LoopFails(v, k) \/ DelayAborted(v, k), UNCHANGED call
  PROVE  Parts'
<1> USE DEF rowVars, leaseVars, resultVars
<1>t. TypeOK /\ task[v][k] \in Task
  BY DEF IInv, TypeOK, WorkerTypeOK
<1>1. CASE PickJob(v, k)
  BY <1>1, LoopPicks
<1>2. CASE AppendProgress(v, k)
  <2>1. CASE task[v][k].pc = "announce" /\ SetTask(v, k, [task[v][k] EXCEPT !.pc = "ensure"])
    <3> DEFINE t == [task[v][k] EXCEPT !.pc = "ensure"]
    <3>1. t.pc = "ensure" /\ t.job = task[v][k].job /\ Busy(v, k)
      BY <1>t, <2>1 DEF Task, Busy, TaskPc
    <3> HIDE DEF t
    <3>2. QED
      BY <1>2, <2>1, <3>1, LoopGoesOn DEF AppendProgress, t
  <2>2. CASE task[v][k].pc = "progress" /\ SetTask(v, k, [IdleTask EXCEPT !.pc = "pick"])
    BY <1>2, <2>2, LoopRests DEF AppendProgress
  <2>3. QED
    BY <1>2, <2>1, <2>2 DEF AppendProgress
<1>3. CASE EnsureAttempt(v, k)
  <2>1. CASE RenewLease /\ SetTask(v, k, [task[v][k] EXCEPT !.pc = "reserve"]) /\ UNCHANGED pc
    <3> DEFINE t == [task[v][k] EXCEPT !.pc = "reserve"]
    <3>1. t.pc = "reserve" /\ t.job = task[v][k].job /\ Busy(v, k)
      BY <1>t, <1>3 DEF EnsureAttempt, Task, Busy, TaskPc
    <3>2. SetTask(v, k, t)
      BY <2>1
    <3> HIDE DEF t
    <3>3. QED
      BY <1>3, <2>1, <3>1, <3>2, LoopGoesOn DEF EnsureAttempt, RenewLease
  <2>2. CASE /\ SetTask(v, k, IdleTask)
             /\ pc' = [pc EXCEPT ![v] = IF @ = "jobs" THEN "ended" ELSE @]
             /\ UNCHANGED rowVars
    <3>1. /\ pc'[v] = IF pc[v] = "jobs" THEN "ended" ELSE pc[v]
          /\ \A u \in Versions \ {v} : pc'[u] = pc[u]
      BY <1>t, <2>2 DEF TypeOK, WorkerTypeOK
    <3>2. QED
      BY <1>3, <2>2, <3>1, LoopThrows DEF EnsureAttempt
  <2>3. QED
    BY <1>3, <2>1, <2>2 DEF EnsureAttempt
<1>4. CASE Reserve(v, k)
  <2>1. CASE /\ attempts[task[v][k].job] < MaxAttempts
             /\ ReserveAttempt(task[v][k].job)
             /\ SetTask(v, k, [task[v][k] EXCEPT !.pc = "send",
                                                 !.ticket = attempts[task[v][k].job] + 1])
    BY <1>4, <2>1, LoopReserves
  <2>2. CASE /\ attempts[task[v][k].job] >= MaxAttempts
             /\ SetTask(v, k, [task[v][k] EXCEPT !.pc = "save", !.out = "error"])
             /\ UNCHANGED rowVars
    <3> DEFINE t == [task[v][k] EXCEPT !.pc = "save", !.out = "error"]
    <3>1. t.pc = "save" /\ t.out = "error" /\ t.job = task[v][k].job /\ Busy(v, k)
      BY <1>t, <1>4 DEF Reserve, Task, Busy, TaskPc
    <3>2. attempts[t.job] > 0
      BY <1>t, <1>4, <2>2, <3>1, AttemptsAssumption DEF Reserve, Task, TypeOK, StoreTypeOK
    <3>3. SetTask(v, k, t)
      BY <2>2
    <3> HIDE DEF t
    <3>4. QED
      BY <1>4, <2>2, <3>1, <3>2, <3>3, LoopGoesOn DEF Reserve
  <2>3. QED
    BY <1>4, <2>1, <2>2 DEF Reserve
<1>5. CASE Send(v, k)
  BY <1>5, LoopSends
<1>6. CASE Receive(v, k)
  <2>1. PICK t \in Outcomes(v, k) : SetTask(v, k, t)
    BY <1>6 DEF Receive
  <2>2. /\ t.pc \in {"save", "ensure"} /\ t.job = task[v][k].job
        /\ t.pc = "save" => t.out # "none"
    BY <1>t, <2>1 DEF Outcomes, Task
  <2>3. Busy(v, k) /\ (Current(v) => attempts[task[v][k].job] > 0)
    BY <1>6 DEF Receive, Busy, TaskPc, IInv, CurrentInv
  <2>4. QED
    BY <1>6, <2>1, <2>2, <2>3, LoopGoesOn DEF Receive
<1>7. CASE RequestAborted(v, k)
  BY <1>7, ThrowKeeps DEF RequestAborted
<1>8. CASE SaveObservation(v, k)
  BY <1>8, LoopSaves
<1>9. CASE LoopRefused(v, k)
  BY <1>9, ThrowKeeps DEF LoopRefused
<1>10. CASE LoopFails(v, k)
  BY <1>10, ThrowKeeps DEF LoopFails
<1>11. CASE DelayAborted(v, k)
  BY <1>11, ThrowKeeps DEF DelayAborted
<1>12. QED
  BY <1>1, <1>2, <1>3, <1>4, <1>5, <1>6, <1>7, <1>8, <1>9, <1>10, <1>11 DEF LoopStep

LEMMA WorkerKeeps ==
  ASSUME IInv, WorkerNext, UNCHANGED apiVars
  PROVE  Parts'
<1>0. UNCHANGED call
  BY DEF apiVars
<1>1. CASE LeaseExpires
  <2>1. UNCHANGED <<status, holder, leaseVersion, attempts, observed, report,
                    owner, pc, rows, taken, task, sent, call>>
    BY <1>0, <1>1 DEF LeaseExpires, resultVars, execVars
  <2>2. PICK v : v \in Versions
    BY ClaimsAssumption DEF Versions
  <2>3. QED
    BY <2>1, <2>2, MainMoves
<1>2. ASSUME NEW w \in Workers, Crash(w) PROVE Parts'
  BY <1>0, <1>2, WorkerStops DEF Crash
<1>3. QED
  BY <1>0, <1>1, <1>2, RunIsClaimed, MainStepKeeps, LoopStepKeeps DEF WorkerNext
-----------------------------------------------------------------------------
(* The handlers and the sweep.  They leave the workers alone, so what they *)
(* can disturb is what the parts say of the row and of the calls.          *)

LEMMA RowMoves ==
  ASSUME IInv, UNCHANGED execVars, UNCHANGED <<leaseVersion, attempts, observed>>,
         \/ UNCHANGED <<status, holder>>
         \/ status = "none" /\ status' = "queued" /\ UNCHANGED holder
         \/ Present /\ status' \notin ActiveStatus \cup {"none", "queued"} /\ holder' = NoWorker
  PROVE  LeaseInv' /\ LoopInv' /\ CurrentInv' /\ EveryCallIsPaid'
<1> USE DEF IInv, execVars
<1>1. LeaseInv'
  BY DEF LeaseInv, LoopsIdle, ActiveStatus
<1>2. LoopInv'
  BY DEF LoopInv, LoopsIdle, Busy
<1>3. CurrentInv'
  BY DEF CurrentInv, Current, LoopsIdle, Busy, ActiveStatus
<1>4. EveryCallIsPaid'
  <2>1. CASE status = "none"
    <3>1. \A u \in Versions, i \in Slots : task[u][i].pc = "idle"
      BY <2>1, ClaimsAssumption DEF LeaseInv, LoopsIdle, Versions, TypeOK, StoreTypeOK
    <3>2. \A j \in Jobs : sent[j] = {}
      BY <2>1 DEF LeaseInv
    <3>3. QED
      BY <3>1, <3>2 DEF EveryCallIsPaid
  <2>2. CASE status # "none"
    BY <2>2 DEF EveryCallIsPaid, Present
  <2>3. QED
    BY <2>1, <2>2
<1>5. QED
  BY <1>1, <1>2, <1>3, <1>4

LEMMA RowErased ==
  ASSUME IInv, UNCHANGED execVars, PurgeRow,
         \A c \in Calls : call'[c] = call[c] \/ call'[c].pc = "done"
  PROVE  Parts'
<1> USE DEF IInv, execVars, PurgeRow
<1>1. LeaseInv'
  BY DEF LeaseInv, LoopsIdle, ActiveStatus, NoLease
<1>2. LoopInv'
  BY DEF LoopInv, LoopsIdle, Busy
<1>3. CurrentInv'
  BY DEF CurrentInv, Current, ActiveStatus
<1>4. EveryCallIsPaid'
  BY DEF EveryCallIsPaid, Present, RunStatus
<1>5. ReportInv'
  BY DEF ReportInv, ReportTellsTheObservations, Live, ActiveStatus, Present, RunStatus
<1>6. QED
  BY <1>1, <1>2, <1>3, <1>4, <1>5 DEF Parts

\* A handler that leaves the row alone.
LEMMA CallMoves ==
  ASSUME IInv, UNCHANGED execVars, UNCHANGED rowVars,
         \A c \in Calls :
           \/ call'[c] = call[c]
           \/ /\ status # "none"
              /\ call'[c].pc = "getReport" /\ call'[c].seen = "cancelled"
                   => status \in {"cancelled", "deleted", "purged"}
              /\ call'[c].pc \in {"listRows", "saveReport"}
                   => status \in {"cancelled", "deleted", "purged"}
              /\ call'[c].pc = "saveReport" => call'[c].rows = observed
              /\ call'[c].pc = "delete" => status \in TerminalStatus
  PROVE  Parts'
<1> USE DEF rowVars, leaseVars, resultVars
<1>1. LeaseInv' /\ LoopInv' /\ CurrentInv' /\ EveryCallIsPaid'
  BY RowMoves
<1>2. ReportInv'
  BY DEF IInv, ReportInv, ReportTellsTheObservations, Live, Present
<1>3. QED
  BY <1>1, <1>2 DEF Parts

LEMMA CallAfter ==
  ASSUME TypeOK, NEW c \in Calls
  PROVE  /\ CallEnds(c) => call'[c].pc = "done" /\ \A d \in Calls \ {c} : call'[d] = call[d]
         /\ \A q : CallTo(c, q) => /\ call'[c].pc = q
                                   /\ call'[c].seen = call[c].seen /\ call'[c].rows = call[c].rows
                                   /\ \A d \in Calls \ {c} : call'[d] = call[d]
  BY DEF CallEnds, CallTo, IdleCall, TypeOK, ApiTypeOK

\* A call that ends without touching the row.
LEMMA CallGoes ==
  ASSUME IInv, UNCHANGED execVars, UNCHANGED rowVars, NEW c \in Calls,
         call[c].pc # "idle", CallEnds(c)
  PROVE  Parts'
<1>1. call'[c].pc = "done" /\ (\A d \in Calls \ {c} : call'[d] = call[d]) /\ status # "none"
  BY CallAfter DEF IInv, ReportInv
<1>2. QED
  BY <1>1, CallMoves

LEMMA OwnedRunKeeps ==
  ASSUME IInv, UNCHANGED execVars, NEW c \in Calls, NEW op, OwnedRun(c, op)
  PROVE  Parts'
<1>1. \A d \in Calls \ {c} : call'[d] = call[d]
  BY DEF OwnedRun, IInv, TypeOK, ApiTypeOK
<1>2. /\ call'[c].pc \notin {"listRows", "saveReport"}
      /\ call'[c].pc = "getReport" => call'[c].seen = status
      /\ call'[c].pc = "delete" => status \in TerminalStatus
  BY DEF OwnedRun, IInv, TypeOK, ApiTypeOK
<1>3. QED
  BY <1>1, <1>2, CallMoves DEF OwnedRun

LEMMA OwnerTransitionKeeps ==
  ASSUME IInv, UNCHANGED execVars, NEW c \in Calls, OwnerTransition(c)
  PROVE  Parts'
<1> DEFINE target == TransitionTarget(c)
<1>1. target \in {"timed_out", "cancelled", "deleted"}
  BY DEF OwnerTransition, TransitionTarget
<1>2. CASE ~CanMoveTo(target)
  BY <1>2, CallGoes DEF OwnerTransition
<1>3. CASE CanMoveTo(target)
  <2>0. Present /\ (status = target \/ CanTransition(status, target))
    BY <1>3 DEF CanMoveTo
  <2>1. /\ status' = target
        /\ UNCHANGED <<leaseVersion, attempts, observed, report>>
        /\ holder' = NoWorker
    BY <1>1, <1>3, <2>0 DEF OwnerTransition, MoveTo, NoLease, leaseVars, resultVars, IInv, LeaseInv,
       FinishedStatus, ActiveStatus, CanTransition, TransitionsFrom
  <2>2. LeaseInv' /\ LoopInv' /\ CurrentInv' /\ EveryCallIsPaid'
    BY <1>1, <2>0, <2>1, RowMoves DEF ActiveStatus
  <2>3. /\ \A d \in Calls \ {c} : call'[d] = call[d]
        /\ call'[c].pc \in {"delete", "getReport", "deleteEnvelope"}
        /\ call'[c].seen = target
        /\ call'[c].pc = "getReport" => target = "cancelled"
    BY <1>1, <1>3 DEF OwnerTransition, IInv, TypeOK, ApiTypeOK
  <2>4. status \in {"cancelled", "deleted", "purged"} => status' \in {"cancelled", "deleted", "purged"}
    BY <1>1, <2>0, <2>1 DEF CanTransition, TransitionsFrom, FinishedStatus
  <2>5. ReportTellsTheObservations'
    BY <1>1, <2>0, <2>1
    DEF IInv, ReportInv, ReportTellsTheObservations, CanTransition, TransitionsFrom,
        FinishedStatus, Live, ActiveStatus
  <2>6. status' = "timed_out" => report' = NoReport
    BY <1>1, <2>0, <2>1
    DEF IInv, ReportInv, CanTransition, TransitionsFrom, FinishedStatus, Live, ActiveStatus
  <2>7. ReportInv'
    BY <1>1, <2>0, <2>1, <2>3, <2>4, <2>5, <2>6
    DEF IInv, ReportInv, Live, ActiveStatus, Present, TerminalStatus, FinishedStatus
  <2>8. QED
    BY <2>2, <2>7 DEF Parts
<1>4. QED
  BY <1>2, <1>3

LEMMA FileCancelReportKeeps ==
  ASSUME IInv, UNCHANGED execVars, NEW c \in Calls, FileCancelReport(c)
  PROVE  Parts' /\ (Present /\ report = NoReport =>
                      report' = [status |-> "cancelled", rows |-> observed])
<1>0. call[c].pc = "saveReport" /\ status \in {"cancelled", "deleted", "purged"}
      /\ (Present => call[c].rows = observed)
  BY DEF FileCancelReport, IInv, ReportInv
<1>1. CASE Present /\ report = NoReport
  <2>1. /\ report' = [status |-> "cancelled", rows |-> observed]
        /\ UNCHANGED <<status, holder, leaseVersion, attempts, observed>>
    BY <1>0, <1>1 DEF FileCancelReport, SaveReport, leaseVars
  <2>2. call'[c].pc = "dropEnvelope" /\ \A d \in Calls \ {c} : call'[d] = call[d]
    BY <1>1, CallAfter DEF FileCancelReport, IInv
  <2>3. LeaseInv' /\ LoopInv' /\ CurrentInv' /\ EveryCallIsPaid'
    BY <2>1, RowMoves
  <2>4. ReportInv'
    BY <1>0, <1>1, <2>1, <2>2
    DEF IInv, ReportInv, ReportTellsTheObservations, NoReport, Live, ActiveStatus, Present, RunStatus
  <2>5. QED
    BY <2>1, <2>3, <2>4 DEF Parts
<1>2. CASE ~Present
  BY <1>0, <1>2, CallGoes DEF FileCancelReport
<1>3. CASE Present /\ report # NoReport
  <2>1. call'[c].pc = "dropEnvelope" /\ \A d \in Calls \ {c} : call'[d] = call[d]
    BY <1>3, CallAfter DEF FileCancelReport, IInv
  <2>2. QED
    BY <1>0, <1>3, <2>1, CallMoves DEF FileCancelReport
<1>4. QED
  BY <1>1, <1>2, <1>3

LEMMA CallStepKeeps ==
  ASSUME IInv, UNCHANGED execVars, NEW c \in Calls, CallStep(c)
  PROVE  Parts'
<1>t. TypeOK
  BY DEF IInv
<1>1. CASE OwnerTransition(c)
  BY <1>1, OwnerTransitionKeeps
<1>2. CASE CheckReport(c)
  <2>1. /\ call'[c].pc \in {"listRows", "dropEnvelope"}
        /\ call'[c].pc = "listRows" => call[c].seen = "cancelled"
        /\ \A d \in Calls \ {c} : call'[d] = call[d]
    BY <1>t, <1>2, CallAfter DEF CheckReport
  <2>2. QED
    BY <1>2, <2>1, CallMoves DEF CheckReport, IInv, ReportInv
<1>3. CASE ListRows(c)
  <2>1. /\ call'[c].pc = "saveReport" /\ call'[c].rows = observed
        /\ \A d \in Calls \ {c} : call'[d] = call[d]
    BY <1>t, <1>3 DEF ListRows, TypeOK, ApiTypeOK
  <2>2. QED
    BY <1>3, <2>1, CallMoves DEF ListRows, IInv, ReportInv
<1>4. CASE FileCancelReport(c)
  BY <1>4, FileCancelReportKeeps
<1>5. CASE DropCredential(c)
  <2>1. /\ call'[c].pc \in {"done", "purge"}
        /\ \A d \in Calls \ {c} : call'[d] = call[d]
    BY <1>t, <1>5, CallAfter DEF DropCredential
  <2>2. QED
    BY <1>5, <2>1, CallMoves DEF DropCredential, IInv, ReportInv
<1>6. CASE PurgeRun(c)
  BY <1>t, <1>6, CallAfter, RowErased DEF PurgeRun
<1>7. QED
  BY <1>1, <1>2, <1>3, <1>4, <1>5, <1>6 DEF CallStep

LEMMA ApiKeeps ==
  ASSUME IInv, ApiNext, UNCHANGED execVars
  PROVE  Parts'
<1>1. ASSUME NEW r \in Requests, PutCredential(r) \/ CreateRefused(r) \/ DiscardEnvelope(r)
                                   \/ AbandonRequest(r)
      PROVE  Parts'
  BY <1>1, CallMoves DEF PutCredential, CreateRefused, DiscardEnvelope, AbandonRequest
<1>2. ASSUME NEW r \in Requests, CreateRun(r)
      PROVE  Parts'
  <2>1. /\ status = "none" /\ status' = "queued"
        /\ UNCHANGED <<leaseVersion, holder, attempts, observed, report, call>>
    BY <1>2 DEF CreateRun, InsertRun, leaseVars, resultVars
  <2>2. LeaseInv' /\ LoopInv' /\ CurrentInv' /\ EveryCallIsPaid'
    BY <2>1, RowMoves
  <2>3. ReportInv'
    BY <2>1 DEF IInv, ReportInv, ReportTellsTheObservations, Live
  <2>4. QED
    BY <2>2, <2>3 DEF Parts
<1>3. ASSUME NEW c \in Calls, AbandonCall(c)
      PROVE  Parts'
  BY <1>3, CallGoes DEF AbandonCall
<1>4. CASE Expire \/ SweepEnvelopes
  BY <1>4, CallMoves DEF Expire, SweepEnvelopes, apiVars
<1>5. CASE SweepRuns
  BY <1>5, RowErased DEF SweepRuns, apiVars
<1>6. QED
  BY <1>1, <1>2, <1>3, <1>4, <1>5, OwnedRunKeeps, CallStepKeeps
  DEF ApiNext, RequestStep, Sweep

LEMMA InvariantInit == Init => IInv
<1> SUFFICES ASSUME Init PROVE IInv
  OBVIOUS
<1> USE DEF Init, StoreInit, WorkerInit, ApiInit
<1>1. TypeOK
  BY TypeInit
<1>2. \A v \in Versions : v > leaseVersion /\ LoopsIdle(v)
  BY ClaimsAssumption DEF Versions, LoopsIdle, IdleTask
<1>3. LeaseInv
  BY <1>2 DEF LeaseInv, ActiveStatus
<1>4. LoopInv /\ CurrentInv
  BY DEF LoopInv, CurrentInv, Current, ActiveStatus, Busy, IdleTask
<1>5. EveryCallIsPaid
  BY DEF EveryCallIsPaid, IdleTask
<1>6. ReportInv
  BY DEF ReportInv, ReportTellsTheObservations, IdleCall
<1>7. QED
  BY <1>1, <1>3, <1>4, <1>5, <1>6 DEF IInv

LEMMA InvariantNext == IInv /\ [Next]_vars => IInv'
<1> SUFFICES ASSUME IInv, [Next]_vars PROVE IInv'
  OBVIOUS
<1>1. TypeOK'
  BY TypeNext DEF IInv
<1>2. CASE UNCHANGED vars
  BY <1>2, CallMoves, <1>1 DEF vars, apiVars, IInv, Parts
<1>3. CASE Next
  BY <1>1, <1>3, WorkerKeeps, ApiKeeps DEF Next, IInv, Parts
<1>4. QED
  BY <1>2, <1>3
-----------------------------------------------------------------------------
(* The theorems.                                                           *)

\* The lease, the loops, the stored rows and the report of a run fit each
\* other in every state, however claims, crashes, cancels and erasure
\* interleave.
THEOREM InvariantCorrect == Spec => []IInv
  BY InvariantInit, InvariantNext, PTL DEF Spec

\* No upstream call leaves that was not reserved in run_job_attempts, and no
\* reservation is spent twice (reserveAttempt before the transport call).
THEOREM EveryCallIsPaidCorrect == Spec => []EveryCallIsPaid
<1>1. IInv => EveryCallIsPaid
  BY DEF IInv
<1>2. QED
  BY <1>1, InvariantCorrect, PTL

\* The report of a run quotes what the run stored and says how it ended,
\* whether a worker or a cancel filed it.
THEOREM ReportCorrect == Spec => []ReportTellsTheObservations
<1>1. IInv => ReportTellsTheObservations
  BY DEF IInv, ReportInv
<1>2. QED
  BY <1>1, InvariantCorrect, PTL
-----------------------------------------------------------------------------
(* RunLifecycle implements RunContract.                                    *)

\* The state of the contract that a status stands for.
Abstract(s) == IF s \in Live THEN "open" ELSE s

LEMMA ContractInit == Init => Contract!Init
  BY DEF Init, StoreInit, Contract!Init, Live, ActiveStatus, NoRows, NoReport,
     Contract!Nothing, Contract!NoFiling

\* Steps that the contract does not see.
LEMMA ContractStutters ==
  ASSUME UNCHANGED <<attempts, observed, report>>,
         status' = status \/ (status \in Live /\ status' \in Live)
  PROVE  UNCHANGED Contract!contractVars
  BY DEF Contract!contractVars

LEMMA ContractMainStep ==
  ASSUME IInv, NEW v \in Versions, MainStep(v) \/ MainFails(v) \/ Heartbeat(v) \/ HeartbeatFails(v),
         UNCHANGED call
  PROVE  [Contract!Next]_(Contract!contractVars)
<1> USE DEF rowVars, leaseVars, resultVars
<1>i. TypeOK /\ LeaseInv
  BY DEF IInv
<1>1. CASE EnterRunning(v)
  <2>1. status \in Live /\ status' \in Live /\ UNCHANGED <<attempts, observed, report>>
    BY <1>i, <1>1, HeldIsCurrent DEF EnterRunning, MoveTo, Current, Live, ActiveStatus
  <2>2. QED
    BY <2>1, ContractStutters
<1>2. CASE EnterScoring(v)
  <2>1. status \in Live /\ status' \in Live /\ UNCHANGED <<attempts, observed, report>>
    BY <1>i, <1>2, HeldIsCurrent DEF EnterScoring, MoveTo, Current, Live, ActiveStatus
  <2>2. QED
    BY <2>1, ContractStutters
<1>3. CASE Finalize(v)
  <2> DEFINE s == ScoredStatus(observed)
  <2>1. /\ \A j \in Jobs : observed[j] # "none"
        /\ observed' = observed
        /\ report' = [status |-> s, rows |-> observed]
    BY <1>3, RunIsScored
  <2>2. rows[v] = observed /\ status \in Live /\ UNCHANGED attempts
    BY <1>i, <1>3, HeldIsCurrent DEF Finalize, FinalizeRow, IInv, CurrentInv, Current, Live
  <2>3. status' = s
    BY <1>3, <2>2 DEF Finalize, FinalizeRow
  <2>4. s \in {"completed", "incomplete", "failed"} /\ s \notin Live
    BY DEF ScoredStatus, Live, ActiveStatus
  <2>5. \A j \in Jobs : observed[j] \in {"ok", "error"}
    BY <1>i, <2>1 DEF TypeOK, StoreTypeOK, Outcome
  <2>6. /\ s = "completed"  => \A j \in Jobs : observed[j] = "ok"
        /\ s = "incomplete" => \E i, j \in Jobs : observed[i] = "ok" /\ observed[j] = "error"
        /\ s = "failed"     => \A j \in Jobs : observed[j] = "error"
    BY <2>5 DEF ScoredStatus
  <2>7. Contract!Conclude(s)
    BY <2>1, <2>2, <2>3, <2>4, <2>6 DEF Contract!Conclude
  <2>8. QED
    BY <2>4, <2>7 DEF Contract!Next
<1>4. CASE FailFinalize(v) /\ Answer(v) = "held"
  <2>1. /\ FinalizeRow("failed", NoRows, NoRows) /\ Goto(v, "cleanup")
        /\ observed' = observed
    BY <1>4, RunFails DEF FailFinalize
  <2>2. status \in Live
    BY <1>i, <1>4, HeldIsCurrent DEF Current, Live
  <2>3. Contract!GiveUp
    BY <2>1, <2>2
    DEF FinalizeRow, Contract!GiveUp, Contract!Nothing, NoRows, Live, ActiveStatus
  <2>4. QED
    BY <2>3 DEF Contract!Next
<1>5. CASE ~(EnterRunning(v) \/ EnterScoring(v) \/ Finalize(v) \/ (FailFinalize(v) /\ Answer(v) = "held"))
  <2>1. UNCHANGED <<status, attempts, observed, report>>
    BY <1>5
    DEF MainStep, LoadCredential, EnsureMain, RenewLease, StartLoops, CollectRows, MainRefused,
        ReadLatest, FailFinalize, FailFinalizeThrows, StopWorker, CleanupCredential, MainFails,
        Heartbeat, HeartbeatFails
  <2>2. QED
    BY <2>1, ContractStutters
<1>6. QED
  BY <1>1, <1>2, <1>3, <1>4, <1>5

LEMMA ContractLoopStep ==
  ASSUME IInv, NEW v \in Versions, NEW k \in Slots,
         LoopStep(v, k) \/ LoopFails(v, k) \/ DelayAborted(v, k), UNCHANGED call
  PROVE  [Contract!Next]_(Contract!contractVars)
<1> DEFINE j == task[v][k].job
<1> USE DEF rowVars, leaseVars, resultVars
<1>i. TypeOK /\ LeaseInv /\ task[v][k] \in Task
  BY DEF IInv, TypeOK, WorkerTypeOK
<1>1. CASE Reserve(v, k) /\ ~UNCHANGED rowVars
  <2>1. ReserveAttempt(j) /\ attempts[j] < MaxAttempts
    BY <1>1 DEF Reserve
  <2>2. Current(v) /\ task[v][k].pc = "reserve"
    BY <1>i, <1>1, HeldIsCurrent DEF Reserve
  <2>3. status \in Live /\ observed[j] = "none" /\ j \in Jobs
    BY <1>i, <2>2 DEF IInv, CurrentInv, Busy, TaskPc, Current, Live, Task
  <2>4. Contract!Charge(j)
    BY <2>1, <2>3 DEF ReserveAttempt, Contract!Charge
  <2>5. QED
    BY <2>3, <2>4 DEF Contract!Next
<1>2. CASE SaveObservation(v, k)
  <2>1. Current(v) /\ task[v][k].pc = "save"
    BY <1>i, <1>2, HeldIsCurrent DEF SaveObservation
  <2>2. observed' = [observed EXCEPT ![j] = task[v][k].out]
    BY <1>2, LoopSaves
  <2>3. /\ status \in Live /\ observed[j] = "none" /\ attempts[j] > 0 /\ j \in Jobs
        /\ task[v][k].out \in {"ok", "error"}
    BY <1>i, <2>1 DEF IInv, CurrentInv, LoopInv, Busy, TaskPc, Current, Live, Task, Outcome
  <2>4. UNCHANGED <<status, attempts, report>>
    BY <1>2 DEF SaveObservation, SaveObservations
  <2>5. Contract!Settle(j)
    BY <2>2, <2>3, <2>4 DEF Contract!Settle
  <2>6. QED
    BY <2>3, <2>5 DEF Contract!Next
<1>3. CASE ~SaveObservation(v, k) /\ ~(Reserve(v, k) /\ ~UNCHANGED rowVars)
  <2>1. UNCHANGED <<status, attempts, observed, report>>
    BY <1>3
    DEF LoopStep, PickJob, AppendProgress, EnsureAttempt, RenewLease, Send, Receive,
        RequestAborted, LoopRefused, LoopFails, DelayAborted
  <2>2. QED
    BY <2>1, ContractStutters
<1>4. QED
  BY <1>1, <1>2, <1>3

LEMMA ContractErase ==
  ASSUME PurgeRow, status # "none"
  PROVE  [Contract!Next]_(Contract!contractVars)
<1>1. Contract!Erase
  BY DEF PurgeRow, Contract!Erase, NoRows, NoReport, Contract!Nothing, Contract!NoFiling,
     Live, ActiveStatus
<1>2. QED
  BY <1>1 DEF Contract!Next

LEMMA ContractApi ==
  ASSUME IInv, ApiNext, UNCHANGED execVars
  PROVE  [Contract!Next]_(Contract!contractVars)
<1> USE DEF rowVars, leaseVars, resultVars
<1>1. ASSUME NEW r \in Requests, CreateRun(r)
      PROVE  [Contract!Next]_(Contract!contractVars)
  <2>1. Contract!Accept
    BY <1>1 DEF CreateRun, InsertRun, Contract!Accept, Live, ActiveStatus
  <2>2. QED
    BY <2>1 DEF Contract!Next
<1>2. ASSUME NEW c \in Calls, OwnerTransition(c)
      PROVE  [Contract!Next]_(Contract!contractVars)
  <2> DEFINE target == TransitionTarget(c)
  <2>1. target \in {"timed_out", "cancelled", "deleted"} /\ (target = "deleted" <=> call[c].pc = "delete")
    BY <1>2 DEF OwnerTransition, TransitionTarget
  <2>2. UNCHANGED <<attempts, observed, report>>
    BY <1>2 DEF OwnerTransition, MoveTo
  <2>3. CASE status' = status
    BY <2>2, <2>3, ContractStutters
  <2>4. CASE status' # status
    <3>1. status' = target /\ CanTransition(status, target)
      BY <1>2, <2>4 DEF OwnerTransition, MoveTo, CanMoveTo
    <3>2. CASE target = "deleted"
      <4>1. status \in FinishedStatus
        BY <1>2, <2>1, <3>1, <3>2
        DEF IInv, ReportInv, TerminalStatus, CanTransition, TransitionsFrom, FinishedStatus
      <4>2. Contract!Delete
        BY <2>2, <3>1, <3>2, <4>1
        DEF Contract!Delete, Contract!Stopped, FinishedStatus, Live, ActiveStatus
      <4>3. QED
        BY <4>2 DEF Contract!Next
    <3>3. CASE target # "deleted"
      <4>1. status \in Live
        BY <2>1, <3>1, <3>3
        DEF CanTransition, TransitionsFrom, FinishedStatus, Live, ActiveStatus
      <4>2. Contract!Stop(target)
        BY <2>1, <2>2, <3>1, <3>3, <4>1 DEF Contract!Stop, Live, ActiveStatus
      <4>3. QED
        BY <2>1, <3>3, <4>2 DEF Contract!Next
    <3>4. QED
      BY <3>2, <3>3
  <2>5. QED
    BY <2>3, <2>4
<1>3. ASSUME NEW c \in Calls, FileCancelReport(c)
      PROVE  [Contract!Next]_(Contract!contractVars)
  <2>1. CASE Present /\ report = NoReport
    <3>1. report' = [status |-> "cancelled", rows |-> observed]
      BY <1>3, <2>1, FileCancelReportKeeps
    <3>2. status \in {"cancelled", "deleted"} /\ UNCHANGED <<status, attempts, observed>>
      BY <1>3, <2>1 DEF FileCancelReport, SaveReport, IInv, ReportInv, Present, RunStatus
    <3>3. Contract!FileCancellation
      BY <2>1, <3>1, <3>2
      DEF Contract!FileCancellation, Contract!NoFiling, Contract!Nothing, NoReport, NoRows,
          Live, ActiveStatus
    <3>4. QED
      BY <3>3 DEF Contract!Next
  <2>2. CASE ~(Present /\ report = NoReport)
    BY <1>3, <2>2, ContractStutters DEF FileCancelReport
  <2>3. QED
    BY <2>1, <2>2
<1>4. ASSUME NEW c \in Calls, PurgeRun(c)
      PROVE  [Contract!Next]_(Contract!contractVars)
  BY <1>4, ContractErase DEF PurgeRun, IInv, ReportInv
<1>5. CASE SweepRuns
  BY <1>5, ContractErase DEF SweepRuns, Present, RunStatus
<1>6. CASE UNCHANGED rowVars
  BY <1>6, ContractStutters
<1>7. QED
  BY <1>1, <1>2, <1>3, <1>4, <1>5, <1>6
  DEF ApiNext, RequestStep, CallStep, Sweep, PutCredential, CreateRefused, DiscardEnvelope,
      AbandonRequest, OwnedRun, CheckReport, ListRows, DropCredential, AbandonCall, Expire,
      SweepEnvelopes

LEMMA ContractNext == IInv /\ [Next]_vars => [Contract!Next]_(Contract!contractVars)
<1> SUFFICES ASSUME IInv, [Next]_vars PROVE [Contract!Next]_(Contract!contractVars)
  OBVIOUS
<1> USE DEF rowVars, leaseVars, resultVars
<1>1. ASSUME NEW w \in Workers, Claim(w) PROVE [Contract!Next]_(Contract!contractVars)
  BY <1>1, ContractStutters DEF Claim, ClaimRow, Claimable, Live, ActiveStatus
<1>2. ASSUME NEW w \in Workers, Crash(w) PROVE [Contract!Next]_(Contract!contractVars)
  BY <1>2, ContractStutters DEF Crash, StopWorker
<1>3. CASE LeaseExpires \/ UNCHANGED vars
  BY <1>3, ContractStutters DEF LeaseExpires, vars
<1>4. CASE WorkerNext /\ UNCHANGED apiVars
  BY <1>1, <1>2, <1>3, <1>4, ContractMainStep, ContractLoopStep DEF WorkerNext, apiVars
<1>5. CASE ApiNext /\ UNCHANGED execVars
  BY <1>5, ContractApi
<1>6. QED
  BY <1>3, <1>4, <1>5 DEF Next

\* Whatever becomes of its workers and of the calls of its owner, a run does
\* what RunContract promises.
THEOREM ContractKept == Spec => KeepsContract
  BY ContractInit, ContractNext, InvariantCorrect, PTL DEF Spec, KeepsContract, Contract!Spec

\* An attempt is reserved only for a job without an observation, by whichever
\* worker (reserveAttempt under the lease, listObservations before the loops).
THEOREM NoJobIsRedoneCorrect == Spec => NoJobIsRedone
<1>1. ASSUME TypeOK, [Contract!Next]_(Contract!contractVars)
      PROVE  \A j \in Jobs : attempts'[j] > attempts[j] => observed[j] = "none"
  <2> SUFFICES ASSUME NEW j \in Jobs, attempts'[j] > attempts[j] PROVE observed[j] = "none"
    OBVIOUS
  <2>1. attempts[j] \in Nat /\ attempts \in [Jobs -> 0..MaxAttempts]
    BY <1>1, AttemptsAssumption DEF TypeOK, StoreTypeOK
  <2>2. attempts' # attempts
    BY <2>1
  <2>3. ~Contract!Erase
    BY <2>1 DEF Contract!Erase
  <2>4. PICK i \in Jobs : Contract!Charge(i)
    BY <1>1, <2>2, <2>3
    DEF Contract!Next, Contract!contractVars, Contract!Accept, Contract!Settle,
        Contract!Conclude, Contract!GiveUp, Contract!Stop, Contract!FileCancellation,
        Contract!Delete
  <2>5. QED
    BY <2>1, <2>4 DEF Contract!Charge
<1>2. IInv => TypeOK
  BY DEF IInv
<1>3. QED
  BY <1>1, <1>2, ContractNext, InvariantCorrect, PTL DEF Spec, NoJobIsRedone

\* Once a run has ended, orphaned loops, late workers and second cancels leave
\* its attempts and observations as they are until it is erased.
THEOREM EndedRunIsClosedCorrect == Spec => EndedRunIsClosed
<1>1. ASSUME TypeOK, TypeOK', [Contract!Next]_(Contract!contractVars),
             status \in TerminalStatus, status' # "purged"
      PROVE  status' \in {status, "deleted"} /\ UNCHANGED <<attempts, observed>>
  <2>1. Abstract(status) = status /\ status # "open" /\ status # "none"
    BY <1>1 DEF Abstract, Live, ActiveStatus, TerminalStatus, FinishedStatus
  <2>2. Abstract(status') \in {status', "open"} /\ Abstract(status') # "purged"
    BY <1>1 DEF Abstract
  <2>3. \/ Contract!FileCancellation \/ Contract!Delete \/ UNCHANGED Contract!contractVars
    BY <1>1, <2>1, <2>2
    DEF Abstract, Contract!Next, Contract!Accept, Contract!Charge, Contract!Settle,
        Contract!Conclude, Contract!GiveUp, Contract!Stop, Contract!Erase
  <2>4. Abstract(status') \in {status, "deleted"} /\ UNCHANGED <<attempts, observed>>
    BY <2>1, <2>3
    DEF Abstract, Contract!FileCancellation, Contract!Delete, Contract!contractVars
  <2>5. QED
    BY <2>1, <2>2, <2>4
<1>2. IInv => TypeOK
  BY DEF IInv
<1>3. QED
  BY <1>1, <1>2, ContractNext, InvariantCorrect, PTL DEF Spec, EndedRunIsClosed
-----------------------------------------------------------------------------
(* The credential and the report of a cancelled run. Of a worker's step    *)
(* they only see how the row ends, that an execution is on its way to its  *)
(* vault.delete, and which envelope goes.                                  *)

\* An execution that has ended the run goes on to delete its credential.
WorkerView ==
  /\ UNCHANGED <<handle, expired, request, call>>
  /\ envelopes' \subseteq envelopes /\ envelopes \ {handle} \subseteq envelopes'
  /\ envelopes' = envelopes \/ expired \/ \E v \in Versions : pc[v] = "cleanup"
  /\ interrupted => interrupted'
  /\ \/ UNCHANGED <<status, report>>
     \/ status \in Live /\ status' \in Live
     \/ /\ status \in Live /\ status' \in FinishedStatus \ {"cancelled"}
        /\ interrupted' \/ \E v \in Versions : pc'[v] = "cleanup"
  /\ \A v \in Versions : pc[v] = "cleanup" =>
       pc'[v] = "cleanup" \/ interrupted' \/ handle \notin envelopes'
  /\ \A v \in Versions : pc'[v] = "cleanup" => pc[v] = "cleanup" \/ status' \in TerminalStatus

\* The steps that leave the vault alone, and the row as the view sees it.
LEMMA ViewOfQuiet ==
  ASSUME UNCHANGED <<handle, apiVars, vaultVars>>,
         \/ UNCHANGED <<status, report>>
         \/ status \in Live /\ status' \in Live,
         \A v \in Versions : pc'[v] = "cleanup" <=> pc[v] = "cleanup"
  PROVE  WorkerView
  BY DEF WorkerView, apiVars, vaultVars

LEMMA ViewOfPc ==
  ASSUME UNCHANGED <<handle, apiVars, vaultVars>>,
         \/ UNCHANGED <<status, report>>
         \/ status \in Live /\ status' \in Live,
         NEW v \in Versions, pc[v] # "cleanup", pc'[v] # "cleanup",
         \A u \in Versions \ {v} : pc'[u] = pc[u]
  PROVE  WorkerView
<1>1. \A u \in Versions : pc'[u] = "cleanup" <=> pc[u] = "cleanup"
  OBVIOUS
<1>2. QED
  BY <1>1, ViewOfQuiet

\* A worker process that stops before its vault.delete is remembered.
LEMMA ViewOfStop ==
  ASSUME TypeOK, NEW w, StopWorker(w), UNCHANGED apiVars
  PROVE  WorkerView
<1>1. /\ UNCHANGED <<status, handle, report, envelopes, expired, request, call>>
      /\ interrupted' = (interrupted \/ \E v \in Versions : owner[v] = w /\ pc[v] = "cleanup")
      /\ \A v \in Versions : pc'[v] = IF owner[v] = w THEN "ended" ELSE pc[v]
  BY DEF StopWorker, rowVars, resultVars, apiVars
<1>2. \A v \in Versions : pc[v] = "cleanup" => pc'[v] = "cleanup" \/ interrupted'
  BY <1>1
<1>3. \A v \in Versions : pc'[v] = "cleanup" => pc[v] = "cleanup"
  BY <1>1
<1>4. interrupted => interrupted'
  BY <1>1
<1>5. QED
  BY <1>1, <1>2, <1>3, <1>4 DEF WorkerView

LEMMA ViewOfMainStep ==
  ASSUME IInv, NEW v \in Versions, MainStep(v) \/ MainFails(v) \/ Heartbeat(v) \/ HeartbeatFails(v),
         UNCHANGED apiVars
  PROVE  WorkerView
<1> USE DEF rowVars, leaseVars, resultVars, vaultVars, apiVars
<1>t. TypeOK
  BY DEF IInv
<1>1. CASE LoadCredential(v)
  <2>1. /\ envelopes' = envelopes \/ (expired /\ envelopes' = envelopes \ {handle})
        /\ UNCHANGED <<handle, expired, interrupted, status, report>>
    BY <1>1 DEF LoadCredential, ReadEnvelope, EnvelopeReadable
  <2>2. /\ pc[v] = "load" /\ pc'[v] # "cleanup"
        /\ \A u \in Versions \ {v} : pc'[u] = pc[u]
    BY <1>t, <1>1, PcAfter, PcAfterCatch DEF LoadCredential
  <2>3. \A u \in Versions : pc'[u] = "cleanup" <=> pc[u] = "cleanup"
    BY <2>2
  <2>4. QED
    BY <2>1, <2>3 DEF WorkerView
<1>2. CASE EnsureMain(v)
  <2>1. /\ pc[v] # "cleanup" /\ pc'[v] # "cleanup"
        /\ \A u \in Versions \ {v} : pc'[u] = pc[u]
    BY <1>t, <1>2, PcAfter DEF EnsureMain
  <2>2. UNCHANGED <<handle, status, report>>
    BY <1>2 DEF EnsureMain, RenewLease
  <2>3. QED
    BY <1>2, <2>1, <2>2, ViewOfPc DEF EnsureMain
<1>3. CASE EnterRunning(v)
  <2>1. Current(v)
    BY <1>3, HeldIsCurrent DEF EnterRunning, IInv
  <2>2. status \in Live /\ status' \in Live /\ UNCHANGED handle
    BY <1>3, <2>1 DEF EnterRunning, MoveTo, Current, Live, ActiveStatus
  <2>3. QED
    BY <1>t, <1>3, <2>2, PcAfter, ViewOfPc DEF EnterRunning
<1>4. CASE StartLoops(v)
  BY <1>t, <1>4, PcAfter, ViewOfPc DEF StartLoops
<1>5. CASE CollectRows(v)
  BY <1>t, <1>5, PcAfter, ViewOfPc DEF CollectRows
<1>6. CASE EnterScoring(v)
  <2>1. Current(v)
    BY <1>6, HeldIsCurrent DEF EnterScoring, IInv
  <2>2. status \in Live /\ status' \in Live /\ UNCHANGED handle
    BY <1>6, <2>1 DEF EnterScoring, MoveTo, Current, Live, ActiveStatus
  <2>3. QED
    BY <1>t, <1>6, <2>2, PcAfter, ViewOfPc DEF EnterScoring
<1>7. CASE Finalize(v)
  <2>1. Current(v)
    BY <1>7, HeldIsCurrent DEF Finalize, IInv
  <2>2. /\ status \in Live
        /\ status' \in FinishedStatus \ {"cancelled"}
        /\ UNCHANGED <<handle, expired, envelopes, request, call>>
    BY <1>7, <2>1 DEF Finalize, FinalizeRow, ScoredStatus, Current, Live, FinishedStatus
  <2>3. /\ pc[v] = "finalize"
        /\ \A u \in Versions \ {v} : pc'[u] = pc[u]
        /\ \/ pc'[v] = "cleanup" /\ UNCHANGED interrupted
           \/ interrupted' = TRUE
    BY <1>t, <1>7, PcAfter, PcAfterCatch DEF Finalize
  <2>4. QED
    BY <2>2, <2>3 DEF WorkerView, TerminalStatus
<1>8. CASE MainRefused(v)
  BY <1>t, <1>8, PcAfterCatch, ViewOfPc DEF MainRefused
<1>9. CASE ReadLatest(v)
  BY <1>t, <1>9, PcAfter, ViewOfPc DEF ReadLatest
<1>10. CASE FailFinalize(v)
  <2>1. CASE /\ Answer(v) = "held" /\ CanTransition(status, "failed")
             /\ FinalizeRow("failed", NoRows, NoRows)
             /\ Goto(v, "cleanup")
    <3>1. Current(v)
      BY <2>1, HeldIsCurrent DEF IInv
    <3>2. /\ status \in Live
          /\ status' \in FinishedStatus \ {"cancelled"}
          /\ UNCHANGED <<handle, vaultVars, request, call>>
      BY <1>10, <2>1, <3>1 DEF FailFinalize, FinalizeRow, Current, Live, FinishedStatus
    <3>3. pc'[v] = "cleanup" /\ \A u \in Versions \ {v} : pc'[u] = pc[u]
      BY <1>t, <2>1, PcAfter
    <3>4. QED
      BY <3>2, <3>3 DEF WorkerView, TerminalStatus
  <2>2. CASE Answer(v) = "lost" /\ Goto(v, "ended") /\ UNCHANGED rowVars
    BY <1>t, <1>10, <2>2, PcAfter, ViewOfPc DEF FailFinalize
  <2>3. QED
    BY <1>10, <2>1, <2>2 DEF FailFinalize
<1>11. CASE FailFinalizeThrows(v)
  BY <1>t, <1>11, ViewOfStop DEF FailFinalizeThrows
<1>12. CASE CleanupCredential(v)
  <2>1. /\ pc[v] = "cleanup" /\ pc'[v] = "ended"
        /\ \A u \in Versions \ {v} : pc'[u] = pc[u]
        /\ envelopes' = envelopes \ {handle}
        /\ UNCHANGED <<handle, expired, interrupted, status, report>>
    BY <1>t, <1>12, PcAfter DEF CleanupCredential, DeleteEnvelope
  <2>2. QED
    BY <2>1 DEF WorkerView
<1>13. CASE MainFails(v)
  BY <1>t, <1>13, PcAfterCatch, ViewOfPc DEF MainFails, Executing
<1>14. CASE Heartbeat(v)
  BY <1>14, ViewOfQuiet DEF Heartbeat, RenewLease
<1>15. CASE HeartbeatFails(v)
  BY <1>15, ViewOfQuiet DEF HeartbeatFails
<1>16. QED
  BY <1>1, <1>2, <1>3, <1>4, <1>5, <1>6, <1>7, <1>8, <1>9, <1>10, <1>11, <1>12, <1>13,
     <1>14, <1>15
  DEF MainStep

\* A loop ends the main flow while that waits for it, or not at all.
LEMMA ViewOfLoopStep ==
  ASSUME IInv, NEW v \in Versions, NEW k \in Slots,
         LoopStep(v, k) \/ LoopFails(v, k) \/ DelayAborted(v, k), UNCHANGED apiVars
  PROVE  WorkerView
<1> USE DEF rowVars, leaseVars, resultVars
<1>1. UNCHANGED <<status, handle, report, vaultVars>>
  BY DEF LoopStep, LoopFails, DelayAborted, PickJob, AppendProgress, EnsureAttempt, RenewLease,
     Reserve, ReserveAttempt, Send, Receive, RequestAborted, SaveObservation, SaveObservations,
     LoopRefused
<1>2. \/ UNCHANGED pc
      \/ \E kind : pc[v] = "jobs" /\ Catch(v, kind)
      \/ pc' = [pc EXCEPT ![v] = IF @ = "jobs" THEN "ended" ELSE @]
  BY DEF LoopStep, LoopFails, DelayAborted, PickJob, AppendProgress, EnsureAttempt,
     Reserve, Send, Receive, RequestAborted, SaveObservation, LoopRefused, Throw
<1>3. CASE UNCHANGED pc
  BY <1>1, <1>3, ViewOfQuiet
<1>4. ASSUME NEW kind, pc[v] = "jobs", Catch(v, kind) PROVE WorkerView
  BY <1>1, <1>4, PcAfterCatch, ViewOfPc DEF IInv
<1>5. CASE pc' = [pc EXCEPT ![v] = IF @ = "jobs" THEN "ended" ELSE @]
  <2>1. \A u \in Versions : pc'[u] = "cleanup" <=> pc[u] = "cleanup"
    BY <1>5 DEF IInv, TypeOK, WorkerTypeOK
  <2>2. QED
    BY <1>1, <2>1, ViewOfQuiet
<1>6. QED
  BY <1>2, <1>3, <1>4, <1>5

LEMMA ViewOfWorkers ==
  ASSUME IInv, WorkerNext, UNCHANGED apiVars
  PROVE  WorkerView
<1>1. CASE LeaseExpires
  BY <1>1, ViewOfQuiet DEF LeaseExpires, resultVars, execVars
<1>2. ASSUME NEW w \in Workers, Crash(w) PROVE WorkerView
  BY <1>2, ViewOfStop DEF Crash, IInv
<1>3. ASSUME NEW w \in Workers, Claim(w) PROVE WorkerView
  <2>1. /\ status \in Live /\ status' \in Live
        /\ UNCHANGED <<handle, vaultVars>>
    BY <1>3 DEF Claim, ClaimRow, Claimable, Live, ActiveStatus
  <2>2. /\ leaseVersion + 1 \in Versions /\ pc[leaseVersion + 1] = "unclaimed"
        /\ Goto(leaseVersion + 1, "load")
    BY <1>3, ClaimsAssumption
    DEF Claim, ClaimRow, Claimable, Versions, IInv, TypeOK, StoreTypeOK, LeaseInv
  <2>3. QED
    BY <2>1, <2>2, PcAfter, ViewOfPc DEF IInv
<1>4. QED
  BY <1>1, <1>2, <1>3, ViewOfMainStep, ViewOfLoopStep DEF WorkerNext

LEMMA WorkersKeepCredential ==
  ASSUME IInv, CredentialInv, WorkerNext, UNCHANGED apiVars
  PROVE  CredentialInv'
<1>1. WorkerView
  BY ViewOfWorkers
<1> USE DEF WorkerView
<1>2. /\ status \in TerminalStatus \cup {"purged"} => UNCHANGED <<status, report>>
      /\ UNCHANGED <<status, report>> \/ status' \in (Live \cup FinishedStatus) \ {"cancelled"}
      /\ status = "none" => status' = "none"
  BY <1>1 DEF Live, ActiveStatus, TerminalStatus, FinishedStatus
<1>3. envelopes' = envelopes \/ expired \/ status \in TerminalStatus \cup {"purged"}
  BY <1>1 DEF CredentialInv, VaultInv
<1>4. VaultInv'
  <2>1. \A r \in Requests : request[r] = "create" => r \in envelopes' \/ expired
    BY <1>1 DEF CredentialInv, VaultInv
  <2>2. \A v \in Versions : pc'[v] = "cleanup" => status' \in TerminalStatus \cup {"purged"}
    BY <1>1, <1>2 DEF CredentialInv, VaultInv
  <2>3. status' = "none" => status = "none"
    BY <1>1 DEF Live, ActiveStatus, FinishedStatus
  <2>4. status' = "purged" => status = "purged"
    BY <1>1 DEF Live, ActiveStatus, FinishedStatus
  <2>5. \A c \in Calls : Ending(c)' = Ending(c)
    BY <1>1 DEF Ending, OwesDelete
  <2>6. \A c \in Calls : call[c].pc = "getReport" =>
          status' \in {call[c].seen, "deleted", "purged"}
    BY <1>1, <1>2 DEF CredentialInv, VaultInv, TerminalStatus
  <2>7. QED
    BY <1>1, <1>2, <2>1, <2>2, <2>3, <2>4, <2>5, <2>6 DEF CredentialInv, VaultInv, TerminalStatus
<1>5. LiveRunHasCredential'
  BY <1>1, <1>3 DEF CredentialInv, LiveRunHasCredential, Live, ActiveStatus, TerminalStatus,
     FinishedStatus
<1>6. CredentialIsReleased'
  <2>1. SUFFICES ASSUME NEW e \in envelopes', ~expired', ~interrupted',
                        request'[e] \notin {"create", "discard"}
                 PROVE  /\ e = handle'
                        /\ \/ status' \in Live
                           \/ \E v \in Versions : pc'[v] = "cleanup"
                           \/ \E c \in Calls : OwesDelete(c)'
    BY DEF CredentialIsReleased
  <2>2. /\ e = handle
        /\ \/ status \in Live
           \/ \E v \in Versions : pc[v] = "cleanup"
           \/ \E c \in Calls : OwesDelete(c)
    BY <1>1, <2>1 DEF CredentialInv, CredentialIsReleased
  <2>3. \A c \in Calls : OwesDelete(c)' = OwesDelete(c)
    BY <1>1 DEF OwesDelete
  <2>4. QED
    BY <1>1, <2>1, <2>2, <2>3
<1>7. CancelIsReported'
  BY <1>1, <1>2 DEF CredentialInv, CancelIsReported, FinishedStatus, Live, ActiveStatus
<1>8. QED
  BY <1>4, <1>5, <1>6, <1>7 DEF CredentialInv

\* The handlers. What a step does to the row and the vault, family by family.

\* The steps that leave the row, the vault and the create requests alone.
LEMMA CallAloneKeepsCredential ==
  ASSUME IInv, CredentialInv, NEW c \in Calls, UNCHANGED <<execVars, rowVars, request, vaultVars>>,
         \A d \in Calls \ {c} : call'[d] = call[d],
         call'[c].pc = "timeOut" => expired,
         Ending(c)' => status \in TerminalStatus \cup {"purged"},
         call'[c].pc = "getReport" =>
            call'[c].seen \in FinishedStatus /\ status \in {call'[c].seen, "deleted", "purged"},
         call'[c].pc \in {"deleteEnvelope", "purge"} => status \in {"deleted", "purged"},
         call'[c].pc = "purge" => handle \notin envelopes,
         OwesDelete(c) => OwesDelete(c)' \/ expired \/ handle \notin envelopes,
         call[c].pc \in {"getReport", "listRows", "saveReport"} =>
            \/ call'[c].pc \in {"getReport", "listRows", "saveReport"}
            \/ status # "cancelled" \/ report # NoReport
  PROVE  CredentialInv'
<1> USE DEF execVars, rowVars, leaseVars, resultVars, vaultVars
<1>1. VaultInv'
  BY DEF CredentialInv, VaultInv, Ending, OwesDelete
<1>2. LiveRunHasCredential'
  BY DEF CredentialInv, LiveRunHasCredential
<1>3. CredentialIsReleased'
  <2>1. SUFFICES ASSUME NEW e \in envelopes, ~expired, ~interrupted,
                        request[e] \notin {"create", "discard"}
                 PROVE  /\ e = handle
                        /\ \/ status \in Live
                           \/ \E v \in Versions : pc[v] = "cleanup"
                           \/ \E d \in Calls : OwesDelete(d)'
    BY DEF CredentialIsReleased
  <2>2. /\ e = handle
        /\ \/ status \in Live
           \/ \E v \in Versions : pc[v] = "cleanup"
           \/ \E d \in Calls : OwesDelete(d)
    BY <2>1 DEF CredentialInv, CredentialIsReleased
  <2>3. \A d \in Calls : OwesDelete(d) => OwesDelete(d)'
    BY <2>1, <2>2 DEF OwesDelete
  <2>4. QED
    BY <2>2, <2>3
<1>4. CancelIsReported'
  BY DEF CredentialInv, CancelIsReported
<1>5. QED
  BY <1>1, <1>2, <1>3, <1>4 DEF CredentialInv

LEMMA OwnedRunKeepsCredential ==
  ASSUME IInv, CredentialInv, UNCHANGED execVars, NEW c \in Calls, NEW op, OwnedRun(c, op)
  PROVE  CredentialInv'
<1>1. /\ call[c].pc = "idle" /\ UNCHANGED <<rowVars, request, vaultVars>>
      /\ \A d \in Calls \ {c} : call'[d] = call[d]
  BY DEF OwnedRun, IInv, TypeOK, ApiTypeOK
<1>2. /\ call'[c].pc \in {"done", "delete", "timeOut", "getReport", "cancel"}
      /\ call'[c].pc = "timeOut" => expired
      /\ call'[c].pc = "getReport" => /\ status \in TerminalStatus /\ status # "deleted"
                                      /\ call'[c].seen = status
  BY DEF OwnedRun, IInv, TypeOK, ApiTypeOK
<1>3. QED
  BY <1>1, <1>2, CallAloneKeepsCredential DEF Ending, OwesDelete, TerminalStatus

\* A call that ends: it owes no delete, or the process was cut off, or the
\* credential is gone.
LEMMA EndOfCallKeepsCredential ==
  ASSUME IInv, CredentialInv, NEW c \in Calls, CallEnds(c),
         UNCHANGED <<execVars, rowVars, request, vaultVars>>,
         OwesDelete(c) => expired \/ handle \notin envelopes,
         call[c].pc \in {"getReport", "listRows", "saveReport"} => status # "cancelled"
  PROVE  CredentialInv'
<1>1. call'[c].pc = "done" /\ \A d \in Calls \ {c} : call'[d] = call[d]
  BY CallAfter DEF IInv
<1>2. QED
  BY <1>1, CallAloneKeepsCredential DEF Ending, OwesDelete

LEMMA OwnerTransitionKeepsCredential ==
  ASSUME IInv, CredentialInv, UNCHANGED execVars, NEW c \in Calls, OwnerTransition(c)
  PROVE  CredentialInv'
<1> DEFINE target == TransitionTarget(c)
<1>1. /\ target \in {"timed_out", "cancelled", "deleted"}
      /\ call[c].pc \in {"timeOut", "cancel", "delete"}
      /\ target = "timed_out" => call[c].pc = "timeOut"
      /\ target = "deleted" => call[c].pc = "delete"
      /\ UNCHANGED <<request, vaultVars>>
  BY DEF OwnerTransition, TransitionTarget
<1>2. CASE ~CanMoveTo(target)
  BY <1>1, <1>2, EndOfCallKeepsCredential DEF OwnerTransition, OwesDelete
<1>3. CASE CanMoveTo(target)
  <2>1. /\ Present /\ (status = target \/ CanTransition(status, target))
        /\ status' = target /\ UNCHANGED <<handle, report>>
    BY <1>1, <1>3 DEF CanMoveTo, OwnerTransition, MoveTo, resultVars
  <2>2. /\ \A d \in Calls \ {c} : call'[d] = call[d]
        /\ call'[c].seen = target
        /\ call'[c].pc = CASE target = "timed_out" -> "delete"
                           [] target = "cancelled" -> "getReport"
                           [] target = "deleted"   -> "deleteEnvelope"
    BY <1>1, <1>3 DEF OwnerTransition, IInv, TypeOK, ApiTypeOK
  <2>3. /\ status \in {"cancelled", "deleted", "timed_out"} \cup FinishedStatus =>
              status' \in {status, "deleted"}
        /\ status # "none"
    BY <1>1, <2>1 DEF CanTransition, TransitionsFrom, FinishedStatus, Present, RunStatus
  <2>4. VaultInv'
    <3>1. \A v \in Versions : pc'[v] = "cleanup" => status' \in TerminalStatus \cup {"purged"}
      BY <1>1, <2>1 DEF TerminalStatus, FinishedStatus
    <3>2. call'[c].pc # "timeOut" /\ call'[c].pc # "purge"
      BY <1>1, <2>2
    <3>3. call'[c].pc = "getReport" =>
             call'[c].seen \in FinishedStatus /\ status' = call'[c].seen
      BY <1>1, <2>1, <2>2 DEF FinishedStatus
    <3>4. ASSUME NEW d \in Calls \ {c}
          PROVE  /\ call'[d].pc = "getReport" => call'[d].seen \in FinishedStatus
                                                 /\ status' \in {call'[d].seen, "deleted", "purged"}
                 /\ call'[d].pc \in {"deleteEnvelope", "purge"} => status' \in {"deleted", "purged"}
      <4>1. call'[d] = call[d] /\ status # "purged"
        BY <2>1, <2>2 DEF Present, RunStatus
      <4>2. /\ call[d].pc = "getReport" =>
                  call[d].seen \in FinishedStatus /\ status \in {call[d].seen, "deleted", "purged"}
            /\ call[d].pc \in {"deleteEnvelope", "purge"} => status \in {"deleted", "purged"}
        BY DEF CredentialInv, VaultInv
      <4>3. QED
        BY <2>3, <4>1, <4>2
    <3>5. QED
      BY <1>1, <2>1, <2>2, <3>1, <3>2, <3>3, <3>4
      DEF CredentialInv, VaultInv, Ending, OwesDelete, TerminalStatus, FinishedStatus, execVars,
          vaultVars
  <2>5. LiveRunHasCredential'
    BY <1>1, <2>1 DEF LiveRunHasCredential, Live, ActiveStatus
  <2>6. CredentialIsReleased'
    <3>1. SUFFICES ASSUME NEW e \in envelopes, ~expired, ~interrupted,
                          request[e] \notin {"create", "discard"}
                   PROVE  /\ e = handle
                          /\ \/ \E v \in Versions : pc[v] = "cleanup"
                             \/ \E d \in Calls : OwesDelete(d)'
      BY <1>1, <2>1 DEF CredentialIsReleased, execVars, vaultVars
    <3>2. /\ e = handle
          /\ \/ status \in Live
             \/ \E v \in Versions : pc[v] = "cleanup"
             \/ \E d \in Calls : OwesDelete(d)
      BY <3>1 DEF CredentialInv, CredentialIsReleased
    <3>3. target # "timed_out"
      BY <1>1, <3>1 DEF CredentialInv, VaultInv
    <3>4. OwesDelete(c)'
      BY <1>1, <2>2, <3>3 DEF OwesDelete
    <3>5. QED
      BY <3>2, <3>4
  <2>7. CancelIsReported'
    <3>1. status' = "cancelled" => call'[c].pc = "getReport"
      BY <1>1, <2>1, <2>2
    <3>2. QED
      BY <3>1 DEF CancelIsReported
  <2>8. QED
    BY <2>4, <2>5, <2>6, <2>7 DEF CredentialInv
<1>4. QED
  BY <1>2, <1>3

\* The row is erased once its credential is gone, or has expired.
LEMMA ErasureKeepsCredential ==
  ASSUME IInv, CredentialInv, UNCHANGED execVars, PurgeRow, UNCHANGED <<request, vaultVars>>,
         expired \/ (handle \notin envelopes /\ status \in {"deleted", "purged"}),
         \A c \in Calls : call'[c] = call[c] \/ (call'[c].pc = "done" /\ ~OwesDelete(c))
  PROVE  CredentialInv'
<1>1. status' = "purged" /\ UNCHANGED handle /\ UNCHANGED <<pc, request, envelopes, expired, interrupted>>
  BY DEF PurgeRow, execVars, vaultVars
<1>2. VaultInv'
  BY <1>1 DEF CredentialInv, VaultInv, Ending, OwesDelete
<1>3. LiveRunHasCredential' /\ CancelIsReported'
  BY <1>1 DEF LiveRunHasCredential, CancelIsReported, Live, ActiveStatus
<1>4. CredentialIsReleased'
  <2>1. \A c \in Calls : OwesDelete(c) => OwesDelete(c)'
    BY DEF OwesDelete
  <2>2. QED
    BY <1>1, <2>1 DEF CredentialInv, CredentialIsReleased, Live, ActiveStatus
<1>5. QED
  BY <1>2, <1>3, <1>4 DEF CredentialInv

LEMMA CallStepKeepsCredential ==
  ASSUME IInv, CredentialInv, UNCHANGED execVars, NEW c \in Calls, CallStep(c)
  PROVE  CredentialInv'
<1>t. TypeOK
  BY DEF IInv
<1>1. CASE OwnerTransition(c)
  BY <1>1, OwnerTransitionKeepsCredential
<1>2. CASE CheckReport(c)
  <2>1. /\ call[c].pc = "getReport" /\ UNCHANGED <<rowVars, request, vaultVars>>
        /\ call'[c].pc \in {"listRows", "dropEnvelope"}
        /\ call'[c].pc = "dropEnvelope" => call[c].seen # "cancelled" \/ report # NoReport
        /\ \A d \in Calls \ {c} : call'[d] = call[d]
    BY <1>t, <1>2, CallAfter DEF CheckReport
  <2>2. /\ status \in TerminalStatus \cup {"purged"}
        /\ call'[c].pc = "dropEnvelope" => status # "cancelled" \/ report # NoReport
    BY <2>1 DEF CredentialInv, VaultInv, Ending, OwesDelete
  <2>3. QED
    BY <2>1, <2>2, CallAloneKeepsCredential DEF OwesDelete
<1>3. CASE ListRows(c)
  <2>1. /\ call[c].pc = "listRows" /\ UNCHANGED <<rowVars, request, vaultVars>>
        /\ call'[c].pc = "saveReport"
        /\ \A d \in Calls \ {c} : call'[d] = call[d]
    BY <1>t, <1>3 DEF ListRows, TypeOK, ApiTypeOK
  <2>2. status \in TerminalStatus \cup {"purged"}
    BY <2>1 DEF CredentialInv, VaultInv, Ending, OwesDelete
  <2>3. QED
    BY <2>1, <2>2, CallAloneKeepsCredential DEF OwesDelete
<1>4. CASE FileCancelReport(c)
  <2>1. call[c].pc = "saveReport" /\ UNCHANGED <<request, vaultVars>>
        /\ status \in TerminalStatus \cup {"purged"}
    BY <1>4 DEF FileCancelReport, CredentialInv, VaultInv, Ending, OwesDelete
  <2>2. CASE ~Present
    <3>1. status = "purged" /\ (expired \/ handle \notin envelopes)
      BY <2>1, <2>2 DEF Present, RunStatus, TerminalStatus, FinishedStatus, CredentialInv, VaultInv
    <3>2. QED
      BY <1>4, <2>1, <2>2, <3>1, EndOfCallKeepsCredential DEF FileCancelReport
  <2>3. CASE Present
    <3>1. /\ call'[c].pc = "dropEnvelope" /\ \A d \in Calls \ {c} : call'[d] = call[d]
          /\ UNCHANGED <<status, handle>>
          /\ report' # NoReport /\ (report # NoReport => report' = report)
      BY <1>t, <1>4, <2>3, CallAfter DEF FileCancelReport, SaveReport, NoReport, rowVars, resultVars
    <3>2. VaultInv'
      BY <2>1, <3>1 DEF CredentialInv, VaultInv, Ending, OwesDelete, execVars, vaultVars
    <3>3. LiveRunHasCredential' /\ CancelIsReported'
      BY <2>1, <3>1 DEF CredentialInv, LiveRunHasCredential, CancelIsReported, vaultVars
    <3>4. CredentialIsReleased'
      <4>1. \A d \in Calls : OwesDelete(d) => OwesDelete(d)'
        BY <3>1 DEF OwesDelete
      <4>2. QED
        BY <2>1, <3>1, <4>1 DEF CredentialInv, CredentialIsReleased, execVars, vaultVars
    <3>5. QED
      BY <3>2, <3>3, <3>4 DEF CredentialInv
  <2>4. QED
    BY <2>2, <2>3
<1>5. CASE DropCredential(c)
  <2>1. /\ \/ call[c].pc = "dropEnvelope" /\ call'[c].pc = "done"
           \/ call[c].pc = "deleteEnvelope" /\ call'[c].pc = "purge"
        /\ \A d \in Calls \ {c} : call'[d] = call[d]
        /\ envelopes' = envelopes \ {handle}
        /\ UNCHANGED <<status, handle, report, request, expired, interrupted, pc>>
    BY <1>t, <1>5, CallAfter DEF DropCredential, DeleteEnvelope, rowVars, resultVars, execVars
  <2>2. /\ status \in TerminalStatus \cup {"purged"}
        /\ call[c].pc = "deleteEnvelope" => status \in {"deleted", "purged"}
    BY <2>1 DEF CredentialInv, VaultInv, Ending, OwesDelete
  <2>3. VaultInv'
    BY <2>1, <2>2 DEF CredentialInv, VaultInv, Ending, OwesDelete
  <2>4. LiveRunHasCredential' /\ CancelIsReported'
    BY <2>1, <2>2 DEF CredentialInv, LiveRunHasCredential, CancelIsReported, Live, ActiveStatus,
       TerminalStatus, FinishedStatus
  <2>5. CredentialIsReleased'
    BY <2>1 DEF CredentialInv, CredentialIsReleased
  <2>6. QED
    BY <2>3, <2>4, <2>5 DEF CredentialInv
<1>6. CASE PurgeRun(c)
  <2>1. call[c].pc = "purge" /\ PurgeRow /\ UNCHANGED <<request, vaultVars>>
        /\ \A d \in Calls : call'[d] = call[d] \/ (call'[d].pc = "done" /\ ~OwesDelete(d))
    BY <1>t, <1>6, CallAfter DEF PurgeRun, OwesDelete
  <2>2. QED
    BY <2>1, ErasureKeepsCredential DEF CredentialInv, VaultInv
<1>7. QED
  BY <1>1, <1>2, <1>3, <1>4, <1>5, <1>6 DEF CallStep

\* The create requests.  A request names the row only when it creates it, and
\* then it keeps its envelope, unless it lost the answer of its commit.
LEMMA RequestKeepsCredential ==
  ASSUME IInv, CredentialInv, UNCHANGED execVars, UNCHANGED call, NEW r \in Requests,
         PutCredential(r) \/ RequestStep(r) \/ AbandonRequest(r)
  PROVE  CredentialInv'
<1>t. /\ request \in [Requests -> RequestPc] /\ NoRequest \notin Requests
      /\ UNCHANGED pc
  BY RequestsAssumption DEF IInv, TypeOK, ApiTypeOK, execVars
<1>1. CASE PutCredential(r)
  <2>1. /\ request[r] = "idle" /\ request'[r] = "create" /\ handle # r
        /\ \A s \in Requests \ {r} : request'[s] = request[s]
        /\ envelopes' = envelopes \cup {r}
        /\ UNCHANGED <<status, handle, report, expired, interrupted>>
    BY <1>t, <1>1 DEF PutCredential, PutEnvelope, RequestTo, rowVars, resultVars, CredentialInv,
       VaultInv
  <2>2. VaultInv'
    BY <1>t, <2>1 DEF CredentialInv, VaultInv, Ending, OwesDelete
  <2>3. LiveRunHasCredential' /\ CancelIsReported'
    BY <2>1 DEF CredentialInv, LiveRunHasCredential, CancelIsReported
  <2>4. CredentialIsReleased'
    BY <1>t, <2>1 DEF CredentialInv, CredentialIsReleased, OwesDelete, IInv, TypeOK
  <2>5. QED
    BY <2>2, <2>3, <2>4 DEF CredentialInv
<1>2. CASE CreateRun(r)
  <2>1. /\ request[r] = "create" /\ status = "none" /\ status' = "queued" /\ handle' = r
        /\ \A s \in Requests \ {r} : request'[s] = request[s]
        /\ request'[r] \in {"done", "discard"}
        /\ request'[r] = "discard" => interrupted'
        /\ interrupted => interrupted'
        /\ UNCHANGED <<envelopes, expired>>
    BY <1>t, <1>2 DEF CreateRun, InsertRun, RequestTo
  <2>2. /\ \A v \in Versions : pc[v] # "cleanup"
        /\ \A c \in Calls : ~Ending(c)
        /\ \A c \in Calls : call[c].pc = "timeOut" => expired
        /\ handle = NoRequest
        /\ r \in envelopes \/ expired
        /\ \A s \in Requests \ {r} : request[s] = "create" => s \in envelopes \/ expired
    BY <2>1 DEF CredentialInv, VaultInv, TerminalStatus, FinishedStatus
  <2>3. VaultInv'
    BY <1>t, <2>1, <2>2 DEF VaultInv, Ending, OwesDelete
  <2>4. LiveRunHasCredential' /\ CancelIsReported'
    BY <2>1, <2>2 DEF LiveRunHasCredential, CancelIsReported
  <2>5. CredentialIsReleased'
    BY <1>t, <2>1, <2>2 DEF CredentialInv, CredentialIsReleased, Live, IInv, TypeOK
  <2>6. QED
    BY <2>3, <2>4, <2>5 DEF CredentialInv
<1>3. CASE CreateRefused(r)
  <2>1. /\ request[r] = "create" /\ request'[r] = "discard"
        /\ \A s \in Requests \ {r} : request'[s] = request[s]
        /\ UNCHANGED <<status, handle, report, envelopes, expired, interrupted>>
    BY <1>t, <1>3 DEF CreateRefused, RequestTo, rowVars, resultVars, vaultVars
  <2>2. VaultInv'
    BY <1>t, <2>1 DEF CredentialInv, VaultInv, Ending, OwesDelete
  <2>3. LiveRunHasCredential' /\ CancelIsReported'
    BY <2>1 DEF CredentialInv, LiveRunHasCredential, CancelIsReported
  <2>4. CredentialIsReleased'
    BY <1>t, <2>1 DEF CredentialInv, CredentialIsReleased, OwesDelete, IInv, TypeOK
  <2>5. QED
    BY <2>2, <2>3, <2>4 DEF CredentialInv
<1>4. CASE DiscardEnvelope(r)
  <2>1. /\ request[r] = "discard" /\ request'[r] = "done"
        /\ \A s \in Requests \ {r} : request'[s] = request[s]
        /\ envelopes' = envelopes \ {r}
        /\ UNCHANGED <<status, handle, report, expired, interrupted>>
        /\ handle = r => interrupted
    BY <1>t, <1>4 DEF DiscardEnvelope, DeleteEnvelope, RequestTo, rowVars, resultVars,
       CredentialInv, VaultInv
  <2>2. VaultInv'
    BY <1>t, <2>1 DEF CredentialInv, VaultInv, Ending, OwesDelete
  <2>3. LiveRunHasCredential' /\ CancelIsReported'
    BY <2>1 DEF CredentialInv, LiveRunHasCredential, CancelIsReported
  <2>4. CredentialIsReleased'
    BY <1>t, <2>1 DEF CredentialInv, CredentialIsReleased, OwesDelete, IInv, TypeOK
  <2>5. QED
    BY <2>2, <2>3, <2>4 DEF CredentialInv
<1>5. CASE AbandonRequest(r)
  <2>1. /\ interrupted' /\ request'[r] = "done"
        /\ \A s \in Requests \ {r} : request'[s] = request[s]
        /\ UNCHANGED <<status, handle, report, envelopes, expired>>
    BY <1>t, <1>5 DEF AbandonRequest, RequestTo, rowVars, resultVars
  <2>2. VaultInv'
    BY <1>t, <2>1 DEF CredentialInv, VaultInv, Ending, OwesDelete
  <2>3. LiveRunHasCredential' /\ CancelIsReported' /\ CredentialIsReleased'
    BY <2>1 DEF LiveRunHasCredential, CancelIsReported, CredentialIsReleased
  <2>4. QED
    BY <2>2, <2>3 DEF CredentialInv
<1>6. QED
  BY <1>1, <1>2, <1>3, <1>4, <1>5 DEF RequestStep

\* A call that is cut off says so in interrupted if it owed a delete.
LEMMA AbandonedCallKeepsCredential ==
  ASSUME IInv, CredentialInv, UNCHANGED execVars, NEW c \in Calls, AbandonCall(c)
  PROVE  CredentialInv'
<1>1. /\ call'[c].pc = "done" /\ \A d \in Calls \ {c} : call'[d] = call[d]
      /\ interrupted' = (interrupted \/ OwesDelete(c))
      /\ UNCHANGED <<status, handle, report, request, envelopes, expired, pc>>
  BY CallAfter DEF AbandonCall, IInv, rowVars, resultVars, execVars
<1>2. VaultInv'
  BY <1>1 DEF CredentialInv, VaultInv, Ending, OwesDelete
<1>3. LiveRunHasCredential'
  BY <1>1 DEF CredentialInv, LiveRunHasCredential
<1>4. CancelIsReported'
  BY <1>1 DEF CredentialInv, CancelIsReported, OwesDelete
<1>5. CredentialIsReleased'
  BY <1>1 DEF CredentialInv, CredentialIsReleased, OwesDelete
<1>6. QED
  BY <1>2, <1>3, <1>4, <1>5 DEF CredentialInv

LEMMA TimeKeepsCredential ==
  ASSUME IInv, CredentialInv, UNCHANGED execVars, Expire \/ Sweep
  PROVE  CredentialInv'
<1>1. CASE Expire \/ SweepEnvelopes
  <2>1. /\ expired' /\ envelopes' \subseteq envelopes
        /\ UNCHANGED <<status, handle, report, request, call, interrupted, pc>>
    BY <1>1 DEF Expire, SweepEnvelopes, rowVars, resultVars, apiVars, execVars
  <2>2. VaultInv'
    BY <2>1 DEF CredentialInv, VaultInv, Ending, OwesDelete
  <2>3. LiveRunHasCredential' /\ CancelIsReported' /\ CredentialIsReleased'
    BY <2>1 DEF CredentialInv, LiveRunHasCredential, CancelIsReported, CredentialIsReleased
  <2>4. QED
    BY <2>2, <2>3 DEF CredentialInv
<1>2. CASE SweepRuns
  <2>1. expired /\ PurgeRow /\ UNCHANGED <<request, vaultVars>> /\ UNCHANGED call
    BY <1>2 DEF SweepRuns, apiVars
  <2>2. \A c \in Calls : call'[c] = call[c] \/ (call'[c].pc = "done" /\ ~OwesDelete(c))
    BY <2>1
  <2>3. QED
    BY <2>1, <2>2, ErasureKeepsCredential
<1>3. QED
  BY <1>1, <1>2 DEF Sweep

LEMMA CredentialInit == Init => CredentialInv
<1> SUFFICES ASSUME Init PROVE CredentialInv
  OBVIOUS
<1>1. /\ status = "none" /\ handle = NoRequest /\ envelopes = {} /\ expired = FALSE
      /\ \A v \in Versions : pc[v] # "cleanup"
      /\ \A c \in Calls : call[c].pc = "idle"
      /\ \A r \in Requests : request[r] = "idle"
  BY DEF Init, StoreInit, WorkerInit, ApiInit, IdleCall
<1>2. VaultInv
  BY <1>1, RequestsAssumption DEF VaultInv, Ending, OwesDelete
<1>3. LiveRunHasCredential /\ CredentialIsReleased /\ CancelIsReported
  BY <1>1 DEF LiveRunHasCredential, CredentialIsReleased, CancelIsReported, Live, ActiveStatus
<1>4. QED
  BY <1>2, <1>3 DEF CredentialInv

LEMMA CredentialNext ==
  ASSUME IInv, CredentialInv, [Next]_vars
  PROVE  CredentialInv'
<1>1. CASE WorkerNext /\ UNCHANGED apiVars
  BY <1>1, WorkersKeepCredential
<1>2. ASSUME UNCHANGED execVars, NEW r \in Requests,
             PutCredential(r) \/ RequestStep(r) \/ AbandonRequest(r)
      PROVE  CredentialInv'
  <2>1. UNCHANGED call
    BY <1>2 DEF PutCredential, RequestStep, CreateRun, CreateRefused, DiscardEnvelope, AbandonRequest
  <2>2. QED
    BY <1>2, <2>1, RequestKeepsCredential
<1>3. ASSUME UNCHANGED execVars, NEW c \in Calls,
             \/ \E op \in {"cancel", "delete"} : OwnedRun(c, op)
             \/ CallStep(c)
             \/ AbandonCall(c)
      PROVE  CredentialInv'
  BY <1>3, OwnedRunKeepsCredential, CallStepKeepsCredential, AbandonedCallKeepsCredential
<1>4. CASE UNCHANGED execVars /\ (Expire \/ Sweep)
  BY <1>4, TimeKeepsCredential
<1>5. CASE UNCHANGED vars
  <2>1. UNCHANGED <<status, handle, report, request, call, envelopes, expired, interrupted, pc>>
    BY <1>5 DEF vars, rowVars, resultVars, apiVars, vaultVars, execVars
  <2>2. VaultInv'
    BY <2>1 DEF CredentialInv, VaultInv, Ending, OwesDelete
  <2>3. LiveRunHasCredential' /\ CancelIsReported' /\ CredentialIsReleased'
    BY <2>1 DEF CredentialInv, LiveRunHasCredential, CancelIsReported, CredentialIsReleased,
       OwesDelete
  <2>4. QED
    BY <2>2, <2>3 DEF CredentialInv
<1>6. QED
  BY <1>1, <1>2, <1>3, <1>4, <1>5 DEF Next, ApiNext

\* The inductive invariant of the credential: no handler or execution deletes
\* the envelope of a run that can still be worked on, and none forgets it.
THEOREM CredentialCorrect == Spec => []CredentialInv
  BY CredentialInit, CredentialNext, InvariantCorrect, PTL DEF Spec

\* A queued or active run that has not expired has its envelope (the create
\* that loses the key, cancel, cleanup and DELETE all call vault.delete).
THEOREM LiveRunHasCredentialCorrect == Spec => []LiveRunHasCredential
<1>1. CredentialInv => LiveRunHasCredential
  BY DEF CredentialInv
<1>2. QED
  BY <1>1, CredentialCorrect, PTL

\* An envelope whose run is over is about to be deleted, unless a process was
\* cut off before its vault.delete; then it expires.
THEOREM CredentialIsReleasedCorrect == Spec => []CredentialIsReleased
<1>1. CredentialInv => CredentialIsReleased
  BY DEF CredentialInv
<1>2. QED
  BY <1>1, CredentialCorrect, PTL

\* A cancelled run has a report or a cancel on its way to file it, whoever
\* else cancels, finalizes or deletes meanwhile (cancel and finalize race).
THEOREM CancelIsReportedCorrect == Spec => []CancelIsReported
<1>1. CredentialInv => CancelIsReported
  BY DEF CredentialInv
<1>2. QED
  BY <1>1, CredentialCorrect, PTL
=============================================================================
