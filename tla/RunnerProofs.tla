----------------------------- MODULE RunnerProofs ----------------------------
(***************************************************************************)
(* A session of the local runner, for any cycles, budget and pool of       *)
(* workers, and any faults and restarts. The invariant says where the      *)
(* attempts that are open belong: to a thread of the pool, or to a process *)
(* that will not send again before the session is reconciled.              *)
(***************************************************************************)
EXTENDS Runner, FiniteSetTheorems, TLAPS

Open(j) == \E n \in Numbers : attempt[j][n] = "running"

IsThread(t) == t = [pc |-> t.pc, n |-> t.n, result |-> t.result, outcome |-> t.outcome,
                    halt |-> t.halt]

RowTypes ==
    /\ job \in [Jobs -> Settled \cup {"absent", "pending"}]
    /\ attempt \in [Jobs -> [Numbers -> {"none", "running", "ok", "error", "cancelled"}]]

ThreadTypes ==
    /\ DOMAIN thread = Jobs /\ thread = [j \in Jobs |-> thread[j]]
    /\ \A j \in Jobs : IsThread(thread[j])
    /\ \A j \in Jobs : thread[j].pc \in {"none", "check", "start", "sent", "finish", "halt",
                                         "done", "raised"}

MainTypes ==
    /\ main = [pc |-> main.pc, cycle |-> main.cycle, queue |-> main.queue, todo |-> main.todo,
               failed |-> main.failed, final |-> main.final]
    /\ signal \in [stop : BOOLEAN, fatal : BOOLEAN]
    /\ pool \subseteq Jobs /\ main.queue \subseteq Jobs /\ main.todo \subseteq Jobs

\* Before their cycle is frozen jobs are absent, and nothing was sent for them.
FrozenInv == \A j \in Jobs : /\ j[1] \notin begun => job[j] = "absent"
                             /\ job[j] = "absent" => Used(j) = {}

\* The threads are those of the pool, of jobs of this cycle.
PoolInv ==
    /\ \A j \in Jobs : thread[j].pc # "none" => j \in pool
    /\ pool \subseteq JobsOf(main.cycle)
    /\ main.pc = "pool" => main.queue \cap pool = {} /\ main.queue \subseteq JobsOf(main.cycle)
    /\ main.pc \in {"cycle", "queue", "file", "sleep", "dead", "closed"} => pool = {}
    /\ main.pc = "cycled" /\ pool # {} => signal.stop
    /\ main.pc = "finally" /\ pool # {} => signal.stop \/ main.failed
    /\ main.pc = "sweep" => signal.stop
    /\ main.pc = "failed" => main.failed
    /\ main.failed => main.pc \in {"finally", "sweep", "failed", "publish", "ended", "closed"}

\* Nothing of this process sends for its jobs any more.
Gone == main.failed \/ main.pc \in {"dead", "closed"}

\* What a thread knows of its attempt.
AttemptInv == \A j \in Jobs :
    /\ thread[j].pc \in {"sent", "finish"} => thread[j].n \in Numbers
    /\ thread[j].pc = "finish" =>
          <<thread[j].result, thread[j].outcome>> \in
             {<<"ok", "ok">>, <<"cancelled", "cancelled">>, <<"error", "cancelled">>,
              <<"error", "error">>, <<"error", "none">>}
    /\ thread[j].pc = "finish" /\ thread[j].halt => thread[j].outcome = "error"

\* At most one attempt of a job is open; it is its thread's, and it is the job's
\* that is not settled, unless a stop or the end of the process has cut in.
OpenInv == \A j \in Jobs :
    /\ \A m, n \in Numbers : attempt[j][m] = "running" /\ attempt[j][n] = "running" => m = n
    /\ thread[j].pc \in {"check", "start", "halt", "done"} /\ job[j] = "pending" => ~Open(j)
    /\ thread[j].pc \in {"sent", "finish", "raised"} /\ job[j] = "pending" =>
          \A n \in Numbers : attempt[j][n] = "running" => n = thread[j].n
    /\ Open(j) => j \in pool \/ Gone
    /\ Open(j) /\ job[j] # "pending" => Gone \/ main.pc = "sweep"

\* In a detector, jobs that are not settled are on their way to being so.
PendingInv == Detector =>
    /\ \A j \in Jobs : thread[j].pc \in {"halt", "done"} => job[j] # "pending"
    /\ \A j \in Jobs : job[j] = "pending" /\ Used(j) = Numbers => j \in pool \/ Gone
    /\ \A j \in Jobs : thread[j].pc \in {"sent", "finish"} /\ job[j] = "pending" =>
          attempt[j][thread[j].n] = "running"
    /\ main.pc = "pool" => Pending(JobsOf(main.cycle)) \subseteq main.queue \cup pool
    /\ main.pc = "finally" => signal.stop \/ main.failed \/ Pending(JobsOf(main.cycle)) = {}
    /\ main.pc = "sweep" => Pending(JobsOf(main.cycle)) \subseteq main.todo

\* Between cycles, and once the run is over, nothing is open.
Quiet == \/ main.pc \in {"cycle", "cycled", "file", "sleep", "report", "status"}
         \/ main.pc \in {"publish", "ended"} /\ ~main.failed

QuietInv ==
    Detector /\ Quiet => Pending(JobsOf(main.cycle)) = {} /\ \A j \in Jobs : ~Open(j)

Reported == main.pc = "status" \/ (main.pc \in {"publish", "ended"} /\ ~main.failed)

ReportInv ==
    /\ Detector /\ Reported => report.jobs = {<<j, job[j]>> : j \in Jobs}
    /\ /\ Detector /\ status \in {"stopped", "complete"} /\ main.pc \notin {"dead", "closed"}
       => main.pc \in {"publish", "ended"} /\ ~main.failed

RunnerInv ==
    /\ RowTypes /\ ThreadTypes /\ MainTypes /\ FrozenInv /\ PoolInv /\ AttemptInv
    /\ OpenInv /\ AnswerIsStored /\ PendingInv /\ QuietInv /\ ReportInv
-----------------------------------------------------------------------------
(* Lemmas about the parts of the state.                                    *)

LEMMA JobsOfCycle == \A c : JobsOf(c) \subseteq Jobs
  BY DEF JobsOf

LEMMA NumbersAre == Numbers # {} /\ \A n \in Numbers : n \in Nat
<1>1. Retries \in Nat
  BY RunnerAssumption
<1>2. 1 \in Numbers
  BY <1>1 DEF Numbers
<1>3. \A n \in Numbers : n \in Nat
  BY <1>1 DEF Numbers
<1>4. QED
  BY <1>2, <1>3

LEMMA RunnerInitial == Init => RunnerInv
<1> SUFFICES ASSUME Init PROVE RunnerInv
  OBVIOUS
<1> USE DEF Init, CreateSession, AtStart, NoThread, Threads, NoSignal
<1>1. RowTypes /\ ThreadTypes /\ MainTypes
  BY DEF RowTypes, ThreadTypes, MainTypes, IsThread
<1>2. FrozenInv /\ AnswerIsStored
  BY DEF FrozenInv, AnswerIsStored, Used
<1>3. PoolInv /\ AttemptInv /\ OpenInv
  BY DEF PoolInv, AttemptInv, OpenInv, Open
<1>4. JobsOf(0) = {}
  BY RunnerAssumption DEF JobsOf, Jobs, Cycles
<1>5. PendingInv /\ QuietInv /\ ReportInv
  BY <1>4 DEF PendingInv, QuietInv, ReportInv, Quiet, Reported, Pending, Open
<1>6. QED
  BY <1>1, <1>2, <1>3, <1>5 DEF RunnerInv

\* A step that leaves the rows and the threads alone keeps what is said of them.
LEMMA RowsStand ==
  ASSUME RunnerInv, UNCHANGED <<job, attempt, begun, thread>>
  PROVE  RowTypes' /\ ThreadTypes' /\ FrozenInv' /\ AttemptInv' /\ AnswerIsStored'
  BY DEF RunnerInv, RowTypes, ThreadTypes, FrozenInv, AttemptInv, AnswerIsStored, Used, IsThread

\* The run thread goes on to another place.
LEMMA MainGoes ==
  ASSUME RunnerInv, NEW p, Go(p)
  PROVE  /\ main'.pc = p /\ main'.cycle = main.cycle /\ main'.queue = main.queue
         /\ main'.todo = main.todo /\ main'.failed = main.failed /\ main'.final = main.final
         /\ main' = [pc |-> main'.pc, cycle |-> main'.cycle, queue |-> main'.queue,
                     todo |-> main'.todo, failed |-> main'.failed, final |-> main'.final]
  BY DEF RunnerInv, MainTypes, Go

\* The thread of one job moves, and keeps what it holds.
LEMMA ThreadSteps ==
  ASSUME RunnerInv, NEW j \in Jobs,
         NEW p \in {"none", "check", "start", "sent", "finish", "halt", "done", "raised"},
         Step(j, p)
  PROVE  /\ ThreadTypes'
         /\ thread'[j] = [pc |-> p, n |-> thread[j].n, result |-> thread[j].result,
                          outcome |-> thread[j].outcome, halt |-> thread[j].halt]
         /\ thread'[j].pc = p /\ thread'[j].n = thread[j].n
         /\ \A i \in Jobs \ {j} : thread'[i] = thread[i]
<1>1. thread'[j] = [thread[j] EXCEPT !.pc = p]
  BY DEF RunnerInv, ThreadTypes, Step
<1>2. DOMAIN thread' = Jobs /\ \A i \in Jobs \ {j} : thread'[i] = thread[i]
  BY DEF RunnerInv, ThreadTypes, Step
<1>3. thread'[j] = [pc |-> p, n |-> thread[j].n, result |-> thread[j].result,
                    outcome |-> thread[j].outcome, halt |-> thread[j].halt]
  BY <1>1 DEF RunnerInv, ThreadTypes, IsThread
<1>4. thread' = [i \in Jobs |-> thread'[i]]
  BY DEF RunnerInv, ThreadTypes, Step
<1>5. \A i \in Jobs : IsThread(thread'[i]) /\ thread'[i].pc \in
         {"none", "check", "start", "sent", "finish", "halt", "done", "raised"}
  BY <1>2, <1>3 DEF RunnerInv, ThreadTypes, IsThread
<1>6. thread'[j].pc = p /\ thread'[j].n = thread[j].n
  BY <1>3
<1>7. QED
  BY <1>2, <1>3, <1>4, <1>5, <1>6 DEF ThreadTypes, IsThread

\* The thread of one job is replaced.
LEMMA ThreadReplaced ==
  ASSUME RunnerInv, NEW j \in Jobs, NEW t, IsThread(t),
         t.pc \in {"none", "check", "start", "sent", "finish", "halt", "done", "raised"},
         thread' = [thread EXCEPT ![j] = t]
  PROVE  /\ ThreadTypes' /\ thread'[j] = t
         /\ \A i \in Jobs \ {j} : thread'[i] = thread[i]
<1>1. DOMAIN thread' = Jobs /\ thread'[j] = t /\ \A i \in Jobs \ {j} : thread'[i] = thread[i]
  BY DEF RunnerInv, ThreadTypes
<1>2. thread' = [i \in Jobs |-> thread'[i]]
  BY DEF RunnerInv, ThreadTypes
<1>3. \A i \in Jobs : IsThread(thread'[i]) /\ thread'[i].pc \in
         {"none", "check", "start", "sent", "finish", "halt", "done", "raised"}
  BY <1>1 DEF RunnerInv, ThreadTypes
<1>4. QED
  BY <1>1, <1>2, <1>3 DEF ThreadTypes, IsThread
-----------------------------------------------------------------------------
(* The run thread.                                                         *)

LEMMA LeaveKeeps ==
  ASSUME RunnerInv, Leave
  PROVE  RunnerInv'
<1> USE DEF RunnerInv
<1>1. /\ Go("finally") /\ UNCHANGED <<job, attempt, begun, thread, pool, signal, kind, report, status>>
      /\ main.pc = "pool"
      /\ \/ pool = {} /\ (signal.stop \/ main.queue = {})
         \/ signal.stop
  BY DEF Leave, store, server
<1>2. /\ main'.pc = "finally" /\ main'.cycle = main.cycle /\ main'.queue = main.queue
      /\ main'.todo = main.todo /\ main'.failed = main.failed
  BY <1>1, MainGoes
<1>3. MainTypes'
  BY <1>1, MainGoes DEF MainTypes
<1>4. RowTypes' /\ ThreadTypes' /\ FrozenInv' /\ AttemptInv' /\ AnswerIsStored'
  BY <1>1, <1>2, <1>3, RowsStand
<1>5. PoolInv'
  BY <1>1, <1>2, <1>3 DEF PoolInv
<1>6. OpenInv'
  BY <1>1, <1>2, <1>3 DEF OpenInv, PoolInv, Open, Gone
<1>7. PendingInv'
  BY <1>1, <1>2, <1>3 DEF PendingInv, PoolInv, Detector, Pending, Used, Gone
<1>8. QuietInv'
  BY <1>1, <1>2, <1>3 DEF QuietInv, Quiet, PoolInv, OpenInv, PendingInv, Open, Gone, Detector, Pending
<1>9. ReportInv'
  BY <1>1, <1>2, <1>3 DEF ReportInv, Reported, PoolInv, Detector
<1>10. QED
  BY <1>1, <1>2, <1>3, <1>4, <1>5, <1>6, <1>7, <1>8, <1>9 DEF RunnerInv

LEMMA FileKeeps ==
  ASSUME RunnerInv, File
  PROVE  RunnerInv'
<1> USE DEF RunnerInv
<1>1. /\ Go("sleep") /\ UNCHANGED <<job, attempt, begun, thread, pool, signal, kind, status>>
      /\ main.pc = "file"
  BY DEF File, SaveReport, server
<1>2. /\ main'.pc = "sleep" /\ main'.cycle = main.cycle /\ main'.queue = main.queue
      /\ main'.todo = main.todo /\ main'.failed = main.failed
  BY <1>1, MainGoes
<1>3. MainTypes'
  BY <1>1, MainGoes DEF MainTypes
<1>4. RowTypes' /\ ThreadTypes' /\ FrozenInv' /\ AttemptInv' /\ AnswerIsStored'
  BY <1>1, <1>2, <1>3, RowsStand
<1>5. PoolInv'
  BY <1>1, <1>2, <1>3 DEF PoolInv
<1>6. OpenInv'
  BY <1>1, <1>2, <1>3 DEF OpenInv, PoolInv, Open, Gone
<1>7. PendingInv'
  BY <1>1, <1>2, <1>3 DEF PendingInv, PoolInv, Detector, Pending, Used, Gone
<1>8. QuietInv'
  BY <1>1, <1>2, <1>3 DEF QuietInv, Quiet, PoolInv, OpenInv, PendingInv, Open, Gone, Detector, Pending
<1>9. ReportInv'
  BY <1>1, <1>2, <1>3 DEF ReportInv, Reported, PoolInv, Detector
<1>10. QED
  BY <1>1, <1>2, <1>3, <1>4, <1>5, <1>6, <1>7, <1>8, <1>9 DEF RunnerInv

LEMMA WakeKeeps ==
  ASSUME RunnerInv, Wake
  PROVE  RunnerInv'
<1> USE DEF RunnerInv
<1>1. /\ Go("cycle") /\ UNCHANGED <<job, attempt, begun, thread, pool, signal, kind, report, status>>
      /\ main.pc = "sleep"
  BY DEF Wake, store, server
<1>2. /\ main'.pc = "cycle" /\ main'.cycle = main.cycle /\ main'.queue = main.queue
      /\ main'.todo = main.todo /\ main'.failed = main.failed
  BY <1>1, MainGoes
<1>3. MainTypes'
  BY <1>1, MainGoes DEF MainTypes
<1>4. RowTypes' /\ ThreadTypes' /\ FrozenInv' /\ AttemptInv' /\ AnswerIsStored'
  BY <1>1, <1>2, <1>3, RowsStand
<1>5. PoolInv'
  BY <1>1, <1>2, <1>3 DEF PoolInv
<1>6. OpenInv'
  BY <1>1, <1>2, <1>3 DEF OpenInv, PoolInv, Open, Gone
<1>7. PendingInv'
  BY <1>1, <1>2, <1>3 DEF PendingInv, PoolInv, Detector, Pending, Used, Gone
<1>8. QuietInv'
  BY <1>1, <1>2, <1>3 DEF QuietInv, Quiet, PoolInv, OpenInv, PendingInv, Open, Gone, Detector, Pending
<1>9. ReportInv'
  BY <1>1, <1>2, <1>3 DEF ReportInv, Reported, PoolInv, Detector
<1>10. QED
  BY <1>1, <1>2, <1>3, <1>4, <1>5, <1>6, <1>7, <1>8, <1>9 DEF RunnerInv

LEMMA FinallyKeeps ==
  ASSUME RunnerInv, Finally
  PROVE  RunnerInv'
<1> USE DEF RunnerInv
<1>1. /\ main.pc = "finally" /\ UNCHANGED <<job, attempt, begun, thread, pool, signal, kind,
                                            report, status>>
      /\ main'.cycle = main.cycle /\ main'.queue = main.queue /\ main'.failed = main.failed
      /\ \/ signal.stop /\ main'.pc = "sweep" /\ main'.todo = LeftOver
         \/ ~signal.stop /\ main'.pc = IF main.failed THEN "failed" ELSE "cycled"
      /\ MainTypes'
  <2>1. LeftOver \subseteq Jobs
    BY JobsOfCycle DEF LeftOver, Pending, Sendable
  <2>2. QED
    BY <2>1 DEF Finally, store, server, MainTypes
<1>2. RowTypes' /\ ThreadTypes' /\ FrozenInv' /\ AttemptInv' /\ AnswerIsStored'
  BY <1>1, RowsStand
<1>3. PoolInv' /\ OpenInv'
  BY <1>1 DEF PoolInv, OpenInv, Open, Gone
<1>4. PendingInv'
  BY <1>1 DEF PendingInv, Detector, Pending, Used, Gone, LeftOver
<1>5. QuietInv' /\ ReportInv'
  BY <1>1 DEF QuietInv, Quiet, PoolInv, OpenInv, PendingInv, Open, Gone, Detector, Pending,
     ReportInv, Reported
<1>6. QED
  BY <1>1, <1>2, <1>3, <1>4, <1>5 DEF RunnerInv

LEMMA QueueKeeps ==
  ASSUME RunnerInv, Queue
  PROVE  RunnerInv'
<1> USE DEF RunnerInv
<1>1. /\ main.pc = "queue" /\ UNCHANGED <<job, attempt, begun, thread, pool, signal, kind,
                                          report, status>>
      /\ main'.pc \in {"cycled", "pool"} /\ main'.cycle = main.cycle
      /\ main'.queue = Sendable(JobsOf(main.cycle)) /\ main'.failed = main.failed
      /\ main'.todo = main.todo
      /\ main'.pc = "cycled" => Sendable(JobsOf(main.cycle)) = {}
      /\ main' = [pc |-> main'.pc, cycle |-> main'.cycle, queue |-> main'.queue,
                     todo |-> main'.todo, failed |-> main'.failed, final |-> main'.final]
  BY DEF Queue, store, server, MainTypes
<1>2. Sendable(JobsOf(main.cycle)) \subseteq JobsOf(main.cycle) /\ JobsOf(main.cycle) \subseteq Jobs
  BY JobsOfCycle DEF Sendable, Pending
<1>3. Detector => Pending(JobsOf(main.cycle)) \subseteq Sendable(JobsOf(main.cycle))
  BY <1>1, JobsOfCycle DEF PendingInv, PoolInv, Sendable, Pending, Gone
<1>4. RowTypes' /\ ThreadTypes' /\ FrozenInv' /\ AttemptInv' /\ AnswerIsStored'
  BY <1>1, <1>2, <1>3, RowsStand
<1>5. MainTypes'
  BY <1>1, <1>2, <1>3 DEF MainTypes
<1>6. PoolInv'
  BY <1>1, <1>2, <1>3 DEF PoolInv
<1>7. OpenInv'
  BY <1>1, <1>2, <1>3 DEF OpenInv, PoolInv, Open, Gone
<1>8. PendingInv'
  BY <1>1, <1>2, <1>3 DEF PendingInv, PoolInv, Detector, Pending, Used, Gone
<1>9. QuietInv'
  BY <1>1, <1>2, <1>3 DEF QuietInv, Quiet, PoolInv, OpenInv, PendingInv, Open, Gone, Detector, Pending
<1>10. ReportInv'
  BY <1>1, <1>2, <1>3 DEF ReportInv, Reported, PoolInv, Detector
<1>11. QED
  BY <1>1, <1>2, <1>3, <1>4, <1>5, <1>6, <1>7, <1>8, <1>9, <1>10 DEF RunnerInv

LEMMA SubmitKeeps ==
  ASSUME RunnerInv, NEW j \in Jobs, main.pc = "pool", ~signal.stop, j \in main.queue,
         main' = [main EXCEPT !.queue = @ \ {j}], pool' = pool \cup {j},
         thread' = [thread EXCEPT ![j] = [NoThread EXCEPT !.pc = "check", !.n = NextAttempt(j)]],
         UNCHANGED <<store, signal, kind>>
  PROVE  RunnerInv'
<1> USE DEF RunnerInv
<1>1. /\ UNCHANGED <<job, attempt, begun, signal, kind, report, status>>
      /\ main'.pc = "pool" /\ main'.cycle = main.cycle /\ main'.queue = main.queue \ {j}
      /\ main'.failed = main.failed /\ MainTypes'
  BY DEF store, MainTypes
<1>2. /\ ThreadTypes' /\ thread'[j].pc = "check"
      /\ \A i \in Jobs \ {j} : thread'[i] = thread[i]
  <2>1. PICK t : t = [NoThread EXCEPT !.pc = "check", !.n = NextAttempt(j)]
    OBVIOUS
  <2>2. IsThread(t) /\ t.pc = "check"
    BY <2>1 DEF IsThread, NoThread
  <2>3. thread' = [thread EXCEPT ![j] = t]
    BY <2>1
  <2>4. QED
    BY <2>2, <2>3, ThreadReplaced
<1>3. j \notin pool /\ ~main.failed /\ ~Open(j)
  BY DEF PoolInv, OpenInv, Gone
<1>4. RowTypes'
  BY <1>1, <1>2, <1>3 DEF RowTypes
<1>5. FrozenInv'
  BY <1>1, <1>2, <1>3 DEF FrozenInv, Used
<1>6. PoolInv'
  BY <1>1, <1>2, <1>3 DEF PoolInv
<1>7. AttemptInv'
  BY <1>1, <1>2, <1>3 DEF AttemptInv
<1>8. OpenInv'
  BY <1>1, <1>2, <1>3 DEF OpenInv, PoolInv, Open, Gone
<1>9. AnswerIsStored'
  BY <1>1, <1>2, <1>3 DEF AnswerIsStored, RowTypes
<1>10. PendingInv'
  BY <1>1, <1>2, <1>3 DEF PendingInv, PoolInv, Detector, Pending, Used, Gone
<1>11. QuietInv'
  BY <1>1, <1>2, <1>3 DEF QuietInv, Quiet, PoolInv, OpenInv, PendingInv, Open, Gone, Detector, Pending
<1>12. ReportInv'
  BY <1>1, <1>2, <1>3 DEF ReportInv, Reported, PoolInv, Detector
<1>13. QED
  BY <1>1, <1>2, <1>3, <1>4, <1>5, <1>6, <1>7, <1>8, <1>9, <1>10, <1>11, <1>12 DEF RunnerInv

LEMMA CollectKeeps ==
  ASSUME RunnerInv, NEW j \in Jobs, Collect(j)
  PROVE  RunnerInv'
<1> USE DEF RunnerInv
<1>1. /\ main.pc = "pool" /\ j \in pool /\ pool' = pool \ {j}
      /\ UNCHANGED <<job, attempt, begun, signal, kind, report, status>>
      /\ \/ thread[j].pc = "done" /\ main' = main
         \/ thread[j].pc = "raised" /\ main'.pc = "finally" /\ main'.failed
      /\ main'.cycle = main.cycle /\ main'.queue = main.queue /\ MainTypes'
  BY DEF Collect, store, server, MainTypes
<1>2. /\ ThreadTypes' /\ thread'[j].pc = "none"
      /\ \A i \in Jobs \ {j} : thread'[i] = thread[i]
  <2>1. IsThread(NoThread) /\ NoThread.pc = "none"
    BY DEF IsThread, NoThread
  <2>2. thread' = [thread EXCEPT ![j] = NoThread]
    BY DEF Collect
  <2>3. QED
    BY <2>1, <2>2, ThreadReplaced
<1>3. RowTypes'
  BY <1>1, <1>2 DEF RowTypes
<1>4. FrozenInv'
  BY <1>1, <1>2 DEF FrozenInv, Used
<1>5. PoolInv'
  BY <1>1, <1>2 DEF PoolInv
<1>6. AttemptInv'
  BY <1>1, <1>2 DEF AttemptInv
<1>7. OpenInv'
  BY <1>1, <1>2 DEF OpenInv, PoolInv, Open, Gone
<1>8. AnswerIsStored'
  BY <1>1, <1>2 DEF AnswerIsStored, RowTypes
<1>9. PendingInv'
  BY <1>1, <1>2 DEF PendingInv, PoolInv, Detector, Pending, Used, Gone
<1>10. QuietInv'
  BY <1>1, <1>2 DEF QuietInv, Quiet, PoolInv, OpenInv, PendingInv, Open, Gone, Detector, Pending
<1>11. ReportInv'
  BY <1>1, <1>2 DEF ReportInv, Reported, PoolInv, Detector
<1>12. QED
  BY <1>1, <1>2, <1>3, <1>4, <1>5, <1>6, <1>7, <1>8, <1>9, <1>10, <1>11 DEF RunnerInv

LEMMA BeginCycleKeeps ==
  ASSUME RunnerInv, BeginCycle
  PROVE  RunnerInv'
<1> USE DEF RunnerInv
<1>1. main.pc = "cycle" /\ UNCHANGED <<thread, pool, signal, kind>> /\ pool = {}
  BY DEF BeginCycle, server, PoolInv
<1>2. ~main.failed /\ \A j \in Jobs : ~Open(j)
  BY <1>1 DEF PoolInv, OpenInv, Gone
<1>3. CASE Go("report") /\ UNCHANGED store
  <2>1. /\ main'.pc = "report" /\ main'.cycle = main.cycle /\ main'.queue = main.queue
        /\ main'.todo = main.todo /\ main'.failed = main.failed /\ MainTypes'
    BY <1>1, <1>3, MainGoes DEF MainTypes
  <2>2. UNCHANGED <<job, attempt, begun, status, report>>
    BY <1>3 DEF store
  <2>3. RowTypes' /\ ThreadTypes' /\ FrozenInv' /\ AttemptInv' /\ AnswerIsStored'
    BY <1>1, <2>2, RowsStand
  <2>4. PoolInv' /\ OpenInv'
    BY <1>1, <1>2, <2>1, <2>2 DEF PoolInv, OpenInv, Open, Gone
  <2>5. PendingInv' /\ QuietInv' /\ ReportInv'
    BY <1>1, <1>2, <2>1, <2>2 DEF PendingInv, QuietInv, ReportInv, Quiet, Reported, Detector,
       Pending, Used, Open, Gone
  <2>6. QED
    BY <2>1, <2>3, <2>4, <2>5
<1>4. ASSUME NEW c, Enter(c),
             \/ c \in begun /\ UNCHANGED store
             \/ c \notin begun /\ \E S \in SUBSET JobsOf(c) : FreezeJobs(c, S)
      PROVE  RunnerInv'
  <2>1. /\ main'.pc = "queue" /\ main'.cycle = c /\ main'.queue = main.queue
        /\ main'.todo = main.todo /\ main'.failed = main.failed /\ MainTypes'
    BY <1>1, <1>4 DEF MainTypes, Enter
  <2>2. PICK S \in SUBSET JobsOf(c) :
          /\ \A j \in S : j \in Jobs /\ j[1] = c /\ job[j] = "absent"
          /\ job' = [j \in Jobs |-> IF j \in S THEN "pending" ELSE job[j]]
          /\ begun' = begun \/ begun' = begun \cup {c}
          /\ S # {} => begun' = begun \cup {c}
          /\ UNCHANGED <<attempt, status, report>>
    <3>1. CASE UNCHANGED store
      <4>1. job' = [j \in Jobs |-> IF j \in {} THEN "pending" ELSE job[j]]
        BY <3>1 DEF store, RowTypes
      <4> WITNESS {} \in SUBSET JobsOf(c)
      <4>2. QED
        BY <3>1, <4>1 DEF store
    <3>2. CASE c \notin begun /\ \E S \in SUBSET JobsOf(c) : FreezeJobs(c, S)
      <4>1. PICK S \in SUBSET JobsOf(c) : FreezeJobs(c, S)
        BY <3>2
      <4>2. \A j \in S : j \in Jobs /\ j[1] = c /\ job[j] = "absent"
        BY <3>2 DEF JobsOf, FrozenInv
      <4>3. QED
        BY <4>1, <4>2 DEF FreezeJobs
    <3>3. QED
      BY <1>4, <3>1, <3>2
  <2>3. RowTypes' /\ ThreadTypes'
    BY <1>1, <2>2 DEF RowTypes, ThreadTypes, IsThread
  <2>4. \A j \in Jobs : Used(j)' = Used(j)
    BY <2>2 DEF Used
  <2>5. \A j \in S : Used(j) = {} /\ Used(j) # Numbers
    BY <2>2, NumbersAre DEF FrozenInv
  <2>6. FrozenInv' /\ AttemptInv'
    BY <1>1, <2>2, <2>4 DEF FrozenInv, AttemptInv
  <2>7. AnswerIsStored'
    BY <2>2, <2>5 DEF AnswerIsStored, Used
  <2>8. PoolInv'
    BY <1>1, <1>2, <2>1 DEF PoolInv
  <2>9. OpenInv'
    BY <1>1, <1>2, <2>1, <2>2 DEF OpenInv, Open
  <2>10. PendingInv'
    BY <1>1, <1>2, <2>1, <2>2, <2>4, <2>5 DEF PendingInv, PoolInv, Detector, Gone
  <2>11. QuietInv' /\ ReportInv'
    BY <1>1, <1>2, <2>1, <2>2 DEF QuietInv, ReportInv, Quiet, Reported, Detector
  <2>12. QED
    BY <2>1, <2>3, <2>6, <2>7, <2>8, <2>9, <2>10, <2>11
<1>5. CASE /\ Enter(NextCycle)
           /\ IF NextCycle \in begun THEN UNCHANGED store
              ELSE \E S \in IF kind = "continuous" THEN SUBSET JobsOf(NextCycle)
                            ELSE {JobsOf(NextCycle)} : FreezeJobs(NextCycle, S)
  <2> DEFINE c == NextCycle
  <2>1. /\ Enter(c)
        /\ \/ c \in begun /\ UNCHANGED store
           \/ c \notin begun /\ \E S \in SUBSET JobsOf(c) : FreezeJobs(c, S)
    <3>1. CASE c \in begun
      <4>1. Enter(c) /\ UNCHANGED store
        BY <1>5, <3>1
      <4>2. QED
        BY <3>1, <4>1
    <3>2. CASE c \notin begun
      <4>1. \E S \in IF kind = "continuous" THEN SUBSET JobsOf(c) ELSE {JobsOf(c)} :
              FreezeJobs(c, S)
        BY <1>5, <3>2
      <4>2. QED
        BY <1>5, <3>2, <4>1
    <3>3. QED
      BY <3>1, <3>2
  <2> HIDE DEF c
  <2>2. QED
    BY <1>4, <2>1
<1>6. QED
  BY <1>3, <1>5 DEF BeginCycle

LEMMA Recorded ==
  ASSUME RunnerInv, NEW j \in Jobs, RecordCancelled(j)
  PROVE  /\ UNCHANGED <<attempt, begun, status, report>>
         /\ \A i \in Jobs : job'[i] = IF i = j /\ job[i] = "pending" THEN "cancelled" ELSE job[i]
         /\ RowTypes' /\ FrozenInv' /\ AnswerIsStored'
         /\ job[j] # "pending" => job' = job
<1>1. /\ UNCHANGED <<attempt, begun, status, report>>
      /\ \A i \in Jobs : job'[i] = IF i = j /\ job[i] = "pending" THEN "cancelled" ELSE job[i]
      /\ RowTypes'
      /\ job[j] # "pending" => job' = job
  BY DEF RunnerInv, RowTypes, RecordCancelled, Settled
<1>2. FrozenInv' /\ AnswerIsStored'
  BY <1>1 DEF RunnerInv, FrozenInv, AnswerIsStored, Used
<1>3. QED
  BY <1>1, <1>2

LEMMA SweepOneKeeps ==
  ASSUME RunnerInv, NEW j \in main.todo, main.pc = "sweep", RecordCancelled(j),
         main' = [main EXCEPT !.todo = @ \ {j}], UNCHANGED <<pool, thread, signal, kind>>
  PROVE  RunnerInv'
<1> USE DEF RunnerInv
<1>1. j \in Jobs
  BY DEF MainTypes
<1>2. /\ main'.pc = "sweep" /\ main'.cycle = main.cycle /\ main'.queue = main.queue
      /\ main'.todo = main.todo \ {j} /\ main'.failed = main.failed /\ MainTypes'
  BY DEF MainTypes
<1>3. /\ UNCHANGED <<attempt, begun, status, report>>
      /\ \A i \in Jobs : job'[i] = IF i = j /\ job[i] = "pending" THEN "cancelled" ELSE job[i]
      /\ RowTypes' /\ FrozenInv' /\ AnswerIsStored'
  BY <1>1, Recorded
<1>4. ThreadTypes' /\ AttemptInv' /\ PoolInv'
  BY <1>2 DEF ThreadTypes, IsThread, AttemptInv, PoolInv
<1>5. OpenInv'
  BY <1>2, <1>3 DEF OpenInv, Open, Gone
<1>6. PendingInv'
  BY <1>2, <1>3, JobsOfCycle DEF PendingInv, Detector, Pending, Used, Gone
<1>7. QuietInv' /\ ReportInv'
  BY <1>2, <1>3 DEF QuietInv, ReportInv, Quiet, Reported, Detector
<1>8. QED
  BY <1>2, <1>3, <1>4, <1>5, <1>6, <1>7

LEMMA SweepEndsKeeps ==
  ASSUME RunnerInv, main.pc = "sweep", main.todo = {}, CancelRunningAttempts(pool),
         Go(IF main.failed THEN "failed" ELSE "cycled"), UNCHANGED <<pool, thread, signal, kind>>
  PROVE  RunnerInv'
<1> USE DEF RunnerInv
<1>1. /\ main'.pc = (IF main.failed THEN "failed" ELSE "cycled") /\ main'.cycle = main.cycle
      /\ main'.queue = main.queue /\ main'.failed = main.failed /\ MainTypes' /\ signal.stop
  <2> DEFINE p == IF main.failed THEN "failed" ELSE "cycled"
  <2>1. Go(p)
    OBVIOUS
  <2> HIDE DEF p
  <2>2. /\ main'.pc = p /\ main'.cycle = main.cycle
        /\ main'.queue = main.queue /\ main'.failed = main.failed /\ MainTypes' /\ signal.stop
    BY <2>1, MainGoes DEF MainTypes, PoolInv
  <2>3. QED
    BY <2>2 DEF p
<1>2. /\ UNCHANGED <<job, begun, status, report>>
      /\ \A j \in Jobs, n \in Numbers :
            attempt'[j][n] = IF j \in pool /\ attempt[j][n] = "running" THEN "cancelled"
                             ELSE attempt[j][n]
      /\ RowTypes'
  BY DEF CancelRunningAttempts, RowTypes
<1>3. \A j \in Jobs : Used(j)' = Used(j) /\ (Open(j)' => Open(j) /\ j \notin pool)
  BY <1>2 DEF Used, Open
<1>4. \A j \in Jobs : Open(j)' => main.failed
  BY <1>3 DEF OpenInv, Gone
<1>5. FrozenInv' /\ AnswerIsStored'
  BY <1>2, <1>3 DEF FrozenInv, AnswerIsStored
<1>6. ThreadTypes' /\ AttemptInv' /\ PoolInv'
  BY <1>1 DEF ThreadTypes, IsThread, AttemptInv, PoolInv
<1>7. OpenInv'
  <2>1. \A j \in Jobs : Open(j)' => Gone'
    BY <1>1, <1>4 DEF Gone
  <2>2. \A j \in Jobs, n \in Numbers : attempt'[j][n] = "running" => attempt[j][n] = "running"
    BY <1>2
  <2>3. QED
    BY <1>2, <1>3, <2>1, <2>2 DEF OpenInv
<1>8. PendingInv'
  BY <1>1, <1>2, <1>3 DEF PendingInv, PoolInv, Detector, Pending, Gone
<1>9. QuietInv'
  BY <1>1, <1>2, <1>4 DEF QuietInv, Quiet, Detector, Pending, PendingInv
<1>10. ReportInv'
  BY <1>1, <1>2 DEF ReportInv, Reported, Detector
<1>11. QED
  BY <1>1, <1>2, <1>5, <1>6, <1>7, <1>8, <1>9, <1>10

LEMMA CycledKeeps ==
  ASSUME RunnerInv, Cycled
  PROVE  RunnerInv'
<1> USE DEF RunnerInv
<1>1. /\ UNCHANGED <<job, attempt, begun, thread, pool, signal, kind, status, report>>
      /\ main.pc = "cycled"
      /\ signal.stop => main'.pc = "report"
      /\ \E p \in {"file", "sleep", "report"} : Go(p) /\ main'.pc = p
  BY MainGoes DEF Cycled, EndCycle, store, server
<1>2. /\ main'.cycle = main.cycle /\ main'.queue = main.queue /\ main'.todo = main.todo
      /\ main'.failed = main.failed /\ MainTypes'
  BY <1>1, MainGoes DEF MainTypes
<1>3. RowTypes' /\ ThreadTypes' /\ FrozenInv' /\ AttemptInv' /\ AnswerIsStored'
  BY <1>1, <1>2, RowsStand
<1>4. PoolInv'
  BY <1>1, <1>2 DEF PoolInv
<1>5. OpenInv'
  BY <1>1, <1>2 DEF OpenInv, PoolInv, Open, Gone
<1>6. PendingInv'
  BY <1>1, <1>2 DEF PendingInv, PoolInv, Detector, Pending, Used, Gone
<1>7. QuietInv'
  BY <1>1, <1>2 DEF QuietInv, Quiet, PoolInv, OpenInv, PendingInv, Open, Gone, Detector, Pending
<1>8. ReportInv'
  BY <1>1, <1>2 DEF ReportInv, Reported, PoolInv, Detector
<1>9. QED
  BY <1>1, <1>2, <1>3, <1>4, <1>5, <1>6, <1>7, <1>8 DEF RunnerInv

LEMMA ReportKeeps ==
  ASSUME RunnerInv, Report
  PROVE  RunnerInv'
<1> USE DEF RunnerInv
<1>1. /\ main.pc = "report" /\ main'.pc = "status"
      /\ UNCHANGED <<job, attempt, begun, thread, pool, signal, kind, status>>
      /\ main'.cycle = main.cycle /\ main'.queue = main.queue /\ main'.todo = main.todo
      /\ main'.failed = main.failed /\ MainTypes'
  <2>1. CASE Detector
    BY <2>1, MainGoes DEF Report, SaveReport, server, MainTypes
  <2>2. CASE ~Detector
    BY <2>2 DEF Report, store, server, MainTypes
  <2>3. QED
    BY <2>1, <2>2
<1>2. Detector => report'.jobs = {<<j, job[j]>> : j \in Jobs}
  BY DEF Report, SaveReport
<1>3. RowTypes' /\ ThreadTypes' /\ FrozenInv' /\ AttemptInv' /\ AnswerIsStored'
  BY <1>1, RowsStand
<1>4. PoolInv' /\ OpenInv'
  BY <1>1 DEF PoolInv, OpenInv, Open, Gone
<1>5. PendingInv' /\ QuietInv'
  BY <1>1 DEF PendingInv, QuietInv, Quiet, Detector, Pending, Used, Open, Gone
<1>6. ReportInv'
  BY <1>1, <1>2 DEF ReportInv, Reported, Detector
<1>7. QED
  BY <1>1, <1>3, <1>4, <1>5, <1>6

LEMMA StatusKeeps ==
  ASSUME RunnerInv, Status
  PROVE  RunnerInv'
<1> USE DEF RunnerInv
<1>1. /\ main.pc = "status" /\ main'.pc = "publish"
      /\ UNCHANGED <<job, attempt, begun, thread, pool, signal, kind, report>>
      /\ main'.cycle = main.cycle /\ main'.queue = main.queue /\ main'.todo = main.todo
      /\ main'.failed = main.failed /\ MainTypes' /\ ~main.failed
  BY MainGoes DEF Status, SetStatus, server, MainTypes, PoolInv
<1>2. RowTypes' /\ ThreadTypes' /\ FrozenInv' /\ AttemptInv' /\ AnswerIsStored'
  BY <1>1, RowsStand
<1>3. PoolInv' /\ OpenInv'
  BY <1>1 DEF PoolInv, OpenInv, Open, Gone
<1>4. PendingInv' /\ QuietInv' /\ ReportInv'
  BY <1>1 DEF PendingInv, QuietInv, Quiet, Detector, Pending, Used, Open, Gone, ReportInv, Reported
<1>5. QED
  BY <1>1, <1>2, <1>3, <1>4

LEMMA FailedKeeps ==
  ASSUME RunnerInv, Failed
  PROVE  RunnerInv'
<1> USE DEF RunnerInv
<1>1. /\ main.pc = "failed" /\ main'.pc = "publish"
      /\ UNCHANGED <<job, attempt, begun, thread, pool, signal, kind, report>>
      /\ main'.cycle = main.cycle /\ main'.queue = main.queue /\ main'.todo = main.todo
      /\ main'.failed = main.failed /\ MainTypes'
      /\ Detector => status' = "error"
  BY DEF Failed, SetStatus, store, server, MainTypes
<1>2. main.failed
  BY <1>1 DEF PoolInv
<1>3. RowTypes' /\ ThreadTypes' /\ FrozenInv' /\ AttemptInv' /\ AnswerIsStored'
  BY <1>1, RowsStand
<1>4. PoolInv' /\ OpenInv'
  BY <1>1, <1>2 DEF PoolInv, OpenInv, Open, Gone
<1>5. PendingInv' /\ QuietInv' /\ ReportInv'
  BY <1>1, <1>2 DEF PendingInv, QuietInv, Quiet, Detector, Pending, Used, Open, Gone, ReportInv,
     Reported
<1>6. QED
  BY <1>1, <1>3, <1>4, <1>5

LEMMA PublishKeeps ==
  ASSUME RunnerInv, Publish
  PROVE  RunnerInv'
<1> USE DEF RunnerInv
<1>1. /\ main.pc = "publish" /\ main'.pc = "ended"
      /\ UNCHANGED <<job, attempt, begun, thread, pool, signal, kind, report, status>>
      /\ main'.cycle = main.cycle /\ main'.queue = main.queue /\ main'.todo = main.todo
      /\ main'.failed = main.failed /\ MainTypes'
  BY MainGoes DEF Publish, store, MainTypes
<1>2. RowTypes' /\ ThreadTypes' /\ FrozenInv' /\ AttemptInv' /\ AnswerIsStored'
  BY <1>1, RowsStand
<1>3. PoolInv' /\ OpenInv'
  BY <1>1 DEF PoolInv, OpenInv, Open, Gone
<1>4. PendingInv' /\ QuietInv' /\ ReportInv'
  BY <1>1 DEF PendingInv, QuietInv, Quiet, Detector, Pending, Used, Open, Gone, ReportInv, Reported
<1>5. QED
  BY <1>1, <1>2, <1>3, <1>4
-----------------------------------------------------------------------------
(* The threads.                                                            *)

\* Nothing of this cycle that a thread could move is left once it is quiet.
LEMMA QuietThreads ==
  ASSUME RunnerInv, NEW j \in Jobs, thread[j].pc # "none", Detector, Quiet \/ Reported
  PROVE  job[j] # "pending"
  BY DEF RunnerInv, PoolInv, QuietInv, Pending, Quiet, Reported

LEMMA CheckKeeps ==
  ASSUME RunnerInv, NEW j \in Jobs, Check(j)
  PROVE  RunnerInv'
<1> USE DEF RunnerInv
<1>1. UNCHANGED <<main, pool, signal, kind>> /\ thread[j].pc = "check"
  BY DEF Check, server
<1>2. j \in pool
  BY <1>1 DEF PoolInv
<1>3. CASE signal.stop
  <2>1. Step(j, "done") /\ RecordCancelled(j)
    BY <1>3 DEF Check
  <2>2. /\ ThreadTypes' /\ thread'[j].pc = "done"
        /\ \A i \in Jobs \ {j} : thread'[i] = thread[i]
    BY <2>1, ThreadSteps
  <2>3. /\ UNCHANGED <<attempt, begun, status, report>>
        /\ \A i \in Jobs : job'[i] = IF i = j /\ job[i] = "pending" THEN "cancelled" ELSE job[i]
        /\ RowTypes' /\ FrozenInv' /\ AnswerIsStored'
        /\ job[j] # "pending" => job' = job
    BY <2>1, Recorded
  <2>4. MainTypes' /\ PoolInv' /\ AttemptInv'
    BY <1>1, <1>2, <2>2, <2>3 DEF MainTypes, PoolInv, AttemptInv
  <2>5. OpenInv'
    BY <1>1, <1>2, <2>2, <2>3 DEF OpenInv, Open, Gone
  <2>6. PendingInv'
    BY <1>1, <2>2, <2>3, JobsOfCycle DEF PendingInv, Detector, Pending, Used, Gone
  <2>7. QuietInv'
    BY <1>1, <2>3, JobsOfCycle DEF QuietInv, Quiet, Detector, Pending, Open
  <2>8. ReportInv'
    BY <1>1, <2>3, QuietThreads DEF ReportInv, Reported, Detector
  <2>9. QED
    BY <2>2, <2>3, <2>4, <2>5, <2>6, <2>7, <2>8
<1>4. CASE ~signal.stop
  <2>1. Step(j, "start") /\ UNCHANGED <<job, attempt, begun, status, report>>
    BY <1>4 DEF Check, store
  <2>2. /\ ThreadTypes' /\ thread'[j].pc = "start"
        /\ \A i \in Jobs \ {j} : thread'[i] = thread[i]
    BY <2>1, ThreadSteps
  <2>3. RowTypes' /\ FrozenInv' /\ AnswerIsStored'
    BY <2>1 DEF RowTypes, FrozenInv, Used, AnswerIsStored
  <2>4. MainTypes' /\ PoolInv' /\ AttemptInv'
    BY <1>1, <1>2, <2>1, <2>2 DEF MainTypes, PoolInv, AttemptInv
  <2>5. OpenInv'
    BY <1>1, <1>2, <2>1, <2>2 DEF OpenInv, Open, Gone
  <2>6. PendingInv' /\ QuietInv' /\ ReportInv'
    BY <1>1, <2>1, <2>2 DEF PendingInv, Detector, Pending, Used, Gone, QuietInv, Quiet, Open,
       ReportInv, Reported
  <2>7. QED
    BY <2>2, <2>3, <2>4, <2>5, <2>6
<1>5. QED
  BY <1>3, <1>4

\* A thread that goes on without a write to the jobs or the attempts.
LEMMA ThreadGoesKeeps ==
  ASSUME RunnerInv, NEW j \in Jobs, ThreadTypes', AttemptInv',
         UNCHANGED <<main, pool, kind, job, attempt, begun, report>>,
         \A i \in Jobs \ {j} : thread'[i] = thread[i],
         thread[j].pc # "none", thread'[j].n = thread[j].n,
         \/ thread[j].pc = "sent" /\ thread'[j].pc = "finish"
         \/ thread[j].pc = "finish" /\ thread'[j].pc \in {"finish", "raised"}
         \/ thread[j].pc \in {"start", "halt"} /\ thread'[j].pc = "raised"
         \/ thread[j].pc = "halt" /\ thread'[j].pc = "done",
         signal' \in [stop : BOOLEAN, fatal : BOOLEAN], signal.stop => signal'.stop,
         status' \in {status, "stopping"}
  PROVE  RunnerInv'
<1> USE DEF RunnerInv
<1>1. RowTypes' /\ FrozenInv' /\ AnswerIsStored'
  BY DEF RowTypes, FrozenInv, Used, AnswerIsStored
<1>2. MainTypes' /\ PoolInv'
  BY DEF MainTypes, PoolInv
<1>3. OpenInv'
  BY DEF OpenInv, Open, Gone, PoolInv
<1>4. PendingInv'
  BY DEF PendingInv, Detector, Pending, Used, Gone
<1>5. QuietInv' /\ ReportInv'
  BY DEF QuietInv, Quiet, Detector, Pending, Open, ReportInv, Reported
<1>6. QED
  BY <1>1, <1>2, <1>3, <1>4, <1>5

LEMMA Decided ==
  ASSUME RunnerInv, NEW j \in Jobs, NEW r, NEW o, NEW h, Decide(j, r, o, h)
  PROVE  /\ ThreadTypes'
         /\ thread'[j] = [pc |-> "finish", n |-> thread[j].n, result |-> r, outcome |-> o,
                          halt |-> h]
         /\ \A i \in Jobs \ {j} : thread'[i] = thread[i]
<1>1. PICK t : t = [thread[j] EXCEPT !.pc = "finish", !.result = r, !.outcome = o, !.halt = h]
  OBVIOUS
<1>2. t = [pc |-> "finish", n |-> thread[j].n, result |-> r, outcome |-> o, halt |-> h]
  <2>1. PICK a, b, c, d, e : thread[j] = [pc |-> a, n |-> b, result |-> c, outcome |-> d,
                                          halt |-> e]
    BY DEF RunnerInv, ThreadTypes, IsThread
  <2>2. t = [[pc |-> a, n |-> b, result |-> c, outcome |-> d, halt |-> e]
                EXCEPT !.pc = "finish", !.result = r, !.outcome = o, !.halt = h]
    BY <1>1, <2>1
  <2>3. t = [pc |-> "finish", n |-> b, result |-> r, outcome |-> o, halt |-> h]
    BY <2>2
  <2>4. QED
    BY <2>1, <2>3
<1>3. thread' = [thread EXCEPT ![j] = t]
  BY <1>1 DEF Decide
<1>4. IsThread(t) /\ t.pc = "finish"
  BY <1>2 DEF IsThread
<1>5. QED
  BY <1>2, <1>3, <1>4, ThreadReplaced

Decisions(r, o, h) ==
    /\ <<r, o>> \in {<<"ok", "ok">>, <<"cancelled", "cancelled">>, <<"error", "cancelled">>,
                     <<"error", "error">>, <<"error", "none">>}
    /\ h => o = "error"

LEMMA DecideKeeps ==
  ASSUME RunnerInv, NEW j \in Jobs, thread[j].pc \in {"sent", "finish"},
         NEW r, NEW o, NEW h, Decide(j, r, o, h), Decisions(r, o, h),
         signal' \in [stop : BOOLEAN, fatal : BOOLEAN], signal.stop => signal'.stop,
         UNCHANGED <<store, main, pool, kind>>
  PROVE  RunnerInv'
<1>1. /\ ThreadTypes'
      /\ thread'[j] = [pc |-> "finish", n |-> thread[j].n, result |-> r, outcome |-> o,
                       halt |-> h]
      /\ \A i \in Jobs \ {j} : thread'[i] = thread[i]
  BY Decided
<1>2. AttemptInv'
  BY <1>1 DEF RunnerInv, AttemptInv, Decisions
<1>3. QED
  BY <1>1, <1>2, ThreadGoesKeeps DEF store

LEMMA AnswerKeeps ==
  ASSUME RunnerInv, NEW j \in Jobs, Answer(j)
  PROVE  RunnerInv'
<1>1. /\ thread[j].pc = "sent" /\ signal' = signal /\ UNCHANGED <<store, main, pool, kind>>
      /\ Decide(j, "cancelled", "cancelled", FALSE) \/ Decide(j, "ok", "ok", FALSE)
  BY DEF Answer, server
<1>2. signal' \in [stop : BOOLEAN, fatal : BOOLEAN]
  BY <1>1 DEF RunnerInv, MainTypes
<1>3. Decisions("cancelled", "cancelled", FALSE) /\ Decisions("ok", "ok", FALSE)
  BY DEF Decisions
<1>4. QED
  BY <1>1, <1>2, <1>3, DecideKeeps

LEMMA FailKeeps ==
  ASSUME RunnerInv, NEW j \in Jobs, NEW reply, Fail(j, reply)
  PROVE  RunnerInv'
<1>1. /\ thread[j].pc = "sent" /\ UNCHANGED <<store, main, pool, kind>>
      /\ \E o \in {"cancelled", "none", "error"}, h \in BOOLEAN :
            Decide(j, "error", o, h) /\ (h => o = "error")
  <2> DEFINE h == reply \in {"denied", "unsaved"}
  <2>1. /\ thread[j].pc = "sent" /\ UNCHANGED <<store, main, pool, kind>> /\ h \in BOOLEAN
    BY DEF Fail, server
  <2>2. \/ Decide(j, "error", "cancelled", FALSE) \/ Decide(j, "error", "none", FALSE)
        \/ Decide(j, "error", "error", h) \/ Decide(j, "error", "error", FALSE)
    BY DEF Fail
  <2> HIDE DEF h
  <2>3. QED
    BY <2>1, <2>2
<1>2. signal' \in [stop : BOOLEAN, fatal : BOOLEAN] /\ (signal.stop => signal'.stop)
  BY DEF Fail, RunnerInv, MainTypes
<1>3. PICK o \in {"cancelled", "none", "error"}, h \in BOOLEAN :
         Decide(j, "error", o, h) /\ (h => o = "error")
  BY <1>1
<1>4. Decisions("error", o, h)
  BY <1>3 DEF Decisions
<1>5. QED
  BY <1>1, <1>2, <1>3, <1>4, DecideKeeps

LEMMA HaltKeeps ==
  ASSUME RunnerInv, NEW j \in Jobs, Halt(j)
  PROVE  RunnerInv'
<1>1. /\ thread[j].pc = "halt" /\ Step(j, "done") /\ status' = "stopping"
      /\ UNCHANGED <<main, pool, signal, kind, job, attempt, begun, report>>
  BY DEF Halt, SetStatus, server
<1>2. /\ ThreadTypes' /\ thread'[j].pc = "done" /\ thread'[j].n = thread[j].n
      /\ \A i \in Jobs \ {j} : thread'[i] = thread[i]
  BY <1>1, ThreadSteps
<1>3. AttemptInv' /\ signal' \in [stop : BOOLEAN, fatal : BOOLEAN]
  BY <1>1, <1>2 DEF RunnerInv, AttemptInv, MainTypes
<1>4. QED
  BY <1>1, <1>2, <1>3, ThreadGoesKeeps

LEMMA RaiseKeeps ==
  ASSUME RunnerInv, NEW j \in Jobs, Raise(j)
  PROVE  RunnerInv'
<1>1. /\ thread[j].pc \in {"start", "finish", "halt"} /\ UNCHANGED <<store, main, pool, signal, kind>>
      /\ signal' \in [stop : BOOLEAN, fatal : BOOLEAN]
  BY DEF Raise, RunnerInv, MainTypes
<1>2. CASE thread[j].pc = "finish" /\ thread[j].result = "ok"
  <2>1. PICK o \in {"cancelled", "error"} : Decide(j, "error", o, FALSE)
    BY <1>2 DEF Raise
  <2>2. Decisions("error", o, FALSE)
    BY DEF Decisions
  <2>3. QED
    BY <1>1, <1>2, <2>1, <2>2, DecideKeeps
<1>3. CASE ~(thread[j].pc = "finish" /\ thread[j].result = "ok")
  <2>1. Step(j, "raised")
    BY <1>3 DEF Raise
  <2>2. /\ ThreadTypes' /\ thread'[j].pc = "raised" /\ thread'[j].n = thread[j].n
        /\ \A i \in Jobs \ {j} : thread'[i] = thread[i]
    BY <2>1, ThreadSteps
  <2>3. AttemptInv'
    BY <2>2 DEF RunnerInv, AttemptInv
  <2>4. QED
    BY <1>1, <2>2, <2>3, ThreadGoesKeeps DEF store
<1>4. QED
  BY <1>2, <1>3

LEMMA StartKeeps ==
  ASSUME RunnerInv, NEW j \in Jobs, Start(j)
  PROVE  RunnerInv'
<1> USE DEF RunnerInv
<1>1. UNCHANGED <<main, pool, signal, kind>> /\ thread[j].pc = "start"
  BY DEF Start, server
<1>2. j \in pool /\ j \in JobsOf(main.cycle)
  BY <1>1 DEF PoolInv
<1>3. CASE ~MayStart(j, thread[j].n)
  <2>1. Step(j, "raised") /\ UNCHANGED <<job, attempt, begun, status, report>>
    BY <1>3 DEF Start, store
  <2>2. /\ ThreadTypes' /\ thread'[j].pc = "raised" /\ thread'[j].n = thread[j].n
        /\ \A i \in Jobs \ {j} : thread'[i] = thread[i]
    BY <2>1, ThreadSteps
  <2>3. AttemptInv' /\ signal' \in [stop : BOOLEAN, fatal : BOOLEAN]
    BY <1>1, <2>2 DEF AttemptInv, MainTypes
  <2>4. QED
    BY <1>1, <2>1, <2>2, <2>3, ThreadGoesKeeps
<1>4. CASE MayStart(j, thread[j].n)
  <2> DEFINE n == thread[j].n
  <2>1. Step(j, "sent") /\ StartAttempt(j, n)
    BY <1>4 DEF Start
  <2>2. n \in Numbers /\ job[j] = "pending" /\ attempt[j][n] = "none"
    BY <1>4 DEF MayStart
  <2>3. /\ ThreadTypes' /\ thread'[j].pc = "sent" /\ thread'[j].n = n
        /\ \A i \in Jobs \ {j} : thread'[i] = thread[i]
    BY <2>1, ThreadSteps
  <2> HIDE DEF n
  <2>4. /\ UNCHANGED <<job, begun, status, report>>
        /\ \A i \in Jobs, m \in Numbers :
              attempt'[i][m] = IF i = j /\ m = n THEN "running" ELSE attempt[i][m]
        /\ RowTypes'
    BY <2>1, <2>2 DEF StartAttempt, RowTypes
  <2>5. \A i \in Jobs \ {j} : Used(i)' = Used(i) /\ (Open(i)' <=> Open(i))
    BY <2>4 DEF Used, Open
  <2>6. FrozenInv'
    BY <2>2, <2>4, <2>5 DEF FrozenInv
  <2>7. AnswerIsStored'
    BY <2>2, <2>4 DEF AnswerIsStored
  <2>8. MainTypes' /\ PoolInv' /\ AttemptInv'
    BY <1>1, <1>2, <2>2, <2>3 DEF MainTypes, PoolInv, AttemptInv
  <2>9. ~Open(j)
    BY <1>1, <2>2 DEF OpenInv
  <2>10. OpenInv'
    <3>1. \A m \in Numbers : attempt'[j][m] = "running" => m = n
      BY <2>4, <2>9 DEF Open
    <3>2. \A i \in Jobs \ {j}, m \in Numbers : attempt'[i][m] = attempt[i][m]
      BY <2>4
    <3>3. QED
      BY <1>1, <1>2, <2>2, <2>3, <2>4, <2>5, <3>1, <3>2 DEF OpenInv, Gone
  <2>11. PendingInv'
    BY <1>1, <1>2, <2>2, <2>3, <2>4, <2>5 DEF PendingInv, Detector, Pending, Gone, AttemptInv
  <2>12. ~(Detector /\ Quiet)
    BY <1>2, <2>2 DEF QuietInv, Pending
  <2>13. QuietInv' /\ ReportInv'
    BY <1>1, <2>4, <2>12 DEF QuietInv, ReportInv, Quiet, Reported, Detector
  <2>14. QED
    BY <2>3, <2>4, <2>6, <2>7, <2>8, <2>10, <2>11, <2>13
<1>5. QED
  BY <1>3, <1>4

\* What the thread becomes when its attempt is over.
LEMMA Finished ==
  ASSUME RunnerInv, NEW j \in Jobs, Finish(j)
  PROVE  /\ ThreadTypes' /\ thread'[j].pc \in {"halt", "check", "done"}
         /\ thread'[j].pc # "check" => thread[j].outcome # "none"
         /\ \A i \in Jobs \ {j} : thread'[i] = thread[i]
<1>1. thread[j].pc = "finish"
  BY DEF Finish
<1>2. PICK t : /\ thread' = [thread EXCEPT ![j] = t]
               /\ t = IF thread[j].halt THEN [NoThread EXCEPT !.pc = "halt"]
                      ELSE IF thread[j].outcome = "none"
                      THEN [NoThread EXCEPT !.pc = "check", !.n = thread[j].n + 1]
                      ELSE [NoThread EXCEPT !.pc = "done"]
  BY DEF Finish
<1>3. /\ IsThread(t) /\ t.pc \in {"halt", "check", "done"}
      /\ t.pc # "check" => thread[j].outcome # "none"
  <2>1. CASE thread[j].halt
    <3>1. thread[j].outcome # "none"
      BY <1>1, <2>1 DEF RunnerInv, AttemptInv
    <3>2. t = [NoThread EXCEPT !.pc = "halt"]
      BY <1>2, <2>1, <3>1
    <3>3. IsThread(t) /\ t.pc = "halt"
      BY <3>2 DEF IsThread, NoThread
    <3>4. QED
      BY <3>1, <3>3
  <2>2. CASE ~thread[j].halt /\ thread[j].outcome = "none"
    <3>1. t = [NoThread EXCEPT !.pc = "check", !.n = thread[j].n + 1]
      BY <1>2, <2>2
    <3>2. IsThread(t) /\ t.pc = "check"
      BY <3>1 DEF IsThread, NoThread
    <3>3. QED
      BY <3>2
  <2>3. CASE ~thread[j].halt /\ thread[j].outcome # "none"
    <3>1. t = [NoThread EXCEPT !.pc = "done"]
      BY <1>2, <2>3
    <3>2. IsThread(t) /\ t.pc = "done"
      BY <3>1 DEF IsThread, NoThread
    <3>3. QED
      BY <2>3, <3>2
  <2>4. QED
    BY <2>1, <2>2, <2>3
<1>4. ThreadTypes' /\ thread'[j] = t /\ \A i \in Jobs \ {j} : thread'[i] = thread[i]
  BY <1>2, <1>3, ThreadReplaced
<1>5. QED
  BY <1>3, <1>4

LEMMA FinishKeeps ==
  ASSUME RunnerInv, NEW j \in Jobs, Finish(j)
  PROVE  RunnerInv'
<1> USE DEF RunnerInv
<1> DEFINE n == thread[j].n
           result == thread[j].result
           outcome == thread[j].outcome
           live == attempt[j][n] = "running" /\ job[j] = "pending"
<1>1. /\ UNCHANGED <<main, pool, kind>> /\ thread[j].pc = "finish"
      /\ signal' \in [stop : BOOLEAN, fatal : BOOLEAN] /\ (signal.stop => signal'.stop)
  BY DEF Finish, server, MainTypes
<1>2. j \in pool /\ j \in JobsOf(main.cycle)
  BY <1>1 DEF PoolInv
<1>3. /\ n \in Numbers
      /\ <<result, outcome>> \in
             {<<"ok", "ok">>, <<"cancelled", "cancelled">>, <<"error", "cancelled">>,
              <<"error", "error">>, <<"error", "none">>}
  BY <1>1 DEF AttemptInv
<1>4. FinishAttempt(j, n, result, outcome)
  BY DEF Finish
<1> HIDE DEF n, result, outcome
<1>5. /\ ThreadTypes' /\ thread'[j].pc \in {"halt", "check", "done"}
      /\ thread'[j].pc # "check" => outcome # "none"
      /\ \A i \in Jobs \ {j} : thread'[i] = thread[i]
  BY Finished DEF outcome
<1>6. MainTypes' /\ PoolInv' /\ AttemptInv'
  BY <1>1, <1>2, <1>5 DEF MainTypes, PoolInv, AttemptInv
<1>7. CASE ~live
  <2>1. UNCHANGED <<job, attempt, begun, status, report>>
    BY <1>4, <1>7 DEF FinishAttempt
  <2>2. RowTypes' /\ FrozenInv' /\ AnswerIsStored'
    BY <2>1 DEF RowTypes, FrozenInv, Used, AnswerIsStored
  <2>3. job[j] = "pending" => ~Open(j) /\ ~Detector
    BY <1>1, <1>3, <1>7 DEF OpenInv, PendingInv, Open, n
  <2>4. OpenInv'
    BY <1>1, <1>2, <1>5, <2>1, <2>3 DEF OpenInv, Open, Gone
  <2>5. PendingInv' /\ QuietInv' /\ ReportInv'
    BY <1>1, <1>2, <1>5, <2>1, <2>3 DEF PendingInv, Detector, Pending, Used, Gone, QuietInv,
       Quiet, Open, ReportInv, Reported
  <2>6. QED
    BY <1>5, <1>6, <2>2, <2>4, <2>5
<1>8. CASE live
  <2>1. /\ UNCHANGED <<begun, status, report>>
        /\ \A i \in Jobs, m \in Numbers :
              attempt'[i][m] = IF i = j /\ m = n THEN result ELSE attempt[i][m]
        /\ \A i \in Jobs : job'[i] = IF i = j /\ outcome # "none" THEN outcome ELSE job[i]
        /\ RowTypes'
    BY <1>3, <1>4, <1>8 DEF FinishAttempt, RowTypes, Settled
  <2>2. /\ Used(j)' = Used(j)
        /\ \A i \in Jobs \ {j} : Used(i)' = Used(i) /\ (Open(i)' <=> Open(i))
    BY <1>3, <1>8, <2>1 DEF Used, Open
  <2>3. \A m \in Numbers : attempt'[j][m] # "running"
    BY <1>1, <1>3, <1>8, <2>1 DEF OpenInv
  <2>4. FrozenInv'
    BY <1>3, <1>8, <2>1, <2>2 DEF FrozenInv
  <2>5. AnswerIsStored'
    <3>1. \A m \in Numbers : attempt[j][m] # "ok"
      BY <1>8 DEF AnswerIsStored
    <3>2. job'[j] = "ok" <=> \E m \in Numbers : attempt'[j][m] = "ok"
      BY <1>3, <1>8, <2>1, <3>1
    <3>3. \A i \in Jobs \ {j} : job'[i] = "ok" <=> \E m \in Numbers : attempt'[i][m] = "ok"
      BY <2>1 DEF AnswerIsStored
    <3>4. QED
      BY <3>2, <3>3 DEF AnswerIsStored
  <2>6. OpenInv'
    <3>1. ~Open(j)'
      BY <2>3 DEF Open
    <3>2. \A i \in Jobs \ {j} : /\ job'[i] = job[i]
                                /\ \A m \in Numbers : attempt'[i][m] = attempt[i][m]
      BY <2>1
    <3>3. QED
      BY <1>1, <1>2, <1>5, <2>2, <2>3, <3>1, <3>2 DEF OpenInv, Gone
  <2>7. PendingInv'
    <3>1. \A i \in Jobs \ {j} : /\ job'[i] = job[i] /\ Used(i)' = Used(i)
                                /\ \A m \in Numbers : attempt'[i][m] = attempt[i][m]
      BY <2>1, <2>2
    <3>2. job'[j] = "pending" => job[j] = "pending" /\ thread'[j].pc = "check"
      BY <1>3, <1>5, <1>8, <2>1
    <3>3. \A i \in Jobs \ {j} : thread[i].pc \in {"sent", "finish"} => thread[i].n \in Numbers
      BY DEF AttemptInv
    <3>4. QED
      BY <1>1, <1>2, <1>5, <3>1, <3>2, <3>3, JobsOfCycle DEF PendingInv, Detector, Pending, Gone
  <2>8. ~(Detector /\ Quiet)
    BY <1>2, <1>8 DEF QuietInv, Pending
  <2>9. QuietInv' /\ ReportInv'
    BY <1>1, <2>1, <2>8 DEF QuietInv, ReportInv, Quiet, Reported, Detector
  <2>10. QED
    BY <1>5, <1>6, <2>1, <2>4, <2>5, <2>6, <2>7, <2>9
<1>9. QED
  BY <1>7, <1>8
-----------------------------------------------------------------------------
(* The server.                                                             *)

LEMMA StopRequestedKeeps ==
  ASSUME RunnerInv, StopRequested
  PROVE  RunnerInv'
<1> USE DEF RunnerInv
<1>1. /\ UNCHANGED <<job, attempt, begun, status, report, main, pool, thread, kind>>
      /\ signal'.stop /\ signal' \in [stop : BOOLEAN, fatal : BOOLEAN]
  BY DEF StopRequested, store, MainTypes
<1>2. RowTypes' /\ ThreadTypes' /\ FrozenInv' /\ AttemptInv' /\ AnswerIsStored'
  BY <1>1, RowsStand
<1>3. MainTypes' /\ PoolInv' /\ OpenInv'
  BY <1>1 DEF MainTypes, PoolInv, OpenInv, Open, Gone
<1>4. PendingInv' /\ QuietInv' /\ ReportInv'
  BY <1>1 DEF PendingInv, Detector, Pending, Used, Gone, QuietInv, Quiet, Open, ReportInv, Reported
<1>5. QED
  BY <1>2, <1>3, <1>4

LEMMA StopRecordedKeeps ==
  ASSUME RunnerInv, StopRecorded
  PROVE  RunnerInv'
<1> USE DEF RunnerInv
<1>1. /\ UNCHANGED <<job, attempt, begun, report, main, pool, thread, signal, kind>>
      /\ status' = "stopping"
  BY DEF StopRecorded, SetStatus, run
<1>2. RowTypes' /\ ThreadTypes' /\ FrozenInv' /\ AttemptInv' /\ AnswerIsStored'
  BY <1>1, RowsStand
<1>3. MainTypes' /\ PoolInv' /\ OpenInv'
  BY <1>1 DEF MainTypes, PoolInv, OpenInv, Open, Gone
<1>4. PendingInv' /\ QuietInv' /\ ReportInv'
  BY <1>1 DEF PendingInv, Detector, Pending, Used, Gone, QuietInv, Quiet, Open, ReportInv, Reported
<1>5. QED
  BY <1>2, <1>3, <1>4

\* Nothing is left of the process.
LEMMA NoThreads ==
  ASSUME thread' = Threads
  PROVE  ThreadTypes' /\ AttemptInv' /\ \A j \in Jobs : thread'[j].pc = "none"
<1>1. IsThread(NoThread) /\ NoThread.pc = "none"
  BY DEF IsThread, NoThread
<1>2. \A j \in Jobs : thread'[j] = NoThread
  BY DEF Threads
<1>3. DOMAIN thread' = Jobs /\ thread' = [j \in Jobs |-> thread'[j]]
  BY DEF Threads
<1>4. QED
  BY <1>1, <1>2, <1>3 DEF ThreadTypes, AttemptInv

LEMMA DieKeeps ==
  ASSUME RunnerInv, Die, UNCHANGED <<job, attempt, begun, report>>
  PROVE  RunnerInv'
<1> USE DEF RunnerInv
<1>1. /\ UNCHANGED kind /\ pool' = {} /\ thread' = Threads
      /\ signal' \in [stop : BOOLEAN, fatal : BOOLEAN]
  BY DEF Die, NoSignal
<1>2. main'.pc = "dead" /\ ~main'.failed /\ MainTypes'
  <2>1. PICK x : x = [AtStart EXCEPT !.pc = "dead"]
    OBVIOUS
  <2>2. x = [pc |-> "dead", cycle |-> 0, queue |-> {}, todo |-> {}, failed |-> FALSE,
             final |-> "none"]
    BY <2>1 DEF AtStart
  <2>3. main' = x
    BY <2>1 DEF Die
  <2>4. QED
    BY <1>1, <2>2, <2>3 DEF MainTypes
<1>3. ThreadTypes' /\ AttemptInv' /\ \A j \in Jobs : thread'[j].pc = "none"
  BY <1>1, NoThreads
<1>4. RowTypes' /\ FrozenInv' /\ AnswerIsStored'
  BY <1>1 DEF RowTypes, FrozenInv, Used, AnswerIsStored
<1>5. PoolInv' /\ OpenInv'
  BY <1>1, <1>2, <1>3 DEF PoolInv, OpenInv, Open, Gone
<1>6. PendingInv' /\ QuietInv' /\ ReportInv'
  BY <1>1, <1>2, <1>3 DEF PendingInv, Gone, QuietInv, Quiet, ReportInv, Reported
<1>7. QED
  BY <1>2, <1>3, <1>4, <1>5, <1>6

LEMMA CrashKeeps ==
  ASSUME RunnerInv, Crash
  PROVE  RunnerInv'
  BY DieKeeps DEF Crash, RestoreSession, SetStatus

\* A session that was reconciled, and then runs or is dropped.
LEMMA ReopenKeeps ==
  ASSUME RunnerInv, Reopen, pool' = {}, thread' = Threads, UNCHANGED kind, MainTypes',
         ~main'.failed, main'.pc \in {"cycle", "closed"}, main'.pc = "cycle" => main'.cycle = 0
  PROVE  RunnerInv'
<1> USE DEF RunnerInv
<1>1. UNCHANGED <<begun, report>> /\ status' = "running"
  BY DEF Reopen
<1>2. /\ \A j \in Jobs, n \in Numbers :
            attempt'[j][n] = IF attempt[j][n] = "running" THEN "error" ELSE attempt[j][n]
      /\ \A j \in Jobs : job'[j] = IF j \in Pending(Jobs) \ Sendable(Jobs) THEN "error"
                                  ELSE job[j]
      /\ RowTypes'
  BY DEF Reopen, RowTypes, Settled
<1>3. \A j \in Jobs : Used(j)' = Used(j) /\ ~Open(j)'
  BY <1>2 DEF Used, Open
<1>4. ASSUME NEW j \in Jobs
      PROVE  \/ job'[j] = job[j] /\ (job[j] = "pending" => Used(j) # Numbers)
             \/ job[j] = "pending" /\ job'[j] = "error"
  <2>1. CASE j \in Pending(Jobs) \ Sendable(Jobs)
    BY <1>2, <2>1 DEF Pending
  <2>2. CASE j \notin Pending(Jobs) \ Sendable(Jobs)
    <3>1. job'[j] = job[j]
      BY <1>2, <2>2
    <3>2. job[j] = "pending" => Used(j) # Numbers
      BY <2>2 DEF Pending, Sendable
    <3>3. QED
      BY <3>1, <3>2
  <2>3. QED
    BY <2>1, <2>2
<1>5. ThreadTypes' /\ AttemptInv' /\ \A j \in Jobs : thread'[j].pc = "none"
  BY <1>1, NoThreads
<1>6. FrozenInv'
  BY <1>1, <1>3, <1>4 DEF FrozenInv
<1>7. AnswerIsStored'
  BY <1>2, <1>4 DEF AnswerIsStored
<1>8. PoolInv' /\ OpenInv'
  BY <1>1, <1>3, <1>5 DEF PoolInv, OpenInv, Open
<1>9. JobsOf(0) = {}
  BY RunnerAssumption DEF JobsOf, Jobs, Cycles
<1>10. PendingInv'
  BY <1>3, <1>4, <1>5 DEF PendingInv
<1>11. QuietInv' /\ ReportInv'
  BY <1>1, <1>3, <1>9 DEF QuietInv, Quiet, ReportInv, Reported, Pending
<1>12. QED
  BY <1>2, <1>5, <1>6, <1>7, <1>8, <1>10, <1>11

LEMMA ResumeKeeps ==
  ASSUME RunnerInv, Resume
  PROVE  RunnerInv'
<1>1. /\ main' = AtStart /\ pool' = {} /\ thread' = Threads /\ signal' = NoSignal
      /\ UNCHANGED kind /\ Reopen
  BY DEF Resume, Begin
<1>2. /\ main'.pc = "cycle" /\ main'.cycle = 0 /\ ~main'.failed /\ MainTypes'
  BY <1>1 DEF AtStart, NoSignal, MainTypes
<1>3. QED
  BY <1>1, <1>2, ReopenKeeps

\* A session that is dropped is left with what its database holds.
LEMMA Dropped ==
  ASSUME RunnerInv, Drop
  PROVE  /\ MainTypes' /\ main'.pc = "closed" /\ main'.failed = main.failed
         /\ pool' = {} /\ thread' = Threads /\ UNCHANGED <<kind, faults, noted>>
<1>1. /\ pool' = {} /\ thread' = Threads /\ UNCHANGED <<kind, faults, noted, signal>>
      /\ main' = [main EXCEPT !.pc = "closed"]
  BY DEF Drop, server
<1>2. QED
  BY <1>1 DEF RunnerInv, MainTypes

LEMMA DropKeeps ==
  ASSUME RunnerInv, Drop, UNCHANGED <<job, attempt, begun, report>>
  PROVE  RunnerInv'
<1> USE DEF RunnerInv
<1>1. UNCHANGED kind /\ pool' = {} /\ thread' = Threads
  BY Dropped
<1>2. main'.pc = "closed" /\ MainTypes'
  BY Dropped
<1>3. ThreadTypes' /\ AttemptInv' /\ \A j \in Jobs : thread'[j].pc = "none"
  BY <1>1, NoThreads
<1>4. RowTypes' /\ FrozenInv' /\ AnswerIsStored'
  BY <1>1 DEF RowTypes, FrozenInv, Used, AnswerIsStored
<1>5. PoolInv' /\ OpenInv'
  BY <1>1, <1>2, <1>3 DEF PoolInv, OpenInv, Open, Gone
<1>6. PendingInv' /\ QuietInv' /\ ReportInv'
  BY <1>1, <1>2, <1>3 DEF PendingInv, Gone, QuietInv, Quiet, ReportInv, Reported
<1>7. QED
  BY <1>2, <1>3, <1>4, <1>5, <1>6

LEMMA CloseKeeps ==
  ASSUME RunnerInv, Close
  PROVE  RunnerInv'
  BY DropKeeps DEF Close, store

LEMMA NothingKeeps ==
  ASSUME RunnerInv, UNCHANGED vars
  PROVE  RunnerInv'
<1>1. /\ UNCHANGED <<main, pool, thread, signal, job, attempt, begun, report, status, kind>>
  BY DEF vars, store, run, server
<1>2. RowTypes' /\ ThreadTypes' /\ FrozenInv' /\ AttemptInv' /\ AnswerIsStored'
  BY <1>1, RowsStand
<1>3. MainTypes' /\ PoolInv' /\ OpenInv'
  BY <1>1 DEF RunnerInv, MainTypes, PoolInv, OpenInv, Open, Gone
<1>4. PendingInv' /\ QuietInv' /\ ReportInv'
  BY <1>1 DEF RunnerInv, PendingInv, Detector, Pending, Used, Gone, QuietInv, Quiet, Open,
     ReportInv, Reported
<1>5. QED
  BY <1>2, <1>3, <1>4 DEF RunnerInv
-----------------------------------------------------------------------------
(* The step, and the theorems.                                             *)

LEMMA MainStep == ASSUME RunnerInv, Main PROVE RunnerInv'
<1>1. CASE Submit
  <2>1. PICK j \in main.queue :
          /\ main.pc = "pool" /\ ~signal.stop
          /\ main' = [main EXCEPT !.queue = @ \ {j}] /\ pool' = pool \cup {j}
          /\ thread' = [thread EXCEPT ![j] = [NoThread EXCEPT !.pc = "check",
                                                              !.n = NextAttempt(j)]]
          /\ UNCHANGED <<store, signal, kind>>
    BY <1>1 DEF Submit, server
  <2>2. j \in Jobs
    BY DEF RunnerInv, MainTypes
  <2>3. QED
    BY <2>1, <2>2, SubmitKeeps
<1>2. CASE Sweep
  <2>1. CASE \E j \in main.todo : /\ RecordCancelled(j)
                                 /\ main' = [main EXCEPT !.todo = @ \ {j}]
    <3>1. PICK j \in main.todo : RecordCancelled(j) /\ main' = [main EXCEPT !.todo = @ \ {j}]
      BY <2>1
    <3>2. j \in Jobs /\ main.pc = "sweep" /\ UNCHANGED <<pool, thread, signal, kind>>
      BY <1>2 DEF RunnerInv, MainTypes, Sweep, server
    <3>3. QED
      BY <3>1, <3>2, SweepOneKeeps
  <2>2. CASE ~\E j \in main.todo : /\ RecordCancelled(j)
                                  /\ main' = [main EXCEPT !.todo = @ \ {j}]
    <3>1. /\ main.pc = "sweep" /\ main.todo = {} /\ CancelRunningAttempts(pool)
          /\ Go(IF main.failed THEN "failed" ELSE "cycled")
          /\ UNCHANGED <<pool, thread, signal, kind>>
      BY <1>2, <2>2 DEF Sweep, server
    <3>2. QED
      BY <3>1, SweepEndsKeeps
  <2>3. QED
    BY <2>1, <2>2
<1>3. QED
  BY <1>1, <1>2, BeginCycleKeeps, QueueKeeps, CollectKeeps, LeaveKeeps, FinallyKeeps, CycledKeeps,
     FileKeeps, WakeKeeps, ReportKeeps, StatusKeeps, FailedKeeps, PublishKeeps DEF Main

LEMMA RunnerStep == RunnerInv /\ [Next]_vars => RunnerInv'
<1> SUFFICES ASSUME RunnerInv, [Next]_vars PROVE RunnerInv'
  OBVIOUS
<1>1. ASSUME NEW j \in Jobs, Thread(j) \/ Raise(j) PROVE RunnerInv'
  BY <1>1, CheckKeeps, StartKeeps, AnswerKeeps, FailKeeps, FinishKeeps, HaltKeeps, RaiseKeeps
     DEF Thread
<1>2. QED
  BY <1>1, MainStep, StopRequestedKeeps, StopRecordedKeeps, CrashKeeps, ResumeKeeps, CloseKeeps,
     NothingKeeps DEF Next

LEMMA RunnerInvariant == Spec => []RunnerInv
  BY RunnerInitial, RunnerStep, PTL DEF Spec

\* What the invariant says of a session, in the words of its promises.
LEMMA RunnerPromises == RunnerInv => AnswerIsStored /\ OneRequestAtATime /\ FinalReportIsExact
<1> SUFFICES ASSUME RunnerInv PROVE AnswerIsStored /\ OneRequestAtATime /\ FinalReportIsExact
  OBVIOUS
<1>1. AnswerIsStored
  BY DEF RunnerInv
<1>2. OneRequestAtATime
  <2>1. ASSUME NEW j \in Jobs
        PROVE  Cardinality({n \in Numbers : attempt[j][n] = "running"}) <= 1
    <3> DEFINE R == {n \in Numbers : attempt[j][n] = "running"}
    <3>1. \A m, n \in R : m = n
      BY DEF RunnerInv, OpenInv
    <3>2. CASE R = {}
      BY <3>2, FS_EmptySet
    <3>3. CASE R # {}
      <4>1. PICK n \in R : R = {n}
        BY <3>1, <3>3
      <4>2. Cardinality(R) = 1
        BY <4>1, FS_Singleton
      <4>3. QED
        BY <4>2
    <3>4. QED
      BY <3>2, <3>3
  <2>2. QED
    BY <2>1 DEF OneRequestAtATime
<1>3. FinalReportIsExact
  BY DEF RunnerInv, QuietInv, Quiet, ReportInv, Reported, Open, FinalReportIsExact
<1>4. QED
  BY <1>1, <1>2, <1>3

\* A job has its answer exactly when one of its attempts has, whatever stops, raises,
\* restarts and threads left behind there were.
THEOREM AnswerIsStoredCorrect == Spec => []AnswerIsStored
  BY RunnerPromises, RunnerInvariant, PTL

\* Never two requests of one job under way, across restarts and threads left behind.
THEOREM OneRequestAtATimeCorrect == Spec => []OneRequestAtATime
  BY RunnerPromises, RunnerInvariant, PTL

\* What the report of a session that ended says is what the jobs are, for good.
THEOREM FinalReportIsExactCorrect == Spec => []FinalReportIsExact
  BY RunnerPromises, RunnerInvariant, PTL
-----------------------------------------------------------------------------
(* The contract of the jobs.                                               *)

\* What a step does to a job, in terms of the rows.
Stays(j) == job'[j] = job[j] /\ Used(j)' = Used(j)
Moves(j) ==
    \/ Stays(j)
    \/ job[j] = "absent" /\ job'[j] = "pending" /\ Used(j)' = Used(j)
    \/ /\ job[j] = "pending" /\ job'[j] = "pending"
       /\ \E n \in Numbers \ Used(j) : Used(j)' = Used(j) \cup {n}
    \/ /\ job[j] = "pending" /\ Used(j)' = Used(j)
       /\ job'[j] = "cancelled" \/ (job'[j] \in {"ok", "error"} /\ Used(j) # {})

LEMMA MovesInContract == ASSUME \A j \in Jobs : Moves(j) PROVE Contract!Next
<1> SUFFICES ASSUME NEW j \in Jobs
             PROVE  Contract!Freeze(j) \/ Contract!Send(j) \/ Contract!Settle(j)
                    \/ Contract!Keep(j)
  BY DEF Contract!Next
<1>1. [i \in Jobs |-> Used(i)][j] = Used(j) /\ [i \in Jobs |-> Used(i)]'[j] = Used(j)'
  OBVIOUS
<1>2. Moves(j)
  OBVIOUS
<1>3. CASE Stays(j)
  BY <1>1, <1>3 DEF Stays, Contract!Keep
<1>4. CASE job[j] = "absent" /\ job'[j] = "pending" /\ Used(j)' = Used(j)
  BY <1>1, <1>4 DEF Contract!Freeze
<1>5. CASE /\ job[j] = "pending" /\ job'[j] = "pending"
           /\ \E n \in Numbers \ Used(j) : Used(j)' = Used(j) \cup {n}
  BY <1>1, <1>5 DEF Contract!Send, Numbers
<1>6. CASE /\ job[j] = "pending" /\ Used(j)' = Used(j)
           /\ job'[j] = "cancelled" \/ (job'[j] \in {"ok", "error"} /\ Used(j) # {})
  BY <1>1, <1>6 DEF Contract!Settle
<1>7. QED
  BY <1>2, <1>3, <1>4, <1>5, <1>6 DEF Moves

LEMMA RowsMove == ASSUME UNCHANGED <<job, attempt>> PROVE \A j \in Jobs : Moves(j)
  BY DEF Moves, Stays, Used

LEMMA CancelMoves ==
  ASSUME RowTypes, NEW i \in Jobs, RecordCancelled(i)
  PROVE  \A j \in Jobs : Moves(j)
<1>1. \A j \in Jobs : Used(j)' = Used(j)
  BY DEF RecordCancelled, Used
<1>2. CASE job[i] = "pending"
  <2>1. job' = [job EXCEPT ![i] = "cancelled"]
    BY <1>2 DEF RecordCancelled
  <2>2. job'[i] = "cancelled" /\ \A j \in Jobs \ {i} : job'[j] = job[j]
    BY <2>1 DEF RowTypes
  <2>3. QED
    BY <1>1, <1>2, <2>2 DEF Moves, Stays
<1>3. CASE job[i] # "pending"
  BY <1>1, <1>3 DEF RecordCancelled, Moves, Stays
<1>4. QED
  BY <1>2, <1>3

LEMMA MainMoves == ASSUME RunnerInv, Main PROVE \A j \in Jobs : Moves(j)
<1>1. CASE BeginCycle
  <2>1. CASE UNCHANGED store
    BY <2>1, RowsMove DEF store
  <2>2. CASE ~UNCHANGED store
    <3>1. PICK c, S : S \subseteq JobsOf(c) /\ c \notin begun /\ FreezeJobs(c, S)
      BY <1>1, <2>2 DEF BeginCycle
    <3>2. \A j \in Jobs : Used(j)' = Used(j)
      BY <3>1 DEF FreezeJobs, Used
    <3>3. \A j \in S : job[j] = "absent"
      BY <3>1 DEF JobsOf, RunnerInv, FrozenInv
    <3>4. \A j \in Jobs : job'[j] = IF j \in S THEN "pending" ELSE job[j]
      BY <3>1 DEF FreezeJobs
    <3>5. QED
      BY <3>2, <3>3, <3>4 DEF Moves, Stays
  <2>3. QED
    BY <2>1, <2>2
<1>2. CASE Sweep
  <2>1. CASE \E i \in main.todo : RecordCancelled(i)
    BY <2>1, CancelMoves DEF RunnerInv, MainTypes
  <2>2. CASE CancelRunningAttempts(pool)
    <3>1. \A j \in Jobs : Used(j)' = Used(j)
      BY <2>2 DEF CancelRunningAttempts, Used
    <3>2. QED
      BY <2>2, <3>1 DEF CancelRunningAttempts, Moves, Stays
  <2>3. QED
    BY <1>2, <2>1, <2>2 DEF Sweep
<1>3. ASSUME UNCHANGED <<job, attempt>> PROVE \A j \in Jobs : Moves(j)
  BY <1>3, RowsMove
<1>4. QED
  BY <1>1, <1>2, <1>3 DEF Main, Queue, Submit, Collect, Leave, Finally, Cycled, File, Wake, Report,
     Status, Failed, Publish, store, SetStatus, SaveReport, EndCycle

LEMMA ThreadMoves ==
  ASSUME RunnerInv, NEW i \in Jobs, Thread(i) \/ Raise(i)
  PROVE  \A j \in Jobs : Moves(j)
<1>1. CASE Check(i)
  <2>1. RecordCancelled(i) \/ UNCHANGED store
    BY <1>1 DEF Check
  <2>2. QED
    BY <2>1, CancelMoves, RowsMove DEF store, RunnerInv
<1>2. CASE Start(i)
  <2>1. CASE ~MayStart(i, thread[i].n)
    BY <1>2, <2>1, RowsMove DEF Start, store
  <2>2. CASE MayStart(i, thread[i].n)
    <3> DEFINE n == thread[i].n
    <3>1. StartAttempt(i, n) /\ n \in Numbers /\ job[i] = "pending" /\ attempt[i][n] = "none"
      BY <1>2, <2>2 DEF Start, MayStart
    <3> HIDE DEF n
    <3>2. /\ job' = job
          /\ \A j \in Jobs, m \in Numbers :
                attempt'[j][m] = IF j = i /\ m = n THEN "running" ELSE attempt[j][m]
      BY <3>1 DEF StartAttempt, RunnerInv, RowTypes
    <3>3. n \in Numbers \ Used(i) /\ Used(i)' = Used(i) \cup {n}
      BY <3>1, <3>2 DEF Used
    <3>4. \A j \in Jobs \ {i} : Used(j)' = Used(j)
      BY <3>2 DEF Used
    <3>5. QED
      BY <3>1, <3>2, <3>3, <3>4 DEF Moves, Stays
  <2>3. QED
    BY <2>1, <2>2
<1>3. CASE Finish(i)
  <2> DEFINE n == thread[i].n
             result == thread[i].result
             outcome == thread[i].outcome
  <2>1. FinishAttempt(i, n, result, outcome) /\ thread[i].pc = "finish"
    BY <1>3 DEF Finish
  <2>2. n \in Numbers /\ result # "none" /\ outcome \in {"ok", "cancelled", "error", "none"}
    BY <2>1 DEF RunnerInv, AttemptInv
  <2> HIDE DEF n, result, outcome
  <2>3. CASE ~(attempt[i][n] = "running" /\ job[i] = "pending")
    BY <2>1, <2>3, RowsMove DEF FinishAttempt
  <2>4. CASE attempt[i][n] = "running" /\ job[i] = "pending"
    <3>1. /\ \A j \in Jobs, m \in Numbers :
                attempt'[j][m] = IF j = i /\ m = n THEN result ELSE attempt[j][m]
          /\ \A j \in Jobs : job'[j] = IF j = i /\ outcome # "none" THEN outcome ELSE job[j]
      BY <2>1, <2>2, <2>4 DEF FinishAttempt, RunnerInv, RowTypes
    <3>2. Used(i) # {} /\ \A j \in Jobs : Used(j)' = Used(j)
      BY <2>2, <2>4, <3>1 DEF Used
    <3>3. QED
      BY <2>2, <2>4, <3>1, <3>2 DEF Moves, Stays
  <2>5. QED
    BY <2>3, <2>4
<1>4. ASSUME UNCHANGED <<job, attempt>> PROVE \A j \in Jobs : Moves(j)
  BY <1>4, RowsMove
<1>5. QED
  BY <1>1, <1>2, <1>3, <1>4 DEF Thread, Raise, Answer, Fail, Halt, SetStatus, store

LEMMA ResumeMoves == ASSUME RunnerInv, Resume PROVE \A j \in Jobs : Moves(j)
<1>1. /\ \A j \in Jobs, n \in Numbers :
            attempt'[j][n] = IF attempt[j][n] = "running" THEN "error" ELSE attempt[j][n]
      /\ \A j \in Jobs : job'[j] = IF j \in Pending(Jobs) \ Sendable(Jobs) THEN "error"
                                  ELSE job[j]
  BY DEF Resume, Reopen
<1>2. \A j \in Jobs : Used(j)' = Used(j)
  BY <1>1 DEF Used
<1>3. \A j \in Pending(Jobs) \ Sendable(Jobs) : job[j] = "pending" /\ Used(j) # {}
  BY NumbersAre DEF Pending, Sendable
<1>4. QED
  BY <1>1, <1>2, <1>3 DEF Moves, Stays

LEMMA JobsMove == ASSUME RunnerInv, Next PROVE \A j \in Jobs : Moves(j)
<1>1. ASSUME UNCHANGED <<job, attempt>> PROVE \A j \in Jobs : Moves(j)
  BY <1>1, RowsMove
<1>2. QED
  BY <1>1, MainMoves, ThreadMoves, ResumeMoves
  DEF Next, StopRequested, StopRecorded, Crash, RestoreSession, Close, SetStatus, store

\* Each job keeps its contract through stops, deaths of the process and restarts.
THEOREM JobContractKept == Spec => KeepsJobContract
<1>1. Init => Contract!Init
  BY DEF Init, CreateSession, Contract!Init, Used
<1>2. RunnerInv /\ [Next]_vars => [Contract!Next]_(Contract!contractVars)
  <2>1. ASSUME UNCHANGED vars PROVE UNCHANGED Contract!contractVars
    BY <2>1 DEF vars, store, Contract!contractVars, Used
  <2>2. QED
    BY <2>1, JobsMove, MovesInContract
<1>3. QED
  BY <1>1, <1>2, RunnerInvariant, PTL DEF Spec, KeepsJobContract, Contract!Spec
=============================================================================
