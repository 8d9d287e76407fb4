# A TLA+ model of Model Observatory

Model Observatory measures what third-party providers serve under the name of
a model. Its backend accepts *private runs* (a user's temporary credential, a
list of probe jobs, a report), *donations* (a credential that is tested again
and again and feeds public scores) and *registry proposals* (providers,
published through a GitHub commit). A separate *local runner* does the same
measurements on the user's own machine.

This directory holds TLA+ modules translated from the code, the TLC
configurations that check them and proofs that TLAPS checks. It covers

* the *private run*, because everything on the server is built from private
  runs, and because that is where processes, leases, clocks, crashes and callers
  meet;
* the *donation*, which schedules such runs again and again;
* the *registry*, from the edit of a draft through the commit on GitHub and the
  deployment to the processes that serve it;
* the *session* of the local runner, its threads, its database and its API;
* eight smaller *parts*: the two implementations of the verdict, the three
  readers of a response stream, the retention of raw exchanges, the import of a
  scoring release, the logs of runs and audits with their reader, the page that
  submits a private run, the five places where that run is planned, and the page
  on which an administrator edits the registry.

    tlasany RunLifecycle.tla
    tlc -config LifecycleTakeover.cfg MCRunLifecycle.tla
    tlc -config DonationLease.cfg MCDonationCycle.tla
    tlc -config Registry.cfg MCRegistry.tla
    tlc -config Runner.cfg MCRunner.tla
    tlapm RunLifecycleProofs.tla
    tlapm PartsProofs.tla

## 1. The system

| Part | Code | State it keeps | Operations |
| --- | --- | --- | --- |
| Run state machine | `domain/run-state.ts` | none | `assertRunTransition` |
| Run store | `store/postgres-run-store.ts` | `private_runs`, `run_job_attempts`, `run_observations`, `run_reports`, `run_events`, `audit_events` | create, transition, claimNext, renewLease, reserveAttempt, saveObservations, finalize, saveReport, purge, purgeExpired, appendEvent |
| Credential vault | `security/credential-vault.ts` | encrypted envelopes with an expiry | put, read, delete, purgeExpired |
| Run worker | `worker/run-worker.ts`, `worker.ts` | one execution in memory: abort signal, cursor, job loops, heartbeat timer | runOnce, #execute, #executeJobs, #executeJob, #ensureLease |
| Private-run routes | `routes/private-runs.ts`, sweep in `app.ts` | local variables across awaits | create, cancel, delete, expiry seen by `ownedRun`, 60 s cleanup |
| Donation scheduler | `worker/donation-scheduler.ts` | none (leases a donation row) | scheduleOnce, reconcileOnce |
| Contribution store | `store/postgres-contribution-store.ts` | donations, proposals, test runs, cycles, quota, provider scores | createDonation, claimDueDonation, createDonationCycle, completeDonationRun, finalizeDonationCycle, revoke |
| Contribution routes | `routes/contributions.ts` | local variables | create, revoke, propose |
| Registry administration | `admin/service.ts`, `admin/github.ts` | drafts with a status, a revision and a commit | create, update, delete, list (gives silent publications up), publish |
| Registry synchronisation | `registry/sync.ts`, `registry/runtime.ts` | the imported versions and the active one; an in-memory snapshot per process | sync, refresh on notification or poll |
| Deployment | `deploy/server-deploy.sh` | the working tree of the server | import the registry or build and start, wait, roll back |
| Administrator's page | `AdminRegistryPage.tsx`, `api/adminRegistry.ts` | copies of drafts, the text being edited, a confirmation | create, open, edit, save, publish, remove |
| Audit chain | `security/audit-chain.ts`, `appendAudit` of three stores | hash chain | append under an advisory lock |
| Run events | `store/postgres-run-store.ts`, `routes/private-runs.ts`, `api/privateRuns.ts` | a log per run; the cursor of a reader | append, stream, follow |
| Scoring release | `scoring/release-import.ts`, `scoring/repository.ts` | the tables of one release | import from pinned files, load |
| Executor, scoring | `executor/`, `scoring/score.ts` | none | one upstream request; a score |
| Estimates and quotes | `probes.ts`, `pricing.ts`, `domain/run-estimate.ts`, `executor/job-plan.ts`, `api.py`, `detector.py` | the selection on the page, the quote kept for a second try | count, price, quote, plan |
| Local runner | `store.py`, `detector.py`, `generator.py`, `server.py` | SQLite sessions, jobs and attempts; one session with its threads | start, stop, resume, close; freeze, send, finish, sweep, report |
| Local API | `api.py` | runs by idempotency key, in memory | create, events, report, cancel, cleanup |
| Local retention | `retention.py` | a raw file, an index, a manifest | write, finalize, reopen |
| Transports | `executor/normal-transport.ts`, `transport.py`, `codex-native-transport.mjs` | one response | read a stream, classify it |
| Verdicts | `scoring/score.ts`, `juice.py`, `verdict.py`, `presets.py` | the answers of a run; sticky alerts | classify, summarize, conclude |
| Page | `PrivateCheckPage.tsx`, `api/privateRuns.ts`, `lib/localRunner.ts` | the submission in progress, the consent | detect, start, follow, cancel |

How they interact. Routes and workers are separate processes that share only
the database. A route inserts a run and its envelope; any worker claims it with
a *lease* (worker id, `lease_version`, `lease_expires_at`), reads the envelope,
runs the jobs in `min(workers, jobs)` concurrent loops, saves each observation,
scores and finalizes. Meanwhile the owner may cancel or delete, a timer sweeps
what has expired, and another worker claims the run again when the lease has
run out. The donation scheduler creates the same kind of runs on behalf of a
donation and later folds their reports into public scores. Registry
publication writes to GitHub first and to the database afterwards; the deploy
script follows main by itself and imports too, so the database is written by
two independent paths; processes reload on NOTIFY and, because a notification
can be missed, on a poll. The page looks for a local runner first and submits
to it or, after a consent, to the server, which answer the same API.

What is hard here, and hard to test:

* two workers on one run, when a lease lapses under a worker that goes on;
* loops that outlive the execution that started them, because `Promise.all`
  rejects on the first error;
* upstream calls cost the user money, so their number must be bounded across
  crashes, retries and takeovers;
* a cancel that races with the finalize, or is cut off between its two
  transactions;
* a commit that succeeded and whose answer is lost;
* two clocks: the database's in `claimNext` and `renewLease`, the process's in
  `assertLease`;
* credentials that must be there while the run lives and gone afterwards;
* a publication of several awaits, each of which may fail, be given up by
  somebody else after ten minutes, or be overtaken by the deployment;
* threads of the local runner that outlive the three seconds a stop waits for
  them, and a session reopened after the process died;
* state looked at under one lock and used under another (`api.py`);
* the same question answered in two languages: verdicts, streams, presets, plans;
* ids drawn outside the transactions that write them, and a reader that asks for
  what follows the last one it saw;
* copies on a screen, out of date or edited while a call is under way.

All of them, with their lines, are the hazards of `PROJECT.json`. Four that no
property reaches are not listed there: the sweep erases a run at its expiry whatever
a worker does with it (`postgres-run-store.ts:420`; section 3 says how the model has
it); opposite orders of row locks in `completeDonationRun` and `#transitionDonation`
(`postgres-contribution-store.ts:284`), which PostgreSQL resolves by failing one of
the two, and the model has a failed query; a local write that hangs after close
(`store.py:163`, section 7); and the report of a cancelled run written to whatever run
is active (`PrivateCheckPage.tsx:225`).

What makes each part correct:

* **run**: it is charged at most its budget per job; an observation is stored
  once and never redone; it ends once; its report says how it ended and quotes
  what is stored; nothing changes after its end;
* **credential**: readable while the run can be worked on, released after;
* **donation**: no test after its revocation, no more tests than its quota,
  every cycle is completed, public scores only from what is not excluded;
* **registry**: what is published is what was committed, a draft is committed
  once, no process goes back to an older activation and every process reaches
  the newest;
* **local runner**: a job is sent at most its budget over all lives of its
  session, by one request at a time, and is settled once; the final report tells
  every job as it is;
* **local API**: one call creates the run of a key; a report once told stays;
* **verdicts**: both implementations conclude the same, failed requests accuse
  nobody, a mismatch once told is not forgotten;
* **page**: one run per submission, no key to the server without consent, and a
  run that is what the page showed when it was started;
* **administrator's page**: what is published is what was confirmed;
* **release**: a worker scores with one checked set of files, all of it;
* **logs**: a reader gets every event once; the audit chain is a chain.

## 2. The modules

| Module | What it is |
| --- | --- |
| `RunState` | the statuses and legal moves (`contracts/common.ts`, `run-state.ts`) |
| `RunStore` | one run's rows; each operation of the store is one transaction, therefore one atomic change |
| `CredentialVault` | the envelopes |
| `RunWorker` | all `#execute` calls on the run: main flow, job loops, heartbeat, failure path, process stop |
| `RunApi` | the owner's requests, one step per `await`, expiry and the sweep |
| `RunLifecycle` | the composition, its properties, its inductive invariant and its fairness |
| `RunContract` | the abstract specification of a run, without workers, leases, calls or clocks |
| `MCRunLifecycle` | small instances and symmetry for TLC |
| `RunLifecycleProofs` | proofs of the type invariant, the inductive invariant, every property of the run but its liveness, and the refinement of `RunContract` |
| `DonationStore` | one donation's row, its cycles, tests and published scores; each operation one transaction |
| `DonationRuns` | the private runs of the tests, as the donation's code sees them |
| `DonationScheduler` | the donation loops of the worker processes: `reconcileOnce`, `scheduleOnce` |
| `DonationRoutes` | the donor's requests: create, status, revoke, and the expiry |
| `DonationCycle` | the composition of these four, its properties, its inductive invariant and its fairness |
| `DonationContract` | the abstract specification of a donation, without processes, leases, private runs or handlers |
| `MCDonationCycle` | small instances and symmetry for TLC |
| `DonationCycleProofs` | proofs of the donation's five inductive invariants, of every property it keeps but its liveness, and of the refinement of `DonationContract` |
| `RegistryStore` | the rows of the registry and the branch main; `syncProviderRegistry` |
| `RegistryPublish` | `publishDraft`, one step per await, and `server-deploy.sh` |
| `Registry` | the composition with the reloading processes, the properties and the fairness |
| `MCRegistry` | symmetry for TLC |
| `RegistryProofs` | proof of the registry's inductive invariant, of its four invariants and of the order of the reloads |
| `RunnerStore` | one session's `state.sqlite3`, each write one step of the writer thread |
| `RunnerSession` | the session in its process: `_execute_job` in its threads |
| `Runner` | the run thread of the three kinds of session, stop, crash, resume, close; the properties |
| `JobContract` | the abstract specification of a job of the local runner |
| `RunnerApi` | `ObservatoryApi` over the sessions, one step per lock |
| `MCRunner`, `MCRunnerApi` | instances for TLC |
| `RunnerProofs` | proof of the session's inductive invariant, of three properties and of the refinement of `JobContract` |
| `RunnerApiProofs` | proofs that a key has one call that creates its run, that a report stays and fixes the status, and that the sessions keep their promises under the API |
| `Verdicts` | both judges of one set of answers, and the continuous report |
| `Streams` | the three readers of one response stream |
| `AnswersProofs` | proofs about `Verdicts` and `Streams` |
| `Page`, `PageProofs` | the page of a private check against the API, and the proofs about it |
| `Retention` | the raw file and its index |
| `Release` | importers of scoring releases, and workers that load one |
| `RunLog` | transactions that append to `run_events` and `audit_events`, the stream and the page that follows it |
| `AdminPage` | the administrator's page against the drafts, which others edit too |
| `Quotes` | the selection, its price, the quote and the run, as page, server and local runner work them out |
| `PartsProofs` | proofs about `Retention`, `Release`, `RunLog`, `AdminPage` and `Quotes` |
| `MCParts` | these parts and the reload of `Registry` side by side |

### The private run

One run is modelled. Runs share no row; they only compete for the time of the
workers, which is why no property here speaks of the order of several runs.

**Versions.** Every claim increments `lease_version`, so a version names one
call of `#execute`. `owner`, `pc`, `aborted`, `rows`, `taken` and `task` are
indexed by version: they are the local variables of that call and of its loops.
A loop that is still running after the call has ended is a `task` of a version
whose `pc` is `"ended"`. `taken` is the cursor together with the jobs
`listObservations` returned; `ticket` is the attempt number `reserveAttempt`
answered; `sent`, a history variable, records the tickets that were spent on an
upstream call.

**Atomicity.** A store operation opens a transaction and locks the row, so it is
one step. Everything between two `await`s of a handler or a worker is one step
too: JavaScript does not interleave inside it. `ReadLatest` and `FailFinalize`
are two steps because the code awaits twice; so are `CheckReport`, `ListRows`
and `FileCancelReport`.

**Clocks.** `lease_expires_at` is compared with `now()` of the database in
`claimNext` and `renewLease` and with `Date.now()` in `assertLease`. `dbLive`
and `appLive` say what the two comparisons answer. They fall together, or one
of them first when `"skew"` is among the disturbances; a renewal sets both.

**Errors.** An execution that fails for a lost lease ends silently; any other
error sets the signal and goes to the failure path, which reads the run again
and finalizes it as failed if it is active. A delay ended by the signal throws
an AbortError, which is *not* a lost lease (`DelayAborted`), whereas a request
ended by the signal is (`RequestAborted`); the model keeps the difference. If
the run is gone at that last finalize, the error leaves `run()` and the process
(`FailFinalizeThrows`).

**Disturbances.** The constant `Disturbances` says what may go wrong in a run
of TLC: `crash` (a worker process stops), `error` (a query or the scorer
fails), `lostAnswer` (a commit succeeds, its answer does not arrive), `cutOff`
(an API handler stops half way), `skew`, `expiry`. The last claim
(`Disruptable`) is spared crashes, lapses and failed heartbeats, since there is
no further claim to take over within the bound.

**Left out.** Events and the audit chain (no decision of this flow reads them
apart from the lease check of `appendEvent`, which is there; they are in `RunLog`),
encryption, the contents of answers and reports (an observation is `ok` or `error`), quotes,
idempotency across different keys, timing (the 60 s request timeout is "an
answer comes").

### The donation

One donation is modelled; donations share only published scores (a cycle of
another donation of the same group recomputes them, which is left out). A
cycle's id is a number in the order the ids are drawn, a *test* is a cycle and a
model, and it stands for its `donation_test_runs` row, its private run and that
run's envelope.

**One step per await.** `sched[w]` holds what a process remembers between two
awaits: the row it claimed or read (`row`), the models still to do (`todo`), the
`createdRuns` the catch would undo (`made`), the lists it walks through (`list`,
`cycles`) and the sum it is about to pay (`sum`). `updateDonationFromWorker` is
two steps, `ReadRow` and `WriteRow`, because it reads and writes back in two
queries; `patch` says which of its callers it serves. `call[c]` does the same
for the handlers: `cancelDonationRuns` lists, then walks, and only then is the
donation ended. A revoke that finds the donation past its expiry goes through
that twice, as in the code.

**The private runs** do here what `RunContract` allows them: an open run may
use its envelope, ends with a report, or is cancelled without one.

**Money** is counted in units. A registry snapshot has a price for the maximum of
one model, any of `Prices` (`MinCost..MaxCost`), and each step that reads the
snapshot draws one of its own: `ReserveAt` is what `scheduleOnce` reserves for a
cycle at the price it sees (`donation-scheduler.ts:105`, `144-148`), `ActualCosts`
what a test turns out to cost at the price `reconcileOnce` sees later (`204`,
`212-217`): any amount up to that price, and exactly that price for a report without
observations, as `actualCost` computes it. Nothing ties the two prices together. Only
the models of the group stay as they are as long as the group is there.

**Swallowed cancels.** The catch of `scheduleOnce` cancels each run it has made and
ignores a failure of that (`donation-scheduler.ts:190`): with `error` among the
disturbances a run of `UndoRun` may stay open. `swallowed` is a history variable that
remembers such runs for the property that speaks of them.

**Time.** `due` tells whether `next_run_at` has come, is still ahead, or is
NULL; `leaseLive` whether the lease is ahead of `now()`; `expired` whether
`expires_at` has passed. Two schedulers whose lease lapses anywhere in an
attempt are the disturbance `lapse`; without it an attempt takes less than the 60
seconds of its lease.

**Disturbances** here: `crash`, `error`, `lostAnswer`, `cutOff` as above;
`drift` (the group leaves the registry), `lapse`, `expiry`. The bound on cycle
ids (`MaxCycles`) closes `claimDueDonation` when every id is drawn or promised.
A request is only started before the expiry, since all requests share one
expiry in the model.

**Left out.** Progress, phase and error texts, anomalies, group attribution, the
retention of donated runs, and the row locks inside a transaction.

### The registry

A document stands for its content and for its hashes. `commits` is main: each
entry names the document it holds and the draft it publishes, if any. A draft
remembers the document it started from (`base`), which is what `publishDraft`
compares main with and what GitHub is told to replace. `pub[a]` is one
`publishDraft` of an administrator between two awaits, with the draft as it was
claimed; the claim is a status in the row (`HoldsClaim`) and names nobody, which
is why the properties about given-up publications are not obvious. A commit may be
made and its answer lost (`PublishPut`). `deploy` follows the script: a change of
the registry file alone is imported with its commit, anything else starts the
stack again and imports *without* a commit (commit 0, NULL in SQL). A process
has the snapshot it serves and at most one load under way; a notification and a
poll both start a load, so they are one action.

Left out: the contents of a document (`AdminPage` has their validation), logins, the
audit entries; how long a publication has been silent (it may be given up at any
time); the LISTEN connection and its reconnects, which only decide when a load
starts.

### The local runner

A job is a pair of its cycle and its place in it; `Widths` gives the sizes. The
run thread is `main`, the threads of the pool are `thread[j]`, one per submitted
job, `signal` is the stop event (with the generator's fatal error), `noted` what
the server keeps beside the row, `lock` the server's lock while a stop is being
recorded. Every write of the store is queued to one thread, hence one step, and
everything between two writes is one step too. `Leave` gives up waiting for
threads after a stop; they go on, which is what `PoolInv` and `OpenInv` of the
proofs are about. Any write may raise (`Raise`), and then the future does, and then
the run. A single run has one cycle, a generator one cycle per window in order,
a continuous session draws the jobs of each cycle; all three are in `kind`.

Timing is left out (the three seconds, the pauses, the delays between retries),
and so are the contents of answers. A thread of a session that was closed is
stopped by its first write, which raises; so `Close` drops the threads.

`RunnerApi` puts `ObservatoryApi` on top. What a call has looked at (`seen`) is
applied later, under another lock, to a run that may have been replaced, expired
or told otherwise. The sessions are one after another: `sid` is the one shown.
A start closes the session that is shown and forgets it *before* it makes the new one,
which may raise (`server.py:561-578`): then there is no session (`Detached`), only the
database of the newest one and the status that was noted, and what a look reads of a
run comes from there (`RestoreNewest`, `ToldOf`) until another start succeeds.

### The parts

* `Verdicts`. An answer is one of the classes the two classifiers can tell apart,
  where each reads it by its own rule (`ServerReads`, `RunnerReads`): digits of other
  scripts are a number for `juice.py:27-45` only, and `score.ts:33`, `39` takes
  nothing beyond 256 characters and no digit but ASCII;
  the statistics stand for the set of models above their threshold. In a single
  run the jobs are answered one by one and judged at the end; in a continuous
  one each cycle brings some answers and a report.
* `Streams`. A target sends events and stops in one of five ways; three readers
  read until what they look for, and classify. Each reader's retry is there.
* `Retention`. The lock, the two files, the attempt in the store, a crash between any
  two steps, and the reopening of the directory. A write may be cut short (`CutShort`)
  by a crash or by an error that the process survives: nothing, a part, all but the
  newline or all of it is in the file. Nothing is taken back, so in a process that
  goes on the next entry is appended onto what is there (`unended`), and makes one
  unreadable line of the two.
* `Page`. Detections that answer late, the dialog, the submission with its
  key and its quote, the API's three answers to a key, an aborted or lost call,
  and cancels beside it.
* `Release`. An importer reads the manifest and then each file the manifest pins,
  from a directory that may be replaced between any two reads; a file stands for its
  SHA-256. The save is one transaction of which each section is a step, since another
  import of the same release waits inside it; a worker loads section by section.
  Rows of a release are never changed (`migrations/001_initial.sql:159`, triggers).
* `RunLog`. A transaction locks its runs, draws an event id, appends audit events one
  at a time (look, insert), and commits or fails at any point. Ids are drawn from
  sequences that no transaction holds. The stream polls by id, looks at the status and
  ends; the page applies an answer when it has read all of it, and asks for the report
  or follows again.
* `AdminPage`. A click and what the server makes of it are one step, the answer is
  another one, and typing goes on between the two. The table is moved by other
  administrators and by the rest of publications too; the rows the page lists grow old.
  The schema of a document is which texts parse, and to what.
* `Quotes`. A request is a probe, a profile and a number, a plan is a set of requests,
  and each of the five places builds its own from the same selection, with its own
  code's order of tests. A request costs one of two prices, with or without the long
  context; budgets are counted in cents and rounded up as `pricing.ts` does.

## 3. What TLC checks

### The private run

| Run | Instance | Properties | States |
| --- | --- | --- | --- |
| `takeover` | 2 workers, 2 jobs, 2 loops, 2 attempts, 2 claims; crash, skew | `TypeOK`, `EveryCallIsPaid`, `NoJobIsRedone` | 292 K |
| `owner` | 2 create requests with one key, 1 worker, 1 call, 2 claims; lostAnswer, cutOff, error, expiry | `LiveRunHasCredential`, `CredentialIsReleased`, `CancelIsReported` | 1 233 682 |
| `ends` | 2 workers, 1 job, 2 attempts, 2 claims, 1 call; crash, error, skew; fair | `ReportTellsTheObservations`, `KeepsContract`, `RunEnds` | 287 K |

Why the bounds are enough to be interesting. Two claims are one takeover: the
first execution is stale, its loops still run, the second is current. Two jobs
and two loops are what the cursor, a redone job and an orphan loop need; two
attempts are a retry, and a budget that a takeover could overspend. A call is a
cancel or a delete, before, beside or after the worker's own end of the run. Two
requests are a conflict on the key. The proofs of section 5 then remove the
bounds for the properties they cover. Deadlock is not checked because a run
really stops: once it is erased and its callers are gone nothing is left to do.

What they show:

* `EveryCallIsPaid`: each upstream call was preceded by a stored reservation of
  its own, within the budget, also across takeovers and orphan loops.
* `NoJobIsRedone`: no attempt is charged to a job whose observation is stored,
  by no execution, current or stale, even with clocks that disagree. The reason is
  that every leased write compares the version under the row lock.
* `ReportTellsTheObservations`: a report never contradicts the status or the
  stored observations, whoever of worker and owner was faster.
* `CancelIsReported`: a cancelled run has a report, unless a cancel still owes
  it or was cut off. Its exception is real: after a cut-off cancel the report
  appears only if the owner cancels again.
* `LiveRunHasCredential`, `CredentialIsReleased`: a handler that loses the race
  on the key deletes its own envelope only. The exception `interrupted` is real
  too: if the answer of the insert's commit is lost, the handler deletes the
  envelope of the run that was stored, and that run will fail with "credential
  unavailable"; a worker that dies before its cleanup leaves the envelope to the
  sweep.
* `KeepsContract`: all of it together implements `RunContract`. In particular a run
  ends once, and after the end its attempts and observations stay
  (`EndedRunIsClosed`, which is proved of its own).
* `RunEnds`: an accepted run reaches its end.

**Fairness** (`FairSpec`). Weak fairness of claiming, of every execution's main
flow and loops, of the expiry of an unrenewed lease, of handlers and of the
sweep. The worker loop polls for ever (`run-worker.ts` 50-55), and its service
restarts (`compose.production.yml`, `restart: unless-stopped`); every upstream
request ends by its timeout; leases expire by the passage of time; the timer of
`app.ts` sweeps every minute. Nothing is assumed of owners, crashes, errors or
heartbeats.

### The donation

| Run | Instance | Properties | States |
| --- | --- | --- | --- |
| `donation_lease` | 2 schedulers, 1 model at prices of 1 or 2, quota of 1, 2 cycles, 1 call; lapse, crash, drift | `SpentIsAccounted`, `QuotaHolds`, `KeepsDonationContract` | 2156 K |
| `donation_progress` | 1 scheduler, 2 requests, 1 model, 1 cycle, 1 call; error, expiry, lostAnswer, cutOff; fair | `NoTestIsForgotten`, `CredentialFollowsDonation`, `CycleEnds` | 380 508 |
| `donation_revoked` | 1 scheduler, 1 call | `RevokeDeletesEnvelopes` (violated) | |
| `donation_scores` | 1 scheduler, 1 call | `ExcludedFromScores` (violated) | |

Two schedulers and two cycles are what it takes for a lapsed process to come
back into somebody else's attempt, or for two processes to finalize one cycle;
two prices and a quota of one are a cycle that is reserved at the low price and paid
at the high one, or that costs nothing and makes room for another one, and a price that
does not fit. `donation_progress` trades the second scheduler for failures
at every step; what two schedulers may do to each other is in the first run, and
the leases that keep them apart are proved. One loop polls for ever, so deadlock
is checked.

What they show:

* `KeepsDonationContract`: all of it together implements `DonationContract`. In
  particular no stale row brings a donation back or undoes a payment. Two things it
  implies are proved of their own. `EndedDonationIsQuiet`: `#transitionDonation` takes
  the lease away in the transaction that ends the donation, and every write of a
  scheduler checks the lease in its own; that is enough, no cycle is recorded after
  the end. `OneCycleAtATime`: `next_run_at=NULL` and the fence on `worker_id` keep a
  second cycle out, even if the lease lapses anywhere, so that nobody pays while
  `updateDonationFromWorker` is between its two queries.
* `SpentIsAccounted`: each completed cycle is paid once.
* `QuotaHolds`: what is reserved always fits what is left of the quota, although the
  quota is compared with a row that was read earlier. What is *spent* may exceed the
  quota, since the tests are paid at the prices of another day, but only by what one
  cycle's prices have risen (`Overrun`): no further cycle is reserved then. That it
  exceeds it at all is told below, under "Findings".
* `NoTestIsForgotten`: the catch finds every run that was created, because it is
  put on `createdRuns` before `create` is called. One exception is a cancel of the
  catch that failed itself: its error is swallowed, and the run is executed, charged to
  nobody and linked to nothing. The exception `interrupted` is real too: after a crash the runs are orphans, executed and charged to nobody; after
  the lost answer of `createDonationCycle` the catch cancels the runs of a cycle
  that is recorded: their reports never come, the cycle is never ready, and the
  donation is never due again until it is revoked or expires.
* `CredentialFollowsDonation`: as for the private run; the lost answer of
  `createDonation` deletes the envelope of the donation that was stored.
* `CycleEnds`: with fair loops, every recorded cycle is completed or blocked,
  unless an interruption of the kind above has happened.

**Fairness** of `DonationCycle`. Weak fairness of each process's donation loop
(`worker.ts` 18-24 polls for ever), of the run workers on each test, of the
handlers, of the passage of time; nothing of errors, crashes, expiry or the
donor's calls. `CycleEnds` is checked without `crash` (a process that crashes for
ever makes no progress) and without `drift` (a test whose group is gone is passed
over on every turn).

### The registry

| Run | Instance | Properties | States |
| --- | --- | --- | --- |
| `registry` | 1 draft of 2 revisions, 2 documents, 2 administrators, 1 process, 3 commits, 2 activations | `CommitIsOfTheDraft`, `PublishedWasActivated`, `DraftIsCommittedOnce`, `ServedWasCommitted` | 2463 K |
| `parts` | the reload alone: 1 process, 3 commits, 3 activations by deployments | `NeverReloadsBackwards`, `EveryProcessCatchesUp` | in `parts` |

Two administrators and two revisions are what a publication needs that is given
up, edited and claimed again while the first one is still going. Three commits
let main go away from a draft's base and back.

* `CommitIsOfTheDraft`: the revision in every WHERE keeps the commit of one
  revision off another, although the claim names no publisher.
* `DraftIsCommittedOnce`: a commit whose answer was lost, or whose publication
  was given up, is not made again, because both `publishDraft` and GitHub compare
  with the base. The exception, main returning to the base, is real: then the
  same draft is committed anew.
* `PublishedWasActivated`, `ServedWasCommitted`: nothing is called published
  that was never imported, nothing is served that main never held.
* `NeverReloadsBackwards`: the shared `#refresh` promise is what keeps an older
  load from being applied after a newer one.
* `EveryProcessCatchesUp`: the poll alone brings every activation (or a later one)
  to every process.

**Fairness**: weak fairness of `Refresh` and `Replace`: `setInterval` polls every
30 seconds and a query is answered in the end. Nobody has to publish or deploy.

### The local runner

| Run | Instance | Properties | States |
| --- | --- | --- | --- |
| `runner` | all three kinds, cycles of 2 and 1 jobs, 1 retry, 2 threads, 1 failing write, 1 crash | `AnswerIsStored`, `OneRequestAtATime`, `FinalReportIsExact`, `KeepsJobContract` | 1562 K |
| `runner_api` | 2 callers, 1 key, 2 sessions of 1 job, 1 failing write or 1 crash | `SingleFlight`, `StatusIsTheReports`, `ReportStays` | 4692 K |

Two jobs and two threads are a pool in which one thread raises or is left behind
while the other goes on; two cycles are a continuous session that files a report
between them, and a generator that moves to its next window; one crash is a
resumed session. The budget of two attempts is what a restart could overspend.
The runs stop: the bound on cycles ends the model, not the program, so deadlock
is not checked.

* `KeepsJobContract`: `JobContract` above; the checks in `start_attempt` and
  `finish_attempt` suffice for it, whoever calls.
* `OneRequestAtATime`: of threads of this life, threads left behind and attempts
  of an earlier life, one at most is sending for a job.
* `AnswerIsStored`: the attempt table and the job table agree about answers.
* `FinalReportIsExact`: of a detector that ended stopped or complete. It is not
  claimed of a run that ended in an error, which files no new report.
* `SingleFlight`: `_pending_runs` and its condition variable.
* `ReportStays`, `StatusIsTheReports`: what a late look may do to a run that has
  its report. Four real exceptions are in the statements: a session that was
  resumed goes on showing the report of its first life until it files another; a run
  whose session was replaced can no longer be read; and a session that failed files
  no report, so a look that was taken before the failure and applied after another
  look had told of it puts the run back to running, until the next look; and a start that fails has
  dropped the session whatever it was, so that the next look writes the status the
  server had noted over that of the finished run (`api.py:437-459`) and the run no longer
  says what its report says. The report itself stays (`ReportStays`). The third
  one came out of the attempt to prove a stronger statement. A failing write is
  what makes a session or a start fail, a crash what makes it resume; with both in one behaviour
  the instance is out of TLC's reach, and the proof covers it.

No liveness is stated here: whether a run ends depends on the upstream timeouts
and on the kind (a continuous session runs until it is stopped).

### The parts

`parts` explores the nine parts one after another (610,906 states in all;
`part` chooses, the others stay as they start).

| Part | Instance | Properties |
| --- | --- | --- |
| Verdicts | 2 efforts, 2 requests of the first and 1 of every other probe, 1 profile; continuous: 2 answers per probe, a window of 1 | `VerdictsAgree`, `ErrorsNeverAccuse`, `MismatchSticks` |
| Streams | 3 events, 1 retry, a limit of 2 events for the worker | `ReadersAgree` |
| Page | 2 inputs, 2 keys, 2 quotes, 1 recheck | `OneRunPerSubmission`, `KeyLeavesWithConsent` |
| Retention | 2 exchanges, 2 lives | `AnswersAreRetained` |
| Release | 3 directories of one release (with a calibration; another catalog; prompts that differ), 2 importers, 1 worker | `ReleaseIsItsManifests` |
| Log | 2 transactions, 1 run, 3 event ids, 2 audit ids | `EventsArriveOnce`, `AuditChainHolds` |
| Admin | 3 texts of 2 documents, 1 draft of 2 revisions | `PublishedIsConfirmed` |
| Quotes | 3 probes (2 of one item, 1 restricted), 2 presets, 2 prices, numbers beyond every limit, 2 edits | `RunIsAsShown` |
| Registry | the reload, above | `NeverReloadsBackwards`, `EveryProcessCatchesUp` |
| `presets` (a run of its own) | the same | `PresetIsOfficial` (violated) |

Two requests are needed for a probe with a good and a bad answer; a window of one
and two answers for an alert that leaves its window; three events for a stream
with a delta, a terminal event and something after it; two inputs and two keys for
a key that is reused and one that is not; two exchanges and two lives for an entry appended
onto a torn line by the same process or by the next. The set of models above the threshold is explored as
`{"claimed"}` in a single run and as empty in a continuous one: the juice part of the
verdict, which the properties are about, does not read it. Three directories are two
that would mix unnoticed and one no check accepts; two transactions draw ids in one
order and commit in the other; one draft of two revisions is a copy that is out of date;
two texts of one document are what normalisation does to what was typed; two edits are
one between two submissions and one under way. Presets, numbers and prices are such that
each limit is met once and exceeded once.

* `VerdictsAgree` has two exceptions, and both are real. An answer one judge takes for
  a number and the other does not (`ReadAlike`): the server's pattern knows ASCII digits
  and gives up beyond 256 characters, `juice.py` has neither limit. And when every juice answer is
  unsuccessful *and* there is a hard anomaly, the server concludes
  `possible_non_gpt` (its rule has the highest priority) and the local runner
  `mismatch` (`verdict.py:60-78` asks for anomalies first). The runner's own
  technical report (`docs/legacy/TECHNICAL_REPORT_CN.md:166`, `:404`) has the
  server's order.
* `ErrorsNeverAccuse`: replacing any answer by an error never makes the server
  suspect what it did not suspect.
* `MismatchSticks`: the alerts outlive the windows.
* `ReadersAgree`: on streams the protocol allows, and on refusals. On broken ones
  they do not, and that is not claimed: after the headers a reset is final for the
  runner's normal reader (`transport.py:455-458` files it under the status 200,
  which is not retryable) and retried by the two others; a name that does not
  resolve is final for the worker alone.
* `AnswersAreRetained`: through writes cut short and crashes between any two of them, an
  attempt that was answered has its exchange in the raw file. Its index entry is another
  matter: one torn line, and an entry that was reported as written may have been appended
  onto it. What can be read of the index is right, and the process that tore a line knows
  it, unless it appended to what a crash had left (third conjunct).
* `OneRunPerSubmission`, `KeyLeavesWithConsent`: whatever answers are lost or late.
* `ReleaseIsItsManifests`: each file is compared with the manifest that was read first,
  and a release is inserted once; so the rows a worker has read are those of one set of
  files, whatever was replaced and whoever imported.
* `EventsArriveOnce`: the lock of the run's row, taken before an id is drawn, makes the
  events of a run commit in the order of their ids. That, and nothing in the reader, is
  what lets the page ask for "what follows the last id".
* `AuditChainHolds`: the advisory lock is held to the end of the transaction, so the
  newest event one sees is the newest there will be.
* `PublishedIsConfirmed` has one exception, and it is real: `publish` saves first if
  there is something unsaved, and marks the page clean when the answer comes
  (`AdminRegistryPage.tsx:159`), without setting the text. What was typed meanwhile stays
  on the screen as if it were saved; if that publication fails, the next confirmation
  publishes the draft without it.
* `RunIsAsShown` has one exception, and it is real: the local detector gives a
  restricted probe its own profile (`detector.py:147`), while the page and the runner's
  quote count that probe under the selected profiles only. With the native format or
  the long context alone selected, `b80_letter_count` is shown with no request, quoted
  with none, and sent.

Each property of a passing run has a mutant in `PROJECT.json`: a change of the
modelled code (the lease check without the owner, a conflict that deletes the
stored envelope, a refresh that overlaps, an attempt that does not look at its
job...) under which TLC finds it violated. The mutants stand next to what they
mutate, marked as such.

### Findings

* `donation_revoked`: a cycle recorded between the list and the end of a revoke
  keeps its runs and their envelopes, and a worker uses the credential after the
  revoke has answered, whereas `docs/API_CONTRACT.md:35` says that revocation
  deletes the in-flight envelopes.
* `donation_scores`: the same line says that revocation excludes the related
  public aggregates; they are only recomputed when a later cycle of the group is
  finalized.
* `presets`: the page says that its presets have the parameters of the archived
  detector (`ProbeSelector.tsx:132`), but what the local API makes of a preset
  never has the hash of one, so the run is custom and its strong match is dropped.

Two more disagreements with documents came out of the same models. They have no run of
their own; a term of a checked property makes room for each: `Overrun`, without which
`QuotaHolds` is violated, and `lives = 1` in `AnswersAreRetained`, since a later life knows
nothing of the failures before it.

* The donation page says that the credential is used within the limited quota only
  (`DonatePage.tsx:123`). A cycle is reserved at the prices of one registry snapshot and
  paid at those of a later one (`donation-scheduler.ts:144-148`, `212-217`), so a price
  that rises in between makes the donation spend more than its quota.
* The runner's technical report says that any failed write makes `retention_complete`
  false (`TECHNICAL_REPORT_CN.md:530`). The count of failures is not kept across lives, so
  a session resumed after a crash reports a complete retention (`retention.py:90-91`).

Behaviours met while modelling that no document forbids, and that the properties
therefore allow:

* the sweep erases a run at its expiry whatever its status: a run still queued or
  running is never `timed_out` unless its owner looks in time;
* a process that dies after creating the runs of a donation's cycle leaves them to
  be executed uncharged;
* a full deployment imports without a commit, so a draft in
  `committed_pending_activation` stays there although its document is served, and
  so does one whose publisher died before the synchronisation;
* of two synchronisations the later one wins, whatever it carries: an older
  publication or the restore of a failed deployment replaces a newer registry;
* the last step of `publishDraft` may put a draft that a deployment has published
  back to pending, if its own synchronisation failed;
* a draft whose commit was made and whose answer was lost can be deleted: main
  then holds a document no draft accounts for;
* cancelling a local run that has just been replaced is refused by the comparison
  of sessions (`api.py:395-400`), but the session may change between it and the
  stop; the report of a run that completed can be missing (`api.py:461-475`);
* a torn line in the index makes a directory impossible to reopen
  (`retention.py:84`), and in a live process swallows the next entry (`retention.py:141`);
* a start of the local runner that fails leaves it without a session, and the runs of
  the last one with the status that was noted (`server.py:561-578`);
* a cancel that fails while a donation's attempt is undone leaves a run that is executed
  and belongs to nothing (`donation-scheduler.ts:190`);
* the page calls its number of requests exact (`RunEstimate.tsx:75`), and for the
  restricted probe of a local run it is not (`RunIsAsShown`, above); it offers up to 32
  workers and 200 requests (`ProbeSelector.tsx:255`, `:291`), where both APIs refuse more
  than 16 and 100, so such a selection fails at its quote;
* text typed while a publication saves is taken for saved (`PublishedIsConfirmed`);
* a stream that breaks after the terminal status was written leaves its last events
  unread: the page gets the report and does not ask for them;
* two releases of one id count as the same if their manifests do
  (`repository.ts:15-25`): an importer whose code makes other rows of the same files
  keeps the rows that are stored;
* on the page, the report of a cancelled run is shown on whatever run is active
  when it arrives, and a quote that has expired stays in the pending submission.

## 4. The abstract specifications

`RunContract` has four variables: how the run stands, what each job was
charged, what each job's result is, what report was filed. A job is charged only
while the run is open and the job has no result; a result is settled once and
only after a charge; a run concludes only with a result for every job, and the
status then follows from the results; it may give up with an empty report; it may
be stopped; a stopped run may get the report of its cancellation, which quotes
the results it has; it may be deleted; it may be erased. `RunLifecycle` maps
its statuses to these states (every live status is `"open"`) and the other three
variables directly. Leases, versions, loops, retries, heartbeats, handlers and
the vault are all stuttering.

`DonationContract` has five: how the donation stands, its cycles, how each test
of a cycle stands and what it has cost, and what the donation has spent. An open
donation begins one cycle at a time with all its tests pending, a test is settled
once, at some cost, a cycle is paid once, when all its tests are settled and with
the sum of their costs, and the end blocks the cycle that runs; nothing begins, is
settled or paid after it, and a revoked donation stays revoked. `DonationCycle`
implements it with `test <- link` and `standing` read off the status. The scheduler,
its lease and its stale rows, the private runs, the reserved quota, the calls and
the credential are stuttering: the contract is what is left for the donor.

`JobContract` has two variables per job of a session of the local runner: the
attempt numbers used for a request, and how the job stands. A job is frozen,
sent at most `Budget` times while it is pending, and settled once, by an answer
only after a request. One write may move several jobs (a reopened session
reconciles all of them), so its next-state relation moves every job at once.
`Runner` implements it with `sent <- Used(j)` and `outcome <- job`; cycles, the
pool, the threads left behind, the stop and the server's notes are stuttering.
Deaths of the process do not appear in it at all: they renew nothing.

## 5. What is proved

### The private run

For all finite or infinite sets of workers, jobs, loops, calls and requests and
all bounds `MaxAttempts` and `MaxClaims`, from the assumptions in `RunStore` and
`RunWorker` (markers are not members of the sets they mark, bounds are positive,
at least one loop):

| Theorem | Statement |
| --- | --- |
| `TypeCorrect` | `Spec => []TypeOK` |
| `InvariantCorrect` | `Spec => []IInv` |
| `EveryCallIsPaidCorrect` | `Spec => []EveryCallIsPaid` |
| `ReportCorrect` | `Spec => []ReportTellsTheObservations` |
| `ContractKept` | `Spec => KeepsContract` |
| `NoJobIsRedoneCorrect` | `Spec => NoJobIsRedone` |
| `EndedRunIsClosedCorrect` | `Spec => EndedRunIsClosed` |
| `CredentialCorrect` | `Spec => []CredentialInv` |
| `LiveRunHasCredentialCorrect` | `Spec => []LiveRunHasCredential` |
| `CredentialIsReleasedCorrect` | `Spec => []CredentialIsReleased` |
| `CancelIsReportedCorrect` | `Spec => []CancelIsReported` |

The argument. Neither the budget nor the report is inductive alone: that a
finalize writes a report of all jobs depends on what its execution remembers.
`IInv` adds

* `LeaseInv`: versions are claimed in order; the row's holder is the owner of its
  version as long as the run is active, and nobody otherwise. So whoever passes
  `assertLease` *is* the current claim (`HeldIsCurrent`), the key fact of all
  the proofs: a stale execution never writes.
* `LoopInv`: two loops of one execution never have the same job, all their jobs
  are behind the cursor, and when one loop is idle the cursor is at the end.
* `CurrentInv`: for the current claim, jobs in progress have no observation,
  every job behind the cursor is observed or in progress, and the rows it is
  about to score are what is stored, complete. From this a concluded run has a
  row for every job. It says nothing of stale claims, for which it is false.
* `EveryCallIsPaid`, whose tickets of any execution are kept distinct by the
  durable counter.
* `ReportInv`: `ReportTellsTheObservations`, plus what a cancel handler
  remembers between its awaits.

The steps fall into families (a main flow moves on, a loop throws, a loop goes
on with its job, a handler only reads, the row is erased, ...), each with a
lemma over exactly the variables it changes; `MainStepKeeps`, `LoopStepKeeps`,
`WorkerKeeps`, `CallStepKeeps` and `ApiKeeps` sort the actions into the families.
The refinement uses the invariant in every step that is not a stutter.

The properties of the credential and of the cancel are about handlers between two
awaits and need a second invariant, `CredentialInv`. Its part `VaultInv` says what a
handler that is about to delete an envelope knows of the run: the row has ended
(`Ending`, or a worker in its cleanup) and, because no status leads out of an
end, will never live again; a request that gives its envelope up is not the one
whose run was stored, unless the answer of the commit was lost; who goes on to file
the report of a cancel still finds the status it saw, or a deleted row.
Without these a delete could meet a run that lives, and no step-by-step reading of
one handler shows that it cannot.

### The donation

For every number of schedulers, requests, calls and cycles, every finite set of
models and all amounts of money, from the assumptions in `DonationStore` and
`DonationScheduler`, whatever disturbances are enabled:

| Theorem | Statement |
| --- | --- |
| `DonationInvariantCorrect` | `Spec => []DonationInv` |
| `EndedDonationIsQuietCorrect` | `Spec => []EndedDonationIsQuiet` |
| `OneCycleAtATimeCorrect` | `Spec => []OneCycleAtATime` |
| `EndIsFinalCorrect` | `Spec => EndIsFinal`: a donation that has ended does not come back, a revoked one stays revoked |
| `CredentialFollowsDonationCorrect` | `Spec => []CredentialFollowsDonation` |
| `NoTestIsForgottenCorrect` | `Spec => []NoTestIsForgotten` |
| `DonationContractKept` | `Spec => KeepsDonationContract` |
| `SpentIsAccountedCorrect` | `Spec => []SpentIsAccounted` |
| `QuotaHoldsCorrect` | `Spec => []QuotaHolds` |

The argument. Schedulers and handlers go on with rows, lists and targets they
read before some `await`, so the proof has to say how wrong these can be:

* `OneCycleAtATime` and `EndedDonationIsQuiet` support each other: whoever
  passes the fence on `worker_id` (`MayWrite`, `MayCreateCycle`) knows that the
  donation has not ended and that no cycle runs (`LeaseMeansOpen`), although the
  row it remembers may be old.
* `RowsAreOld`: a remembered row shows an end only if the end has happened, so
  writing it back under the lease cannot end or revive the donation.
* `BlockedAtTheEnd`: a cycle is blocked by the end only, so a finalize that
  finds the donation open completes a cycle that is running, the only one.
* `CallsEndTheDonation`: what a handler still has to do is an end.

One lemma per transaction of the store (`StoreClaim`, `StoreWrite`,
`StoreCreateCycle`, `StoreFinalize`, `StoreTransition`...) preserves the part about the
rows; `SchedStep` says what a step of one process may do to what it remembers;
the actions are then sorted by these. The record fields that hold money are only
required to exist: nothing in `DonationInv`, `CredentialInv` and `TestsInv` depends
on amounts.

`CredentialInv`: every request but the one that created the donation still has its
own envelope to give up, and only a call that ended the donation goes on to delete
the one in use. `TestsInv`: ids of cycles are drawn once (`IdsAreDrawnOnce`), so
the runs of an id are either recorded by the scheduler that drew it or still in its
memory, and it writes no patch and cancels nothing that makes it forget them
(`MadeIsKept`); a revocation cancels runs of recorded tests only.

`ContractInv` is what the refinement needs beyond these: a cycle that a process is
about to finalize has all its tests settled, whenever its list was read, and the sum
it carries is what they have cost *if the cycle still runs* (`PaysWhatIsDue`; when
another process was first, the sum is not used); the row somebody writes back under
his lease shows what is spent. Here the two processes that reconcile one cycle
are kept apart by the cycle's status alone, and the stale row by the lease.

`QuotaInv` adds the sums. While somebody holds the lease no cycle runs and nothing
is paid, so what he read of `spent` is still true when he compares it with the quota
(`HasRoom`), and the room he found is there when his cycle is recorded with its
reservation, which is at least `ReserveAt(MinCost)`. The tests of a cycle cost at most
`MaxCost` each, so a payment exceeds its reservation by `Overrun` at most; and a
donation that has passed its quota has no room any more, so this happens once.

The sums are folds over finite sets (`SumOver`), and what such a fold computes is
proved, not assumed: the section "Sums" of `DonationCycleProofs` shows by
induction on the cardinality that the recursion under the fold has a
solution (`TableEntry`), that a sum over a subset does not depend on the
set it is taken from (`TableIsLocal`), that any element may be split off it
(`SumSplits`, the commutativity the fold's CHOOSE hides), that it is a number and
bounded (`SumIsNat`, `SumIsBounded`) and depends on the values on the set only
(`SumsAgree`). The induction theorems of the library that take an operator cannot be
instantiated by the installed provers; the two used here (`NumberInduction`,
`SetInduction`) speak of a *set* of numbers or subsets and follow from the
least-element principle `WFMin`.

### The registry

For any documents, drafts, administrators and processes and all bounds, from
`RegistryAssumption` (the first document is one of them, a push of somebody else
is no draft, bounds are positive):

| Theorem | Statement |
| --- | --- |
| `CommitIsOfTheDraftCorrect` | `Spec => []CommitIsOfTheDraft` |
| `PublishedWasActivatedCorrect` | `Spec => []PublishedWasActivated` |
| `DraftIsCommittedOnceCorrect` | `Spec => []DraftIsCommittedOnce` |
| `ServedWasCommittedCorrect` | `Spec => []ServedWasCommitted` |
| `NeverReloadsBackwardsCorrect` | `Spec => NeverReloadsBackwards` |

The argument. A publication goes on with the draft it claimed while the row may
have been given up, edited and claimed by somebody else, so the proof says what
the revision it remembers still tells of the row. `ClaimInv`: the row has the
remembered base for as long as it exists, and either a later revision or the very
document; a deleted row has no revision at all, so nothing remembered fits it.
With the guards on revision and status (`HoldsClaim`), a publication that writes
its commit to the row writes it to the document that was committed, and GitHub's
comparison of main with the base is a comparison with the base of the row.
`CommitInv` and `RowInv` say what an answered commit and a row's commit hold, and
main only grows (`Appended`), so that what they say stands. `ServedInv` orders the
three places a snapshot passes: what is served was activated before what is being
loaded, that before what is active, and there is one load at a time.

`RowMoves`, `PublicationMoves` and `AppendKeeps` are the three ways a step changes
rows, publications and main; every action is one or two of them.

### The local runner

For every number of cycles, jobs, retries and threads and any number of faults
and crashes, from `RunnerAssumption` (cycles have jobs):

| Theorem | Statement |
| --- | --- |
| `AnswerIsStoredCorrect` | `Spec => []AnswerIsStored` |
| `OneRequestAtATimeCorrect` | `Spec => []OneRequestAtATime` |
| `FinalReportIsExactCorrect` | `Spec => []FinalReportIsExact` |
| `JobContractKept` | `Spec => KeepsJobContract` |

The argument is about whom an open attempt (one that is `running` in the
database) belongs to. `OpenInv`: a job has at most one; it is that of the job's
thread, which is in the pool, or of a process or a failed run that will not send
again; and while the job is pending, it is the attempt its thread knows. So a
thread that starts another attempt has closed its last, and a new thread of a
resumed session finds every old attempt reconciled by `Reopen`. `PendingInv` says
where a detector's unsettled jobs are at each place of the run thread (queued, in
the pool, in what is left to sweep), so that at the report nothing is pending;
`QuietInv` and `ReportInv` carry this to the end. The refinement shows of every
step how each job moves (`Moves`); it uses the invariant to know that an outcome
is written to a job that was sent, and that a reopened job with a spent budget had
requests.

Over the sessions, for any number of requests and keys and from `ApiAssumption`
(the mark for "no call" is no call), `SingleFlightCorrect` states
`ApiSpec => []SingleFlight`. A call that creates the run of a key is the key's
owner and the key has no run (`OwnerInv`). The delicate step is a look at a run
that expired meanwhile, whose key another call has taken: it must not write.
`NumberInv` says that every session looked at has a number, while the absent run
has none, so the comparison of `_refresh` fails; and no session has the number 0
because before the first start there is no process that could be resumed.

`StatusIsTheReportsCorrect`, `ReportStaysCorrect` (`ApiSpec => []StatusIsTheReports`,
`ApiSpec => ReportStays`) and `SessionsAreKept` (the three invariants of `Runner` hold
of every session under its API) rest on `ReportsInv`: `RunnerInv` of the sessions,
carried through every call, and what a look that is not yet applied may have seen.
Two looks can be of different moments, and either may be applied last; it is harmless
because a failure that was seen or told is a session whose run thread will file
nothing (`Doomed`, `FailureInv`), and because in the first life of a process what
there is to tell of a session does not change (`FirstLifeInv`). `StatusInv` leaves
room for the places where status and report differ: a look between its two locks, and a
session that was dropped. `Tells` says what a step of a session may change of what looks
see of it, and `FailedTells` that a start that fails changes nothing of that but the
session's presence: the database it leaves is that of the newest session made.

### The parts

| Theorem | Statement |
| --- | --- |
| `AnswersAreRetainedCorrect` | `RetentionSpec => []AnswersAreRetained` |
| `ReleaseIsItsManifestsCorrect` | `ReleaseSpec => []ReleaseIsItsManifests` |
| `EventsArriveOnceCorrect` | `LogSpec => []EventsArriveOnce` |
| `AuditChainHoldsCorrect` | `LogSpec => []AuditChainHolds` |
| `PublishedIsConfirmedCorrect` | `AdminSpec => []PublishedIsConfirmed` |
| `RunIsAsShownCorrect` | `QuotesSpec => []RunIsAsShown` |
| `BudgetSufficesCorrect` | `QuotesSpec => []BudgetSuffices` |
| `OneRunPerSubmissionCorrect` | `PageSpec => []OneRunPerSubmission` |
| `KeyLeavesWithConsentCorrect` | `PageSpec => KeyLeavesWithConsent` |

For any exchanges and lives (`RetentionInv`): whoever is between the two files holds
the lock and its record is the last of the raw file, so the place written to the index
is right (`LockInv`). `KeptInv`: an exchange that was kept, or whose attempt is answered,
is in the raw file, which only grows, and in the index or a line is torn.
`IndexInv`: each line is torn or leads to its record, only the last one can be without
its newline, and in the first life a torn or an unended line goes with a failure. Adding
a line either leaves all others as they are or tears the last one (`LineAppended`,
`LastReplaced`); no step mends a torn line. `KeyInv` and
`RunsInv`: only the latest key can still be used; it is pending with the input it
was made for or its handle has arrived, and a run of the key before it was either
handled or made of something else.

For any directories, importers and workers (`ReleaseInv`): an importer holds files its
own manifest pins (`Pinned`) and, once it saves, a coherent set of them; of a release at
most one transaction is filling (`OneFills`); the committed rows of a release are the
whole seed of one coherent set (`RowsInv`), and no commit adds to them, because the
insert that found nothing still finds nothing at the commit. So a worker that reads
section by section reads from something that stands still (`LoaderInv`).

For any writers and runs (`LogInv`): runs are locked by one transaction each
(`LockedRuns`), so the id a transaction has drawn stays above every committed event of
its run (`EventsInOrder`), and no commit adds an event at or below a cursor, which stands
at a committed event (`ReaderInv`). One transaction at most is chaining, and what it read is
the newest of what is committed and its own (`ChainInv`).

For any drafts and texts (`AdminInv`): a row the page knows (listed, opened, or in an
answer) has a revision the table has reached, and if the table is still at that
revision, the very document (`Known`); so whoever passes the comparison of revisions
publishes the document of the row he knows, however old. `ScreenInv` says that a page
that is not dirty and has not strayed shows its row, `ErrandInv` what an answer under
way will say.

For any catalogue, prices and limits (`QuotesInv`): the quote that is kept, and the one
of a call under way, are of the submission they are used for, whatever was edited in
between (`Offer`). What remains is that five definitions of a plan agree:
`ServerPlans` and `RunnerPlans` show that a configuration the API accepts has in its
jobs the requests the page showed, and `BudgetCovers` that a quarter, rounded up, is
never less than the cost. `BudgetSuffices` is a theorem no run checks: neither API ever
finds the budget too little that the page computed, so a quote is refused for its
limits only. Plans are finite (`PlanFinite`), which the cardinalities in a cost need.

### Verdicts and streams

| Theorem | Statement |
| --- | --- |
| `VerdictsAgreeCorrect` | `VerdictsSpec => []VerdictsAgree` |
| `ErrorsNeverAccuseCorrect` | with one profile, `VerdictsSpec => []ErrorsNeverAccuse` |
| `MismatchSticksCorrect` | `VerdictsSpec => MismatchSticks` |
| `ReadersAgreeCorrect` | `StreamsSpec => []ReadersAgree` |

For any efforts, numbers of requests, windows, events, limits and retries. The
verdicts follow from what the two classifiers count (`ClassifiedAlike`): of answers
that both read alike (`WhatIsRead`), the same ones are good, bad or unsuccessful, so that the two orders of the
rules can differ only where `VerdictsAgree` says. `ErrorsNeverAccuse` is about the
server, which has one profile: with more answers than it requires, an error could
take the place of a surplus answer, and the statement assumes what the code has.
A reader's result is what it would hear now, unless the stream has since gone on in a
way that is not proper (`HeardInv`): two of the readers stop at the terminal event,
the third at the end, and only an event after a terminal one comes between them;
`TriesInv` keeps the attempts of the three in step.

The attempt to prove these showed that four CASE expressions of the model had
overlapping guards, of which TLC takes the first and the semantics takes any one
(`WorkerHears` of `Streams`, `NextCycle` and `Report` of `Runner`, `Finish` of
`RunnerSession`); they now have the order of the code's own tests.

### Only model-checked

Every invariant and every action property of the passing runs is proved. What stays
with TLC is liveness, `RunEnds`, `CycleEnds` and `EveryProcessCatchesUp`: fairness
speaks of ENABLED, which is beyond the proof system's backends. The three violated
properties (section 3) are counterexamples, which TLC alone can show.

## 6. Plan

1. Done: the private run (`RunState` ... `RunLifecycleProofs`).
2. Done: the donation (`DonationStore` ... `DonationCycleProofs`), its contract and
   its quota. Left of it: the retention of donated runs (the foreign key that stops
   the sweep).
3. Done: the registry (`RegistryStore` ... `RegistryProofs`).
4. Done: the local runner (`RunnerStore` ... `RunnerProofs`) and its API
   (`RunnerApi`, `RunnerApiProofs`).
5. Done: `Verdicts`, `Streams`, `Retention`, `Page`, `Release`, `RunLog`, `AdminPage`,
   `Quotes` and their proofs.
6. Left: proposals and their GitHub issues; the plan and the quote of a donation; the
   other pages of the frontend.

## 7. Not modelled, and why

Statistics (`scoring/score.ts`, `juice.py`, `probability_model.py`) compute with
real numbers; what the flow needs of them is a choice (`ScoredStatus`) or a set of
models above a threshold (`Verdicts`). HTTP exchanges, address filters, encryption,
signatures, the public queries, the other pages of the frontend and packaging are
input/output or configuration. `appendEvent` without a lease is called by nobody. The
plan of a donation (`domain/donation-plan.ts`) stands as a set of models and their
largest cost; its quote is not modelled. The in-memory store is the development twin
of the modelled one; it does the same operations without an await inside them. A write of the local store
that races with its close waits for ever (`store.py:163`); it holds nothing the
next session needs, and the model lets it raise. The statuses of all parts are in
`PROJECT.json`.
