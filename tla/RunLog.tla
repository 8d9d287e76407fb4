------------------------------ MODULE RunLog ------------------------------
(***************************************************************************)
(* The two logs of the database and their reader. A transaction that       *)
(* changes a run appends to run_events under the run's row lock            *)
(* (store/postgres-run-store.ts) and to audit_events under an advisory     *)
(* lock (appendAudit, there and in the contribution store and the          *)
(* administration service). Ids come from sequences, which no transaction  *)
(* holds. The page follows the events of its run by id                     *)
(* (routes/private-runs.ts, api/privateRuns.ts).                           *)
(***************************************************************************)
EXTENDS Naturals, FiniteSets

CONSTANTS Writers, Runs,
          Watched,  \* the run of the page
          EventIds, AuditIds \* bounds: ids drawn from the two sequences

ASSUME RunLogAssumption == Watched \in Runs /\ EventIds \in Nat /\ AuditIds \in Nat

VARIABLES txs,      \* per connection: its transaction
          stage,    \* per run: how far it is, as committed
          reported, \* runs with a report
          log,      \* committed run events, those of erased runs too
          audits,   \* committed audit events
          drawn,    \* ids drawn from the two sequences
          stream,   \* the server's answer to the page
          tab       \* waitForPrivateRun: its cursor and the events it applied

logvars == <<txs, stage, reported, log, audits, drawn, stream, tab>>
readers == <<stream, tab>>

(* What a transaction does: the stage it finds and leaves its runs at, and *)
(* which of the logs it appends to.                                        *)
Kinds ==
    [create   |-> [from |-> {"absent"}, to |-> "live", event |-> TRUE, audit |-> TRUE],
     progress |-> [from |-> {"live"}, to |-> "live", event |-> TRUE, audit |-> FALSE],
     move     |-> [from |-> {"live"}, to |-> "live", event |-> TRUE, audit |-> TRUE],
     finish   |-> [from |-> {"live"}, to |-> "over", event |-> TRUE, audit |-> TRUE],
     cancel   |-> [from |-> {"live"}, to |-> "over", event |-> TRUE, audit |-> TRUE],
     delete   |-> [from |-> {"over"}, to |-> "deleted", event |-> TRUE, audit |-> TRUE],
     expire   |-> [from |-> {"live", "over", "deleted"}, to |-> "erased", event |-> FALSE,
                   audit |-> TRUE],
     other    |-> [from |-> {}, to |-> "none", event |-> FALSE, audit |-> TRUE]]

NoTx == [at |-> "idle", kind |-> "other", runs |-> {}, event |-> 0, due |-> {}, rows |-> {},
         prev |-> 0]

LogInit ==
    /\ txs = [w \in Writers |-> NoTx]
    /\ stage = [r \in Runs |-> "absent"] /\ reported = {}
    /\ log = {} /\ audits = {}
    /\ drawn = [events |-> 0, audits |-> 0]
    /\ stream = [at |-> "off", cursor |-> 0, sent |-> {}]
    /\ tab = [at |-> "away", cursor |-> 0, applied |-> {}]
-----------------------------------------------------------------------------
Locked(r) == \E w \in Writers : txs[w].at # "idle" /\ r \in txs[w].runs
Data == <<stage, reported, log, audits>>

Open(w, kind, targets) ==
    /\ txs[w].at = "idle"
    /\ \A r \in targets : stage[r] \in Kinds[kind].from
    /\ txs' = [txs EXCEPT ![w] =
          [NoTx EXCEPT !.at = "open", !.kind = kind, !.runs = targets,
                       !.due = IF kind = "other" THEN {kind}
                               ELSE IF Kinds[kind].audit THEN targets ELSE {}]]
    /\ UNCHANGED <<Data, drawn, readers>>

\* Mutant of Begin: events are appended without the run's row lock.
BeginUnlocked(w, kind, targets) ==
    /\ kind # "progress" => \A r \in targets : ~Locked(r)
    /\ Open(w, kind, targets)

(* SELECT ... FOR UPDATE, or the insertion of the run.                     *)
Begin(w, kind, targets) ==
    /\ \A r \in targets : ~Locked(r)
    /\ Open(w, kind, targets)

(* expire takes all the runs it finds, other works on none.                *)
Targets(kind) == CASE kind = "other" -> {{}}
                   [] kind = "expire" -> SUBSET Runs \ {{}}
                   [] kind \notin {"other", "expire"} -> {{r} : r \in Runs}

EventDue(w) == Kinds[txs[w].kind].event /\ txs[w].event = 0

AppendEvent(w) ==
    /\ txs[w].at = "open" /\ EventDue(w)
    /\ drawn.events < EventIds
    /\ drawn' = [drawn EXCEPT !.events = @ + 1]
    /\ txs' = [txs EXCEPT ![w].event = drawn.events + 1]
    /\ UNCHANGED <<Data, readers>>

(* appendAudit: the lock is held until the transaction is over.            *)
Chaining(w) == txs[w].at = "chaining" \/ txs[w].rows # {}
Newest(rows, id) ==
    /\ id \in {0} \cup {a.id : a \in rows}
    /\ \A a \in rows : a.id <= id

\* Mutant of ReadNewest: no advisory lock.
ReadAnyNewest(w) ==
    /\ txs[w].at = "open" /\ ~EventDue(w) /\ txs[w].due # {}
    /\ \E id \in 0..drawn.audits :
          /\ Newest(audits \cup txs[w].rows, id)
          /\ txs' = [txs EXCEPT ![w].at = "chaining", ![w].prev = id]
    /\ UNCHANGED <<Data, drawn, readers>>

ReadNewest(w) ==
    /\ txs[w].at = "open" /\ ~EventDue(w) /\ txs[w].due # {}
    /\ \A v \in Writers \ {w} : ~Chaining(v)
    /\ \E id \in 0..drawn.audits :
          /\ Newest(audits \cup txs[w].rows, id)
          /\ txs' = [txs EXCEPT ![w].at = "chaining", ![w].prev = id]
    /\ UNCHANGED <<Data, drawn, readers>>

InsertAudit(w) ==
    /\ txs[w].at = "chaining" /\ drawn.audits < AuditIds
    /\ drawn' = [drawn EXCEPT !.audits = @ + 1]
    /\ \E subject \in txs[w].due :
          txs' = [txs EXCEPT ![w].at = "open", ![w].due = @ \ {subject},
                    ![w].rows = @ \cup {[id |-> drawn.audits + 1, prev |-> txs[w].prev]}]
    /\ UNCHANGED <<Data, readers>>

Commit(w) ==
    LET tx == txs[w] IN
    /\ tx.at = "open" /\ ~EventDue(w) /\ tx.due = {}
    /\ stage' = [r \in Runs |-> IF r \in tx.runs THEN Kinds[tx.kind].to ELSE stage[r]]
    /\ reported' = IF tx.kind = "finish" THEN reported \cup tx.runs ELSE reported
    /\ log' = IF Kinds[tx.kind].event THEN log \cup {[id |-> tx.event, run |-> r] : r \in tx.runs}
              ELSE log
    /\ audits' = audits \cup tx.rows
    /\ txs' = [txs EXCEPT ![w] = NoTx]
    /\ UNCHANGED <<drawn, readers>>

(* Refused, failed or cut off. The ids it drew are not given out again.    *)
Rollback(w) ==
    /\ txs[w].at # "idle"
    /\ txs' = [txs EXCEPT ![w] = NoTx]
    /\ UNCHANGED <<Data, drawn, readers>>

(* saveReport of a cancelled run; purge of a deleted one.                  *)
SaveReport(r) ==
    /\ stage[r] = "over" /\ ~Locked(r)
    /\ reported' = reported \cup {r}
    /\ UNCHANGED <<txs, stage, log, audits, drawn, readers>>

Purge(r) ==
    /\ stage[r] = "deleted" /\ ~Locked(r)
    /\ stage' = [stage EXCEPT ![r] = "erased"]
    /\ UNCHANGED <<txs, reported, log, audits, drawn, readers>>
-----------------------------------------------------------------------------
Store == <<txs, Data, drawn>>
Owned == stage[Watched] \in {"live", "over"}
TabGoes(at) == tab' = [tab EXCEPT !.at = at]
Hangup == stream' = [at |-> "off", cursor |-> 0, sent |-> {}]

(* GET /events, from the cursor of the page.                               *)
Connect ==
    /\ tab.at = "away"
    /\ IF Owned THEN TabGoes("streaming") /\ stream' = [at |-> "poll", cursor |-> tab.cursor, sent |-> {}]
       ELSE TabGoes("failed") /\ UNCHANGED stream
    /\ UNCHANGED Store

(* listEvents, from the cursor of the stream.                              *)
Unsent == {e.id : e \in {e \in log : /\ e.run = Watched /\ stage[Watched] # "erased"
                                     /\ e.id > stream.cursor}}

Poll ==
    /\ stream.at = "poll"
    /\ \/ Unsent = {} /\ stream' = [stream EXCEPT !.at = "look"]
       \/ \E last \in Unsent :
             /\ \A id \in Unsent : id <= last
             /\ stream' = [at |-> "look", cursor |-> last, sent |-> stream.sent \cup Unsent]
    /\ UNCHANGED <<Store, tab>>

(* The status, read after the events; a run that is gone counts as it was. *)
Look ==
    /\ stream.at = "look"
    /\ stream' = [stream EXCEPT !.at =
                    IF stage[Watched] \in {"over", "deleted"} THEN "ended" ELSE "poll"]
    /\ UNCHANGED <<Store, tab>>

Deadline ==
    /\ stream.at = "poll" /\ stream' = [stream EXCEPT !.at = "ended"]
    /\ UNCHANGED <<Store, tab>>

(* The page reads an answer to its end before it applies an event of it.   *)
Deliver ==
    /\ tab.at = "streaming" /\ stream.at = "ended"
    /\ tab' = [at |-> "asking", cursor |-> stream.cursor, applied |-> tab.applied \cup stream.sent]
    /\ Hangup /\ UNCHANGED Store

(* The connection breaks, or the user cancels.                             *)
Break ==
    /\ tab.at = "streaming"
    /\ TabGoes("failed") /\ Hangup /\ UNCHANGED Store

(* GET /report: 409 while there is none.                                   *)
Ask ==
    /\ tab.at = "asking"
    /\ TabGoes(IF ~Owned THEN "failed" ELSE IF Watched \in reported THEN "done" ELSE "away")
    /\ UNCHANGED <<Store, stream>>

(* The form is sent again with the same key: the page starts over.         *)
Again ==
    /\ tab.at = "failed"
    /\ tab' = [at |-> "away", cursor |-> 0, applied |-> {}]
    /\ UNCHANGED <<Store, stream>>

LogNext ==
    \/ \E w \in Writers :
          \/ \E kind \in DOMAIN Kinds : \E targets \in Targets(kind) : Begin(w, kind, targets)
          \/ AppendEvent(w) \/ ReadNewest(w) \/ InsertAudit(w) \/ Commit(w) \/ Rollback(w)
    \/ \E r \in Runs : SaveReport(r) \/ Purge(r)
    \/ Connect \/ Poll \/ Look \/ Deadline \/ Deliver \/ Break \/ Ask \/ Again

LogSpec == LogInit /\ [][LogNext]_logvars
-----------------------------------------------------------------------------
(* The page misses no event of its run and applies none twice: it has      *)
(* applied the committed events up to its cursor, and what a stream brings *)
(* it is what follows.                                                     *)
EventsUpTo(id) == {e.id : e \in {e \in log : e.run = Watched /\ e.id <= id}}

EventsArriveOnce ==
    /\ tab.applied = EventsUpTo(tab.cursor)
    /\ stream.at # "off" => stream.sent = EventsUpTo(stream.cursor) \ tab.applied

(* Every audit event names the one before it: none is left out of the      *)
(* chain and none has two successors.                                      *)
AuditChainHolds ==
    \A a \in audits : Newest({b \in audits : b.id < a.id}, a.prev)
=============================================================================
