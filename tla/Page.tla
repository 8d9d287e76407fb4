-------------------------------- MODULE Page --------------------------------
(***************************************************************************)
(* The page of a private check (frontend/src/pages/PrivateCheckPage.tsx    *)
(* with api/privateRuns.ts and lib/localRunner.ts) against the API it      *)
(* talks to, which is the server's or the local runner's. Start is         *)
(* disabled while a call of startRun is under way, so there is one such    *)
(* call and, beside it, calls of cancelRun; any answer can be lost.        *)
(***************************************************************************)
EXTENDS Naturals, FiniteSets

CONSTANTS Inputs,     \* contents of the form, what the fingerprint is taken of
          MaxKeys,    \* bound: idempotency keys the page makes
          MaxQuotes,  \* bound: quotes issued
          MaxRechecks \* bound: detections asked for by the user

ASSUME PageAssumption == {MaxKeys, MaxQuotes, MaxRechecks} \subseteq Nat

VARIABLES runner,   \* status of the RunnerState
          probing,  \* detections under way
          rechecks,
          consent,  \* the dialog: "none", "asked", or "given" since the last recheck
          form,     \* the input now in the form, and whether it has a key
          pending,  \* pendingSubmission
          keys, quotes, \* ids given out
          call,     \* the call of startRun
          shown,   \* activeRun: its run and the run its report is of
          cancels,  \* calls of cancelRun: the run and what they wait for
          runs,     \* the API: runs by idempotency key
          handled,  \* history: keys whose run's handle the page got
          expired   \* the API: quotes no longer accepted

pagevars == <<runner, probing, rechecks, consent, form, pending, keys, quotes,
              call, shown, cancels, runs, handled, expired>>
api == <<runs, handled, expired>>
work == <<form, pending, keys, quotes, call, shown, cancels>>
screen == <<runner, probing, rechecks, consent>>

NoId == 0
NotPending == [input |-> <<>>, key |-> NoId, quote |-> NoId]
NoCall == [at |-> "idle", input |-> "none", key |-> NoId, quote |-> NoId, origin |-> "none",
           run |-> NoId]
NoRun == [run |-> NoId, report |-> NoId]

PageInit ==
    /\ runner = "checking" /\ probing = 1 /\ rechecks = 0 /\ consent = "none"
    /\ form \in [input : Inputs, apiKey : {TRUE}]
    /\ pending = NotPending /\ keys = 0 /\ quotes = 0
    /\ call = NoCall /\ shown = NoRun /\ cancels = {}
    /\ runs = [k \in {} |-> NoId] /\ handled = {} /\ expired = {}
-----------------------------------------------------------------------------
(* detectLocalRunner answers; a late answer is taken like any other.       *)
Detected(status) ==
    /\ probing > 0 /\ probing' = probing - 1
    /\ runner' = status
    /\ UNCHANGED <<rechecks, consent, work, api>>

Recheck ==
    /\ runner \in {"remote", "absent"} /\ consent # "asked" /\ rechecks < MaxRechecks
    /\ rechecks' = rechecks + 1 /\ probing' = probing + 1
    /\ runner' = "checking" /\ consent' = "none"
    /\ UNCHANGED <<work, api>>

OpenDialog ==
    /\ runner = "absent" /\ consent' = "asked"
    /\ UNCHANGED <<runner, probing, rechecks, work, api>>

(* The runner may have answered since the dialog was opened.               *)
AcceptRemote ==
    /\ consent = "asked"
    /\ runner' = "remote" /\ consent' = "given"
    /\ UNCHANGED <<probing, rechecks, work, api>>

Fill(input) ==
    /\ form' = [input |-> input, apiKey |-> TRUE]
    /\ UNCHANGED <<screen, pending, keys, quotes, call, shown, cancels, api>>

\* Mutant of Ready: it does not ask for a runner.
ReadyAnyhow == form.apiKey

Ready == form.apiKey /\ runner \in {"present", "remote"}
Origin == IF runner = "present" THEN "runner" ELSE "server"

\* Mutant of Submission: every start is a submission of its own.
FreshSubmission == [input |-> <<form.input, Origin>>, key |-> keys + 1, quote |-> NoId]

(* The key, and the quote it was used with, of the same fingerprint, which *)
(* contains the origin.                                                    *)
Submission ==
    LET fingerprint == <<form.input, Origin>> IN
    IF pending.input = fingerprint THEN pending
    ELSE [input |-> fingerprint, key |-> keys + 1, quote |-> NoId]

StartRun ==
    LET s == Submission IN
    /\ Ready /\ call.at = "idle" /\ s.key <= MaxKeys
    /\ pending' = s
    /\ keys' = IF s.key > keys THEN s.key ELSE keys
    /\ call' = [NoCall EXCEPT !.at = IF s.quote = NoId THEN "quote" ELSE "create",
                              !.input = form.input, !.key = s.key, !.quote = s.quote,
                              !.origin = Origin]
    /\ UNCHANGED <<screen, form, quotes, shown, cancels, api>>

(* POST /private-runs/quote, and onPrepared.                               *)
Quote ==
    /\ call.at = "quote" /\ quotes < MaxQuotes
    /\ quotes' = quotes + 1
    /\ call' = [call EXCEPT !.at = "create", !.quote = quotes + 1]
    /\ pending' = IF pending.key = call.key THEN [pending EXCEPT !.quote = quotes + 1] ELSE pending
    /\ UNCHANGED <<screen, form, keys, shown, cancels, api>>

Expire(q) ==
    /\ q \in (1..quotes) \ expired
    /\ expired' = expired \cup {q}
    /\ UNCHANGED <<screen, form, pending, keys, quotes, call, shown, cancels, runs, handled>>

(* POST /private-runs as the API answers it: the run of the key, if it was *)
(* made of the same quote, a new run, or an error.                         *)
Created(k, q) ==
    IF q \in expired \/ (k \in DOMAIN runs /\ runs[k].quote # q) THEN "refused"
    ELSE IF k \in DOMAIN runs THEN "replayed" ELSE "made"

RunsAfter(k, q, answer) ==
    IF answer # "made" THEN runs
    ELSE [x \in DOMAIN runs \cup {k} |->
            IF x = k THEN [quote |-> q, of |-> <<call.input, call.origin>>, ended |-> FALSE] ELSE runs[x]]

(* A handle is received: the submission is over and the key is forgotten.  *)
CreateAnswered ==
    LET answer == Created(call.key, call.quote) IN
    /\ call.at = "create" /\ answer # "refused"
    /\ runs' = RunsAfter(call.key, call.quote, answer)
    /\ handled' = handled \cup {call.key}
    /\ call' = [call EXCEPT !.at = "wait", !.run = call.key]
    /\ pending' = NotPending /\ form' = [form EXCEPT !.apiKey = FALSE]
    /\ shown' = [NoRun EXCEPT !.run = call.key]
    /\ UNCHANGED <<screen, keys, quotes, cancels, expired>>

(* The call is given up; what it has asked the API for may be done.        *)
Dropped ==
    /\ call' = NoCall
    /\ runs' \in {runs} \cup
         IF call.at = "create"
         THEN {RunsAfter(call.key, call.quote, Created(call.key, call.quote))} ELSE {}

(* It fails, or its answer is lost.                                        *)
CallFails ==
    /\ call.at # "idle" /\ Dropped
    /\ UNCHANGED <<screen, form, pending, keys, quotes, shown, cancels, handled, expired>>

RunEnds(k) ==
    /\ k \in DOMAIN runs /\ ~runs[k].ended
    /\ runs' = [runs EXCEPT ![k].ended = TRUE]
    /\ UNCHANGED <<screen, form, pending, keys, quotes, call, shown, cancels, handled, expired>>

(* waitForPrivateRun: a report, and not 409, ends the wait.                *)
Reported ==
    /\ call.at = "wait" /\ runs[call.run].ended
    /\ shown' = [shown EXCEPT !.report = call.run]
    /\ call' = NoCall
    /\ UNCHANGED <<screen, form, pending, keys, quotes, cancels, api>>

CancelRun ==
    /\ shown.run # NoId /\ shown.report = NoId
    /\ cancels' = cancels \cup {[run |-> shown.run, at |-> "cancel"]}
    /\ UNCHANGED <<screen, form, pending, keys, quotes, call, shown, api>>

(* The run has ended, and the current call is aborted, whosever it is.     *)
Cancelled(c) ==
    /\ c \in cancels /\ c.at = "cancel"
    /\ runs[c.run].ended /\ Dropped
    /\ cancels' = (cancels \ {c}) \cup {[c EXCEPT !.at = "report"]}
    /\ UNCHANGED <<screen, form, pending, keys, quotes, shown, handled, expired>>

(* The report is put on the active run, without a look at its id.          *)
CancelReported(c) ==
    /\ c \in cancels /\ c.at = "report"
    /\ shown' = [shown EXCEPT !.report = c.run]
    /\ cancels' = cancels \ {c}
    /\ UNCHANGED <<screen, form, pending, keys, quotes, call, api>>

CancelFails(c) ==
    /\ c \in cancels
    /\ cancels' = cancels \ {c}
    /\ UNCHANGED <<screen, form, pending, keys, quotes, call, shown, api>>

PageNext ==
    \/ \E status \in {"present", "absent"} : Detected(status)
    \/ Recheck \/ OpenDialog \/ AcceptRemote
    \/ \E input \in Inputs : Fill(input)
    \/ StartRun \/ Quote \/ CreateAnswered \/ CallFails \/ Reported \/ CancelRun
    \/ \E q \in 1..quotes : Expire(q)
    \/ \E k \in 1..keys : RunEnds(k)
    \/ \E c \in cancels : Cancelled(c) \/ CancelReported(c) \/ CancelFails(c)

PageSpec == PageInit /\ [][PageNext]_pagevars
-----------------------------------------------------------------------------
(* The key is sent to the server, and not to the runner on the user's own  *)
(* machine, only when the user has agreed to it since the last look for a  *)
(* runner, however late the answers of the detections come.                *)
KeyLeavesWithConsent ==
    [][call.at = "idle" /\ call'.at # "idle" /\ call'.origin = "server" => consent = "given"]_pagevars

(* Submitting the same thing again after a failure never makes a second    *)
(* run: of two runs made of one input in a row, the page got the handle of *)
(* the first.                                                              *)
OneRunPerSubmission ==
    \A k \in DOMAIN runs :
        k + 1 \in DOMAIN runs /\ runs[k].of = runs[k + 1].of => k \in handled
=============================================================================
