----------------------------- MODULE PageProofs -----------------------------
(***************************************************************************)
(* The page's two promises for any inputs and any number of keys, quotes   *)
(* and detections. Only the latest key can still be used, so it is enough  *)
(* to compare its submission with that of the key before.                  *)
(***************************************************************************)
EXTENDS Page, TLAPS

Submissions == Inputs \X {"runner", "server"}
Fingerprint == <<form.input, Origin>>

PageTypes ==
    /\ form \in [input : Inputs, apiKey : BOOLEAN]
    /\ pending \in [input : Submissions \cup {<<>>}, key : Nat, quote : Nat]
    /\ keys \in Nat /\ quotes \in Nat
    /\ call \in [at : {"idle", "quote", "create", "wait"}, input : Inputs \cup {"none"},
                 key : Nat, quote : Nat, origin : {"none", "runner", "server"}, run : Nat]
    /\ DOMAIN runs \subseteq 1..keys
    /\ runs \in [DOMAIN runs -> [quote : Nat, of : Submissions, ended : BOOLEAN]]

ConsentInv == runner = "remote" => consent = "given"

\* The latest key is the pending one, or its handle has arrived.
KeyInv ==
    /\ pending.key # NoId => pending.key = keys /\ pending.input \in Submissions
    /\ pending.key = NoId => pending.input = <<>> /\ (keys = 0 \/ keys \in handled)
    /\ call.at \in {"quote", "create"} =>
          /\ pending.key = keys /\ call.key = keys /\ keys # 0
          /\ pending.input = <<call.input, call.origin>>

\* Its run, if there is one, is of what is pending; the run before, if its
\* handle was never received, is of something else.
RunsInv ==
    /\ pending.key = keys /\ keys \in DOMAIN runs => runs[keys].of = pending.input
    /\ /\ pending.key = keys /\ keys - 1 \in DOMAIN runs /\ keys - 1 \notin handled
       => runs[keys - 1].of # pending.input
    /\ OneRunPerSubmission

PageInv == PageTypes /\ KeyInv /\ RunsInv

LEMMA PageInitial == PageInit => PageInv /\ ConsentInv
<1> SUFFICES ASSUME PageInit PROVE PageInv /\ ConsentInv
  OBVIOUS
<1>1. DOMAIN runs = {} /\ runs \in [DOMAIN runs -> [quote : Nat, of : Submissions, ended : BOOLEAN]]
  BY DEF PageInit
<1>2. PageTypes
  BY <1>1 DEF PageInit, PageTypes, NotPending, NoCall, NoId
<1>3. KeyInv /\ RunsInv /\ ConsentInv
  BY <1>1 DEF PageInit, KeyInv, RunsInv, ConsentInv, OneRunPerSubmission, NotPending, NoCall, NoId
<1>4. QED
  BY <1>2, <1>3 DEF PageInv

LEMMA ConsentStep == ConsentInv /\ [PageNext]_pagevars => ConsentInv'
  BY DEF ConsentInv, PageNext, pagevars, screen, work, api, Detected, Recheck, OpenDialog,
         AcceptRemote, Fill, StartRun, Quote, CreateAnswered, CallFails, Reported, CancelRun,
         Expire, RunEnds, Cancelled, CancelReported, CancelFails

\* What the invariant speaks of, other than the run that may be made.
Kept == UNCHANGED <<form, pending, keys, quotes, call, runs, handled>>

LEMMA KeptKeeps == PageInv /\ Kept => PageInv'
  BY DEF PageInv, PageTypes, KeyInv, RunsInv, OneRunPerSubmission, Kept

\* Creating the run of the latest key.
LEMMA CreatedKeeps ==
  ASSUME PageInv, call.at = "create",
         runs' = RunsAfter(call.key, call.quote, Created(call.key, call.quote)),
         keys' = keys
  PROVE  /\ DOMAIN runs' \subseteq 1..keys
         /\ runs' \in [DOMAIN runs' -> [quote : Nat, of : Submissions, ended : BOOLEAN]]
         /\ keys \in DOMAIN runs' => runs'[keys].of = pending.input
         /\ \A k \in (DOMAIN runs') \ {keys} : k \in DOMAIN runs /\ runs'[k] = runs[k]
<1>1. /\ call.key = keys /\ pending.key = keys /\ keys \in 1..keys
      /\ <<call.input, call.origin>> = pending.input /\ pending.input \in Submissions
      /\ call.quote \in Nat
  BY DEF PageInv, PageTypes, KeyInv, NoId
<1>2. CASE runs' = runs
  BY <1>1, <1>2 DEF PageInv, PageTypes, RunsInv
<1>3. CASE runs' = [x \in DOMAIN runs \cup {keys} |->
                      IF x = keys THEN [quote |-> call.quote, of |-> pending.input, ended |-> FALSE]
                      ELSE runs[x]]
  <2>1. DOMAIN runs' = DOMAIN runs \cup {keys}
    BY <1>3
  <2>2. [quote |-> call.quote, of |-> pending.input, ended |-> FALSE]
           \in [quote : Nat, of : Submissions, ended : BOOLEAN]
    BY <1>1
  <2>3. \A x \in DOMAIN runs : runs[x] \in [quote : Nat, of : Submissions, ended : BOOLEAN]
    BY DEF PageInv, PageTypes
  <2>4. \A x \in DOMAIN runs' : runs'[x] \in [quote : Nat, of : Submissions, ended : BOOLEAN]
    BY <1>3, <2>2, <2>3
  <2>5. runs' \in [DOMAIN runs' -> [quote : Nat, of : Submissions, ended : BOOLEAN]]
    BY <1>3, <2>1, <2>4
  <2>6. QED
    BY <1>1, <1>3, <2>1, <2>5 DEF PageInv, PageTypes
<1>4. QED
  BY <1>1, <1>2, <1>3 DEF RunsAfter

\* If nothing else changes, one run per submission remains.
LEMMA OneRunStands ==
  ASSUME PageInv, call.at = "create",
         runs' = RunsAfter(call.key, call.quote, Created(call.key, call.quote)),
         keys' = keys, handled \subseteq handled'
  PROVE  OneRunPerSubmission'
<1> SUFFICES ASSUME NEW k \in DOMAIN runs', k + 1 \in DOMAIN runs',
                    runs'[k].of = runs'[k + 1].of
             PROVE  k \in handled'
  BY DEF OneRunPerSubmission
<1>1. k \in Nat /\ k + 1 <= keys /\ keys \in Nat /\ k # keys /\ pending.key = keys
  BY CreatedKeeps DEF PageInv, PageTypes, KeyInv
<1>2. k \in DOMAIN runs /\ runs'[k] = runs[k]
  BY <1>1, CreatedKeeps
<1>3. CASE k + 1 = keys
  BY <1>1, <1>2, <1>3, CreatedKeeps DEF PageInv, RunsInv
<1>4. CASE k + 1 # keys
  BY <1>2, <1>4, CreatedKeeps DEF PageInv, RunsInv, OneRunPerSubmission
<1>5. QED
  BY <1>3, <1>4

LEMMA DroppedKeeps ==
  ASSUME PageInv, Dropped, UNCHANGED <<form, pending, keys, quotes, handled>>
  PROVE  PageInv'
<1>1. NoCall \in [at : {"idle", "quote", "create", "wait"}, input : Inputs \cup {"none"},
                 key : Nat, quote : Nat, origin : {"none", "runner", "server"}, run : Nat]
  BY DEF NoCall, NoId
<1>2. CASE runs' = runs
  BY <1>1, <1>2 DEF PageInv, PageTypes, KeyInv, RunsInv, OneRunPerSubmission, Dropped, NoCall
<1>3. CASE call.at = "create" /\ runs' = RunsAfter(call.key, call.quote, Created(call.key, call.quote))
  <2>1. PageTypes'
    BY <1>1, <1>3, CreatedKeeps DEF PageInv, PageTypes, Dropped
  <2>2. KeyInv'
    BY <1>1 DEF PageInv, KeyInv, Dropped, NoCall
  <2>3. keys - 1 # keys
    BY DEF PageInv, PageTypes
  <2>4. RunsInv'
    BY <1>3, <2>3, CreatedKeeps, OneRunStands DEF PageInv, RunsInv
  <2>5. QED
    BY <2>1, <2>2, <2>4 DEF PageInv
<1>4. QED
  BY <1>2, <1>3 DEF Dropped

LEMMA FillKeeps ==
  ASSUME PageInv, NEW input \in Inputs, Fill(input)
  PROVE  PageInv'
  BY DEF PageInv, PageTypes, KeyInv, RunsInv, OneRunPerSubmission, Fill, api

LEMMA StartRunKeeps ==
  ASSUME PageInv, StartRun
  PROVE  PageInv'
<1> DEFINE s == Submission
<1>0. UNCHANGED <<runs, handled, form, quotes>>
  BY DEF StartRun, api
<1>1. Fingerprint \in Submissions /\ Fingerprint # <<>>
      /\ form.input \in Inputs /\ Origin \in {"runner", "server"}
  BY DEF PageInv, PageTypes, Fingerprint, Submissions, Origin
<1>2. /\ s \in [input : Submissions, key : Nat, quote : Nat] /\ s.input = Fingerprint
      /\ \/ s = pending /\ pending.key = keys /\ keys # 0
         \/ s.key = keys + 1 /\ pending.input # Fingerprint
  <2>1. CASE pending.input = Fingerprint
    BY <1>1, <2>1 DEF Submission, Fingerprint, PageInv, PageTypes, KeyInv, NoId
  <2>2. CASE pending.input # Fingerprint
    <3>1. s = [input |-> Fingerprint, key |-> keys + 1, quote |-> NoId]
      BY <2>2 DEF Submission, Fingerprint
    <3>2. QED
      BY <1>1, <2>2, <3>1 DEF PageInv, PageTypes, NoId
  <2>3. QED
    BY <2>1, <2>2
<1>3. /\ pending' = s /\ keys' = s.key /\ keys' \in Nat
      /\ call' = [NoCall EXCEPT !.at = IF s.quote = NoId THEN "quote" ELSE "create",
                                !.input = form.input, !.key = s.key, !.quote = s.quote,
                                !.origin = Origin]
  BY <1>2 DEF StartRun, PageInv, PageTypes
<1> HIDE DEF s
<1>4. /\ call'.at \in {"quote", "create"} /\ call'.key = s.key
      /\ <<call'.input, call'.origin>> = Fingerprint
      /\ call' \in [at : {"idle", "quote", "create", "wait"}, input : Inputs \cup {"none"},
                    key : Nat, quote : Nat, origin : {"none", "runner", "server"}, run : Nat]
  BY <1>1, <1>2, <1>3 DEF NoCall, NoId, Fingerprint
<1>5. PageTypes'
  BY <1>0, <1>2, <1>3, <1>4 DEF PageInv, PageTypes
<1>6. KeyInv'
  BY <1>1, <1>2, <1>3, <1>4 DEF KeyInv, NoId, PageInv, PageTypes
<1>7. RunsInv'
  <2>1. OneRunPerSubmission'
    BY <1>0 DEF PageInv, RunsInv, OneRunPerSubmission
  <2>2. CASE s = pending /\ pending.key = keys /\ keys # 0
    BY <1>0, <1>3, <2>1, <2>2 DEF PageInv, RunsInv
  <2>3. CASE s.key = keys + 1 /\ pending.input # Fingerprint
    <3>1. keys + 1 \notin DOMAIN runs /\ keys \in Nat
      BY DEF PageInv, PageTypes
    <3>2. ASSUME keys \in DOMAIN runs, keys \notin handled
          PROVE  runs[keys].of # Fingerprint
      <4>1. pending.key = keys
        BY <3>2 DEF PageInv, PageTypes, KeyInv
      <4>2. QED
        BY <2>3, <3>2, <4>1 DEF PageInv, RunsInv
    <3>3. QED
      BY <1>0, <1>2, <1>3, <2>1, <2>3, <3>1, <3>2 DEF RunsInv
  <2>4. QED
    BY <1>2, <2>2, <2>3
<1>8. QED
  BY <1>5, <1>6, <1>7 DEF PageInv

LEMMA QuoteKeeps ==
  ASSUME PageInv, Quote
  PROVE  PageInv'
<1>1. /\ UNCHANGED <<form, keys, runs, handled>> /\ quotes' = quotes + 1
      /\ call.at = "quote" /\ call' = [call EXCEPT !.at = "create", !.quote = quotes + 1]
      /\ pending' = [pending EXCEPT !.quote = quotes + 1]
  BY DEF Quote, api, PageInv, KeyInv
<1>2. PageTypes'
  <2>1. quotes + 1 \in Nat /\ quotes' \in Nat
    BY <1>1 DEF PageInv, PageTypes
  <2>2. pending' \in [input : Submissions \cup {<<>>}, key : Nat, quote : Nat]
    BY <1>1, <2>1 DEF PageInv, PageTypes
  <2>3. call' \in [at : {"idle", "quote", "create", "wait"}, input : Inputs \cup {"none"},
                   key : Nat, quote : Nat, origin : {"none", "runner", "server"}, run : Nat]
    BY <1>1, <2>1 DEF PageInv, PageTypes
  <2>4. QED
    BY <1>1, <2>1, <2>2, <2>3 DEF PageInv, PageTypes
<1>3. /\ pending'.key = pending.key /\ pending'.input = pending.input
      /\ call'.key = call.key /\ call'.input = call.input /\ call'.origin = call.origin
  BY <1>1 DEF PageInv, PageTypes
<1>4. KeyInv' /\ RunsInv'
  BY <1>1, <1>3 DEF PageInv, KeyInv, RunsInv, OneRunPerSubmission
<1>5. QED
  BY <1>2, <1>4 DEF PageInv

LEMMA CreateAnsweredKeeps ==
  ASSUME PageInv, CreateAnswered
  PROVE  PageInv'
<1>1. /\ call.at = "create" /\ keys' = keys /\ quotes' = quotes
      /\ runs' = RunsAfter(call.key, call.quote, Created(call.key, call.quote))
      /\ handled' = handled \cup {call.key} /\ call.key = keys /\ keys # 0
      /\ call' = [call EXCEPT !.at = "wait", !.run = call.key]
      /\ pending' = NotPending /\ form' = [form EXCEPT !.apiKey = FALSE]
  BY DEF CreateAnswered, PageInv, KeyInv
<1>2. PageTypes'
  <2>1. NotPending \in [input : Submissions \cup {<<>>}, key : Nat, quote : Nat]
    BY DEF NotPending, NoId
  <2>2. QED
    BY <1>1, <2>1, CreatedKeeps DEF PageInv, PageTypes
<1>3. KeyInv'
  BY <1>1 DEF KeyInv, NotPending, NoId, PageInv, PageTypes
<1>4. RunsInv'
  BY <1>1, OneRunStands DEF RunsInv, NotPending, NoId
<1>5. QED
  BY <1>2, <1>3, <1>4 DEF PageInv

LEMMA RunEndsKeeps ==
  ASSUME PageInv, NEW k, RunEnds(k)
  PROVE  PageInv'
<1>1. /\ UNCHANGED <<form, pending, keys, quotes, call, handled>>
      /\ k \in DOMAIN runs /\ runs' = [runs EXCEPT ![k].ended = TRUE]
  BY DEF RunEnds
<1>2. /\ DOMAIN runs' = DOMAIN runs
      /\ \A x \in DOMAIN runs : runs'[x].of = runs[x].of
      /\ runs' \in [DOMAIN runs -> [quote : Nat, of : Submissions, ended : BOOLEAN]]
  BY <1>1 DEF PageInv, PageTypes
<1>3. PageTypes' /\ KeyInv'
  BY <1>1, <1>2 DEF PageInv, PageTypes, KeyInv
<1>4. OneRunPerSubmission'
  BY <1>1, <1>2 DEF PageInv, RunsInv, OneRunPerSubmission
<1>5. RunsInv'
  BY <1>1, <1>2, <1>4 DEF PageInv, RunsInv
<1>6. QED
  BY <1>3, <1>5 DEF PageInv

LEMMA ReportedKeeps ==
  ASSUME PageInv, Reported
  PROVE  PageInv'
<1>1. UNCHANGED <<form, pending, keys, quotes, runs, handled>> /\ call' = NoCall
  BY DEF Reported, api
<1>2. QED
  BY <1>1, DroppedKeeps DEF Dropped

LEMMA PageStep == PageInv /\ [PageNext]_pagevars => PageInv'
<1> SUFFICES ASSUME PageInv, [PageNext]_pagevars PROVE PageInv'
  OBVIOUS
<1>1. CASE \/ \E status \in {"present", "absent"} : Detected(status)
           \/ Recheck \/ OpenDialog \/ AcceptRemote \/ CancelRun
           \/ \E q \in 1..quotes : Expire(q)
           \/ \E c \in cancels : CancelReported(c) \/ CancelFails(c)
           \/ UNCHANGED pagevars
  BY <1>1, KeptKeeps DEF Kept, Detected, Recheck, OpenDialog, AcceptRemote, CancelRun, Expire,
     CancelReported, CancelFails, pagevars, work, api
<1>2. CASE CallFails \/ \E c \in cancels : Cancelled(c)
  BY <1>2, DroppedKeeps DEF CallFails, Cancelled
<1>3. QED
  BY <1>1, <1>2, FillKeeps, StartRunKeeps, QuoteKeeps, CreateAnsweredKeeps, RunEndsKeeps,
     ReportedKeeps DEF PageNext

\* The key leaves for the server only after the user has agreed to it since the
\* last look for a runner (PrivateCheckPage.tsx, startRun and acceptRemote).
THEOREM KeyLeavesWithConsentCorrect == PageSpec => KeyLeavesWithConsent
<1>1. ConsentInv /\ [PageNext]_pagevars =>
        [call.at = "idle" /\ call'.at # "idle" /\ call'.origin = "server"
           => consent = "given"]_pagevars
  <2> SUFFICES ASSUME ConsentInv, PageNext, call.at = "idle", call'.at # "idle",
                      call'.origin = "server"
               PROVE  consent = "given"
    BY DEF pagevars
  <2>1. CASE StartRun
    <3>1. call'.origin = Origin
      BY <2>1 DEF StartRun, NoCall
    <3>2. QED
      BY <2>1, <3>1 DEF StartRun, Ready, Origin, ConsentInv
  <2>2. CASE ~StartRun
    BY <2>2 DEF PageNext, Detected, Recheck, OpenDialog, AcceptRemote, Fill, Quote, NoCall,
       CreateAnswered, CallFails, Dropped, Reported, CancelRun, Expire, RunEnds, Cancelled,
       CancelReported, CancelFails, work
  <2>3. QED
    BY <2>1, <2>2
<1>2. QED
  BY <1>1, PageInitial, ConsentStep, PTL DEF PageSpec, KeyLeavesWithConsent

\* Of two runs made in a row of one submission the page knows the first: a lost
\* answer, a retry or a cancel never makes a second run (PrivateCheckPage.tsx,
\* pendingSubmission; POST /private-runs).
THEOREM OneRunPerSubmissionCorrect == PageSpec => []OneRunPerSubmission
<1>1. PageInv => OneRunPerSubmission
  BY DEF PageInv, RunsInv
<1>2. QED
  BY <1>1, PageInitial, PageStep, PTL DEF PageSpec
=============================================================================
