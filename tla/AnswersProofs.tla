--------------------------- MODULE AnswersProofs ----------------------------
(***************************************************************************)
(* What is read from a stream (Streams) and concluded from the answers     *)
(* (Verdicts), for any probes, retries, limits and numbers of requests.    *)
(***************************************************************************)
EXTENDS Verdicts, Streams, FiniteSetTheorems, TLAPS

Single == {"output", "coverage", "country"}

\* Only a continuous session reports before its end.
VerdictsInv ==
    /\ answered = [p \in Probes |-> answered[p]]
    /\ \A p \in Probes : answered[p] \in Seq(Answers(p))
    /\ mode = "single" => alerts = {}
    /\ told = "mismatch" => alerts # {}

LEMMA VerdictsInitial == VerdictsInit => VerdictsInv
  BY DEF VerdictsInit, VerdictsInv

\* A report is of a mismatch exactly when there is an alert.
LEMMA MismatchIsAlert ==
  ASSUME NEW R, NEW sticky
  PROVE  LocalJuice(R, sticky) = "mismatch" <=> Alerts(R) \cup sticky # {}
  BY Zenon DEF LocalJuice

LEMMA CycleReports ==
  ASSUME Cycle
  PROVE  /\ alerts \subseteq alerts' /\ mode = "continuous"
         /\ told' = "mismatch" <=> alerts' # {}
<1>1. told' = LocalJuice(answered', alerts') /\ alerts' = alerts \cup Alerts(answered')
      /\ mode = "continuous"
  BY DEF Cycle
<1>2. told' = "mismatch" <=> Alerts(answered') \cup alerts' # {}
  BY <1>1, MismatchIsAlert
<1>3. QED
  BY <1>1, <1>2

LEMMA VerdictsStep == VerdictsInv /\ [VerdictsNext]_vvars => VerdictsInv'
<1> SUFFICES ASSUME VerdictsInv, [VerdictsNext]_vvars PROVE VerdictsInv'
  OBVIOUS
<1>1. CASE UNCHANGED vvars
  BY <1>1 DEF vvars, VerdictsInv
<1>2. ASSUME NEW p \in Probes, NEW a \in Answers(p), Answer(p, a) PROVE VerdictsInv'
  <2>1. /\ answered' = [q \in Probes |-> answered'[q]]
        /\ \A q \in Probes : answered'[q] \in {answered[q], Append(answered[q], a)}
        /\ \A q \in Probes : q # p => answered'[q] = answered[q]
    BY <1>2 DEF Answer, VerdictsInv
  <2>2. ASSUME NEW q \in Probes PROVE answered'[q] \in Seq(Answers(q))
    <3>1. CASE q = p
      <4>1. answered[q] \in Seq(Answers(q)) /\ a \in Answers(q)
        BY <3>1 DEF VerdictsInv
      <4>2. Append(answered[q], a) \in Seq(Answers(q))
        BY <4>1
      <4>3. QED
        BY <2>1, <4>1, <4>2
    <3>2. CASE q # p
      BY <2>1, <3>2 DEF VerdictsInv
    <3>3. QED
      BY <3>1, <3>2
  <2>3. QED
    BY <1>2, <2>1, <2>2 DEF Answer, VerdictsInv
<1>3. CASE Cycle
  <2>1. PICK S \in SUBSET (Efforts \cup {"output"}) :
          \E a \in [S -> {"claimed", "other", "words", "forty", "error"}] :
              /\ \A p \in S : a[p] \in Answers(p)
              /\ answered' = [p \in Probes |-> IF p \in S THEN Append(answered[p], a[p])
                                                         ELSE answered[p]]
    BY <1>3 DEF Cycle
  <2>2. PICK a : /\ \A p \in S : a[p] \in Answers(p)
                 /\ answered' = [p \in Probes |-> IF p \in S THEN Append(answered[p], a[p])
                                                            ELSE answered[p]]
    BY <2>1
  <2>3. \A p \in Probes : answered'[p] \in Seq(Answers(p))
    BY <2>2 DEF VerdictsInv
  <2>4. answered' = [p \in Probes |-> answered'[p]]
    BY <2>2
  <2>5. mode' = "continuous"
    BY <1>3 DEF Cycle
  <2>6. QED
    BY <1>3, <2>3, <2>4, <2>5, CycleReports DEF VerdictsInv
<1>4. QED
  BY <1>1, <1>2, <1>3 DEF VerdictsNext

LEMMA VerdictsInvariant == VerdictsSpec => []VerdictsInv
  BY VerdictsInitial, VerdictsStep, PTL DEF VerdictsSpec

(* A mismatch that a report told of is told of by every later one, though  *)
(* each looks at its window of the answers (_juice_state of detector.py).  *)
THEOREM MismatchSticksCorrect == VerdictsSpec => MismatchSticks
<1>1. VerdictsInv /\ [VerdictsNext]_vvars => [told = "mismatch" => told' = "mismatch"]_vvars
  <2> SUFFICES ASSUME VerdictsInv, VerdictsNext, told = "mismatch" PROVE told' = "mismatch"
    BY DEF vvars
  <2>1. CASE Cycle
    BY <2>1, CycleReports DEF VerdictsInv
  <2>2. CASE ~Cycle
    BY <2>2 DEF VerdictsNext, Answer
  <2>3. QED
    BY <2>1, <2>2
<1>2. QED
  BY <1>1, VerdictsInvariant, PTL DEF VerdictsSpec, MismatchSticks
-----------------------------------------------------------------------------
(* The two classifications.                                                *)

\* What an answer of a probe says, to either reader.
LEMMA WhatIsRead ==
  ASSUME NEW p \in Efforts \cup {"output", "coverage"}, NEW a \in Answers(p)
  PROVE  /\ p \in Efforts => {ServerReads(a), RunnerReads(a)}
              \subseteq {"error", "claimed", "shared", "other", "number", "words"}
         /\ p \notin Efforts => {ServerReads(a), RunnerReads(a)}
              \subseteq {"error", "exact", "forty", "known", "words"}
<1> DEFINE theirs == {"markedClaimed", "markedOther", "markedForty"}
           ours == {"longClaimed", "longOther", "longForty"}
<1>1. DOMAIN ServerOnly = theirs /\ DOMAIN RunnerOnly = ours
  BY DEF ServerOnly, RunnerOnly
<1>2. a \in theirs => ServerReads(a) = ServerOnly[a] /\ RunnerReads(a) = "words"
  BY <1>1 DEF ServerReads, RunnerReads, Read
<1>3. a \in ours => ServerReads(a) = "words" /\ RunnerReads(a) = RunnerOnly[a]
  BY <1>1 DEF ServerReads, RunnerReads, Read
<1>4. a \notin theirs \cup ours => ServerReads(a) = a /\ RunnerReads(a) = a
  BY <1>1 DEF ServerReads, RunnerReads, Read
<1>5. /\ ServerOnly["markedClaimed"] = "claimed" /\ ServerOnly["markedOther"] = "other"
      /\ ServerOnly["markedForty"] = "forty" /\ RunnerOnly["longClaimed"] = "claimed"
      /\ RunnerOnly["longOther"] = "other" /\ RunnerOnly["longForty"] = "forty"
  BY DEF ServerOnly, RunnerOnly
<1>6. CASE p \in Efforts
  <2>1. a \in {"error", "claimed", "shared", "other", "number", "words",
               "markedClaimed", "markedOther", "longClaimed", "longOther"}
    BY <1>6, VerdictAssumption DEF Answers
  <2>2. QED
    BY <1>2, <1>3, <1>4, <1>5, <1>6, <2>1
<1>7. CASE p \notin Efforts
  <2>1. a \in {"error", "exact", "forty", "known", "words", "markedForty", "longForty"}
    BY <1>7 DEF Answers
  <2>2. QED
    BY <1>2, <1>3, <1>4, <1>5, <1>7, <2>1
<1>8. QED
  BY <1>6, <1>7

\* An answer in which both read the same is classified alike by both.
LEMMA ClassifiedAlike ==
  ASSUME NEW p \in Efforts \cup {"output", "coverage"}, NEW a \in Answers(p),
         ServerReads(a) = RunnerReads(a)
  PROVE  \A c \in {"current_success", "mixed", "unsuccessful", "anomaly"} :
            Classify(p, a) = c <=> LocalClassify(p, a) = c
<1>1. p \in Efforts => p \notin Single
  BY VerdictAssumption DEF Single
<1> DEFINE b == ServerReads(a)
<1>2. CASE p \in Efforts
  <2>1. b \in {"error", "claimed", "shared", "other", "number", "words"}
    BY <1>2, WhatIsRead
  <2>2. RunnerReads(a) = b
    OBVIOUS
  <2> HIDE DEF b
  <2>3. QED
    BY <1>1, <1>2, <2>1, <2>2 DEF b, Classify, LocalClassify, Fits, Models, Single
<1>3. CASE p \in {"output", "coverage"}
  <2>1. p \notin Efforts
    BY <1>1, <1>3 DEF Single
  <2>2. b \in {"error", "exact", "forty", "known", "words"}
    BY <2>1, WhatIsRead
  <2>3. RunnerReads(a) = b
    OBVIOUS
  <2> HIDE DEF b
  <2>4. QED
    BY <1>3, <2>1, <2>2, <2>3 DEF b, Classify, LocalClassify, Fits, Models
<1>4. QED
  BY <1>2, <1>3

\* So both find the same answers in a class.
LEMMA ToldAlike ==
  ASSUME VerdictsInv, ReadAlike(answered), NEW p \in Efforts \cup {"output", "coverage"},
         NEW C \in SUBSET {"current_success", "mixed", "unsuccessful", "anomaly"}
  PROVE  Told(answered, p, C, Classify) = Told(answered, p, C, LocalClassify)
<1>1. \A i \in DOMAIN answered[p] :
         /\ answered[p][i] \in Answers(p)
         /\ ServerReads(answered[p][i]) = RunnerReads(answered[p][i])
  <2>1. p \in Probes
    BY DEF Probes
  <2>2. answered[p] \in Seq(Answers(p))
    BY <2>1 DEF VerdictsInv
  <2>3. QED
    BY <2>1, <2>2 DEF ReadAlike
<1>2. \A i \in DOMAIN answered[p] :
        Classify(p, answered[p][i]) \in C <=> LocalClassify(p, answered[p][i]) \in C
  BY <1>1, ClassifiedAlike
<1>3. QED
  BY <1>2 DEF Told

(* A single run that is over, whose answers both read alike, is judged     *)
(* alike by the server and by the local runner (juiceSummary and the rules *)
(* of the release; JuiceSession.summary and _juice_state).                 *)
THEOREM VerdictsAgreeCorrect == VerdictsSpec => []VerdictsAgree
<1>1. ASSUME VerdictsInv, Settled, ReadAlike(answered),
             ~(AllUnsuccessful(answered) /\ HardAnomaly(answered))
      PROVE  LocalJuice(answered, alerts) = ServerJuice(answered)
  <2> DEFINE R == answered
  <2>1. mode = "single" /\ alerts = {}
    BY <1>1 DEF Settled, VerdictsInv
  <2>2. Windowed(R) = R /\ \A p : LocalMinimum(p) = Requests[p] /\ Minimum(p) = Requests[p]
    BY <1>1, <2>1 DEF Windowed, LocalMinimum, Minimum, VerdictsInv
  <2>3. ASSUME NEW p \in Efforts \cup {"output", "coverage"},
               NEW C \in SUBSET {"current_success", "mixed", "unsuccessful", "anomaly"}
        PROVE  Told(R, p, C, Classify) = Told(R, p, C, LocalClassify)
    BY <1>1, <2>3, ToldAlike
  <2>4. LocalMixed(R) = Mixed(R) /\ LocalAnomaly(R) = HardAnomaly(R)
    BY <2>3 DEF LocalMixed, Mixed, LocalAnomaly, HardAnomaly
  <2>5. LocalPassed(R) = \A p \in Efforts : Told(R, p, {"current_success"}, Classify) # {}
    BY <2>3 DEF LocalPassed
  <2>6. LocalAllUnsuccessful(R) = AllUnsuccessful(R)
    <3>1. \A p \in Efforts :
            /\ Told(R, p, Valid, Classify) = Told(R, p, Valid, LocalClassify)
            /\ Told(R, p, {"unsuccessful"}, Classify) = Told(R, p, {"unsuccessful"}, LocalClassify)
      BY <2>3 DEF Valid
    <3>2. \A p \in Efforts : Told(R, p, Valid, Classify) = Told(R, p, {"unsuccessful"}, Classify)
            <=> /\ Told(R, p, {"mixed"}, Classify) = {}
                /\ Told(R, p, {"current_success"}, Classify) = {}
      BY DEF Told, Valid
    <3>3. QED
      BY <2>2, <3>1, <3>2 DEF LocalAllUnsuccessful, AllUnsuccessful, Mixed
  <2>7. Alerts(R) \cup alerts # {} <=> Mixed(R) \/ HardAnomaly(R)
    BY <2>1, <2>2, <2>4 DEF Alerts
  <2> DEFINE A == AllUnsuccessful(R)
             M == Mixed(R)
             H == HardAnomaly(R)
             P == \A p \in Efforts : Told(R, p, {"current_success"}, Classify) # {}
  <2>8. A => ~M
    BY DEF AllUnsuccessful
  <2>9. ServerJuice(R) = IF A THEN "possible_non_gpt" ELSE IF M \/ H THEN "mismatch"
                         ELSE IF P THEN "pass" ELSE "insufficient"
    BY Zenon DEF ServerJuice, Passed
  <2>10. LocalJuice(R, alerts) = IF M \/ H THEN "mismatch" ELSE IF A THEN "possible_non_gpt"
                                 ELSE IF P THEN "pass" ELSE "insufficient"
    BY <2>2, <2>5, <2>6, <2>7 DEF LocalJuice
  <2>11. ~(A /\ H)
    BY <1>1
  <2> HIDE DEF A, M, H, P
  <2>12. QED
    BY <2>8, <2>9, <2>10, <2>11
<1>2. VerdictsInv => VerdictsAgree
  BY <1>1 DEF VerdictsAgree
<1>3. QED
  BY <1>2, VerdictsInvariant, PTL

(* The server suspects nothing it did not suspect before when an error     *)
(* stands in the place of an answer: it has one profile, hence no more     *)
(* answers than it requires (juiceSummary, score.ts).                      *)
THEOREM ErrorsNeverAccuseCorrect ==
  ASSUME Profiles = 1 PROVE VerdictsSpec => []ErrorsNeverAccuse
<1>1. ASSUME VerdictsInv, Settled, NEW p \in Probes, NEW i \in 1..Requests[p],
             ServerJuice([answered EXCEPT ![p][i] = "error"]) \in {"mismatch", "possible_non_gpt"}
      PROVE  ServerJuice(answered) \in {"mismatch", "possible_non_gpt"}
  <2> DEFINE R == [answered EXCEPT ![p][i] = "error"]
  <2>1. Requests[p] \in Nat \ {0} /\ Len(answered[p]) = Requests[p]
        /\ answered[p] \in Seq(Answers(p))
    BY <1>1, VerdictAssumption DEF Settled, VerdictsInv
  <2>2. DOMAIN answered[p] = 1..Requests[p] /\ i \in DOMAIN answered[p]
    BY <1>1, <2>1
  <2>3. ASSUME NEW q \in Probes,
               NEW C \in SUBSET {"current_success", "mixed", "unsuccessful", "anomaly"}
        PROVE  Told(R, q, C, Classify) = IF q = p THEN Told(answered, q, C, Classify) \ {i}
                                         ELSE Told(answered, q, C, Classify)
    <3>1. /\ q # p => R[q] = answered[q]
          /\ q = p => /\ DOMAIN R[q] = DOMAIN answered[q] /\ R[q][i] = "error"
                      /\ \A j \in DOMAIN answered[q] : j # i => R[q][j] = answered[q][j]
      BY <1>1, <2>2 DEF VerdictsInv
    <3>2. Classify(q, "error") = "none"
      <4>1. ServerReads("error") = "error"
        BY DEF ServerReads, Read, ServerOnly, RunnerOnly
      <4>2. QED
        BY <4>1 DEF Classify
    <3> HIDE DEF R
    <3>3. QED
      BY <3>1, <3>2 DEF Told
  <2> HIDE DEF R
  <2>4. \A S : ServerJuice(S) \in {"mismatch", "possible_non_gpt"}
                <=> AllUnsuccessful(S) \/ Mixed(S) \/ HardAnomaly(S)
    BY Zenon DEF ServerJuice
  <2>5. Mixed(R) => Mixed(answered)
    BY <2>3 DEF Mixed, Probes
  <2>6. HardAnomaly(R) => HardAnomaly(answered)
    BY <2>3 DEF HardAnomaly, Probes
  <2>7. AllUnsuccessful(R) => AllUnsuccessful(answered)
    <3>1. CASE p \in Efforts
      <4>1. Told(R, p, Valid, Classify) \subseteq (1..Requests[p]) \ {i}
        <5>1. Told(R, p, Valid, Classify) = Told(answered, p, Valid, Classify) \ {i}
          BY <2>3 DEF Valid
        <5>2. Told(answered, p, Valid, Classify) \subseteq 1..Requests[p]
          BY <2>2 DEF Told
        <5>3. QED
          BY <5>1, <5>2
      <4>2. IsFiniteSet(1..Requests[p]) /\ Cardinality(1..Requests[p]) = Requests[p]
        BY <2>1, FS_Interval
      <4>3. /\ IsFiniteSet((1..Requests[p]) \ {i})
            /\ Cardinality((1..Requests[p]) \ {i}) = Requests[p] - 1
        BY <4>2, FS_RemoveElement
      <4>4. /\ Cardinality(Told(R, p, Valid, Classify)) <= Requests[p] - 1
            /\ Cardinality(Told(R, p, Valid, Classify)) \in Nat
        BY <4>1, <4>3, FS_Subset, FS_CardinalityType
      <4>5. ~AllUnsuccessful(R)
        BY <2>1, <3>1, <4>4 DEF AllUnsuccessful, Minimum
      <4>6. QED
        BY <4>5
    <3>2. CASE p \notin Efforts
      <4>1. \A q \in Efforts :
              /\ Told(R, q, Valid, Classify) = Told(answered, q, Valid, Classify)
              /\ Told(R, q, {"mixed"}, Classify) = Told(answered, q, {"mixed"}, Classify)
              /\ Told(R, q, {"current_success"}, Classify)
                    = Told(answered, q, {"current_success"}, Classify)
        BY <2>3, <3>2 DEF Valid, Probes
      <4>2. QED
        BY <4>1 DEF AllUnsuccessful, Mixed
    <3>3. QED
      BY <3>1, <3>2
  <2>8. QED
    BY <1>1, <2>4, <2>5, <2>6, <2>7 DEF R
<1>2. VerdictsInv => ErrorsNeverAccuse
  BY <1>1 DEF ErrorsNeverAccuse, Settled
<1>3. QED
  BY <1>2, VerdictsInvariant, PTL
-----------------------------------------------------------------------------
(* The three readers of a stream. What a reader heard is what it would     *)
(* hear now, or the stream has since gone on in a way that is not proper.  *)

HasTerminalInside == \E i \in DOMAIN sent : i # Len(sent) /\ sent[i].type \in Terminals

Improper == \/ ending \notin {"open", "close"} \/ Len(sent) > WorkerLimit
            \/ Garbage(sent) \/ HasTerminalInside

StreamTypes ==
    /\ sent \in Seq(Events)
    /\ sent # <<>> => head = 200
    /\ ending \in {"close", "cut"} => head # NoHead
    /\ heard = [r \in Readers |-> heard[r]]
    /\ tries \in [Readers -> Nat]

\* Who is reading, or will ask again, has made as many attempts as anyone.
TriesInv == \A r \in Readers : r \in Reading \/ ~Done(r) => \A q \in Readers : tries[q] <= tries[r]

HeardInv == \A r \in Latest : ~Reads(r) /\ (Improper \/ heard[r] = Hears(r))

StreamsInv == StreamTypes /\ TriesInv /\ HeardInv

LEMMA StreamsInitial == StreamsInit => StreamsInv
<1> SUFFICES ASSUME StreamsInit PROVE StreamsInv
  OBVIOUS
<1>1. Reading = Readers
  BY DEF StreamsInit, Reading, Nothing, Ok
<1>2. StreamTypes /\ TriesInv
  BY DEF StreamsInit, StreamTypes, TriesInv
<1>3. HeardInv
  BY <1>1 DEF HeardInv, Latest
<1>4. QED
  BY <1>2, <1>3 DEF StreamsInv

LEMMA LimitIsNat == WorkerLimit \in Nat
  BY StreamsAssumption

\* A reader that has heard all it wants has seen an event, or the end.
LEMMA HeardNotOpen ==
  ASSUME StreamTypes, NEW r \in Readers, ~Reads(r), ending = "open"
  PROVE  sent # <<>> /\ head = 200
<1>1. sent # <<>>
  BY LimitIsNat DEF Reads, WorkerReads, NormalReads, NativeReads, TerminalsOf, Garbage, StreamTypes,
     Readers
<1>2. QED
  BY <1>1 DEF StreamTypes

LEMMA SendKeeps ==
  ASSUME StreamsInv, NEW e \in Events, Send(e)
  PROVE  StreamsInv'
<1>1. /\ head = 200 /\ ending = "open" /\ sent' = Append(sent, e)
      /\ UNCHANGED <<head, ending, heard, tries>>
  BY DEF Send
<1>2. StreamTypes'
  BY <1>1 DEF StreamsInv, StreamTypes
<1>3. TriesInv' /\ Latest' = Latest
  BY <1>1 DEF StreamsInv, TriesInv, Reading, Done, Latest
<1>4. /\ sent \in Seq(Events) /\ sent' \in Seq(Events) /\ Len(sent') = Len(sent) + 1
      /\ DOMAIN sent \subseteq DOMAIN sent' /\ Len(sent) \in Nat
      /\ \A i \in DOMAIN sent : sent'[i] = sent[i] /\ i # Len(sent')
  BY <1>1 DEF StreamsInv, StreamTypes
<1>5. ASSUME NEW r \in Latest PROVE ~Reads(r)' /\ Improper'
  <2>1. ~Reads(r) /\ r \in Readers
    BY DEF StreamsInv, HeardInv, Latest
  <2>2. \/ Len(sent) > WorkerLimit \/ TerminalsOf(sent) # {} \/ Garbage(sent)
    BY <1>1, <1>4, <2>1, LimitIsNat DEF Reads, WorkerReads, NormalReads, NativeReads
  <2>3. /\ Garbage(sent) => Garbage(sent')
        /\ TerminalsOf(sent) # {} => TerminalsOf(sent') # {} /\ HasTerminalInside'
    BY <1>4 DEF Garbage, TerminalsOf, HasTerminalInside
  <2>4. Len(sent) > WorkerLimit => Len(sent') > WorkerLimit
    BY <1>4, LimitIsNat
  <2>5. Improper'
    BY <2>2, <2>3, <2>4 DEF Improper
  <2>6. ~Reads(r)'
    BY <1>1, <2>1, <2>3, <1>4, LimitIsNat DEF Reads, WorkerReads, NormalReads, NativeReads
  <2>7. QED
    BY <2>5, <2>6
<1>6. HeardInv'
  BY <1>3, <1>5 DEF HeardInv
<1>7. QED
  BY <1>2, <1>3, <1>6 DEF StreamsInv

LEMMA StopKeeps ==
  ASSUME StreamsInv, NEW how \in Endings, Stop(how)
  PROVE  StreamsInv'
<1>1. /\ ending = "open" /\ ending' = how /\ how # "open"
      /\ how \in {"close", "cut"} => head # NoHead
      /\ UNCHANGED <<head, sent, heard, tries>>
  BY DEF Stop, Endings
<1>2. StreamTypes'
  BY <1>1 DEF StreamsInv, StreamTypes
<1>3. TriesInv' /\ Latest' = Latest
  BY <1>1 DEF StreamsInv, TriesInv, Reading, Done, Latest
<1>4. ASSUME NEW r \in Latest PROVE ~Reads(r)' /\ (Improper' \/ heard'[r] = Hears(r)')
  <2>1. ~Reads(r) /\ r \in Readers /\ (Improper \/ heard[r] = Hears(r))
    BY DEF StreamsInv, HeardInv, Latest
  <2>2. ~Reads(r)'
    BY <1>1 DEF Reads, WorkerReads, NormalReads, NativeReads
  <2>3. Improper => Improper'
    BY <1>1 DEF Improper, HasTerminalInside
  <2>4. how # "close" => Improper'
    BY <1>1 DEF Improper
  <2>5. head = 200 /\ sent # <<>>
    BY <1>1, <2>1, HeardNotOpen DEF StreamsInv
  <2>6. ASSUME how = "close" PROVE Improper' \/ Hears(r)' = Hears(r)
    <3>1. CASE r = "worker"
      <4>1. Len(sent) \in Nat
        BY DEF StreamsInv, StreamTypes
      <4>2. Len(sent) > WorkerLimit
        BY <1>1, <2>1, <3>1, <4>1, LimitIsNat DEF Reads, WorkerReads
      <4>3. QED
        BY <1>1, <4>2 DEF Improper
    <3>2. CASE r = "normal"
      BY <1>1, <2>5, <2>6, <3>2 DEF Hears, NormalHears, Broken, NoHead
    <3>3. CASE r = "native"
      BY <1>1, <2>5, <2>6, <3>3 DEF Hears, NativeHears, Broken, NoHead
    <3>4. QED
      BY <2>1, <3>1, <3>2, <3>3 DEF Readers
  <2>7. QED
    BY <1>1, <2>1, <2>2, <2>3, <2>4, <2>6
<1>5. HeardInv'
  BY <1>3, <1>4 DEF HeardInv
<1>6. QED
  BY <1>2, <1>3, <1>5 DEF StreamsInv

LEMMA RespondKeeps ==
  ASSUME StreamsInv, NEW s \in Heads, Respond(s)
  PROVE  StreamsInv'
<1>1. /\ head = NoHead /\ ending = "open" /\ head' = s
      /\ UNCHANGED <<sent, ending, heard, tries>>
  BY DEF Respond
<1>2. StreamTypes'
  BY <1>1 DEF StreamsInv, StreamTypes, NoHead
<1>3. TriesInv' /\ Latest' = Latest
  BY <1>1 DEF StreamsInv, TriesInv, Reading, Done, Latest
<1>4. Latest = {}
  <2>1. SUFFICES ASSUME NEW r \in Latest PROVE FALSE
    OBVIOUS
  <2>2. r \in Readers /\ ~Reads(r)
    BY DEF StreamsInv, HeardInv, Latest
  <2>3. QED
    BY <1>1, <2>2, HeardNotOpen DEF StreamsInv, NoHead
<1>5. QED
  BY <1>2, <1>3, <1>4 DEF StreamsInv, HeardInv

LEMMA BadIs ==
  ASSUME NEW category, NEW again
  PROVE  /\ Bad(category, again).status = "error" /\ Bad(category, again).text = ""
         /\ Bad(category, again).again = again /\ Bad(category, again).category = category
  BY DEF Bad

LEMMA OkIs ==
  ASSUME NEW text
  PROVE  Ok(text).status = "ok" /\ Ok(text).text = text /\ Ok(text).again = FALSE
  BY DEF Ok

LEMMA AskAgainKeeps ==
  ASSUME StreamsInv, AskAgain
  PROVE  StreamsInv'
<1> DEFINE S == {r \in Readers : Done(r)}
<1>1. /\ Reading = {} /\ S # Readers /\ head' = NoHead /\ sent' = <<>> /\ ending' = "open"
      /\ heard' = [r \in Readers |-> IF r \in S THEN heard[r] ELSE Nothing]
      /\ tries' = [r \in Readers |-> IF r \in S THEN tries[r] ELSE tries[r] + 1]
  BY DEF AskAgain
<1>2. StreamTypes'
  BY <1>1 DEF StreamsInv, StreamTypes
<1>3. Reading' = Readers \ S
  BY <1>1 DEF Reading, Nothing, Ok
<1>4. \A r \in S : Done(r)'
  BY <1>1, <1>3 DEF Done
<1>5. \A r \in Readers \ S, q \in Readers : tries[q] <= tries[r]
  BY DEF StreamsInv, TriesInv
<1>6. tries \in [Readers -> Nat]
  BY DEF StreamsInv, StreamTypes
<1> HIDE DEF S
<1>7. TriesInv'
  BY <1>1, <1>3, <1>4, <1>5, <1>6 DEF TriesInv
<1>8. Latest' = {}
  <2>1. PICK r \in Readers : r \notin S
    BY <1>1 DEF S
  <2>2. \A q \in S : q \in Readers /\ tries'[q] < tries'[r]
    BY <1>1, <1>5, <1>6, <2>1 DEF S
  <2>3. SUFFICES ASSUME NEW q \in Latest' PROVE FALSE
    OBVIOUS
  <2>4. q \in S /\ q \in Readers /\ tries'[r] <= tries'[q]
    BY <1>3, <2>1 DEF Latest
  <2>5. tries'[q] \in Nat /\ tries'[r] \in Nat
    BY <1>2, <2>1, <2>4 DEF StreamTypes
  <2>6. QED
    BY <2>2, <2>4, <2>5
<1>9. QED
  BY <1>2, <1>7, <1>8 DEF StreamsInv, HeardInv

LEMMA HearKeeps ==
  ASSUME StreamsInv, NEW r \in Readers, Hear(r)
  PROVE  StreamsInv'
<1>1. /\ r \in Reading /\ ~Reads(r) /\ UNCHANGED <<head, sent, ending, tries>>
      /\ heard' = [heard EXCEPT ![r] = Hears(r)]
  BY DEF Hear
<1>2. StreamTypes' /\ heard'[r] = Hears(r) /\ \A q \in Readers \ {r} : heard'[q] = heard[q]
  BY <1>1 DEF StreamsInv, StreamTypes
<1>3. Reading' \subseteq Reading /\ Latest' \subseteq Latest \cup {r}
  BY <1>1, <1>2 DEF Reading, Latest
<1>4. TriesInv'
  <2>1. ASSUME NEW q \in Readers, q \in Reading' \/ ~Done(q)'
        PROVE  q \in Reading \/ ~Done(q)
    <3>1. CASE q = r
      BY <1>1, <3>1
    <3>2. CASE q # r
      BY <1>1, <1>2, <2>1, <3>2 DEF Done, Reading
    <3>3. QED
      BY <3>1, <3>2
  <2>2. QED
    BY <1>1, <2>1 DEF StreamsInv, TriesInv
<1>5. \A q \in Readers : (Hears(q))' = Hears(q) /\ Reads(q)' = Reads(q)
  BY <1>1 DEF Hears, WorkerHears, NormalHears, NativeHears, Reads, WorkerReads, NormalReads,
     NativeReads
<1>6. Improper' = Improper
  BY <1>1 DEF Improper, HasTerminalInside
<1>7. HeardInv'
  <2>1. ASSUME NEW q \in Latest' PROVE ~Reads(q)' /\ (Improper' \/ heard'[q] = (Hears(q))')
    <3>1. CASE q = r
      BY <1>1, <1>2, <1>5, <3>1
    <3>2. CASE q # r
      <4>1. q \in Latest /\ q \in Readers /\ heard'[q] = heard[q]
        BY <1>2, <1>3, <3>2 DEF Latest
      <4>2. QED
        BY <1>5, <1>6, <4>1 DEF StreamsInv, HeardInv
    <3>3. QED
      BY <3>1, <3>2
  <2>2. QED
    BY <2>1 DEF HeardInv
<1>8. QED
  BY <1>2, <1>4, <1>7 DEF StreamsInv

LEMMA StreamsStand == ASSUME StreamsInv, UNCHANGED svars PROVE StreamsInv'
<1>1. UNCHANGED <<head, sent, ending, heard, tries>>
  BY DEF svars
<1>2. StreamTypes' /\ TriesInv' /\ Latest' = Latest
  BY <1>1 DEF StreamsInv, StreamTypes, TriesInv, Reading, Done, Latest
<1>3. \A q \in Readers : (Hears(q))' = Hears(q) /\ Reads(q)' = Reads(q)
  BY <1>1 DEF Hears, WorkerHears, NormalHears, NativeHears, Reads, WorkerReads, NormalReads,
     NativeReads
<1>4. Improper' = Improper
  BY <1>1 DEF Improper, HasTerminalInside
<1>5. HeardInv'
  BY <1>1, <1>2, <1>3, <1>4 DEF StreamsInv, HeardInv, Latest
<1>6. QED
  BY <1>2, <1>5 DEF StreamsInv

LEMMA StreamsInvariant == StreamsSpec => []StreamsInv
<1>1. StreamsInv /\ [StreamsNext]_svars => StreamsInv'
  BY RespondKeeps, SendKeeps, StopKeeps, HearKeeps, AskAgainKeeps, StreamsStand DEF StreamsNext
<1>2. QED
  BY <1>1, StreamsInitial, PTL DEF StreamsSpec

\* What the three make of a proper stream.
LEMMA ProperIsHeardAlike ==
  ASSUME StreamsInv, Proper, NEW r \in Readers
  PROVE  /\ Hears(r).status = Hears("worker").status
         /\ Hears(r).text = Hears("worker").text
         /\ Hears(r).again = Hears("worker").again
<1>1. /\ ending = "close" /\ head # NoHead /\ ~(Len(sent) > WorkerLimit) /\ ~Garbage(sent)
      /\ sent \in Seq(Events)
  <2>1. Len(sent) \in Nat /\ Len(sent) <= WorkerLimit
    BY DEF StreamsInv, StreamTypes, Proper
  <2>2. QED
    BY <2>1, LimitIsNat DEF StreamsInv, StreamTypes, Proper
<1>2. CASE head # 200
  <2>1. /\ NormalHears = RunnerError("upstream HTTP error", head)
        /\ NativeHears = RunnerError("native upstream HTTP error", head)
    BY <1>1, <1>2 DEF NormalHears, NativeHears, Broken
  <2>2. CASE head \in Retryable
    <3>1. WorkerHears = Bad("upstream_http_error", TRUE)
      BY <1>1, <1>2, <2>2 DEF WorkerHears
    <3>2. /\ RunnerError("upstream HTTP error", head) = Bad("upstream_http_error", TRUE)
          /\ RunnerError("native upstream HTTP error", head) = Bad("upstream_http_error", TRUE)
      BY <1>1, <2>2 DEF RunnerError
    <3>3. QED
      BY <2>1, <3>1, <3>2 DEF Hears, Readers
  <2>3. CASE head \notin Retryable
    <3>1. WorkerHears = Bad("upstream_http_error", FALSE)
      <4>1. (head \in Retryable) = FALSE
        BY <2>3
      <4>2. WorkerHears = Bad("upstream_http_error", head \in Retryable)
        BY <1>1, <1>2, Zenon DEF WorkerHears
      <4>3. QED
        BY <4>1, <4>2, Zenon
    <3>2. /\ RunnerError("upstream HTTP error", head) = Bad("upstream_http_error", FALSE)
          /\ RunnerError("native upstream HTTP error", head) = Bad("upstream_http_error", FALSE)
      BY <1>1, <2>3 DEF RunnerError
    <3>3. QED
      BY <2>1, <3>1, <3>2 DEF Hears, Readers
  <2>4. QED
    BY <2>2, <2>3
<1>3. CASE head = 200
  <2>1. WorkerHears = ParseSse(sent)
    <3>1. ~(sent # <<>> /\ sent[1].type = "json")
      <4>1. sent # <<>> => 1 \in DOMAIN sent
        BY <1>1
      <4>2. QED
        BY <4>1 DEF Proper
    <3>2. QED
      BY <1>1, <1>3, <3>1 DEF WorkerHears
  <2>2. NormalHears = Collect(sent) /\ NativeHears = Collect(sent)
    BY <1>1, <1>3 DEF NormalHears, NativeHears, Broken, NoHead
  <2>3. RunnerError("invalid Responses SSE", 200) = Bad("truncated_or_invalid_stream", TRUE)
    BY DEF RunnerError
  <2>4. ASSUME NEW category
        PROVE  /\ Bad(category, TRUE).status = "error" /\ Bad(category, TRUE).text = ""
               /\ Bad(category, TRUE).again = TRUE
    BY DEF Bad
  <2>5. /\ Collect(sent).status = ParseSse(sent).status
        /\ Collect(sent).text = ParseSse(sent).text
        /\ Collect(sent).again = ParseSse(sent).again
    <3>1. CASE TerminalsOf(sent) = {}
      <4>1. ParseSse(sent) = Bad("stream_without_terminal_response", TRUE)
        BY <1>1, <3>1 DEF ParseSse
      <4>2. Collect(sent) = RunnerError("invalid Responses SSE", 200)
        BY <3>1 DEF Collect
      <4>3. QED
        BY <2>3, <2>4, <4>1, <4>2
    <3>2. CASE TerminalsOf(sent) # {} /\ sent[LastTerminal(sent)].type # "completed"
      <4>1. PICK c : ParseSse(sent) = Bad(c, TRUE)
        BY <1>1, <3>2 DEF ParseSse
      <4>2. PICK d : Collect(sent) = Bad(d, TRUE)
        BY <1>1, <3>2 DEF Collect
      <4>3. QED
        BY <2>4, <4>1, <4>2
    <3>3. CASE TerminalsOf(sent) # {} /\ sent[LastTerminal(sent)].type = "completed"
      <4>1. ParseSse(sent) = Ok(Text(sent))
        BY <1>1, <3>3 DEF ParseSse
      <4>2. "other" \notin {Text(sent), Streamed(sent)}
        <5>1. LastTerminal(sent) \in DOMAIN sent
          <6>1. TerminalsOf(sent) = {Len(sent)}
            BY <1>1, <3>3 DEF TerminalsOf, Proper
          <6>2. Len(sent) \in Nat
            BY <1>1
          <6>3. LastTerminal(sent) = Len(sent)
            BY <6>1, <6>2 DEF LastTerminal
          <6>4. QED
            BY <6>1, <6>3 DEF TerminalsOf
        <5>2. sent[LastTerminal(sent)].text # "other"
          BY <5>1 DEF Proper
        <5>3. QED
          BY <5>2 DEF Text, Streamed
      <4>3. Collect(sent) = Ok(Text(sent))
        BY <1>1, <3>3, <4>2 DEF Collect
      <4>4. QED
        BY <4>1, <4>3
    <3>4. QED
      BY <3>1, <3>2, <3>3
  <2>6. QED
    BY <2>1, <2>2, <2>5 DEF Hears, Readers
<1>4. QED
  BY <1>2, <1>3

(* A proper stream, or a refusal, is the same to the worker and to both    *)
(* readers of the runner, although two of them stop reading at the         *)
(* terminal event and one at the end (normal-transport.ts, transport.py,   *)
(* codex-native-transport.mjs).                                            *)
THEOREM ReadersAgreeCorrect == StreamsSpec => []ReadersAgree
<1>1. ASSUME StreamsInv, Proper, NEW r \in Latest
      PROVE  /\ heard[r].status = Hears("worker").status
             /\ heard[r].text = Hears("worker").text
             /\ heard[r].again = Hears("worker").again
  <2>1. ~Improper
    <3>1. Len(sent) \in Nat
      BY <1>1 DEF StreamsInv, StreamTypes
    <3>2. QED
      BY <1>1, <3>1, LimitIsNat DEF Improper, Proper, HasTerminalInside
  <2>2. heard[r] = Hears(r) /\ r \in Readers
    BY <1>1, <2>1 DEF StreamsInv, HeardInv, Latest
  <2>3. QED
    BY <1>1, <2>2, ProperIsHeardAlike
<1>2. StreamsInv => ReadersAgree
  BY <1>1 DEF ReadersAgree
<1>3. QED
  BY <1>2, StreamsInvariant, PTL
=============================================================================
