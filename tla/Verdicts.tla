------------------------------ MODULE Verdicts ------------------------------
(***************************************************************************)
(* What is concluded from the answers of one run, twice: by the server     *)
(* (scoring/score.ts under the verdict rules of the release) and by the    *)
(* local runner (juice.py, verdict.py and the report of detector.py). An   *)
(* answer stands for the models whose signature it matches, or for what    *)
(* the probe makes of it; the likelihoods behind the fingerprint stand for *)
(* the set of models above their threshold.                                *)
(***************************************************************************)
EXTENDS Naturals, Sequences, FiniteSets

CONSTANTS Efforts,  \* reasoning efforts with a juice probe
          Requests, \* per probe: its requests
          Profiles, \* request profiles; the server has one
          Window,   \* valid answers of an effort a continuous report looks at
          MaxRows   \* bound: answers of one probe in a continuous session

VARIABLES mode,   \* "single" or "continuous"
          answered,   \* per probe: the answers, in the order of the jobs
          above,  \* models above the threshold of a strong match
          alerts, \* sticky alerts of the session
          told    \* what the last report of a continuous session said

vvars == <<mode, answered, above, alerts, told>>

Probes == Efforts \cup {"output", "coverage", "country"}
Models == {"claimed", "other"}

ASSUME VerdictAssumption ==
    /\ Efforts \cap {"output", "coverage", "country"} = {}
    /\ Requests \in [Probes -> Nat \ {0}]
    /\ {Profiles, Window, MaxRows} \subseteq Nat \ {0}

(* Numbers that one of the two normalizeNumber does not take for one: the  *)
(* server only strips a byte order mark; the runner only takes more than   *)
(* 256 characters, or digits that are not ASCII.                           *)
ServerOnly == [markedClaimed |-> "claimed", markedOther |-> "other", markedForty |-> "forty"]
RunnerOnly == [longClaimed |-> "claimed", longOther |-> "other", longForty |-> "forty"]

Answers(p) ==
    {"error"} \cup
    CASE p \in Efforts -> {"claimed", "shared", "other", "number", "words",
                          "markedClaimed", "markedOther", "longClaimed", "longOther"}
      [] p = "output" -> {"exact", "forty", "words"}
      [] p = "coverage" -> {"exact", "forty", "known", "words", "markedForty", "longForty"}
      [] OTHER -> {"word"}

(* What an answer says to a reader with numbers of its own, to whom those  *)
(* of the other one are words.                                             *)
Read(own, others, a) ==
    CASE a \in DOMAIN own -> own[a]
      [] a \in DOMAIN others -> "words"
      [] OTHER -> a

ServerReads(a) == Read(ServerOnly, RunnerOnly, a)
RunnerReads(a) == Read(RunnerOnly, ServerOnly, a)

(* matchesSignature, over every model of the release.                      *)
Fits(a) == CASE a \in Models -> {a}
             [] a = "shared" -> Models
             [] OTHER -> {}

(* scoreObservation: the class and the hard anomaly of one answer.         *)
Classify(p, answer) ==
    LET a == ServerReads(answer) IN
    CASE a = "error" -> "none"
      [] a # "error" /\ p \in Efforts ->
            IF "claimed" \in Fits(a) THEN "current_success"
            ELSE IF Fits(a) # {} THEN "mixed" ELSE "unsuccessful"
      [] p \in {"output", "coverage"} /\ a \in {"forty", "known"} -> "anomaly"
      [] OTHER -> "unsuccessful"

(* classify_juice_answer, classify_output_integrity, classify_coverage: a  *)
(* text without a number is told first.                                    *)
LocalClassify(p, answer) ==
    LET a == RunnerReads(answer) IN
    CASE a = "error" -> "network_error"
      [] a \in {"words", "word"} -> "unsuccessful"
      [] p \in Efforts /\ a = "number" -> "unsuccessful"
      [] p \in Efforts /\ Fits(a) # {} ->
            IF "claimed" \in Fits(a) THEN "current_success" ELSE "mixed"
      [] a = "exact" -> "unsuccessful"
      [] OTHER -> "anomaly"

Told(R, p, C, class(_, _)) == {i \in DOMAIN R[p] : class(p, R[p][i]) \in C}
Valid == {"current_success", "mixed", "unsuccessful"}
-----------------------------------------------------------------------------
\* Mutant of Minimum: one valid answer of each effort is enough.
MinimumOfOne(p) == 1

Minimum(p) == Requests[p]

(* juiceSummary: mixed, then passed, then nothing but failures.            *)
Mixed(R) == \E p \in Efforts : Told(R, p, {"mixed"}, Classify) # {}
Passed(R) == ~Mixed(R) /\ \A p \in Efforts : Told(R, p, {"current_success"}, Classify) # {}
AllUnsuccessful(R) ==
    /\ ~Mixed(R)
    /\ \A p \in Efforts : /\ Told(R, p, {"current_success"}, Classify) = {}
                          /\ Cardinality(Told(R, p, Valid, Classify)) >= Minimum(p)

HardAnomaly(R) == \E p \in {"output", "coverage"} : Told(R, p, {"anomaly"}, Classify) # {}

(* The rules of the release in the order of their priority.                *)
ServerJuice(R) ==
    CASE AllUnsuccessful(R) -> "possible_non_gpt"
      [] ~AllUnsuccessful(R) /\ (Mixed(R) \/ HardAnomaly(R)) -> "mismatch"
      [] ~AllUnsuccessful(R) /\ ~Mixed(R) /\ ~HardAnomaly(R) /\ ~Passed(R) ->
            "insufficient"
      [] OTHER -> "pass"

(* Nine tenths of the requests must have been answered.                    *)
Sampled(R) == 10 * Cardinality(Told(R, "country", {"unsuccessful"}, Classify)) >= 9 * Requests["country"]

ServerFingerprint(R) == IF Sampled(R) /\ Cardinality(above) = 1 THEN above ELSE {}
-----------------------------------------------------------------------------
(* _rolling_rows: the last answers of which Window are valid.              *)
Rolling(s) ==
    LET ok(i) == Cardinality({j \in i..Len(s) : s[j] # "error"})
        from == {i \in 1..Len(s) : ok(i) >= Window}
    IN  IF from = {} THEN s
        ELSE SubSeq(s, CHOOSE i \in from : \A j \in from : j <= i, Len(s))

Windowed(R) == [p \in Probes |-> IF mode = "continuous" /\ p \in Efforts
                                 THEN Rolling(R[p]) ELSE R[p]]

LocalMinimum(p) == IF mode = "single" THEN Requests[p] ELSE Window

(* JuiceSession.summary                                                    *)
LocalMixed(R) == \E p \in Efforts : Told(R, p, {"mixed"}, LocalClassify) # {}
\* Mutant of LocalPassed: one effort with a current success is enough.
LocalPassedOnce(R) == \E p \in Efforts : Told(R, p, {"current_success"}, LocalClassify) # {}

LocalPassed(R) == \A p \in Efforts : Told(R, p, {"current_success"}, LocalClassify) # {}
LocalAllUnsuccessful(R) ==
    \A p \in Efforts : LET valid == Told(R, p, Valid, LocalClassify) IN
        /\ Cardinality(valid) >= LocalMinimum(p)
        /\ valid = Told(R, p, {"unsuccessful"}, LocalClassify)

LocalAnomaly(R) ==
    \E p \in {"output", "coverage"} : Told(R, p, {"anomaly"}, LocalClassify) # {}

(* _persist_deterministic_sticky_events of one report.                     *)
Alerts(R) ==
    (IF LocalMixed(Windowed(R)) THEN {"juice_model_mismatch"} ELSE {})
    \cup (IF LocalAnomaly(R) THEN {"deterministic_anomaly"} ELSE {})

\* Mutant of LocalJuice: a report looks at its window alone.
LocalJuiceOfWindow(R, sticky) ==
    LET W == Windowed(R) IN
    CASE Alerts(R) # {} -> "mismatch"
      [] Alerts(R) = {} /\ LocalAllUnsuccessful(W) -> "possible_non_gpt"
      [] Alerts(R) = {} /\ ~LocalAllUnsuccessful(W) /\ LocalPassed(W) -> "pass"
      [] OTHER -> "insufficient"

(* _juice_state, with the sticky alerts applied to the summaries.          *)
LocalJuice(R, sticky) ==
    LET W == Windowed(R)  anomaly == Alerts(R) \cup sticky # {} IN
    CASE anomaly -> "mismatch"
      [] ~anomaly /\ LocalAllUnsuccessful(W) -> "possible_non_gpt"
      [] ~anomaly /\ ~LocalAllUnsuccessful(W) /\ LocalPassed(W) -> "pass"
      [] OTHER -> "insufficient"
-----------------------------------------------------------------------------
(* The presets of the page and those of presets.py, with what an entry has *)
(* beside the number of its requests; "all" stands for the other probes.   *)
PagePresets == [low |-> {"all", "output"}, medium |-> {"all", "output", "country"},
                high |-> {"all", "output", "country"}]

RunnerPresets ==
    [low |-> [all |-> {"enabled", "effort"}, output |-> {"enabled"}, country |-> {"effort"}],
     medium |-> [all |-> {"enabled", "effort"}, output |-> {"enabled"},
                 country |-> {"enabled", "effort", "window"}],
     high |-> [all |-> {"enabled", "effort"}, output |-> {"enabled"},
               country |-> {"enabled", "effort", "window"}]]

(* translate_run_config: every selected probe gets an effort.              *)
Translated(selected) == [p \in selected |-> {"enabled", "effort"}]

(* normalize_config compares all of it with the presets.                   *)
Official(selected) == \E q \in DOMAIN RunnerPresets : RunnerPresets[q] = Translated(selected)

(* build_overall_verdict drops the strong match of a custom run.           *)
LocalFingerprint(R, selected) ==
    IF Official(selected) THEN ServerFingerprint(R) ELSE {}
-----------------------------------------------------------------------------
VerdictsInit ==
    /\ mode \in {"single", "continuous"}
    /\ answered = [p \in Probes |-> <<>>]
    /\ above \in IF mode = "single" THEN SUBSET Models ELSE {{}}
    /\ alerts = {}
    /\ told = "nothing"

(* A job of a single run is settled; its report is made once, of all.      *)
Answer(p, a) ==
    /\ mode = "single"
    /\ Len(answered[p]) < Requests[p] * Profiles
    /\ answered' = [answered EXCEPT ![p] = Append(@, a)]
    /\ UNCHANGED <<mode, above, alerts, told>>

(* A cycle of a continuous session: at most one answer of each probe, and  *)
(* its report.                                                             *)
Cycle ==
    /\ mode = "continuous"
    /\ \E S \in SUBSET (Efforts \cup {"output"}) :
         /\ \A p \in S : Len(answered[p]) < MaxRows
         /\ \E a \in [S -> {"claimed", "other", "words", "forty", "error"}] :
              /\ \A p \in S : a[p] \in Answers(p)
              /\ answered' = [p \in Probes |-> IF p \in S THEN Append(answered[p], a[p])
                                                         ELSE answered[p]]
    /\ alerts' = alerts \cup Alerts(answered')
    /\ told' = LocalJuice(answered', alerts')
    /\ UNCHANGED <<mode, above>>

VerdictsNext == (\E p \in Probes, a \in UNION {Answers(q) : q \in Probes} :
            a \in Answers(p) /\ Answer(p, a)) \/ Cycle

VerdictsSpec == VerdictsInit /\ [][VerdictsNext]_vvars
-----------------------------------------------------------------------------
Settled == mode = "single" /\ \A p \in Probes : Len(answered[p]) = Requests[p] * Profiles

ReadAlike(R) == \A p \in Probes : \A i \in DOMAIN R[p] : ServerReads(R[p][i]) = RunnerReads(R[p][i])

(* The same answers are judged alike by the server and by the local runner *)
(* (score.ts, verdict.py), each by rules of its own, unless one of them    *)
(* takes for a number what the other does not, or an anomaly of the output *)
(* meets nothing but unsuccessful answers.                                 *)
VerdictsAgree ==
    Settled /\ ReadAlike(answered) /\ ~(AllUnsuccessful(answered) /\ HardAnomaly(answered))
        => LocalJuice(answered, alerts) = ServerJuice(answered)

(* A request that failed accuses nobody: with an error in the place of an  *)
(* answer, the server suspects nothing it did not suspect before.          *)
ErrorsNeverAccuse ==
    LET suspects(R) == ServerJuice(R) \in {"mismatch", "possible_non_gpt"} IN
    Settled => \A p \in Probes : \A i \in 1..Requests[p] :
        suspects([answered EXCEPT ![p][i] = "error"]) => suspects(answered)

(* A continuous session that has told of a mismatch tells of it for ever,  *)
(* however far its windows have moved on.                                  *)
MismatchSticks == [][told = "mismatch" => told' = "mismatch"]_vvars

(* A preset chosen on the page is a preset of the runner, and its strong   *)
(* match is reported.                                                      *)
PresetIsOfficial ==
    \A q \in DOMAIN PagePresets : Settled => 
        LocalFingerprint(answered, PagePresets[q]) = ServerFingerprint(answered)
=============================================================================
