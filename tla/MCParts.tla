------------------------------ MODULE MCParts ------------------------------
(* The parts that share no state with one another, side by side for TLC:    *)
(* a behaviour is one of one of them, the silent stay as they start.        *)
EXTENDS Verdicts, Streams, Page, Retention, Release, RunLog, AdminPage, Quotes, Registry

CONSTANTS doc1, doc2

VARIABLE part

RequestsOfProbes ==
    [p \in Probes |-> IF p = "high" THEN 2 ELSE 1]

(* Three directories of files: with a calibration; with the same prompts   *)
(* but another catalog; and with prompts the baseline does not have.       *)
File(text, more) == [sound |-> TRUE, prompts |-> text, more |-> more]
Baseline == [sound |-> TRUE, prompts |-> "p", content |-> "p"]
Calibration == [sound |-> TRUE, content |-> "p", thresholds |-> "t"]
Directory(pinned) ==
    [name \in DOMAIN pinned \cup {"manifest"} |->
        IF name = "manifest"
        THEN [id |-> "v4", sound |-> TRUE, pins |-> pinned, content |-> "p",
              calibrated |-> "p", thresholds |-> "t"]
        ELSE pinned[name]]
Directories ==
    {Directory([catalog |-> File("p", 1), baseline |-> Baseline, calibration |-> Calibration]),
     Directory([catalog |-> File("p", 2), baseline |-> Baseline]),
     Directory([catalog |-> File("q", 1), baseline |-> Baseline])}

(* Two texts of the editor are the same document.                          *)
DocumentOf == [text \in {"a", "b", "B"} |-> IF text = "a" THEN "a" ELSE "b"]

(* The probes of the selector: a pair, and one that runs under its own     *)
(* profile only; a small preset and the largest one.                       *)
Items == {{"out1", "out2"}, {"b80"}}
UsualRequests == [p \in UNION Items |-> 1]
SmallPreset ==
    [requests |-> [p \in {"out1", "out2"} |-> IF p = "out1" THEN 2 ELSE 1],
     formats |-> {"normal"}, contexts |-> {"no_history"}, workers |-> 8, retries |-> 2]
LargePreset ==
    [SmallPreset EXCEPT !.requests = UsualRequests, !.formats = Formats, !.contexts = Contexts]
Presets == {SmallPreset, LargePreset}
Prices == {[short |-> 1, long |-> 5], [short |-> 0, long |-> 0]}

silent == <<vvars, svars, rvars, releasevars, logvars>>
all == <<part, silent, pagevars, adminvars, quotevars, vars>>

Parts == {"verdicts", "streams", "page", "retention", "release", "log", "admin", "quotes",
          "registry"}

PartsInit ==
    /\ VerdictsInit /\ StreamsInit /\ PageInit /\ RetentionInit /\ ReleaseInit /\ LogInit
    /\ AdminInit /\ QuotesInit /\ Init
    /\ part \in Parts
    /\ above = (IF mode = "single" THEN {"claimed"} ELSE {})
    /\ part # "verdicts" => mode = "single"
    /\ part # "page" => form.input = CHOOSE input \in Inputs : TRUE
    /\ part # "quotes" => tariff = CHOOSE price \in Tariffs : TRUE

PartsNext ==
    \/ part = "verdicts" /\ VerdictsNext
       /\ UNCHANGED <<part, svars, rvars, releasevars, logvars, pagevars, adminvars, quotevars, vars>>
    \/ part = "streams" /\ StreamsNext
       /\ UNCHANGED <<part, vvars, rvars, releasevars, logvars, pagevars, adminvars, quotevars, vars>>
    \/ part = "retention" /\ RetentionNext
       /\ UNCHANGED <<part, vvars, svars, releasevars, logvars, pagevars, adminvars, quotevars, vars>>
    \/ part = "release" /\ ReleaseNext
       /\ UNCHANGED <<part, vvars, svars, rvars, logvars, pagevars, adminvars, quotevars, vars>>
    \/ part = "log" /\ LogNext
       /\ UNCHANGED <<part, vvars, svars, rvars, releasevars, pagevars, adminvars, quotevars, vars>>
    \/ part = "page" /\ PageNext
       /\ UNCHANGED <<part, silent, adminvars, quotevars, vars>>
    \/ part = "admin" /\ AdminNext
       /\ UNCHANGED <<part, silent, pagevars, quotevars, vars>>
    \/ part = "quotes" /\ QuotesNext
       /\ UNCHANGED <<part, silent, pagevars, adminvars, vars>>
    \/ part = "registry" /\ Next
       /\ UNCHANGED <<part, silent, pagevars, adminvars, quotevars>>

(* The fairness of Registry, for the steps that are the registry's.         *)
OfRegistry(A) ==
    /\ part = "registry" /\ A
    /\ UNCHANGED <<part, silent, pagevars, adminvars, quotevars>>

PartsSpec ==
    /\ PartsInit /\ [][PartsNext]_all
    /\ \A p \in Processes :
          WF_all(OfRegistry(Refresh(p))) /\ WF_all(OfRegistry(Replace(p)))
=============================================================================
