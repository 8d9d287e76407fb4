------------------------------- MODULE Quotes -------------------------------
(***************************************************************************)
(* What a private run is going to send is worked out five times: by the    *)
(* page that shows it (frontend/src/probes.ts), by the quotes of the       *)
(* server (backend/src/domain/run-estimate.ts) and of the local runner     *)
(* (api.py), and by the job lists of their workers (executor/job-plan.ts,  *)
(* detector.py). The user edits the selection all the time, also while a   *)
(* quote is on its way; the run is made of the quote. A request is a       *)
(* probe, a profile and a number; a plan is a set of requests.             *)
(***************************************************************************)
EXTENDS Naturals, FiniteSets

CONSTANTS Catalogue,    \* ids of the probes
          Restricted,   \* the probes with restrictedProfiles
          Families,     \* the items of the selector: sets of probes
          Usual,        \* defaultRequests, by probe
          Chips,        \* the configurations of the presets
          FirstChip,    \* the one the page starts with
          Tariffs,      \* prices of a request without and with the long context
          Counts, Crews, Tries, \* numbers of requests, workers, retries typed in
          MaxCount, MaxCrew,    \* what the APIs accept of the first two
          MaxRunRequests,       \* the server's limit of attempts
          MaxEdits              \* bound: edits of the selection

Formats == {"normal", "native_codex"}
Contexts == {"no_history", "fixed_32k_history"}
Plain == <<"normal", "no_history">>

(* A selection: numbers of requests by selected probe, and how to run them. *)
IsConfig(c) ==
    \E S \in SUBSET Catalogue :
       c \in [requests : [S -> Nat], formats : SUBSET Formats, contexts : SUBSET Contexts,
              workers : Nat, retries : Nat]

ASSUME QuotesAssumption ==
    /\ IsFiniteSet(Catalogue) /\ Restricted \subseteq Catalogue
    /\ Families \subseteq SUBSET Catalogue /\ Usual \in [Catalogue -> Nat]
    /\ (\A chip \in Chips : IsConfig(chip)) /\ FirstChip \in Chips
    /\ Tariffs \subseteq [short : Nat, long : Nat]
    /\ Counts \subseteq Nat /\ Crews \subseteq Nat /\ Tries \subseteq Nat
    /\ {MaxCount, MaxCrew, MaxRunRequests, MaxEdits} \subseteq Nat

VARIABLES setup,    \* config of the page
          tariff,   \* its price
          venue,    \* runner: "none", "runner" or "server"
          native,   \* whether the runner has the native format
          prepared, \* pendingSubmission: what is submitted, and its quote
          order,    \* the call of createPrivateRun
          bought,   \* the run it made
          edits

quotevars == <<setup, tariff, venue, native, prepared, order, bought, edits>>

Selected(c) == DOMAIN c.requests
ProfilesOf(c) == c.formats \X c.contexts

(* The requests of a configuration, given the profiles of each probe.      *)
Plan(c, profiles) ==
    UNION {{<<p, f, i>> : f \in profiles[p], i \in 1..c.requests[p]} : p \in Selected(c)}

(* profilesForProbe: what the page counts.                                 *)
Shown(c) ==
    Plan(c, [p \in Selected(c) |->
               IF p \in Restricted THEN ProfilesOf(c) \cap {Plain} ELSE ProfilesOf(c)])

(* profiles of estimateRun: what the server quotes.                        *)
ServerQuoted(c) ==
    Plan(c, [p \in Selected(c) |-> {f \in ProfilesOf(c) : p \in Restricted => f = Plain}])

(* estimate_run: what the local runner quotes.                             *)
RunnerQuoted(c) ==
    Plan(c, [p \in Selected(c) |->
               IF p \in Restricted THEN {f \in ProfilesOf(c) : f = Plain} ELSE ProfilesOf(c)])

(* buildRunJobs: the server has one profile.                               *)
ServerJobs(c) == Plan(c, [p \in Selected(c) |-> {Plain}])

(* build_single_jobs: a restricted probe has profiles of its own, and they *)
(* are taken instead of the selected ones.                                 *)
RunnerJobs(c) ==
    Plan(c, [p \in Selected(c) |-> IF p \in Restricted THEN {Plain} ELSE ProfilesOf(c)])

Long(plan) == {r \in plan : r[2][2] = "fixed_32k_history"}

(* What a plan costs if every request is tried as often as it may be.      *)
Cost(plan, c, t) ==
    (c.retries + 1) * (t.long * Cardinality(Long(plan)) + t.short * Cardinality(plan \ Long(plan)))
Attempts(plan, c) == (c.retries + 1) * Cardinality(plan)

(* A quarter is added and the sum rounded up; the least is a cent.         *)
Padded(cost) == IF cost = 0 THEN 1 ELSE (5 * cost + 3) \div 4
Budget(c, t) == Padded(Cost(Shown(c), c, t))
-----------------------------------------------------------------------------
(* The user edits the selection.                                           *)
NoOrder == [at |-> "none"]
NothingPrepared == [print |-> NoOrder, quoted |-> FALSE]

QuotesInit ==
    /\ setup = FirstChip /\ tariff \in Tariffs
    /\ venue = "none" /\ native = FALSE
    /\ prepared = NothingPrepared /\ order = NoOrder /\ bought = {}
    /\ edits = 0

(* A change of the configuration; the rest of the page stays.              *)
Change(c) ==
    /\ edits < MaxEdits /\ edits' = edits + 1
    /\ setup' = c
    /\ UNCHANGED <<tariff, venue, native, prepared, order, bought>>

IsSelected(item) == item \subseteq Selected(setup)
AllSelected == \A item \in Families : IsSelected(item)

Without(item) == [p \in Selected(setup) \ item |-> setup.requests[p]]
WithUsual(item) ==
    [p \in Selected(setup) \cup item |-> IF p \in item THEN Usual[p] ELSE setup.requests[p]]

ToggleItem(item) ==
    /\ ~AllSelected
    /\ Change([setup EXCEPT !.requests = IF IsSelected(item) THEN Without(item)
                                         ELSE WithUsual(item)])

ToggleAll ==
    Change([setup EXCEPT !.requests =
              [p \in IF AllSelected THEN {} ELSE UNION Families |-> Usual[p]]])

(* One format and one context stay selected. The native format can only be *)
(* chosen where it is available, though a preset may choose it anywhere.   *)
ToggleFormat(f) ==
    LET next == IF f \in setup.formats THEN setup.formats \ {f} ELSE setup.formats \cup {f} IN
    /\ f = "native_codex" => venue = "runner" /\ native
    /\ next # {}
    /\ Change([setup EXCEPT !.formats = next])

ToggleContext(x) ==
    LET next == IF x \in setup.contexts THEN setup.contexts \ {x} ELSE setup.contexts \cup {x} IN
    next # {} /\ Change([setup EXCEPT !.contexts = next])

ChoosePreset(chip) == Change(chip)
SetWorkers(n) == Change([setup EXCEPT !.workers = n])
SetRetries(n) == Change([setup EXCEPT !.retries = n])
SetRequests(p, n) ==
    p \in Selected(setup) /\ Change([setup EXCEPT !.requests = [setup.requests EXCEPT ![p] = n]])

SetPrice(t) ==
    /\ edits < MaxEdits /\ edits' = edits + 1
    /\ tariff' = t
    /\ UNCHANGED <<setup, venue, native, prepared, order, bought>>

(* A runner is found, or gone.                                             *)
RunnerDetected(there, capable) ==
    /\ venue' = (IF there THEN "runner" ELSE "none") /\ native' = (there /\ capable)
    /\ UNCHANGED <<setup, tariff, prepared, order, bought, edits>>

(* acceptRemote: the server's one profile is selected.                     *)
UseServer ==
    /\ venue = "none"
    /\ venue' = "server" /\ native' = FALSE
    /\ setup' = [setup EXCEPT !.formats = {"normal"}, !.contexts = {"no_history"}]
    /\ UNCHANGED <<tariff, prepared, order, bought, edits>>
-----------------------------------------------------------------------------
(* The submission: everything a quote is made of.             *)
Fingerprint == [at |-> venue, config |-> setup, price |-> tariff, budget |-> Budget(setup, tariff)]

\* Mutant of Prepared: the quote is used again whatever has been edited.
PreparedBefore ==
    IF prepared.quoted THEN prepared ELSE [print |-> Fingerprint, quoted |-> FALSE]

(* The quote of the same submission is used again.                         *)
Prepared ==
    IF prepared.print = Fingerprint THEN prepared ELSE [print |-> Fingerprint, quoted |-> FALSE]

Start ==
    /\ order = NoOrder /\ venue # "none" /\ Selected(setup) # {}
    /\ prepared' = Prepared
    /\ order' = [at |-> IF Prepared.quoted THEN "create" ELSE "quote",
                 for |-> Fingerprint, quote |-> Prepared.print]
    /\ UNCHANGED <<setup, tariff, venue, native, bought, edits>>

(* RunConfigSchema, and estimateRun's limits.                              *)
ServerAccepts(c) ==
    /\ c.formats = {"normal"} /\ c.contexts = {"no_history"}
    /\ Selected(c) # {} /\ \A p \in Selected(c) : c.requests[p] \in 1..MaxCount
    /\ c.workers \in 1..MaxCrew /\ c.retries \in 0..3

ServerQuotes(o) ==
    /\ ServerAccepts(o.config)
    /\ Attempts(ServerQuoted(o.config), o.config) <= MaxRunRequests
    /\ Padded(Cost(ServerQuoted(o.config), o.config, o.price)) <= o.budget

(* translate_run_config, and issue_quote's budget: nothing is added.       *)
RunnerAccepts(c) ==
    /\ c.formats # {} /\ c.contexts # {}
    /\ Selected(c) # {} /\ \A p \in Selected(c) : c.requests[p] \in 1..MaxCount
    /\ c.workers \in 1..MaxCrew /\ c.retries \in 0..3

RunnerQuotes(o) ==
    /\ RunnerAccepts(o.config)
    /\ RunnerQuoted(o.config) # {}
    /\ Cost(RunnerQuoted(o.config), o.config, o.price) <= o.budget

(* POST /private-runs/quote and onPrepared. A quote carries what it is of. *)
QuoteIssued ==
    /\ order.at = "quote"
    /\ IF order.for.at = "server" THEN ServerQuotes(order.for) ELSE RunnerQuotes(order.for)
    /\ order' = [order EXCEPT !.at = "create", !.quote = order.for]
    /\ prepared' = [prepared EXCEPT !.quoted = (prepared.print = order.for)]
    /\ UNCHANGED <<setup, tariff, venue, native, bought, edits>>

(* POST /private-runs: the run is made of the quote. The answer may be     *)
(* lost, and the page asks again with the same key and quote.              *)
RunCreated ==
    /\ order.at = "create"
    /\ bought' = {[quote |-> order.quote, for |-> order.for]}
    /\ order' = NoOrder
    /\ prepared' \in {NothingPrepared, prepared}
    /\ UNCHANGED <<setup, tariff, venue, native, edits>>

(* Refused, expired, lost, or a new start.                                 *)
OrderFails ==
    /\ order # NoOrder /\ order' = NoOrder
    /\ UNCHANGED <<setup, tariff, venue, native, prepared, bought, edits>>

QuotesNext ==
    \/ \E item \in Families : ToggleItem(item)
    \/ ToggleAll
    \/ \E f \in Formats : ToggleFormat(f)
    \/ \E x \in Contexts : ToggleContext(x)
    \/ \E chip \in Chips : ChoosePreset(chip)
    \/ \E n \in Crews : SetWorkers(n)
    \/ \E n \in Tries : SetRetries(n)
    \/ \E p \in Catalogue, n \in Counts : SetRequests(p, n)
    \/ \E t \in Tariffs : SetPrice(t)
    \/ \E there, capable \in BOOLEAN : RunnerDetected(there, capable)
    \/ UseServer \/ Start \/ QuoteIssued \/ RunCreated \/ OrderFails

QuotesSpec == QuotesInit /\ [][QuotesNext]_quotevars
-----------------------------------------------------------------------------
(* The requests of the restricted probes under their own profile.          *)
OwnRequests(c) == Plan(c, [p \in Selected(c) |-> IF p \in Restricted THEN {Plain} ELSE {}])

(* A run sends what the page showed when the user started it, whatever is  *)
(* edited meanwhile and whatever quote is used again: on the server these  *)
(* requests exactly, within the limit of attempts and for no more than the *)
(* budget shown; on the local runner these requests and, which is a real   *)
(* exception, those of a restricted probe under its own profile, though    *)
(* that profile may not be selected, the page has shown none of them and   *)
(* the runner has quoted none of them.                                     *)
RunIsAsShown ==
    \A b \in bought :
        LET c == b.quote.config
            shown == Shown(b.for.config)
        IN  IF b.for.at = "server"
            THEN /\ ServerJobs(c) = shown
                 /\ Attempts(ServerJobs(c), c) <= MaxRunRequests
                 /\ Cost(ServerJobs(c), c, b.for.price) <= b.for.budget
            ELSE RunnerJobs(c) = shown \cup OwnRequests(c)

(* The budget the page shows is never too little for the API that works it *)
(* out once more: a quote is refused for its limits only.                  *)
BudgetSuffices ==
    order.at # "none" =>
        LET o == order.for
            c == o.config
        IN  /\ ServerAccepts(c) => Padded(Cost(ServerQuoted(c), c, o.price)) <= o.budget
            /\ Cost(RunnerQuoted(c), c, o.price) <= o.budget
=============================================================================
