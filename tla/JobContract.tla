----------------------------- MODULE JobContract -----------------------------
(***************************************************************************)
(* What the local runner promises of each job, through stops, threads left *)
(* behind, deaths of the process and restarts: each attempt number is used *)
(* for one request, none beyond the budget and none after the job was      *)
(* settled; the job is settled once, and by an answer only after a request.*)
(* One write may move several jobs.                                        *)
(***************************************************************************)
EXTENDS Naturals

CONSTANTS Jobs, Budget

VARIABLES sent,    \* per job: the attempt numbers used
          outcome  \* per job: "absent", "pending", or how it was settled

contractVars == <<sent, outcome>>

Init == /\ sent = [j \in Jobs |-> {}]
        /\ outcome = [j \in Jobs |-> "absent"]

Freeze(j) == outcome[j] = "absent" /\ outcome'[j] = "pending" /\ sent'[j] = sent[j]

Send(j) == /\ outcome[j] = "pending" /\ outcome'[j] = "pending"
           /\ \E n \in (1..Budget) \ sent[j] : sent'[j] = sent[j] \cup {n}

Settle(j) == /\ outcome[j] = "pending"
             /\ outcome'[j] \in {"cancelled"} \cup IF sent[j] = {} THEN {} ELSE {"ok", "error"}
             /\ sent'[j] = sent[j]

Keep(j) == outcome'[j] = outcome[j] /\ sent'[j] = sent[j]

Next == \A j \in Jobs : Freeze(j) \/ Send(j) \/ Settle(j) \/ Keep(j)
Spec == Init /\ [][Next]_contractVars
=============================================================================
