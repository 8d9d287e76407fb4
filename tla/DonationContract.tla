-------------------------- MODULE DonationContract --------------------------
(***************************************************************************)
(* What a donation promises its donor, whatever the schedulers remember    *)
(* and whenever they lose their lease: an abstract specification without   *)
(* processes, leases, reservations, private runs or handlers.              *)
(* DonationCycle implements it.                                            *)
(*                                                                         *)
(* An open donation tests its models again and again, one cycle after the  *)
(* other. A cycle is paid for once, when all its tests are settled, with   *)
(* what they cost; the end of the donation blocks the cycle that is        *)
(* running, and from then on nothing is tested, settled or paid.           *)
(***************************************************************************)
EXTENDS Naturals

CONSTANTS
  Models,
  MaxCycles,
  MaxCost,        \* of one test
  SumOver(_, _)   \* the sum of a function over a set

VARIABLES
  standing,  \* "none", "open", or how the donation ended
  cycle,     \* how each cycle stands
  test,      \* how each test stands
  cost,      \* what each test has cost
  spent      \* of the donor's quota

contractVars == <<standing, cycle, test, cost, spent>>

Cycles == 1..MaxCycles
Tests  == Cycles \X Models

CostOf(n) == SumOver(cost, {n} \X Models)

Init ==
  /\ standing = "none"
  /\ cycle = [n \in Cycles |-> "none"]
  /\ test = [t \in Tests |-> "none"]
  /\ cost = [t \in Tests |-> 0]
  /\ spent = 0

Accept ==
  /\ standing = "none"
  /\ standing' = "open"
  /\ UNCHANGED <<cycle, test, cost, spent>>

Begin(n) ==
  /\ standing = "open" /\ cycle[n] = "none"
  /\ \A m \in Cycles : cycle[m] # "running"
  /\ cycle' = [cycle EXCEPT ![n] = "running"]
  /\ test' = [t \in Tests |-> IF t[1] = n THEN "pending" ELSE test[t]]
  /\ UNCHANGED <<standing, cost, spent>>

Settle(t) ==
  /\ standing = "open" /\ cycle[t[1]] = "running" /\ test[t] = "pending"
  /\ test' = [test EXCEPT ![t] = "done"]
  /\ \E c \in 0..MaxCost : cost' = [cost EXCEPT ![t] = c]
  /\ UNCHANGED <<standing, cycle, spent>>

Pay(n) ==
  /\ standing = "open" /\ cycle[n] = "running"
  /\ \A t \in Tests : t[1] = n => test[t] = "done"
  /\ cycle' = [cycle EXCEPT ![n] = "completed"]
  /\ spent' = spent + CostOf(n)
  /\ UNCHANGED <<standing, test, cost>>

\* A donation that has expired may still be revoked.
End(how) ==
  /\ standing \in {"open", "expired"}
  /\ standing' = how
  /\ cycle' = [n \in Cycles |-> IF cycle[n] = "running" THEN "blocked" ELSE cycle[n]]
  /\ UNCHANGED <<test, cost, spent>>

Next ==
  \/ Accept
  \/ \E n \in Cycles : Begin(n) \/ Pay(n)
  \/ \E t \in Tests : Settle(t)
  \/ \E how \in {"revoked", "expired"} : End(how)

Spec == Init /\ [][Next]_contractVars
=============================================================================
