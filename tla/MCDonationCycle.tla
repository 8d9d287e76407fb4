-------------------------- MODULE MCDonationCycle ---------------------------
(***************************************************************************)
(* DonationCycle on small instances.  Schedulers, models, requests and     *)
(* calls are interchangeable in the safety runs.                           *)
(***************************************************************************)
EXTENDS DonationCycle, TLC

Symmetry ==
  Permutations(Schedulers) \cup Permutations(Models)
    \cup Permutations(Requests) \cup Permutations(Calls)
=============================================================================
