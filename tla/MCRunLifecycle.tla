--------------------------- MODULE MCRunLifecycle ---------------------------
(***************************************************************************)
(* RunLifecycle on small instances.  Workers, jobs, loops, requests and    *)
(* calls are interchangeable in the safety runs.                           *)
(***************************************************************************)
EXTENDS RunLifecycle, TLC

Symmetry ==
  Permutations(Workers) \cup Permutations(Jobs) \cup Permutations(Slots)
    \cup Permutations(Requests) \cup Permutations(Calls)
=============================================================================
