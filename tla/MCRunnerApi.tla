----------------------------- MODULE MCRunnerApi -----------------------------
(* RunnerApi with a session of one job, for TLC.                           *)
EXTENDS RunnerApi, TLC

CONSTANTS k1, c1, c2

One == <<1>>
\* A store call that raises or a crash, not both.
OneFault == faults.store + faults.crash <= 1
Symmetry == Permutations({c1, c2})
=============================================================================
