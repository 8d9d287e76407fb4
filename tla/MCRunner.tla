------------------------------ MODULE MCRunner ------------------------------
(* Runner with a first cycle of two jobs and a second of one, for TLC.     *)
EXTENDS Runner

TwoThenOne == <<2, 1>>
=============================================================================
