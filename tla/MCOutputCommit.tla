--------------------------- MODULE MCOutputCommit ---------------------------
(***************************************************************************)
(* Instances of OutputCommit for TLC.                                      *)
(***************************************************************************)
EXTENDS OutputCommit, TLC

CONSTANTS r1, r2

\* The two runs do the same things: exchanging them changes no behaviour.
Interchangeable == Permutations(Runs)
=============================================================================
