------------------------------ MODULE MCServer ------------------------------
(***************************************************************************)
(* Instances of Server for TLC.                                            *)
(***************************************************************************)
EXTENDS Server, TLC

\* No property tells the scripts apart, so the runs without liveness
\* properties may permute them.
Symmetry == Permutations(Clients)
=============================================================================
