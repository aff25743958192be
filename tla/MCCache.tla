------------------------------- MODULE MCCache ------------------------------
(***************************************************************************)
(* Instances of Cache for TLC.                                             *)
(***************************************************************************)
EXTENDS Cache, TLC

\* Nothing tells the runs or the files apart.
Symmetry == Permutations(Runs) \cup Permutations(Files)
=============================================================================
