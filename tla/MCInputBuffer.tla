--------------------------- MODULE MCInputBuffer ---------------------------
(***************************************************************************)
(* Instances of InputBuffer for TLC.                                       *)
(***************************************************************************)
EXTENDS InputBuffer

\* Up to three fills of a buffer of four; all characters are different.
NumberedFiles == {[k \in 1 .. n |-> k] : n \in 0 .. 11}
Numbers == 1 .. 11
=============================================================================
