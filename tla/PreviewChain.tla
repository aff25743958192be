---------------------------- MODULE PreviewChain ----------------------------
(***************************************************************************)
(* What doc/ctpv.1 ("How previews are selected") promises of one preview:  *)
(* the scripts of the matching previews are run in the order of the list   *)
(* until one exits with a status other than 127, and that one decides.     *)
(***************************************************************************)
EXTENDS Naturals

CONSTANTS
  ExitKinds,  \* how a script may end
  Good,       \* the ends that count as success
  Missing,    \* the end that hands over to the next preview (status 127)
  None,       \* no end yet, no result yet
  Faulty      \* whether ctpv itself may fail

VARIABLES
  matches,  \* positions in the list of the previews that match the file
  tried,    \* those whose script has run
  last,     \* how the latest script ended
  result    \* "OK", "ERR" or None

vars == <<matches, tried, last, result>>

Init ==
  /\ matches \in SUBSET Nat
  /\ tried = {}
  /\ last = None
  /\ result = None

\* The first matching preview that was not yet tried is run, provided every
\* earlier one handed over.
Try(j) ==
  /\ result = None
  /\ last \in {None, Missing}
  /\ j \in matches \ tried
  /\ \A k \in matches \ tried : j <= k
  /\ tried' = tried \cup {j}
  /\ last' \in ExitKinds
  /\ UNCHANGED <<matches, result>>

Judge ==
  /\ result = None
  /\ last \in ExitKinds \ {Missing}
  /\ result' = IF last \in Good THEN "OK" ELSE "ERR"
  /\ UNCHANGED <<matches, tried, last>>

GiveUp ==
  /\ result = None
  /\ last \in {None, Missing}
  /\ matches \subseteq tried
  /\ result' = "ERR"
  /\ UNCHANGED <<matches, tried, last>>

Abort ==
  /\ Faulty
  /\ result = None
  /\ result' = "ERR"
  /\ UNCHANGED <<matches, tried, last>>

Next == Judge \/ GiveUp \/ Abort \/ \E j \in matches : Try(j)

Spec == Init /\ [][Next]_vars
=============================================================================
