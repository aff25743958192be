------------------------------- MODULE Relay -------------------------------
(***************************************************************************)
(* What the image server of one id promises, without the FIFO, the poll    *)
(* loop and the descriptors: the id has one owner at a time, and each      *)
(* owner hands to its display (ueberzug) the messages sent to it, each     *)
(* once and in the order they were sent.                                   *)
(***************************************************************************)
EXTENDS Naturals, Sequences

CONSTANTS Owners, Messages, Nobody

VARIABLES
  owner,  \* the server that owns the id, or Nobody
  sent,   \* sent[s]: what was sent to server s
  got     \* got[s]: what the display of s was handed

vars == <<owner, sent, got>>

Init ==
  /\ owner \in Owners \cup {Nobody}
  /\ sent = [s \in Owners |-> <<>>]
  /\ got = [s \in Owners |-> <<>>]

\* A server starts: nobody owns the id, and this server has served nothing.
Start(s) ==
  /\ owner = Nobody
  /\ sent[s] = <<>>
  /\ owner' = s
  /\ UNCHANGED <<sent, got>>

Send(s, m) ==
  /\ sent' = [sent EXCEPT ![s] = Append(@, m)]
  /\ UNCHANGED <<owner, got>>

\* The messages that follow those already handed over are handed over.
Deliver(s) ==
  /\ owner = s
  /\ \E n \in 1 .. Len(sent[s]) :
       /\ n > Len(got[s])
       /\ got' = [got EXCEPT ![s] = SubSeq(sent[s], 1, n)]
  /\ UNCHANGED <<owner, sent>>

\* Only the owner gives the id up; undelivered messages are then lost.
Stop(s) ==
  /\ owner = s
  /\ owner' = Nobody
  /\ UNCHANGED <<sent, got>>

Next ==
  \E s \in Owners :
    \/ Start(s) \/ Deliver(s) \/ Stop(s)
    \/ \E m \in Messages : Send(s, m)

Spec == Init /\ [][Next]_vars
=============================================================================
