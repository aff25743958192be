----------------------------- MODULE PreviewSet -----------------------------
(***************************************************************************)
(* What the commands of a configuration mean (doc/ctpv.1, "Defining custom *)
(* previews" to "Removing previews"): ctpv has a set of previews, and a    *)
(* command adds some, sets the priority of those of one name, or removes   *)
(* those of one name.  Where a preview is in an array does not matter.     *)
(***************************************************************************)
CONSTANTS
  Default,     \* the set ctpv starts with
  All,         \* every preview there may be
  Names,
  Types,       \* what a preview may be for
  Star, Null,  \* a part that is given as "*" is open, like one not given
  Priorities

VARIABLE set  \* the previews that are known

Init == set = Default

Named(n) == {p \in set : p.name = n}

Open(s) == IF s = Star THEN Null ELSE s

For(p, t) ==
  p.ext = t.ext /\ p.type = Open(t.type) /\ p.subtype = Open(t.subtype)

\* New custom previews of one name, for the types ts and no others.
Add(n, ts) ==
  /\ set \subseteq set' /\ set' \subseteq All
  /\ \A p \in set' \ set :
       /\ p.name = n /\ p.order = 1 /\ p.priority = 0
       /\ \E t \in ts : For(p, t)
  /\ \A t \in ts : \E p \in set' \ set : For(p, t)

SetPriority(n, x) ==
  set' = (set \ Named(n)) \cup {[p EXCEPT !.priority = x] : p \in Named(n)}

Remove(n) == set' = set \ Named(n)

Next ==
  \E n \in Names :
    \/ \E ts \in SUBSET Types : Add(n, ts)
    \/ \E x \in Priorities : SetPriority(n, x)
    \/ Remove(n)

Spec == Init /\ [][Next]_set
=============================================================================
