---------------------------- MODULE ConfigLines ----------------------------
(***************************************************************************)
(* What a configuration file is (doc/ctpv.1, "CONFIGURATION"): commands    *)
(* that are executed one after another until one of them is an error.      *)
(***************************************************************************)
EXTENDS Integers, Sequences, FiniteSetsExt

CONSTANTS
  Commands,      \* the names of the commands
  BuiltIn,       \* names of the built-in previews
  DefaultShell,
  Installed      \* the shells there are

VARIABLES
  items,         \* the commands of the file, and what is no command
  list,          \* is there a list of previews
  out,           \* the commands that were executed
  status

vars == <<items, list, out, status>>

Init == out = <<>> /\ status = "reading"

Adds(c, n) == c.op = <<"preview">> /\ c.name = n /\ c.types # <<>>

Removes(c, n) == c.op = <<"remove">> /\ c.name = n

\* The previews that are known after the commands o: those not removed since
\* they were last added.
Known(o) ==
  {n \in BuiltIn \cup {o[k].name : k \in DOMAIN o} :
     /\ n \in BuiltIn \/ \E k \in DOMAIN o : Adds(o[k], n)
     /\ \A r \in DOMAIN o : Removes(o[r], n) =>
          \E k \in DOMAIN o : k > r /\ Adds(o[k], n)}

Legal(c) ==
  /\ c.op \in Commands
  /\ c.op \in {<<"priority">>, <<"remove">>} /\ list => c.name \in Known(out)

\* The shell that is set after the commands o.
Shell(o) ==
  LET sets == {k \in DOMAIN o : o[k].op = <<"set">> /\ o[k].name = <<"shell">>}
  IN  IF sets = {} THEN DefaultShell ELSE o[Max(sets)].arg.s

Execute ==
  /\ status = "reading" /\ Len(out) < Len(items)
  /\ Legal(items[Len(out) + 1])
  /\ out' = Append(out, items[Len(out) + 1])
  /\ UNCHANGED status

Refuse ==
  /\ status = "reading" /\ Len(out) < Len(items)
  /\ ~Legal(items[Len(out) + 1])
  /\ status' = "error"
  /\ UNCHANGED out

Finish ==
  /\ status = "reading" /\ Len(out) = Len(items)
  /\ status' = IF Shell(out) \in Installed THEN "ok" ELSE "error"
  /\ UNCHANGED out

Next == (Execute \/ Refuse \/ Finish) /\ UNCHANGED <<items, list>>

Spec == Init /\ [][Next]_vars

-----------------------------------------------------------------------------
\* The same for commands that nobody knows beforehand.
Obey ==
  /\ status = "reading" /\ out' # out
  /\ LET c == out'[Len(out')] IN out' = Append(out, c) /\ Legal(c)
  /\ UNCHANGED status

\* Something in the file is no command, or is not legal.
GiveUp == status = "reading" /\ status' = "error" /\ UNCHANGED out

Accept ==
  /\ status = "reading" /\ Shell(out) \in Installed
  /\ status' = "ok"
  /\ UNCHANGED out

AnyNext == (Obey \/ GiveUp \/ Accept) /\ UNCHANGED list

AnySpec == Init /\ [][AnyNext]_<<list, out, status>>
=============================================================================
