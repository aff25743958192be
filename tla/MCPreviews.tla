----------------------------- MODULE MCPreviews -----------------------------
(***************************************************************************)
(* Instances of Previews for TLC: parts of the table in previews.h.        *)
(***************************************************************************)
EXTENDS Previews

\* "*" < "gpg" < "html" < "text"
StarString == 1
Gpg == 2
Html == 3
Text == 4

Default(k, n, e, t, s, short) ==
  [name |-> n, ext |-> e, type |-> t, subtype |-> s, order |-> 0,
   priority |-> 0, short |-> short, id |-> k]

\* Two entries of one name, as atool and delta have.
PairedPreviews ==
  <<Default(1, "delta", Null, Text, Html, FALSE),
    Default(2, "cat", Null, Text, Null, FALSE),
    Default(3, "delta", Null, Text, Html, FALSE)>>

\* Priorities whose differences fit into an int (IntMax is 3).
SmallPriorities == {-1, 2}

NoTypes == {}

\* .html, text/*, and text/"*".
SomeTypes ==
  {[ext |-> Html, type |-> Null, subtype |-> Null],
   [ext |-> Null, type |-> Text, subtype |-> Html],
   [ext |-> Null, type |-> Text, subtype |-> StarString]}

GpgPreview == <<Default(1, "gpg", Gpg, Null, Null, TRUE)>>
=============================================================================
