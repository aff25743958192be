----------------------------- MODULE CharStream -----------------------------
(***************************************************************************)
(* What the lexer asks of its input (src/lexer.c): the characters of the   *)
(* configuration file one after another, with a look at some of those that *)
(* follow.                                                                 *)
(***************************************************************************)
EXTENDS Naturals, Sequences

CONSTANTS
  Files,    \* sequences of characters
  Chars,
  Eof,      \* what there is after the last character
  MaxPeek   \* how far the lexer looks ahead

VARIABLES
  file,
  at,       \* how many characters were taken
  ret       \* the last answer

vars == <<file, at, ret>>

Init == file \in Files /\ at = 0 /\ ret = Eof

\* The character after n others.
Char(n) == IF n < Len(file) THEN file[n + 1] ELSE Eof

Take == ret' = Char(at) /\ at' = at + 1

Look == ret' = Char(at) /\ UNCHANGED at

\* Behind the end of the file nothing is promised to one who looks further
\* ahead than one character.
LookAhead ==
  /\ \E i \in 1 .. MaxPeek :
       \/ at + i < Len(file) /\ ret' = Char(at + i)
       \/ at + i >= Len(file) /\ ret' \in Chars \cup {Eof}
  /\ UNCHANGED at

Next == (Take \/ Look \/ LookAhead) /\ UNCHANGED file

Spec == Init /\ [][Next]_vars
=============================================================================
