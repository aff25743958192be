---------------------------- MODULE InputBuffer ----------------------------
(***************************************************************************)
(* The input buffer of the lexer (src/lexer.c): peekn_char(), which fills  *)
(* the buffer again from the file when it has come to its end and keeps    *)
(* the characters that were only looked at, and the functions that use it. *)
(* An error of fread() is not modelled.                                    *)
(***************************************************************************)
EXTENDS Integers, Sequences

CONSTANTS
  Files,    \* the files there may be, sequences of characters
  Chars,
  Eof,      \* EOF_CHAR
  Junk,     \* what malloc() leaves in the buffer
  Size,     \* size of the buffer, 1024
  MaxPeek,  \* the n of cmp_nextn(), 2
  MaxPast   \* bound on the characters taken behind the end of the file

ASSUME InputBufferAssumption ==
  /\ Files \subseteq Seq(Chars)
  /\ Eof \notin Chars /\ Junk \notin Chars
  /\ Size \in Nat /\ MaxPeek \in Nat /\ MaxPeek < Size
  /\ MaxPast \in Nat

VARIABLES
  file,
  b,    \* InputBuffer, and how much of the file fread() has read
  at,   \* history: how many characters next_char() has taken
  got,  \* the characters that cmp_nextn() has looked at
  ret   \* the last answer of peekn_char()

vars == <<file, b, at, got, ret>>

\* init_input_buf()
Init ==
  /\ file \in Files
  /\ b = [pos |-> 0, len |-> 0, eof |-> FALSE, read |-> 0,
          buf |-> [k \in 0 .. Size - 1 |-> Junk]]
  /\ at = 0 /\ got = <<>> /\ ret = Eof

-----------------------------------------------------------------------------
\* Mutant: the room taken by the kept characters is forgotten.
CountTooMany(i) ==
  IF Len(file) - b.read < Size THEN Len(file) - b.read ELSE Size

\* How many characters fread() finds, and has room for.
Count(i) ==
  IF Len(file) - b.read < Size - i THEN Len(file) - b.read ELSE Size - i

\* Mutant: what was looked at is lost.
MovedNot(k, i) == b.buf[k]

\* memmove(): the last i characters become the first ones.
Moved(k, i) == b.buf[b.len - i + k]

\* The buffer after memmove() and fread().
Refilled(i) ==
  [pos |-> 0, len |-> i + Count(i), eof |-> i + Count(i) # Size,
   read |-> b.read + Count(i),
   buf |-> [k \in 0 .. Size - 1 |->
              IF k < i THEN Moved(k, i)
              ELSE IF k < i + Count(i) THEN file[b.read + (k - i) + 1]
              ELSE b.buf[k]]]

InBuffer(i) == b.pos + i < b.len

NoMore(i) == b.eof \/ (i > 0 /\ i >= b.len)

\* peekn_char(): the buffer it leaves, and the character it returns.
Peeked(i) ==
  IF InBuffer(i) THEN [b |-> b, c |-> b.buf[b.pos + i]]
  ELSE IF NoMore(i) THEN [b |-> b, c |-> Eof]
  ELSE [b |-> Refilled(i),
        c |-> IF Refilled(i).len = 0 THEN Eof ELSE Refilled(i).buf[i]]

\* peek_char(), also as the first step of cmp_nextn()
PeekChar ==
  /\ b' = Peeked(0).b
  /\ ret' = Peeked(0).c
  /\ got' = IF ret' = Eof THEN <<>> ELSE <<ret'>>
  /\ UNCHANGED <<file, at>>

\* cmp_nextn() goes on while the characters are those it looks for.
PeekFurther ==
  /\ Len(got) \in 1 .. MaxPeek
  /\ b' = Peeked(Len(got)).b
  /\ ret' = Peeked(Len(got)).c
  /\ got' = IF ret' = Eof THEN <<>> ELSE Append(got, ret')
  /\ UNCHANGED <<file, at>>

\* next_char(); skipn_char() is several of these.
NextChar ==
  /\ at < Len(file) + MaxPast
  /\ b' = [Peeked(0).b EXCEPT !.pos = @ + 1]
  /\ ret' = Peeked(0).c
  /\ at' = at + 1
  /\ got' = <<>>
  /\ UNCHANGED file

Next == PeekChar \/ PeekFurther \/ NextChar

Spec == Init /\ [][Next]_vars

-----------------------------------------------------------------------------
\* Every variable has its type; what is never read is what malloc() left.
TypeOK ==
  /\ file \in Files
  /\ b \in [pos : Nat, len : 0 .. Size, eof : BOOLEAN, read : 0 .. Len(file),
            buf : [0 .. Size - 1 -> Chars \cup {Junk}]]
  /\ at \in Nat
  /\ got \in Seq(Chars)
  /\ ret \in Chars \cup {Eof}

\* Wherever a refill cuts the file, also between characters that are only
\* looked at: none is lost, taken twice or out of order, and none is made up
\* but behind the end of the file.
Stream == INSTANCE CharStream

ImplementsStream == Stream!Spec

\* Why it does: the buffer is the part of the file before the place read, and
\* pos is the place in it of the next character; the refill that looks i
\* characters ahead comes exactly when i characters are left.
BufferInv ==
  /\ b.len <= b.read
  /\ at = b.read - b.len + b.pos
  /\ \A k \in 0 .. b.len - 1 : b.buf[k] = file[b.read - b.len + k + 1]
  /\ b.eof => b.read = Len(file)
  /\ ~b.eof => /\ b.len = Size \/ (b.len = 0 /\ b.read = 0)
               /\ b.pos + Len(got) <= b.len
=============================================================================
