------------------------------- MODULE Lexer -------------------------------
(***************************************************************************)
(* The tokens of a configuration file (src/lexer.c).  A character that the *)
(* lexer treats like the others of its word is not a unit of its own: a    *)
(* word is one unit, a digit and a character with a meaning are one each.  *)
(* How the characters come from the file is InputBuffer; here the file     *)
(* fits into one buffer.                                                   *)
(***************************************************************************)
EXTENDS Integers, Sequences, FiniteSetsExt

CONSTANTS
  Files,   \* [text, items]: the units of a file and what it should mean
  Words,   \* units that begin with a letter
  WrapAt   \* 2^32: where pos, an unsigned int, becomes 0 again

Digits == {"0", "1", "2"}

\* "nl" is a line feed, "quote" a double quote, "hi" a byte from 0x80 to 0xFE,
\* which is negative as a char, "?" any character the lexer does not know.  The
\* byte 0xFF is no unit: it equals EOF_CHAR as a char.
Marks == {"blank", "nl", "#", "/", "*", ".", "-", "{", "}", "quote", "hi", "?"}

Units == Words \cup Digits \cup Marks

ASSUME LexerAssumption ==
  /\ Words \cap (Digits \cup Marks \cup {"EOF"}) = {}
  /\ WrapAt \in Nat
  /\ \A f \in Files : f.text \in Seq(Units) /\ Len(f.text) + 5 < WrapAt

VARIABLES
  file,
  pos,     \* InputBuffer.pos
  stage,   \* where lexer_get_token() is
  opts,    \* LEX_OPT_NUMISTEXT
  queue,   \* tok_queue
  tok      \* the token it returned; NoTok when it is called

lexVars == <<file, pos, stage, opts, queue, tok>>

Value == [d \in Digits |-> CASE d = "0" -> 0 [] d = "1" -> 1 [] d = "2" -> 2]

Tok(type) == [type |-> type]
Str(text) == [type |-> "STR", s |-> text]
Int_(n) == [type |-> "INT", i |-> n]

NoTok == Tok("NULL")

LexInit ==
  /\ file \in Files
  /\ pos = 0 /\ stage = "blanks" /\ opts = FALSE
  /\ queue = <<>> /\ tok = NoTok

-----------------------------------------------------------------------------
\* peekn_char() for the place p
Char(p) == IF p < Len(file.text) THEN file.text[p + 1] ELSE "EOF"

Text(p, n) == SubSeq(file.text, p + 1, p + n)

Blank == {"blank"}
NewLine == {"nl"}
Symbol == Words \cup Digits \cup {"-"}
NotQuote == Units \ {"quote", "hi"}

\* How many units from p on are in S: what read_while() reads.
Run(S, p) ==
  CHOOSE n \in 0 .. Len(file.text) :
    /\ \A k \in 0 .. n - 1 : Char(p + k) \in S
    /\ Char(p + n) \notin S

\* atoi()
AtoI(text) ==
  LET prefix[n \in 0 .. Len(text)] ==
        IF n = 0 THEN 0 ELSE 10 * prefix[n - 1] + Value[text[n]]
  IN  prefix[Len(text)]

BlockOpens(p) == Char(p) = "{" /\ Char(p + 1) = "{"
BlockCloses(p) == Char(p) = "}" /\ Char(p + 1) = "}"

Closings(p) == {q \in p .. Len(file.text) : BlockCloses(q)}

-----------------------------------------------------------------------------
\* lexer_get_token() returns t and has read up to p.
Return(t, p) ==
  /\ tok' = t
  /\ pos' = p % WrapAt
  /\ stage' = "blanks"
  /\ UNCHANGED <<file, opts>>

\* Mutant: the last token that was queued is taken first.
DequeueLast ==
  /\ stage = "blanks" /\ tok = NoTok /\ queue # <<>>
  /\ tok' = queue[Len(queue)]
  /\ queue' = SubSeq(queue, 1, Len(queue) - 1)
  /\ UNCHANGED <<file, pos, stage, opts>>

Dequeue ==
  /\ stage = "blanks" /\ tok = NoTok /\ queue # <<>>
  /\ tok' = Head(queue)
  /\ queue' = Tail(queue)
  /\ UNCHANGED <<file, pos, stage, opts>>

\* read_while(ctx, isblank, 0)
SkipBlanks ==
  /\ stage = "blanks" /\ tok = NoTok /\ queue = <<>>
  /\ pos' = pos + Run(Blank, pos)
  /\ stage' = "comments"
  /\ UNCHANGED <<file, opts, queue, tok>>

\* ignore_comments(), which is not told of the end of the file
BeginComment ==
  /\ stage = "comments" /\ Char(pos) = "#"
  /\ stage' = "comment"
  /\ UNCHANGED <<file, pos, opts, queue, tok>>

SkipComment ==
  /\ stage = "comment"
  /\ pos' = (pos + 1) % WrapAt
  /\ stage' = IF Char(pos) = "nl" THEN "comments" ELSE "comment"
  /\ UNCHANGED <<file, opts, queue, tok>>

Reading == stage = "comments" /\ Char(pos) # "#"

Punctuation ==
  [c \in {"EOF", "/", "*", "."} |->
     CASE c = "EOF" -> "EOF" [] c = "/" -> "SLASH"
       [] c = "*" -> "STAR" [] c = "." -> "DOT"]

\* Mutant: the character is looked at and not taken.
PeekPunctuation ==
  /\ Reading /\ Char(pos) \in DOMAIN Punctuation
  /\ Return(Tok(Punctuation[Char(pos)]), pos)
  /\ UNCHANGED queue

ReadPunctuation ==
  /\ Reading /\ Char(pos) \in DOMAIN Punctuation
  /\ Return(Tok(Punctuation[Char(pos)]), pos + 1)
  /\ UNCHANGED queue

\* read_new_line()
ReadNewLine ==
  /\ Reading /\ Char(pos) \in NewLine
  /\ Return(Tok("NEW_LN"), pos + Run(NewLine, pos))
  /\ UNCHANGED queue

\* read_symbol()
ReadSymbol ==
  /\ Reading /\ Char(pos) \in Words
  /\ Return(Str(Text(pos, Run(Symbol, pos))), pos + Run(Symbol, pos))
  /\ UNCHANGED queue

\* read_int() takes a minus sign even when no number follows.
Negative == Char(pos) = "-"
Unsigned == IF Negative THEN pos + 1 ELSE pos

\* A number that is a text loses its sign.
Number(text) ==
  IF opts THEN Str(text)
  ELSE Int_(IF Negative THEN -AtoI(text) ELSE AtoI(text))

\* read_int()
ReadInt ==
  /\ Reading /\ Char(Unsigned) \in Digits
  /\ Return(Number(Text(Unsigned, Run(Digits, Unsigned))),
            Unsigned + Run(Digits, Unsigned))
  /\ UNCHANGED queue

\* read_block(): the text and the end of the block are queued; no text or
\* comment is looked for in it, and the first two braces close it.
ReadBlock ==
  /\ Reading /\ BlockOpens(Unsigned) /\ Closings(Unsigned + 2) # {}
  /\ LET first == Unsigned + 2
         last == Min(Closings(first))
     IN  /\ Return(Tok("BLK_OPEN"), last + 2)
         /\ queue' = <<Str(Text(first, last - first)), Tok("BLK_CLS")>>

\* read_string(): the end of the file and a byte that is negative end a
\* string like a quote.
ReadString ==
  /\ Reading /\ Char(Unsigned) = "quote"
  /\ LET n == Run(NotQuote, Unsigned + 1)
     IN  Return(Str(Text(Unsigned + 1, n)), Unsigned + n + 2)
  /\ UNCHANGED queue

\* An unclosed block, or a character that begins no token.  How much the code
\* has taken by then does not matter: the parser stops at TOK_ERR.
ReadError ==
  /\ Reading
  /\ \/ BlockOpens(Unsigned) /\ Closings(Unsigned + 2) = {}
     \/ /\ Char(pos) \notin DOMAIN Punctuation \cup NewLine \cup Words
        /\ Char(Unsigned) \notin Digits \cup {"quote"}
        /\ ~BlockOpens(Unsigned)
  /\ Return(Tok("ERR"), pos + 1)
  /\ UNCHANGED queue

GetToken ==
  \/ Dequeue \/ SkipBlanks \/ BeginComment \/ SkipComment
  \/ ReadPunctuation \/ ReadNewLine \/ ReadSymbol \/ ReadInt
  \/ ReadBlock \/ ReadString \/ ReadError
=============================================================================
