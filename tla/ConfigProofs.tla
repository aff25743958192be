---------------------------- MODULE ConfigProofs ----------------------------
(***************************************************************************)
(* Proofs about Config for every set of files: how much the lexer reads,   *)
(* and what becomes of it in the parser.                                   *)
(***************************************************************************)
EXTENDS Config, SequenceTheorems, WellFoundedInduction, TLAPS

\* A set of numbers has a least one.
LEMMA Least ==
  ASSUME NEW T, T \subseteq Nat, T # {}
  PROVE  \E x \in T : \A y \in T : x <= y
<1> DEFINE R == {ss \in Nat \X Nat : ss[1] < ss[2]}
<1>1. IsWellFoundedOn(R, Nat)
  BY NatLessThanWellFounded DEF OpToRel
<1>2. \A x, y \in Nat : <<y, x>> \in R <=> y < x
  OBVIOUS
<1> HIDE DEF R
<1>3. PICK x \in T : \A y \in T : ~(<<y, x>> \in R)
  BY <1>1, WFMin
<1>4. \A y \in T : ~(y < x)
  BY <1>2, <1>3
<1> QED BY <1>3, <1>4

\* The text of the file, and that EOF is no unit of it.
LEMMA FileText ==
  ASSUME TypeOK
  PROVE  /\ file.text \in Seq(Units) /\ Len(file.text) \in Nat
         /\ \A k \in 1 .. Len(file.text) : file.text[k] \in Units
         /\ "EOF" \notin Units
<1>1. "EOF" \notin Units
  BY LexerAssumption DEF Units, Marks, Digits
<1>2. file.text \in Seq(Units)
  BY DEF TypeOK, Texts
<1> QED BY <1>1, <1>2

LEMMA CharType ==
  ASSUME TypeOK, NEW p \in Nat
  PROVE  /\ Char(p) \in Units \cup {"EOF"}
         /\ Char(p) # "EOF" => p < Len(file.text)
         /\ p >= Len(file.text) => Char(p) = "EOF"
BY FileText DEF Char

\* read_while() does not go behind the end of the file.
LEMMA RunEnds ==
  ASSUME TypeOK, NEW S, "EOF" \notin S, NEW p \in Nat
  PROVE  /\ Run(S, p) \in Nat
         /\ Run(S, p) > 0 => p + Run(S, p) <= Len(file.text)
        /\ Char(p + Run(S, p)) \notin S
<1> DEFINE L == Len(file.text)
           T == {n \in 0 .. L : Char(p + n) \notin S}
           P(n) == /\ \A k \in 0 .. n - 1 : Char(p + k) \in S
                   /\ Char(p + n) \notin S
<1>1. L \in Nat
  BY FileText
<1>2. Char(p + L) = "EOF"
  BY <1>1, CharType
<1>3. T # {} /\ T \subseteq Nat
  BY <1>1, <1>2
<1>4. PICK n \in T : \A y \in T : n <= y
  BY <1>3, Least
<1>5. P(n) /\ n \in 0 .. L
  <2>1. ASSUME NEW k \in 0 .. n - 1 PROVE Char(p + k) \in S
    <3>1. k \in 0 .. L /\ ~(n <= k)
      BY <1>1, <1>4
    <3> QED BY <1>4, <3>1
  <2> QED BY <1>4, <2>1
<1>6. Run(S, p) \in 0 .. L /\ P(Run(S, p))
  BY <1>5 DEF Run
<1>7. ASSUME Run(S, p) > 0 PROVE p + Run(S, p) <= L
  <2>1. Run(S, p) - 1 \in 0 .. Run(S, p) - 1
    BY <1>1, <1>6, <1>7
  <2>2. Char(p + (Run(S, p) - 1)) \in S
    BY <1>6, <2>1
  <2>3. p + (Run(S, p) - 1) \in Nat /\ p + (Run(S, p) - 1) < L
    BY <1>1, <1>6, <1>7, <2>2, CharType
  <2> QED BY <1>1, <1>6, <2>3
<1> QED BY <1>1, <1>6, <1>7

LEMMA RunBounds ==
  ASSUME TypeOK, NEW S, "EOF" \notin S, NEW p \in Nat
  PROVE  /\ Run(S, p) \in Nat
         /\ Run(S, p) > 0 => p + Run(S, p) <= Len(file.text)
BY RunEnds

\* It reads a unit that is of S.
LEMMA RunMoves ==
  ASSUME TypeOK, NEW S, "EOF" \notin S, NEW p \in Nat, Char(p) \in S
  PROVE  /\ Run(S, p) \in Nat /\ Run(S, p) > 0
         /\ p + Run(S, p) <= Len(file.text)
<1>1. Run(S, p) # 0
  <2>1. p + 0 = p
    OBVIOUS
  <2> QED BY <2>1, RunEnds
<1>2. Run(S, p) \in Nat
  BY RunEnds
<1>3. Run(S, p) > 0
  BY <1>1, <1>2
<1> QED BY <1>2, <1>3, RunEnds

\* What is read is a text of the file.
LEMMA TextType ==
  ASSUME TypeOK, NEW p \in Nat, NEW n \in Nat, n > 0 => p + n <= Len(file.text)
  PROVE  Text(p, n) \in Texts
<1>1. \A k \in p + 1 .. p + n : file.text[k] \in Units
  BY FileText
<1> QED BY <1>1, SubSeqProperties DEF Text, Texts

\* read_block() finds the first end of the block.
LEMMA LastOf ==
  ASSUME TypeOK, NEW p \in Nat, Closings(p) # {}
  PROVE  LET last == Min(Closings(p)) IN
         last \in Nat /\ p <= last /\ last < Len(file.text)
<1>1. Closings(p) \subseteq Nat
  BY FileText DEF Closings
<1>2. \E x \in Closings(p) : \A y \in Closings(p) : x <= y
  BY <1>1, Least
<1>3. Min(Closings(p)) \in Closings(p)
  BY <1>2 DEF Min
<1>4. \A q \in Closings(p) : q \in Nat /\ p <= q /\ q < Len(file.text)
  <2> SUFFICES ASSUME NEW q \in Closings(p)
               PROVE  q \in Nat /\ p <= q /\ q < Len(file.text)
    OBVIOUS
  <2>1. q \in p .. Len(file.text) /\ Char(q) # "EOF"
    BY DEF Closings, BlockCloses
  <2>2. Len(file.text) \in Nat
    BY FileText
  <2>3. \A L \in Nat : q \in p .. L => q \in Nat /\ p <= q
    OBVIOUS
  <2>4. q \in Nat /\ p <= q
    BY <2>1, <2>2, <2>3
  <2> QED BY <2>1, <2>4, CharType
<1> QED BY <1>3, <1>4

LEMMA Modulo ==
  ASSUME TypeOK, NEW n \in Nat
  PROVE  n % WrapAt \in 0 .. WrapAt - 1
<1>1. WrapAt \in Nat \ {0}
  BY LexerAssumption, FileText DEF TypeOK
<1> QED BY <1>1

-----------------------------------------------------------------------------
\* What lexer_get_token() does to the types.
LexTypes ==
  /\ file.text \in Texts /\ Len(file.text) + 5 < WrapAt
  /\ pos \in 0 .. WrapAt - 1
  /\ stage \in {"blanks", "comments", "comment"}
  /\ opts \in BOOLEAN
  /\ queue \in Seq(Range(queue)) /\ Len(queue) <= 2
  /\ \A k \in DOMAIN queue : IsToken(queue[k])
  /\ IsToken(tok)

\* A token that has no text, and one that is a text of the file.
LEMMA NewToken ==
  /\ \A t \in TokenTypes \ {"STR"} : IsToken(Tok(t))
  /\ \A s \in Texts : IsToken(Str(s))
  /\ \A n : IsToken(Int_(n))
BY DEF IsToken, Tok, Str, Int_, TokenTypes

LEMMA Returned ==
  ASSUME TypeOK, NEW t, IsToken(t), NEW p \in Nat, Return(t, p)
  PROVE  /\ file' = file /\ opts' = opts /\ stage' = "blanks"
         /\ IsToken(tok)' /\ tok' = t /\ pos' \in 0 .. WrapAt - 1
BY Modulo DEF Return, IsToken

LEMMA LexerTypes ==
  ASSUME TypeOK, QueueInv, GetToken
  PROVE  LexTypes'
<1> DEFINE L == Len(file.text)
<1>1. /\ pos \in Nat /\ L \in Nat
      /\ "EOF" \notin Blank /\ "EOF" \notin NewLine /\ "EOF" \notin Symbol
      /\ "EOF" \notin Digits /\ "EOF" \notin NotQuote
  <2>1. pos \in Nat /\ L \in Nat
    BY FileText, LexerAssumption DEF TypeOK
  <2>2. "EOF" \notin Words /\ "EOF" \notin Digits /\ "EOF" \notin Marks
    BY LexerAssumption DEF Digits, Marks
  <2> QED
    BY <2>1, <2>2 DEF Blank, NewLine, Symbol, NotQuote, Units
<1>2. Unsigned \in Nat
  BY <1>1 DEF Unsigned
<1>3. LexTypes
  BY DEF TypeOK, LexTypes
<1>4. ASSUME UNCHANGED queue, NEW t, IsToken(t), NEW p \in Nat, Return(t, p)
      PROVE  LexTypes'
  BY <1>3, <1>4, Returned DEF LexTypes
<1>5. CASE Dequeue
  <2>1. queue = <<Str(queue[1].s), Tok("BLK_CLS")>> \/ queue = <<Tok("BLK_CLS")>>
    BY <1>5 DEF Dequeue, QueueInv, Queued, Ready, NoTok, Tok, Str, Got
  <2>2. IsToken(queue[1]) /\ (Len(queue) = 2 => IsToken(queue[2]))
    BY <1>3, <2>1 DEF LexTypes
  <2>3. IsToken(tok') /\ Len(queue') <= 2 /\ \A k \in DOMAIN queue' : IsToken(queue'[k])
    BY <1>5, <2>1, <2>2 DEF Dequeue
  <2>4. PICK x : queue = <<x, Tok("BLK_CLS")>> \/ queue = <<Tok("BLK_CLS")>>
    BY <2>1
  <2>5. queue' \in Seq(Range(queue'))
    <3>0. queue' = Tail(queue)
      BY <1>5 DEF Dequeue
    <3>1. queue' = <<Tok("BLK_CLS")>> \/ queue' = <<>>
      <4> DEFINE c == Tok("BLK_CLS")
      <4> HIDE DEF c
      <4>1. Tail(<<x, c>>) = <<c>> /\ Tail(<<c>>) = <<>>
        OBVIOUS
      <4> QED BY <2>4, <3>0, <4>1 DEF c
    <3>2. CASE queue' = <<Tok("BLK_CLS")>>
      BY <3>2 DEF Range
    <3>3. CASE queue' = <<>>
      BY <3>3
    <3> QED BY <3>1, <3>2, <3>3
  <2> QED BY <1>3, <1>5, <2>3, <2>5 DEF Dequeue, LexTypes, IsToken
<1>6. CASE SkipBlanks
  <2>1. Run(Blank, pos) \in Nat
        /\ (Run(Blank, pos) > 0 => pos + Run(Blank, pos) <= L)
    BY <1>1, RunBounds
  <2>2. pos + Run(Blank, pos) \in 0 .. WrapAt - 1
    BY <1>1, <1>3, <2>1, LexerAssumption DEF LexTypes
  <2> QED BY <1>3, <1>6, <2>2 DEF SkipBlanks, LexTypes
<1>7. CASE BeginComment
  BY <1>3, <1>7 DEF BeginComment, LexTypes
<1>8. CASE SkipComment
  <2>1. pos + 1 \in Nat
    BY <1>1
  <2>2. (pos + 1) % WrapAt \in 0 .. WrapAt - 1
    BY <2>1, Modulo
  <2> QED BY <1>3, <1>8, <2>2 DEF SkipComment, LexTypes
<1>9. CASE ReadPunctuation
  <2>1. Punctuation[Char(pos)] \in TokenTypes \ {"STR"}
    BY <1>9 DEF ReadPunctuation, Punctuation, TokenTypes
  <2> QED BY <1>1, <1>4, <1>9, <2>1, NewToken DEF ReadPunctuation
<1>10. CASE ReadNewLine
  <2>1. Run(NewLine, pos) \in Nat
    BY <1>1, RunBounds
  <2>2. IsToken(Tok("NEW_LN"))
    BY NewToken DEF TokenTypes
  <2> QED BY <1>1, <1>4, <1>10, <2>1, <2>2 DEF ReadNewLine
<1>11. CASE ReadSymbol
  <2>1. Run(Symbol, pos) \in Nat
        /\ (Run(Symbol, pos) > 0 => pos + Run(Symbol, pos) <= L)
    BY <1>1, RunBounds
  <2>2. IsToken(Str(Text(pos, Run(Symbol, pos))))
    BY <1>1, <2>1, TextType, NewToken
  <2> QED BY <1>1, <1>4, <1>11, <2>1, <2>2 DEF ReadSymbol
<1>12. CASE ReadInt
  <2>1. Run(Digits, Unsigned) \in Nat
        /\ (Run(Digits, Unsigned) > 0 => Unsigned + Run(Digits, Unsigned) <= L)
    BY <1>1, <1>2, RunBounds
  <2>2. IsToken(Number(Text(Unsigned, Run(Digits, Unsigned))))
    BY <1>2, <2>1, TextType, NewToken DEF Number
  <2> QED BY <1>2, <1>4, <1>12, <2>1, <2>2 DEF ReadInt
<1>13. CASE ReadBlock
  <2> DEFINE first == Unsigned + 2
             last == Min(Closings(first))
  <2>1. last \in Nat /\ first <= last /\ last < L
    BY <1>2, <1>13, LastOf DEF ReadBlock
  <2>2. IsToken(Str(Text(first, last - first)))
    BY <1>1, <1>2, <2>1, TextType, NewToken
  <2>3. IsToken(Tok("BLK_OPEN")) /\ IsToken(Tok("BLK_CLS"))
    BY NewToken DEF TokenTypes
  <2>4. Return(Tok("BLK_OPEN"), last + 2)
        /\ queue' = <<Str(Text(first, last - first)), Tok("BLK_CLS")>>
    BY <1>13 DEF ReadBlock
  <2> HIDE DEF last
  <2>5. Len(queue') = 2 /\ \A k \in DOMAIN queue' : IsToken(queue'[k])
    BY <2>2, <2>3, <2>4
  <2>6. queue' \in Seq(Range(queue'))
    BY <2>4 DEF Range
  <2> QED BY <1>3, <2>1, <2>3, <2>4, <2>5, <2>6, Returned DEF LexTypes, IsToken
<1>14. CASE ReadString
  <2> DEFINE n == Run(NotQuote, Unsigned + 1)
  <2>0. Unsigned + 1 \in Nat
    BY <1>2
  <2>1. n \in Nat /\ (n > 0 => (Unsigned + 1) + n <= L)
    BY <1>1, <2>0, RunBounds
  <2>2. IsToken(Str(Text(Unsigned + 1, n)))
    BY <1>2, <2>1, TextType, NewToken
  <2> QED BY <1>2, <1>4, <1>14, <2>1, <2>2 DEF ReadString
<1>15. CASE ReadError
  <2>1. IsToken(Tok("ERR"))
    BY NewToken DEF TokenTypes
  <2> QED BY <1>1, <1>4, <1>15, <2>1 DEF ReadError
<1> QED
  BY <1>5, <1>6, <1>7, <1>8, <1>9, <1>10, <1>11, <1>12, <1>13, <1>14, <1>15
  DEF GetToken

\* The lexer adds a block to an empty queue only, and takes from the queue
\* before it reads on.
LEMMA LexerQueue ==
  ASSUME QueueInv, GetToken, pc' = pc
  PROVE  QueueInv'
<1> USE DEF Ready, Got, GotStr, NoTok, Tok
<1>1. tok = NoTok
  BY DEF GetToken, Dequeue, SkipBlanks, BeginComment, SkipComment, Reading,
    ReadPunctuation, ReadNewLine, ReadSymbol, ReadInt, ReadBlock, ReadString,
    ReadError, QueueInv
<1>2. pc # "error"
  BY <1>1 DEF QueueInv
<1>3. CASE Dequeue
  <2>1. queue # <<>> /\ tok' = Head(queue) /\ queue' = Tail(queue)
        /\ stage = "blanks" /\ stage' = stage
    BY <1>3 DEF Dequeue
  <2>2. CASE pc = "script"
    <3>1. PICK t : queue = <<Str(t), Tok("BLK_CLS")>>
      BY <1>1, <2>2 DEF QueueInv, Queued
    <3>2. Head(queue) = Str(t) /\ Tail(queue) = <<Tok("BLK_CLS")>>
      BY <3>1
    <3>3. tok'.type = "STR" /\ queue' = <<Tok("BLK_CLS")>>
      BY <2>1, <3>2 DEF Str
    <3>4. tok' # Tok("BLK_OPEN")
      BY <3>3
    <3> QED BY <2>1, <2>2, <3>3, <3>4 DEF QueueInv
  <2>3. CASE pc = "close"
    <3>1. queue = <<Tok("BLK_CLS")>>
      BY <1>1, <2>3 DEF QueueInv
    <3>2. tok' = Tok("BLK_CLS") /\ queue' = <<>>
      BY <2>1, <3>1
    <3> QED BY <2>1, <2>3, <3>2 DEF QueueInv
  <2>4. pc \in {"script", "close"}
    BY <1>1, <1>2, <2>1 DEF QueueInv
  <2> QED BY <2>2, <2>3, <2>4
<1>4. CASE ~Dequeue
  <2>1. queue = <<>> /\ pc \notin {"script", "close"}
    BY <1>1, <1>4
    DEF GetToken, SkipBlanks, BeginComment, SkipComment, Reading,
      ReadPunctuation, ReadNewLine, ReadSymbol, ReadInt, ReadBlock, ReadString,
      ReadError, QueueInv, Queued
  <2>2. CASE SkipBlanks \/ BeginComment \/ SkipComment
    BY <1>1, <1>2, <2>1, <2>2
    DEF SkipBlanks, BeginComment, SkipComment, QueueInv
  <2>3. CASE ReadBlock
    <3>1. PICK t : tok' = Tok("BLK_OPEN") /\ queue' = <<Str(t), Tok("BLK_CLS")>>
                   /\ stage' = "blanks"
      BY <2>3 DEF ReadBlock, Return
    <3>2. Queued'
      BY <3>1 DEF Queued, Str
    <3> QED BY <1>2, <2>1, <3>1, <3>2 DEF QueueInv
  <2>4. CASE \/ ReadPunctuation \/ ReadNewLine \/ ReadSymbol \/ ReadInt
             \/ ReadString \/ ReadError
    <3>1. queue' = <<>> /\ stage' = "blanks" /\ tok' # Tok("BLK_OPEN")
      <4>1. \A n : Int_(n) # Tok("BLK_OPEN") /\ Str(n) # Tok("BLK_OPEN")
        BY DEF Int_, Str
      <4>2. \A c \in DOMAIN Punctuation : Tok(Punctuation[c]) # Tok("BLK_OPEN")
        BY DEF Punctuation
      <4> QED
        BY <2>1, <2>4, <4>1, <4>2
        DEF ReadPunctuation, ReadNewLine, ReadSymbol, ReadInt, ReadString,
          ReadError, Return, Number
    <3> QED BY <1>2, <2>1, <3>1 DEF QueueInv
  <2> QED BY <1>4, <2>2, <2>3, <2>4 DEF GetToken
<1> QED BY <1>3, <1>4

\* The parser takes a token that is not of a block.
LEMMA Takes ==
  ASSUME QueueInv, Ready, NEW next \in Places \ {"script", "close", "error"},
         pc \notin {"script", "close", "error"}, ~Got("BLK_OPEN"), Consume(next)
  PROVE  QueueInv'
BY DEF QueueInv, Ready, Got, GotStr, NoTok, Tok, Consume

\* It goes on with the token it has.
LEMMA GoesOn ==
  ASSUME QueueInv, Ready, NEW next \in Places \ {"script", "close"},
         pc \notin {"script", "close", "error"}, Goto(next)
  PROVE  QueueInv'
BY DEF QueueInv, Ready, Got, GotStr, NoTok, Tok, Goto, Queued

\* What a step of the parser may change of the tokens.
Passes == /\ UNCHANGED <<file, pos, stage, queue>>
          /\ tok' = tok \/ tok' = NoTok
          /\ opts' \in BOOLEAN
          /\ pc' \in Places

LEMMA Passed ==
  ASSUME TypeOK, Passes, IsCommand(cmd'), UNCHANGED list,
         out' \in Seq(Range(out')), Len(out') <= MaxCommands
  PROVE  TypeOK'
<1>1. IsToken(NoTok)
  BY NewToken DEF NoTok, TokenTypes
<1>2. IsToken(tok')
  BY <1>1 DEF Passes, TypeOK
<1> QED BY <1>2 DEF Passes, TypeOK, IsToken, IsCommand

LEMMA Expects ==
  ASSUME \/ \E next \in Places : Consume(next) \/ Goto(next)
         \/ Reject,
         opts' \in BOOLEAN
  PROVE  Passes
BY DEF Consume, Goto, Reject, Passes, Places

\* A text that was read.
LEMMA StrText ==
  ASSUME TypeOK, GotStr
  PROVE  tok.s \in Texts
BY DEF TypeOK, IsToken, GotStr

\* One more type, and the last one changed.
LEMMA OneMoreType ==
  ASSUME TypeOK, MayHaveMore, NEW t \in Types, AddType(t)
  PROVE  IsCommand(cmd') /\ cmd'.types # <<>>
<1>1. Append(cmd.types, t) \in Seq(Types)
      /\ Len(Append(cmd.types, t)) = Len(cmd.types) + 1
      /\ Append(cmd.types, t) # <<>>
  BY AppendProperties DEF TypeOK, IsCommand
<1>2. Len(cmd.types) \in Nat
  BY DEF TypeOK, IsCommand
<1> DEFINE a == Append(cmd.types, t)
<1> HIDE DEF a
<1>3. cmd' = [cmd EXCEPT !.types = a]
  BY DEF AddType, a
<1>4. a \in Seq(Types) /\ Len(a) <= MaxTypes /\ a # <<>>
  BY <1>1, <1>2, ConfigAssumption DEF a, MayHaveMore
<1> QED BY <1>3, <1>4 DEF TypeOK, IsCommand

LEMMA OtherType ==
  ASSUME TypeOK, cmd.types # <<>>, NEW f \in {"ext", "subtype"},
         NEW s \in Texts, ChangeType(f, s)
  PROVE  IsCommand(cmd')
<1> DEFINE n == Len(cmd.types)
           t == [cmd.types[n] EXCEPT ![f] = s]
           a == [cmd.types EXCEPT ![n] = t]
<1>1. cmd.types \in Seq(Types) /\ n \in Nat /\ n \in 1 .. Len(cmd.types)
  BY DEF TypeOK, IsCommand
<1>2. t \in Types
  <2>1. \A r \in Types :
          [r EXCEPT !["ext"] = s] \in Types /\ [r EXCEPT !["subtype"] = s] \in Types
    BY DEF Types
  <2>2. cmd.types[n] \in Types
    BY <1>1
  <2>3. CASE f = "ext"
    BY <2>1, <2>2, <2>3
  <2>4. CASE f = "subtype"
    BY <2>1, <2>2, <2>4
  <2> QED BY <2>3, <2>4
<1>3. a \in Seq(Types) /\ Len(a) = Len(cmd.types)
  BY <1>1, <1>2, ExceptSeq
<1>4. cmd' = [cmd EXCEPT !.types = a]
  BY DEF ChangeType, TypeOK, IsCommand
<1> HIDE DEF a
<1> QED BY <1>3, <1>4 DEF TypeOK, IsCommand

\* A step of the parser takes a token or keeps it, and its command fits.
LEMMA ParserTypes ==
  ASSUME TypeOK, PlaceInv, Next, ~Lex
  PROVE  TypeOK'
<1>1. /\ IsCommand(cmd) /\ opts \in BOOLEAN
      /\ out \in Seq(Range(out)) /\ Len(out) <= MaxCommands
  BY DEF TypeOK
<1>2. ASSUME Passes, UNCHANGED <<cmd, list, out>> PROVE TypeOK'
  BY <1>1, <1>2, Passed DEF IsCommand
<1>3. \/ NewLines \/ EndOfFile \/ BlockOpen \/ Slash \/ BlockClose \/ End
      => TypeOK'
  BY <1>1, <1>2, Expects
  DEF NewLines, EndOfFile, BlockOpen, Slash, BlockClose, End, Places
<1>4. TooManyTypes \/ Fail \/ Unexpected \/ CheckShell \/ TypeEnds => TypeOK'
  BY <1>1, <1>2, Expects
  DEF TooManyTypes, Fail, Unexpected, CheckShell, TypeEnds, AfterReset, Reject,
    Places
<1>5. Dispatch => TypeOK'
  BY <1>1, <1>2, Expects DEF Dispatch, Reject, Places
<1>6. Option => TypeOK'
  BY <1>1, <1>2, Expects, ConfigAssumption DEF Option, Reject, Places
<1>7. ASSUME Keyword PROVE TypeOK'
  <2>1. <<>> \in Texts /\ <<>> \in Seq(Types) /\ Len(<<>>) <= MaxTypes
    BY ConfigAssumption DEF Texts
  <2>2. IsCommand(cmd')
    BY <1>7, <2>1, StrText DEF Keyword, NoCommand, IsCommand
  <2> QED BY <1>1, <1>7, <2>2, Expects, Passed DEF Keyword, Places
<1>8. ASSUME Name PROVE TypeOK'
  <2>1. IsCommand(cmd')
    BY <1>1, <1>8, StrText DEF Name, IsCommand
  <2>2. AfterName[cmd.op] \in Places
    BY <1>8 DEF Name, PlaceInv, AfterName, Commands, Places
  <2> QED BY <1>1, <1>8, <2>1, <2>2, Expects, Passed DEF Name
<1>9. ASSUME IntArg \/ StrArg PROVE TypeOK'
  <2>1. IsCommand(cmd')
    BY <1>1, <1>9 DEF IntArg, StrArg, IsCommand
  <2> QED BY <1>1, <1>9, <2>1, Expects, Passed DEF IntArg, StrArg, Places
<1>10. ASSUME TypeBegins PROVE TypeOK'
  <2>1. \A s \in Texts : [AnyType EXCEPT !.type = s] \in Types
    BY DEF AnyType, Types
  <2>2. AnyType \in Types
    BY DEF AnyType, Types
  <2>3. IsCommand(cmd')
    BY <1>10, <2>1, <2>2, StrText, OneMoreType DEF TypeBegins
  <2> QED BY <1>1, <1>10, <2>3, Expects, Passed DEF TypeBegins, Places
<1>11. ASSUME Extension \/ Subtype PROVE TypeOK'
  <2>1. cmd.types # <<>>
    BY <1>11 DEF Extension, Subtype, PlaceInv
  <2>2. IsCommand(cmd')
    BY <1>1, <1>11, <2>1, StrText, OtherType DEF Extension, Subtype, IsCommand
  <2> QED
    BY <1>1, <1>11, <2>2, Expects, Passed DEF Extension, Subtype, Places
<1>12. ASSUME Script PROVE TypeOK'
  <2>1. IsCommand(cmd')
    BY <1>1, <1>12, StrText DEF Script, IsCommand
  <2> QED BY <1>1, <1>12, <2>1, Expects, Passed DEF Script, Places
<1>13. ASSUME Execute PROVE TypeOK'
  <2>1. /\ out' = Append(out, cmd) /\ Len(out) < MaxCommands
        /\ out \in Seq(Range(out) \cup {cmd})
    BY <1>1, <1>13 DEF Execute
  <2>2. out' \in Seq(Range(out) \cup {cmd}) /\ Len(out') = Len(out) + 1
    BY <2>1, AppendProperties
  <2>3. Len(out') <= MaxCommands
    BY <2>1, <2>2, ConfigAssumption
  <2>4. \A k \in 1 .. Len(out') : out'[k] \in Range(out')
    BY <2>2 DEF Range
  <2>5. out' \in Seq(Range(out'))
    BY <2>2, <2>4
  <2> QED
    BY <1>1, <1>13, <2>3, <2>5, Expects, Passed DEF Execute, IsCommand, Places
<1> QED
  BY <1>3, <1>4, <1>5, <1>6, <1>7, <1>8, <1>9, <1>10, <1>11, <1>12, <1>13
  DEF Next

\* Only a type that was begun is changed.
LEMMA ParserPlaces ==
  ASSUME TypeOK, PlaceInv, Next
  PROVE  PlaceInv'
<1>1. CASE Lex
  BY <1>1 DEF Lex, PlaceInv
<1>2. CASE Dispatch
  BY <1>2 DEF Dispatch, PlaceInv, Goto, Reject
<1>3. CASE Option
  BY <1>3, ConfigAssumption DEF Option, PlaceInv, Goto, Reject
<1>0. \/ Name \/ TypeBegins \/ IntArg \/ StrArg \/ Extension \/ Subtype \/ Script
      => cmd'.op = cmd.op
  <2>1. \A x : [cmd EXCEPT !.name = x].op = cmd.op /\ [cmd EXCEPT !.arg = x].op = cmd.op
               /\ [cmd EXCEPT !.types = x].op = cmd.op
               /\ [cmd EXCEPT !.script = x].op = cmd.op
    BY DEF TypeOK, IsCommand
  <2>2. \A n, f, x : [cmd EXCEPT !.types[n][f] = x].op = cmd.op
    BY DEF TypeOK, IsCommand
  <2>3. Name \/ IntArg \/ StrArg \/ Script => cmd'.op = cmd.op
    <3>1. Name => cmd'.op = cmd.op
      BY <2>1 DEF Name
    <3>2. IntArg => cmd'.op = cmd.op
      BY <2>1 DEF IntArg
    <3>3. StrArg => cmd'.op = cmd.op
      BY <2>1 DEF StrArg
    <3>4. Script => cmd'.op = cmd.op
      BY <2>1 DEF Script
    <3> QED BY <3>1, <3>2, <3>3, <3>4
  <2>4. TypeBegins => cmd'.op = cmd.op
    <3>1. ASSUME NEW t, AddType(t) PROVE cmd'.op = cmd.op
      BY <2>1, <3>1 DEF AddType
    <3> QED BY <3>1 DEF TypeBegins
  <2>5. Extension \/ Subtype => cmd'.op = cmd.op
    <3>1. ASSUME NEW f, NEW x, ChangeType(f, x) PROVE cmd'.op = cmd.op
      BY <2>2, <3>1 DEF ChangeType
    <3> QED BY <3>1 DEF Extension, Subtype
  <2> QED BY <2>3, <2>4, <2>5
<1>4. CASE Name
  BY <1>0, <1>4 DEF Name, PlaceInv, Consume, AfterName, Commands
<1>5. CASE TypeBegins
  <2>1. \A s \in Texts : [AnyType EXCEPT !.type = s] \in Types
    BY DEF AnyType, Types
  <2>2. AnyType \in Types
    BY DEF AnyType, Types
  <2>3. cmd'.types # <<>>
    BY <1>5, <2>1, <2>2, StrText, OneMoreType DEF TypeBegins
  <2>4. cmd'.op \in Commands
    BY <1>0, <1>5 DEF TypeBegins, PlaceInv
  <2> QED BY <2>3, <2>4 DEF PlaceInv
<1>6. CASE \/ NewLines \/ EndOfFile \/ BlockOpen \/ TooManyTypes \/ TypeEnds
           \/ BlockClose \/ Execute \/ Fail \/ End \/ Unexpected \/ CheckShell
  BY <1>6
  DEF NewLines, EndOfFile, BlockOpen, TooManyTypes, TypeEnds, BlockClose,
    Execute, Fail, End, Unexpected, CheckShell, Consume, Goto, Reject, PlaceInv
<1>7. CASE Keyword
  BY <1>7 DEF Keyword, Consume, PlaceInv
<1>9. CASE IntArg \/ StrArg \/ Extension \/ Subtype \/ Script
  BY <1>0, <1>9
  DEF IntArg, StrArg, Extension, Subtype, Script, Consume, Goto, PlaceInv
<1>8. CASE Slash
  BY <1>8 DEF Slash, Consume, PlaceInv
<1> QED
  BY <1>1, <1>2, <1>3, <1>4, <1>5, <1>6, <1>7, <1>8, <1>9 DEF Next

\* The parser reads a block as a whole.
LEMMA ParserQueue ==
  ASSUME TypeOK, QueueInv, PlaceInv, Next, ~Lex
  PROVE  QueueInv'
<1> DEFINE Outside == pc \notin {"script", "close", "error"}
<1>1. ASSUME Outside, Ready, NEW next \in Places \ {"script", "close"},
             Goto(next)
      PROVE  QueueInv'
  BY <1>1, GoesOn
<1>2. ASSUME Outside, ~Got("BLK_OPEN"), Ready,
             NEW next \in Places \ {"script", "close", "error"}, Consume(next)
      PROVE  QueueInv'
  BY <1>2, Takes
<1>3. ASSUME NEW t \in TokenTypes \ {"NULL", "BLK_OPEN"}, tok.type = t
      PROVE  Ready /\ ~Got("BLK_OPEN")
  BY <1>3 DEF Ready, NoTok, Got, Tok
<1>4. \A t : Got(t) => tok.type = t
  BY DEF Got, Tok
<1>5. CASE NewLines \/ EndOfFile \/ Slash \/ End
  <2>1. Outside /\ tok.type \in TokenTypes \ {"NULL", "BLK_OPEN"}
    BY <1>4, <1>5 DEF NewLines, EndOfFile, Slash, End, TokenTypes
  <2>2. Ready /\ ~Got("BLK_OPEN")
    BY <1>3, <2>1
  <2> QED
    BY <1>2, <1>5, <2>1, <2>2
    DEF NewLines, EndOfFile, Slash, End, Places
<1>6. CASE \/ Keyword \/ Name \/ StrArg \/ TypeBegins \/ Extension \/ Subtype
  <2>1. Outside /\ tok.type \in TokenTypes \ {"NULL", "BLK_OPEN"}
    BY <1>4, <1>6
    DEF Keyword, Name, StrArg, TypeBegins, Extension, Subtype, GotStr,
      TokenTypes
  <2>2. Ready /\ ~Got("BLK_OPEN")
    BY <1>3, <2>1
  <2>3. Name => AfterName[cmd.op] \in {"option", "types", "bool", "execute"}
    BY DEF Name, PlaceInv, AfterName, Commands
  <2> QED
    BY <1>2, <1>6, <2>1, <2>2, <2>3
    DEF Keyword, Name, StrArg, TypeBegins, Extension, Subtype, Places
<1>7. CASE Dispatch \/ TooManyTypes \/ TypeEnds \/ Execute \/ Fail \/ CheckShell
  BY <1>1, <1>7
  DEF Dispatch, TooManyTypes, TypeEnds, Execute, Fail, CheckShell, Reject,
    Places
<1>8. CASE Unexpected
  BY <1>1, <1>8 DEF Unexpected, Expected, Reject, Places
<1>9. CASE Option
  BY <1>1, <1>9, ConfigAssumption DEF Option, Reject, Places
<1>10. CASE IntArg
  <2>1. CASE GotInt
    <3>1. Ready /\ ~Got("BLK_OPEN")
      BY <1>3, <2>1 DEF GotInt, TokenTypes
    <3> QED BY <1>2, <1>10, <2>1, <3>1 DEF IntArg, Places
  <2>2. CASE ~GotInt
    BY <1>1, <1>10, <2>2 DEF IntArg, Places
  <2> QED BY <2>1, <2>2
<1>11. CASE BlockOpen
  BY <1>11
  DEF BlockOpen, QueueInv, Consume, Got, Tok, NoTok, Queued, Ready, GotStr
<1>12. CASE Script
  BY <1>12
  DEF Script, QueueInv, Consume, Got, Tok, NoTok, Queued, Ready, GotStr
<1>13. CASE BlockClose
  BY <1>13
  DEF BlockClose, QueueInv, Consume, Got, Tok, NoTok, Queued, Ready, GotStr
<1> QED
  BY <1>5, <1>6, <1>7, <1>8, <1>9, <1>10, <1>11, <1>12, <1>13 DEF Next

-----------------------------------------------------------------------------
\* Every variable has its type; no text, of a name, a type, a script or a
\* token, reaches behind the end of the file, and no type is written behind
\* the last of types[] (checked as TypeOK in run config_files).
THEOREM TypeCorrect == Spec => [](TypeOK /\ QueueInv /\ PlaceInv)
<1>1. Init => TypeOK /\ QueueInv /\ PlaceInv
  <2> SUFFICES ASSUME Init PROVE TypeOK /\ QueueInv /\ PlaceInv
    OBVIOUS
  <2>1. <<>> \in Texts /\ <<>> \in Seq(Types) /\ Len(<<>>) <= MaxTypes
    BY ConfigAssumption DEF Texts
  <2>2. IsCommand(cmd)
    BY <2>1 DEF Init, NoCommand, IsCommand
  <2>3. file.text \in Texts /\ Len(file.text) + 5 < WrapAt
    BY LexerAssumption DEF Init, LexInit, Texts
  <2>4. 0 \in 0 .. WrapAt - 1
    <3>1. Len(file.text) \in Nat
      BY <2>3 DEF Texts
    <3> QED BY <2>3, <3>1, LexerAssumption
  <2>5. IsToken(NoTok) /\ NoTok # Tok("BLK_OPEN")
    BY NewToken DEF NoTok, Tok, TokenTypes
  <2>6. TypeOK
    <3>1. out \in Seq(Range(out)) /\ Len(out) <= MaxCommands
      BY ConfigAssumption DEF Init
    <3>2. Len(queue) <= 2 /\ DOMAIN queue = {}
      BY DEF Init, LexInit
    <3> QED
      BY <2>2, <2>3, <2>4, <2>5, <3>1, <3>2 DEF Init, LexInit, TypeOK, Places
  <2> QED
    BY <2>5, <2>6 DEF Init, LexInit, QueueInv, PlaceInv, Got
<1>2. TypeOK /\ QueueInv /\ PlaceInv /\ [Next]_vars
      => (TypeOK /\ QueueInv /\ PlaceInv)'
  <2> SUFFICES ASSUME TypeOK, QueueInv, PlaceInv, [Next]_vars
               PROVE  TypeOK' /\ QueueInv' /\ PlaceInv'
    OBVIOUS
  <2>1. CASE Lex
    <3>1. LexTypes' /\ QueueInv'
      BY <2>1, LexerTypes, LexerQueue DEF Lex
    <3>2. TypeOK'
      BY <2>1, <3>1 DEF Lex, LexTypes, TypeOK, IsCommand
    <3> QED BY <2>1, <3>1, <3>2, ParserPlaces DEF Next
  <2>2. CASE Next /\ ~Lex
    BY <2>2, ParserTypes, ParserQueue, ParserPlaces
  <2>3. CASE UNCHANGED vars
    BY <2>3
    DEF vars, lexVars, TypeOK, IsToken, IsCommand, QueueInv, Queued, PlaceInv,
      Got, GotStr, Ready
  <2> QED BY <2>1, <2>2, <2>3
<1> QED BY <1>1, <1>2, PTL DEF Spec

\* Whatever stands in a block, its text is read as a script, by the command
\* that it belongs to (checked as BlockWhole in run config_files).
THEOREM BlockWholeAlways == Spec => []BlockWhole
<1>1. QueueInv => BlockWhole
  BY DEF QueueInv, BlockWhole, Ready, Got, GotStr, NoTok, Tok
<1> QED BY <1>1, TypeCorrect, PTL

\* The names that are known after one more command.
LEMMA OneMoreCommand ==
  ASSUME NEW S, NEW o \in Seq(S), NEW c \in S, NEW n
  PROVE  n \in Lines!Known(Append(o, c))
           <=> Lines!Adds(c, n) \/ (~Lines!Removes(c, n) /\ n \in Lines!Known(o))
<1> DEFINE p == Append(o, c)
           last == Len(o) + 1
           IsKnown(q) ==
             /\ n \in BuiltIn \/ \E k \in DOMAIN q : Lines!Adds(q[k], n)
             /\ \A r \in DOMAIN q : Lines!Removes(q[r], n) =>
                  \E k \in DOMAIN q : k > r /\ Lines!Adds(q[k], n)
<1>1. \A q : n \in Lines!Known(q) <=> IsKnown(q)
  BY DEF Lines!Known, Lines!Adds
<1>2. /\ Len(o) \in Nat /\ DOMAIN o = 1 .. Len(o) /\ DOMAIN p = 1 .. last
      /\ p[last] = c /\ \A k \in DOMAIN o : p[k] = o[k]
  BY AppendProperties
<1>3. ~(Lines!Adds(c, n) /\ Lines!Removes(c, n))
  BY DEF Lines!Adds, Lines!Removes
<1> HIDE DEF p
<1>4. CASE Lines!Adds(c, n)
  <2>1. last \in DOMAIN p /\ Lines!Adds(p[last], n)
    BY <1>2, <1>4
  <2>2. \A r \in DOMAIN p : Lines!Removes(p[r], n) => last > r
    BY <1>2, <1>3, <1>4
  <2>3. IsKnown(p)
    BY <2>1, <2>2
  <2> QED BY <1>1, <1>4, <2>3 DEF p
<1>5. CASE Lines!Removes(c, n)
  <2>1. last \in DOMAIN p /\ Lines!Removes(p[last], n)
        /\ \A k \in DOMAIN p : ~(k > last)
    BY <1>2, <1>5
  <2>2. ~IsKnown(p)
    BY <2>1
  <2> QED BY <1>1, <1>3, <1>5, <2>2 DEF p
<1>6. CASE ~Lines!Adds(c, n) /\ ~Lines!Removes(c, n)
  <2>1. \A k \in DOMAIN p : Lines!Adds(p[k], n) <=> k \in DOMAIN o /\ Lines!Adds(o[k], n)
    BY <1>2, <1>6
  <2>2. \A k \in DOMAIN p :
          Lines!Removes(p[k], n) <=> k \in DOMAIN o /\ Lines!Removes(o[k], n)
    BY <1>2, <1>6
  <2>3. \A k \in DOMAIN o : k \in DOMAIN p
    BY <1>2
  <2>4. IsKnown(p) <=> IsKnown(o)
    BY <2>1, <2>2, <2>3
  <2> QED BY <1>1, <1>6, <2>4 DEF p
<1> QED BY <1>4, <1>5, <1>6

\* known is what the manual's reading of the commands gives.
THEOREM KnownInvariant == Spec => []KnownInv
<1>1. Init => KnownInv
  BY DEF Init, KnownInv, Lines!Known
<1>2. TypeOK /\ KnownInv /\ [Next]_vars => KnownInv'
  <2> SUFFICES ASSUME TypeOK, KnownInv, [Next]_vars PROVE KnownInv'
    OBVIOUS
  <2>1. CASE Execute
    <3>1. /\ out' = Append(out, cmd) /\ known' = KnownAfter /\ list' = list
          /\ out \in Seq(Range(out) \cup {cmd})
      BY <2>1 DEF Execute, TypeOK
    <3>2. ASSUME list PROVE known' = Lines!Known(out')
      <4>1. \A n : n \in Lines!Known(out')
                     <=> \/ Lines!Adds(cmd, n)
                         \/ ~Lines!Removes(cmd, n) /\ n \in Lines!Known(out)
        BY <3>1, OneMoreCommand
      <4>2. \A n : n \in known'
                     <=> \/ Lines!Adds(cmd, n)
                         \/ ~Lines!Removes(cmd, n) /\ n \in known
        BY <3>1, <3>2 DEF KnownAfter, Lines!Adds, Lines!Removes
      <4> QED BY <3>2, <4>1, <4>2 DEF KnownInv
    <3>3. ~list => known' = known
      BY <3>1 DEF KnownAfter
    <3> QED BY <3>1, <3>2, <3>3 DEF KnownInv
  <2>2. CASE ~Execute
    <3>1. UNCHANGED <<out, known, list>>
      BY <2>2
      DEF Next, vars, Lex, NewLines, EndOfFile, Keyword, Dispatch, Name, Option,
        IntArg, StrArg, BlockOpen, TooManyTypes, TypeBegins, Extension, Slash,
        Subtype, TypeEnds, Script, BlockClose, Fail, End, Unexpected, CheckShell
    <3> QED BY <3>1 DEF KnownInv, Lines!Known
  <2> QED BY <2>1, <2>2
<1> QED BY <1>1, <1>2, TypeCorrect, PTL DEF Spec

\* A set of places has a last one.
LEMMA Greatest ==
  ASSUME NEW L \in Nat, NEW T, T \subseteq 1 .. L, T # {}
  PROVE  \E x \in T : \A y \in T : x >= y
<1> DEFINE R == {L - y : y \in T}
<1>1. R \subseteq Nat /\ R # {}
  <2>1. \A y \in T : y \in Nat /\ L - y \in Nat
    OBVIOUS
  <2> QED BY <2>1
<1>2. PICK r \in R : \A s \in R : r <= s
  BY <1>1, Least
<1>3. PICK x \in T : r = L - x
  OBVIOUS
<1>4. ASSUME NEW y \in T PROVE y \in Int /\ x \in Int /\ L - x <= L - y
  <2>1. L - y \in R
    OBVIOUS
  <2>2. r <= L - y
    BY <1>2, <2>1
  <2> QED BY <1>3, <2>2
<1>5. \A y \in T : x >= y
  BY <1>4
<1> QED BY <1>5

SetsShell(c) == c.op = <<"set">> /\ c.name = <<"shell">>

\* The shell that is set after one more command.
LEMMA ShellAfter ==
  ASSUME NEW S, NEW o \in Seq(S), NEW c \in S
  PROVE  Lines!Shell(Append(o, c))
           = IF SetsShell(c) THEN c.arg.s ELSE Lines!Shell(o)
<1> DEFINE p == Append(o, c)
           last == Len(o) + 1
           Sets(q) == {k \in DOMAIN q : SetsShell(q[k])}
           Latest(q) == IF Sets(q) = {} THEN DefaultShell
                        ELSE q[Lines!Max(Sets(q))].arg.s
<1>1. \A q : Lines!Shell(q) = Latest(q)
  BY DEF Lines!Shell, SetsShell
<1>2. /\ Len(o) \in Nat /\ DOMAIN o = 1 .. Len(o) /\ DOMAIN p = 1 .. last
      /\ p[last] = c /\ \A k \in DOMAIN o : p[k] = o[k]
  BY AppendProperties
<1> HIDE DEF p
<1>3. CASE SetsShell(c)
  <2>1. last \in Sets(p) /\ \A k \in Sets(p) : k \in Nat /\ last >= k
    BY <1>2, <1>3
  <2>2. Lines!Max(Sets(p)) \in Sets(p) /\ \A k \in Sets(p) : Lines!Max(Sets(p)) >= k
    BY <2>1 DEF Lines!Max
  <2>3. Lines!Max(Sets(p)) = last
    <3>1. Lines!Max(Sets(p)) >= last /\ last >= Lines!Max(Sets(p)) /\ Lines!Max(Sets(p)) \in Nat
      BY <2>1, <2>2
    <3> QED BY <1>2, <3>1
  <2>4. Latest(p) = c.arg.s
    BY <1>2, <2>1, <2>3
  <2> QED BY <1>1, <1>3, <2>4 DEF p
<1>4. CASE ~SetsShell(c)
  <2>1. Sets(p) = Sets(o)
    BY <1>2, <1>4
  <2>2. ASSUME Sets(o) # {} PROVE p[Lines!Max(Sets(p))] = o[Lines!Max(Sets(o))]
    <3>1. \E x \in Sets(o) : \A y \in Sets(o) : x >= y
      BY <1>2, <2>2, Greatest
    <3>2. Lines!Max(Sets(o)) \in DOMAIN o
      BY <3>1 DEF Lines!Max
    <3> QED BY <1>2, <2>1, <3>2
  <2>3. Latest(p) = Latest(o)
    BY <2>1, <2>2
  <2> QED BY <1>1, <1>4, <2>3 DEF p
<1> QED BY <1>3, <1>4

\* shell is the last one that was set.
THEOREM ShellInvariant == Spec => []ShellInv
<1>1. Init => ShellInv
  BY DEF Init, ShellInv, Lines!Shell
<1>2. TypeOK /\ ShellInv /\ [Next]_vars => ShellInv'
  <2> SUFFICES ASSUME TypeOK, ShellInv, [Next]_vars PROVE ShellInv'
    OBVIOUS
  <2>1. CASE Execute
    <3>1. /\ out' = Append(out, cmd)
          /\ shell' = IF SetsShell(cmd) THEN cmd.arg.s ELSE shell
          /\ out \in Seq(Range(out) \cup {cmd})
      BY <2>1 DEF Execute, SetsShell, TypeOK
    <3>2. Lines!Shell(out')
            = IF SetsShell(cmd) THEN cmd.arg.s ELSE Lines!Shell(out)
      BY <3>1, ShellAfter
    <3> QED BY <3>1, <3>2 DEF ShellInv
  <2>2. CASE ~Execute
    <3>1. UNCHANGED <<out, shell>>
      BY <2>2
      DEF Next, vars, Lex, NewLines, EndOfFile, Keyword, Dispatch, Name, Option,
        IntArg, StrArg, BlockOpen, TooManyTypes, TypeBegins, Extension, Slash,
        Subtype, TypeEnds, Script, BlockClose, Fail, End, Unexpected, CheckShell
    <3> QED BY <3>1 DEF ShellInv, Lines!Shell
  <2> QED BY <2>1, <2>2
<1> QED BY <1>1, <1>2, TypeCorrect, PTL DEF Spec

Status == IF pc \in {"ok", "error"} THEN pc ELSE "reading"

\* A step of loading is a step of what the manual says, or none: only Execute
\* executes, what it executes is legal, and only CheckShell ends well.
LEMMA StepImplements ==
  ASSUME TypeOK, PlaceInv, KnownInv, ShellInv, [Next]_vars
  PROVE  Lines!AnyNext \/ UNCHANGED <<list, out, Status>>
<1> USE DEF Status
<1>1. CASE Execute
  <2>1. Status = "reading" /\ Status' = "reading" /\ list' = list
        /\ out' = Append(out, cmd) /\ Lines!Legal(cmd)
    BY <1>1 DEF Execute, NotFound, PlaceInv, KnownInv, Lines!Legal, Goto
  <2>2. out' # out /\ out'[Len(out')] = cmd
    <3>1. out \in Seq(Range(out) \cup {cmd})
      BY DEF TypeOK
    <3>2. Len(Append(out, cmd)) = Len(out) + 1 /\ Len(out) \in Nat
          /\ Append(out, cmd)[Len(out) + 1] = cmd
      BY <3>1, AppendProperties
    <3> QED BY <2>1, <3>2
  <2> QED BY <2>1, <2>2 DEF Lines!AnyNext, Lines!Obey
<1>2. CASE CheckShell
  <2>1. Status = "reading" /\ list' = list /\ out' = out
        /\ Status' = IF shell \in Installed THEN "ok" ELSE "error"
    BY <1>2 DEF CheckShell, Goto
  <2> QED
    BY <2>1 DEF ShellInv, Lines!AnyNext, Lines!Accept, Lines!GiveUp
<1>3. CASE Next /\ ~Execute /\ ~CheckShell
  <2>1. out' = out /\ list' = list
    BY <1>3
    DEF Next, Lex, NewLines, EndOfFile, Keyword, Dispatch, Name, Option,
      IntArg, StrArg, BlockOpen, TooManyTypes, TypeBegins, Extension, Slash,
      Subtype, TypeEnds, Script, BlockClose, Fail, End, Unexpected
  <2>2. CASE Lex
    BY <2>1, <2>2 DEF Lex
  <2>3. CASE ~Lex
    <3>1. pc \notin {"ok", "error"}
      BY <1>3, <2>3
      DEF Next, NewLines, EndOfFile, Keyword, Dispatch, Name, Option,
        IntArg, StrArg, BlockOpen, TooManyTypes, TypeBegins, Extension, Slash,
        Subtype, TypeEnds, Script, BlockClose, Fail, End, Unexpected, Expected
    <3>2. pc' # "ok"
      <4>1. Option => pc' # "ok"
        BY ConfigAssumption DEF Option, Goto, Reject
      <4>2. Name => pc' # "ok"
        BY DEF Name, PlaceInv, AfterName, Commands, Consume
      <4> QED
        BY <1>3, <2>3, <4>1, <4>2
        DEF Next, NewLines, EndOfFile, Keyword, Dispatch,
          IntArg, StrArg, BlockOpen, TooManyTypes, TypeBegins, Extension, Slash,
          Subtype, TypeEnds, Script, BlockClose, Fail, End, Unexpected, Consume,
          Goto, Reject
    <3> QED BY <2>1, <3>1, <3>2 DEF Lines!AnyNext, Lines!GiveUp
  <2> QED BY <2>2, <2>3
<1>4. CASE UNCHANGED vars
  BY <1>4 DEF vars
<1> QED BY <1>1, <1>2, <1>3, <1>4

\* Loading a file implements what the manual says of any file, whatever is in
\* it (checked as ImplementsAny in run config_files).
THEOREM ImplementsAnyFile == Spec => ImplementsAny
<1>1. Init => Lines!Init
  BY DEF Init, Lines!Init
<1>2. TypeOK /\ PlaceInv /\ KnownInv /\ ShellInv /\ [Next]_vars
      => [Lines!AnyNext]_<<list, out, Status>>
  BY StepImplements
<1> QED
  BY <1>1, <1>2, TypeCorrect, KnownInvariant, ShellInvariant, PTL
  DEF Spec, ImplementsAny, Lines!AnySpec, Status

-----------------------------------------------------------------------------
LEMMA Ranks ==
  /\ \A p \in Places : PlaceRank(p) \in 0 .. 4 /\ Behind(p) \in 1 .. 3
  /\ \A s \in {"blanks", "comments", "comment"} : StageRank(s) \in 1 .. 3
BY DEF Places, PlaceRank, Behind, StageRank

LEMMA NoWrap ==
  ASSUME NEW n \in Nat, NEW w \in Nat, n < w
  PROVE  n % w = n
OBVIOUS

\* Outside of comments, and as long as it waits for a token, the lexer is not
\* behind what EndInv allows.
LEMMA Waiting ==
  ASSUME TypeOK, EndInv, stage # "comment", tok = NoTok
  PROVE  pos \in Nat /\ pos <= Len(file.text) + Behind(pc) /\ Behind(pc) \in 1 .. 3
<1>1. ~Got("EOF") /\ ~Ready
  BY DEF Got, Ready, NoTok, Tok
<1>2. pos \in 0 .. WrapAt - 1 /\ WrapAt \in Nat
  BY LexerAssumption DEF TypeOK
<1> QED BY <1>1, <1>2, Ranks DEF EndInv, TypeOK

\* A token that was read.
Reads ==
  \E p \in Nat :
    /\ pos' = p /\ pos < p
    /\ file' = file /\ stage = "comments" /\ stage' = "blanks"
    /\ tok = NoTok /\ tok' # NoTok /\ Len(queue') <= 2
    /\ tok' = Tok("EOF") => p = pos + 1
    /\ tok' # Tok("EOF") => p <= Len(file.text) + 1

LEMMA ReadsToken ==
  ASSUME TypeOK, QueueInv, EndInv, Reading, NEW t, NEW p \in Nat, Return(t, p),
         Len(queue') <= 2, t # NoTok, pos < p,
         \/ t = Tok("EOF") /\ p = pos + 1
         \/ t # Tok("EOF") /\ p <= Len(file.text) + 1
  PROVE  Reads
<1>1. stage = "comments" /\ tok = NoTok
  BY DEF Reading, QueueInv
<1>2. pos \in Nat /\ pos <= Len(file.text) + 3
  BY <1>1, Waiting, FileText
<1>3. p < WrapAt /\ WrapAt \in Nat
  BY <1>2, FileText, LexerAssumption DEF TypeOK
<1>4. pos' = p
  BY <1>3, NoWrap DEF Return
<1> QED BY <1>1, <1>4 DEF Return, Reads

LEMMA ReadsOn ==
  ASSUME TypeOK, QueueInv, EndInv, GetToken, ~Dequeue, ~SkipBlanks,
         ~BeginComment, ~SkipComment
  PROVE  Reads
<1> DEFINE L == Len(file.text)
<1>1. /\ L \in Nat /\ pos \in Nat
      /\ "EOF" \notin NewLine /\ "EOF" \notin Symbol
      /\ "EOF" \notin Digits /\ "EOF" \notin NotQuote
  <2>1. pos \in Nat /\ L \in Nat
    BY FileText, LexerAssumption DEF TypeOK
  <2>2. "EOF" \notin Words /\ "EOF" \notin Digits /\ "EOF" \notin Marks
    BY LexerAssumption DEF Digits, Marks
  <2> QED BY <2>1, <2>2 DEF NewLine, Symbol, NotQuote, Units
<1>2. Unsigned \in Nat /\ pos <= Unsigned
  BY <1>1 DEF Unsigned
<1>3. queue = <<>> \/ ~Reading
  BY DEF Reading, QueueInv
<1>4. \A s : /\ Str(s) # NoTok /\ Str(s) # Tok("EOF")
             /\ Int_(s) # NoTok /\ Int_(s) # Tok("EOF")
  BY DEF Str, Int_, NoTok, Tok
<1>5. ASSUME Reading, UNCHANGED queue PROVE Len(queue') <= 2
  BY <1>3, <1>5
<1>6. CASE ReadPunctuation
  <2>1. PICK c \in DOMAIN Punctuation : c = Char(pos)
    BY <1>6 DEF ReadPunctuation
  <2>2. Return(Tok(Punctuation[c]), pos + 1) /\ Reading /\ Len(queue') <= 2
    BY <1>5, <1>6, <2>1 DEF ReadPunctuation
  <2>3. Tok(Punctuation[c]) # NoTok
    BY DEF Punctuation, Tok, NoTok
  <2>4. CASE c = "EOF"
    <3>1. Tok(Punctuation[c]) = Tok("EOF")
      BY <2>4 DEF Punctuation
    <3> QED BY <1>1, <2>2, <2>3, <3>1, ReadsToken
  <2>5. CASE c # "EOF"
    <3>1. Tok(Punctuation[c]) # Tok("EOF")
      BY <2>5 DEF Punctuation, Tok
    <3>2. pos + 1 <= L + 1
      BY <1>1, <2>1, <2>5, CharType
    <3> QED BY <1>1, <2>2, <2>3, <3>1, <3>2, ReadsToken
  <2> QED BY <2>4, <2>5
<1>7. CASE ReadNewLine
  <2>1. Run(NewLine, pos) \in Nat /\ Run(NewLine, pos) > 0
        /\ pos + Run(NewLine, pos) <= L
    BY <1>1, <1>7, RunMoves DEF ReadNewLine
  <2>2. Tok("NEW_LN") # NoTok /\ Tok("NEW_LN") # Tok("EOF")
    BY DEF Tok, NoTok
  <2>3. Return(Tok("NEW_LN"), pos + Run(NewLine, pos)) /\ Reading
        /\ Len(queue') <= 2
    BY <1>5, <1>7 DEF ReadNewLine
  <2> QED BY <1>1, <2>1, <2>2, <2>3, ReadsToken
<1>8. CASE ReadSymbol
  <2> DEFINE n == Run(Symbol, pos)
  <2>1. n \in Nat /\ n > 0 /\ pos + n <= L
    <3>1. Char(pos) \in Symbol
      BY <1>8 DEF ReadSymbol, Symbol
    <3> QED BY <1>1, <3>1, RunMoves
  <2>2. Return(Str(Text(pos, n)), pos + n) /\ Reading /\ Len(queue') <= 2
    BY <1>5, <1>8 DEF ReadSymbol
  <2> QED BY <1>1, <1>4, <2>1, <2>2, ReadsToken
<1>9. CASE ReadInt
  <2> DEFINE n == Run(Digits, Unsigned)
  <2>1. n \in Nat /\ n > 0 /\ Unsigned + n <= L
    BY <1>1, <1>2, <1>9, RunMoves DEF ReadInt
  <2>2. Return(Number(Text(Unsigned, n)), Unsigned + n) /\ Reading
        /\ Len(queue') <= 2
    BY <1>5, <1>9 DEF ReadInt
  <2>3. \A s : Number(s) # NoTok /\ Number(s) # Tok("EOF")
    BY <1>4 DEF Number
  <2> QED BY <1>1, <1>2, <2>1, <2>2, <2>3, ReadsToken
<1>10. CASE ReadBlock
  <2> DEFINE last == Min(Closings(Unsigned + 2))
  <2>1. last \in Nat /\ Unsigned + 2 <= last /\ last < L
    BY <1>2, <1>10, LastOf DEF ReadBlock
  <2>2. PICK s : Return(Tok("BLK_OPEN"), last + 2) /\ Reading
                 /\ queue' = <<Str(s), Tok("BLK_CLS")>>
    BY <1>10 DEF ReadBlock
  <2>3. Tok("BLK_OPEN") # NoTok /\ Tok("BLK_OPEN") # Tok("EOF")
    BY DEF Tok, NoTok
  <2>4. Len(queue') <= 2
    BY <2>2
  <2> HIDE DEF last
  <2> QED BY <1>1, <1>2, <2>1, <2>2, <2>3, <2>4, ReadsToken
<1>11. CASE ReadString
  <2> DEFINE n == Run(NotQuote, Unsigned + 1)
  <2>1. n \in Nat /\ (n > 0 => (Unsigned + 1) + n <= L)
    <3>1. Unsigned + 1 \in Nat
      BY <1>2
    <3> QED BY <1>1, <3>1, RunBounds
  <2>2. Return(Str(Text(Unsigned + 1, n)), Unsigned + n + 2) /\ Reading
        /\ Len(queue') <= 2
    BY <1>5, <1>11 DEF ReadString
  <2>3. Unsigned < L
    BY <1>2, <1>11, CharType DEF ReadString
  <2>4. Unsigned + n + 2 \in Nat /\ pos < Unsigned + n + 2
        /\ Unsigned + n + 2 <= L + 1
    BY <1>1, <1>2, <2>1, <2>3
  <2> QED BY <1>4, <2>2, <2>4, ReadsToken
<1>12. CASE ReadError
  <2>1. Return(Tok("ERR"), pos + 1) /\ Reading /\ Len(queue') <= 2
    BY <1>5, <1>12 DEF ReadError
  <2>2. Tok("ERR") # NoTok /\ Tok("ERR") # Tok("EOF")
    BY DEF Tok, NoTok
  <2>3. pos < L
    <3>1. CASE BlockOpens(Unsigned)
      <4>1. Unsigned < L
        BY <1>2, <3>1, CharType DEF BlockOpens
      <4> QED BY <1>1, <1>2, <4>1
    <3>2. CASE ~BlockOpens(Unsigned)
      BY <1>1, <1>12, <3>2, CharType DEF ReadError, Punctuation
    <3> QED BY <3>1, <3>2
  <2> QED BY <1>1, <2>1, <2>2, <2>3, ReadsToken
<1> QED
  BY <1>6, <1>7, <1>8, <1>9, <1>10, <1>11, <1>12 DEF GetToken

\* The parser takes its token and waits for another one, and goes on behind
\* TOK_EOF only where that is allowed ...
Consumes ==
  \E next \in Places \ {"ok", "error"} :
    /\ Ready /\ tok' = NoTok /\ pc' = next
    /\ Got("EOF") => Behind(pc) < Behind(next)

\* ... or is one step further with the token it has.
GoesFurther ==
  \E next \in Places :
    /\ Ready /\ tok' = tok /\ pc' = next
    /\ PlaceRank(next) < PlaceRank(pc) /\ Behind(pc) <= Behind(next)

LEMMA ParserMoves ==
  ASSUME TypeOK, PlaceInv, Next, ~Lex
  PROVE  UNCHANGED <<file, pos, stage, queue>> /\ (Consumes \/ GoesFurther)
<1> DEFINE Still == UNCHANGED <<file, pos, stage, queue>>
<1>1. ASSUME NEW next \in Places \ {"ok", "error"}, Consume(next), Ready,
             ~Got("EOF") \/ Behind(pc) < Behind(next)
      PROVE  Still /\ Consumes
  BY <1>1 DEF Consume, Consumes
<1>2. ASSUME NEW next \in Places, Goto(next), Ready,
             PlaceRank(next) < PlaceRank(pc), Behind(pc) <= Behind(next)
      PROVE  Still /\ GoesFurther
  BY <1>2 DEF Goto, GoesFurther
<1>3. ASSUME Reject, Ready, pc \notin {"ok", "error"}
      PROVE  Still /\ GoesFurther
  <2>1. PlaceRank("error") = 0 /\ PlaceRank(pc) \in 1 .. 4
        /\ Behind("error") = 3 /\ Behind(pc) \in 1 .. 3
    BY <1>3 DEF TypeOK, Places, PlaceRank, Behind
  <2>2. "error" \in Places /\ Goto("error")
    BY <1>3 DEF Reject, Places
  <2> QED BY <1>2, <1>3, <2>1, <2>2
<1>4. ASSUME GotStr \/ GotInt PROVE Ready /\ ~Got("EOF")
  BY <1>4 DEF GotStr, GotInt, Ready, NoTok, Got, Tok
<1>5. ASSUME NEW t \in TokenTypes \ {"NULL", "EOF"}, Got(t)
      PROVE  Ready /\ ~Got("EOF")
  BY <1>5 DEF Ready, NoTok, Got, Tok
<1>6. CASE NewLines \/ BlockOpen \/ Slash \/ BlockClose
  <2>1. Ready /\ ~Got("EOF")
    BY <1>5, <1>6 DEF NewLines, BlockOpen, Slash, BlockClose, TokenTypes
  <2> QED
    BY <1>1, <1>6, <2>1 DEF NewLines, BlockOpen, Slash, BlockClose, Places
<1>7. CASE Keyword \/ StrArg \/ Extension \/ Script
  BY <1>1, <1>4, <1>7 DEF Keyword, StrArg, Extension, Script, Places
<1>8. CASE Name
  <2>1. AfterName[cmd.op] \in Places \ {"ok", "error"}
    BY <1>8 DEF Name, PlaceInv, AfterName, Commands, Places
  <2> QED BY <1>1, <1>4, <1>8, <2>1 DEF Name
<1>9. CASE TypeBegins \/ Subtype
  <2>1. Ready /\ ~Got("EOF")
    BY <1>4, <1>5, <1>9 DEF TypeBegins, Subtype, TokenTypes
  <2> QED BY <1>1, <1>9, <2>1 DEF TypeBegins, Subtype, Places
<1>10. CASE EndOfFile
  <2>1. Ready
    BY <1>10 DEF EndOfFile, Ready, Got, Tok, NoTok
  <2>2. Behind(pc) < Behind("shell")
    BY <1>10 DEF EndOfFile, Behind
  <2> QED BY <1>1, <1>10, <2>1, <2>2 DEF EndOfFile, Places
<1>11. CASE End
  <2>1. CASE Got("EOF") /\ Consume("command")
    <3>1. Ready
      BY <2>1 DEF Ready, Got, Tok, NoTok
    <3>2. Behind(pc) < Behind("command")
      BY <1>11 DEF End, Behind
    <3> QED BY <1>1, <2>1, <3>1, <3>2 DEF Places
  <2>2. CASE Got("NEW_LN") /\ Consume("newlines")
    BY <1>1, <1>5, <2>2 DEF Places, TokenTypes
  <2> QED BY <1>11, <2>1, <2>2 DEF End
<1>12. CASE IntArg
  <2>1. CASE GotInt
    BY <1>1, <1>4, <1>12, <2>1 DEF IntArg, Places
  <2>2. CASE ~GotInt
    BY <1>2, <1>12, <2>2 DEF IntArg, Places, PlaceRank, Behind
  <2> QED BY <2>1, <2>2
<1>13. CASE Dispatch
  <2>1. CASE Reject
    BY <1>3, <1>13, <2>1 DEF Dispatch
  <2>2. CASE Goto("name")
    BY <1>2, <1>13, <2>2 DEF Dispatch, Places, PlaceRank, Behind
  <2> QED BY <1>13, <2>1, <2>2 DEF Dispatch
<1>14. CASE Option
  <2>1. CASE Reject
    BY <1>3, <1>14, <2>1 DEF Option
  <2>2. CASE Goto("bool") \/ Goto("str")
    BY <1>2, <1>14, <2>2 DEF Option, Places, PlaceRank, Behind
  <2> QED BY <1>14, <2>1, <2>2, ConfigAssumption DEF Option
<1>15. CASE TooManyTypes \/ Fail \/ Unexpected
  BY <1>3, <1>15 DEF TooManyTypes, Fail, Unexpected, Expected
<1>16. CASE TypeEnds \/ Execute \/ CheckShell
  BY <1>2, <1>16 DEF TypeEnds, Execute, CheckShell, Places, PlaceRank, Behind
<1> QED
  BY <1>6, <1>7, <1>8, <1>9, <1>10, <1>11, <1>12, <1>13, <1>14, <1>15, <1>16
  DEF Next

\* What was queued is read by the command that the block belongs to.
LEMMA Dequeued ==
  ASSUME QueueInv, EndInv, Dequeue
  PROVE  /\ pc \in {"script", "close"} /\ tok' # NoTok /\ tok' # Tok("EOF")
         /\ queue' = Tail(queue) /\ queue # <<>>
         /\ queue = <<Str(queue[1].s), Tok("BLK_CLS")>> \/ queue = <<Tok("BLK_CLS")>>
<1>1. tok = NoTok /\ queue # <<>> /\ tok' = Head(queue) /\ queue' = Tail(queue)
  BY DEF Dequeue
<1>2. queue = <<Str(queue[1].s), Tok("BLK_CLS")>> \/ queue = <<Tok("BLK_CLS")>>
  BY <1>1 DEF QueueInv, Queued, Ready, NoTok, Tok, Got
<1>3. pc \in {"script", "close"}
  BY <1>1 DEF QueueInv, Ready, Got, NoTok, Tok
<1>4. \A x : /\ Str(x) # Tok("EOF") /\ Tok("BLK_CLS") # Tok("EOF")
             /\ Str(x) # NoTok /\ Tok("BLK_CLS") # NoTok
  BY DEF Str, Tok, NoTok
<1>5. Head(queue) # NoTok /\ Head(queue) # Tok("EOF")
  BY <1>2, <1>4
<1> QED BY <1>1, <1>2, <1>3, <1>5

\* The places of a step, without the primes.
EndOf(p, l, t, c) ==
  p <= l + (IF t = Tok("EOF") THEN Behind(c) + 1
            ELSE IF t # NoTok THEN 1 ELSE Behind(c))

LEMMA EndInvOf ==
  EndInv <=> /\ pc = "ok" => tok # NoTok
             /\ stage # "comment" => EndOf(pos, Len(file.text), tok, pc)
BY DEF EndInv, EndOf, Ready, Got

\* The lexer is never far behind the end of the file outside of a comment.
LEMMA EndInvariant == Spec => []EndInv
<1>1. Init => EndInv
  <2> SUFFICES ASSUME Init PROVE EndInv
    OBVIOUS
  <2>1. Len(file.text) \in Nat /\ pos = 0 /\ tok = NoTok /\ pc = "newlines"
    BY LexerAssumption DEF Init, LexInit
  <2>2. Behind("newlines") = 1
    BY DEF Behind
  <2> QED BY <2>1, <2>2 DEF EndInv, Got, Ready, NoTok, Tok
<1>2. TypeOK /\ TypeOK' /\ QueueInv /\ PlaceInv /\ EndInv /\ [Next]_vars
      => EndInv'
  <2> SUFFICES ASSUME TypeOK, TypeOK', QueueInv, PlaceInv, EndInv, [Next]_vars
               PROVE  EndInv'
    OBVIOUS
  <2> DEFINE L == Len(file.text)
  <2>0. L \in Nat /\ pos \in Nat /\ pc \in Places
    BY FileText, LexerAssumption DEF TypeOK
  <2>a. NoTok # Tok("EOF")
    BY DEF NoTok, Tok
  <2>1. CASE UNCHANGED vars
    BY <2>1 DEF vars, lexVars, EndInv, Ready, Got
  <2>2. CASE Lex
    <3>1. pc' = pc /\ file' = file /\ tok = NoTok /\ pc # "ok"
      <4>1. pc' = pc /\ GetToken
        BY <2>2 DEF Lex
      <4>2. tok = NoTok /\ file' = file
        BY <4>1
        DEF GetToken, Dequeue, SkipBlanks, BeginComment, SkipComment, Reading,
          ReadPunctuation, ReadNewLine, ReadSymbol, ReadInt, ReadBlock,
          ReadString, ReadError, QueueInv, Return
      <4> QED BY <4>1, <4>2 DEF EndInv, Ready
    <3>2. SUFFICES stage' # "comment" => EndOf(pos', L, tok', pc)
      <4>1. EndInv' <=> /\ pc' = "ok" => tok' # NoTok
                        /\ stage' # "comment"
                             => EndOf(pos', Len(file'.text), tok', pc')
        BY DEF EndInv, EndOf, Ready, Got
      <4> QED BY <3>1, <4>1
    <3>3. Behind(pc) \in 1 .. 3
      BY <2>0, Ranks
    <3>4. CASE Dequeue
      <4>1. pc \in {"script", "close"} /\ tok' # Tok("EOF") /\ tok' # NoTok
            /\ pos' = pos /\ stage = "blanks"
        BY <3>1, <3>4, Dequeued DEF Dequeue
      <4>2. Behind(pc) = 1
        BY <4>1 DEF Behind
      <4>3. pos <= L + 1
        BY <3>1, <4>1, <4>2, Waiting
      <4> QED BY <4>1, <4>3 DEF EndOf
    <3>5. CASE SkipBlanks
      <4> DEFINE n == Run(Blank, pos)
      <4>1. pos <= L + Behind(pc)
        BY <3>1, <3>5, Waiting DEF SkipBlanks
      <4>2. n \in Nat /\ (n > 0 => pos + n <= L)
        <5>1. "EOF" \notin Blank
          BY DEF Blank
        <5> QED BY <2>0, <5>1, RunBounds
      <4>3. pos + n <= L + Behind(pc)
        BY <2>0, <3>3, <4>1, <4>2
      <4>4. EndOf(pos + n, L, NoTok, pc)
        BY <2>a, <4>3 DEF EndOf
      <4> QED BY <3>1, <3>5, <4>4 DEF SkipBlanks
    <3>6. CASE BeginComment
      BY <3>6 DEF BeginComment
    <3>7. CASE SkipComment
      <4>1. SUFFICES ASSUME Char(pos) = "nl" PROVE EndOf(pos', L, tok', pc)
        BY <3>7 DEF SkipComment
      <4>2. pos + 1 <= L
        BY <2>0, <4>1, CharType
      <4>3. (pos + 1) % WrapAt = pos + 1
        <5>1. pos + 1 \in Nat /\ pos + 1 < WrapAt /\ WrapAt \in Nat
          BY <2>0, <4>2, LexerAssumption DEF TypeOK
        <5> QED BY <5>1, NoWrap
      <4>4. EndOf(pos + 1, L, NoTok, pc)
        BY <2>0, <2>a, <3>3, <4>2 DEF EndOf
      <4> QED BY <3>1, <3>7, <4>3, <4>4 DEF SkipComment
    <3>8. CASE ~Dequeue /\ ~SkipBlanks /\ ~BeginComment /\ ~SkipComment
      <4>1. Reads
        BY <2>2, <3>8, ReadsOn DEF Lex
      <4>2. PICK p \in Nat :
              /\ pos' = p /\ tok' # NoTok /\ stage = "comments"
              /\ tok' = Tok("EOF") => p = pos + 1
              /\ tok' # Tok("EOF") => p <= L + 1
        BY <4>1 DEF Reads
      <4>3. pos <= L + Behind(pc)
        BY <3>1, <4>2, Waiting
      <4>4. EndOf(p, L, tok', pc)
        BY <2>0, <3>3, <4>2, <4>3 DEF EndOf
      <4> QED BY <4>2, <4>4
    <3> QED BY <3>4, <3>5, <3>6, <3>7, <3>8
  <2>3. CASE Next /\ ~Lex
    <3>1. UNCHANGED <<file, pos, stage>> /\ (Consumes \/ GoesFurther)
      BY <2>3, ParserMoves
    <3>2. SUFFICES /\ pc' = "ok" => tok' # NoTok
                   /\ stage # "comment" => EndOf(pos, L, tok', pc')
      <4>1. EndInv' <=> /\ pc' = "ok" => tok' # NoTok
                        /\ stage' # "comment"
                             => EndOf(pos', Len(file'.text), tok', pc')
        BY DEF EndInv, EndOf, Ready, Got
      <4> QED BY <3>1, <4>1
    <3>3. Behind(pc) \in 1 .. 3
      BY <2>0, Ranks
    <3>4. stage # "comment" => EndOf(pos, L, tok, pc)
      BY EndInvOf
    <3>5. CASE Consumes
      <4>1. PICK next \in Places \ {"ok", "error"} :
              /\ tok # NoTok /\ tok' = NoTok /\ pc' = next
              /\ tok = Tok("EOF") => Behind(pc) < Behind(next)
        BY <3>5 DEF Consumes, Ready, Got
      <4>2. Behind(next) \in 1 .. 3
        BY Ranks
      <4>3. stage # "comment" => pos <= L + Behind(next)
        BY <2>0, <3>3, <3>4, <4>1, <4>2 DEF EndOf
      <4> QED BY <2>a, <4>1, <4>2, <4>3 DEF EndOf
    <3>6. CASE GoesFurther
      <4>1. PICK next \in Places :
              tok # NoTok /\ tok' = tok /\ pc' = next /\ Behind(pc) <= Behind(next)
        BY <3>6 DEF GoesFurther, Ready
      <4>2. Behind(next) \in 1 .. 3
        BY Ranks
      <4>3. stage # "comment" => EndOf(pos, L, tok, next)
        BY <2>0, <3>3, <3>4, <4>1, <4>2 DEF EndOf
      <4> QED BY <4>1, <4>3
    <3> QED BY <3>1, <3>5, <3>6
  <2> QED BY <2>1, <2>2, <2>3
<1> QED BY <1>1, <1>2, TypeCorrect, PTL DEF Spec

\* The parts of the measure.
Sum(l, p, q, t, s, r) == 19 * (l + 4 - p) + 6 * q + t + s + r

Summands(l, p, q, t, s, r) ==
  /\ l = Len(file.text) /\ p = pos /\ q = Len(queue)
  /\ t = (IF Ready THEN 5 ELSE 0) /\ s = StageRank(stage) /\ r = PlaceRank(pc)
  /\ StepsLeft = Sum(l, p, q, t, s, r)

Summed ==
  \E l \in Nat, p \in Nat, q \in 0 .. 2, t \in {0, 5}, s \in 1 .. 3, r \in 0 .. 4 :
    Summands(l, p, q, t, s, r)

LEMMA Parts == TypeOK => Summed
<1> SUFFICES ASSUME TypeOK PROVE Summed
  OBVIOUS
<1>1. Len(file.text) \in Nat /\ pos \in Nat
  BY FileText, LexerAssumption DEF TypeOK
<1>2. Len(queue) \in 0 .. 2
  <2>1. queue \in Seq(Range(queue)) /\ Len(queue) <= 2
    BY DEF TypeOK
  <2>2. Len(queue) \in Nat
    BY <2>1, LenProperties
  <2>3. \A n \in Nat : n <= 2 => n \in 0 .. 2
    OBVIOUS
  <2> QED BY <2>1, <2>2, <2>3
<1>3. StageRank(stage) \in 1 .. 3 /\ PlaceRank(pc) \in 0 .. 4
  BY Ranks DEF TypeOK
<1>4. (IF Ready THEN 5 ELSE 0) \in {0, 5}
  OBVIOUS
<1>5. Summands(Len(file.text), pos, Len(queue), IF Ready THEN 5 ELSE 0,
               StageRank(stage), PlaceRank(pc))
  BY DEF Summands, StepsLeft, Sum
<1> QED BY <1>1, <1>2, <1>3, <1>4, <1>5 DEF Summed

Within ==
  stage # "comment" =>
    \E l \in Nat, p \in Nat : l = Len(file.text) /\ p = pos /\ p <= l + 4

LEMMA NotFar == TypeOK /\ EndInv => Within
<1> SUFFICES ASSUME TypeOK, EndInv, stage # "comment" PROVE Within
  BY DEF Within
<1>1. Len(file.text) \in Nat /\ pos \in Nat
  BY FileText, LexerAssumption DEF TypeOK
<1>2. Behind(pc) \in 1 .. 3
  BY Ranks DEF TypeOK
<1>3. pos <= Len(file.text) + 4
  BY <1>1, <1>2 DEF EndInv
<1> QED BY <1>1, <1>3 DEF Within

\* However the lexer and the parser take turns, loading comes closer to its
\* end with every step, unless it is in a comment that has no end (checked as
\* Progress in run config_files).
THEOREM ProgressAlways == Spec => Progress
<1>1. /\ TypeOK /\ QueueInv /\ PlaceInv /\ EndInv /\ Summed
      /\ Summed' /\ Within' /\ [Next]_vars
      => [\/ stage = "comment" /\ Char(pos) = "EOF"
          \/ 0 <= StepsLeft' /\ StepsLeft' < StepsLeft]_vars
  <2> SUFFICES ASSUME TypeOK, QueueInv, PlaceInv, EndInv, Summed,
                      Summed', Within', Next,
                      ~(stage = "comment" /\ Char(pos) = "EOF")
               PROVE  0 <= StepsLeft' /\ StepsLeft' < StepsLeft
    OBVIOUS
  <2>0. PICK l \in Nat, p \in Nat, q \in 0 .. 2, t \in {0, 5}, s \in 1 .. 3,
             r \in 0 .. 4 : Summands(l, p, q, t, s, r)
    BY DEF Summed
  <2>1. /\ l = Len(file.text) /\ p = pos /\ q = Len(queue)
        /\ t = (IF Ready THEN 5 ELSE 0) /\ s = StageRank(stage)
        /\ r = PlaceRank(pc) /\ StepsLeft = Sum(l, p, q, t, s, r)
    BY <2>0 DEF Summands
  <2>a. PICK l2 \in Nat, p2 \in Nat, q2 \in 0 .. 2, t2 \in {0, 5}, s2 \in 1 .. 3,
             r2 \in 0 .. 4 : Summands(l2, p2, q2, t2, s2, r2)'
    BY DEF Summed
  <2>2. /\ l2 = Len(file'.text) /\ p2 = pos' /\ q2 = Len(queue')
        /\ t2 = (IF tok' # NoTok THEN 5 ELSE 0) /\ s2 = StageRank(stage')
        /\ r2 = PlaceRank(pc') /\ StepsLeft' = Sum(l2, p2, q2, t2, s2, r2)
    BY <2>a DEF Summands, Ready
  <2>3. file' = file
    <3>1. Lex => file' = file
      BY DEF Lex, GetToken, Dequeue, SkipBlanks, BeginComment, SkipComment,
        ReadPunctuation, ReadNewLine, ReadSymbol, ReadInt, ReadBlock, ReadString,
        ReadError, Return
    <3> QED BY <3>1, ParserMoves
  <2>4. l2 = l
    BY <2>1, <2>2, <2>3
  <2> SUFFICES /\ p2 <= l + 4
               /\ 6 * q2 + t2 + s2 + r2 < 19 * (p2 - p) + 6 * q + t + s + r
    <3>1. /\ 0 <= Sum(l, p2, q2, t2, s2, r2)
          /\ Sum(l, p2, q2, t2, s2, r2) < Sum(l, p, q, t, s, r)
      BY DEF Sum
    <3> QED BY <2>1, <2>2, <2>4, <3>1
  <2>5. stage' # "comment" => p2 <= l + 4
    BY <2>2, <2>3, <2>1 DEF Within
  <2>6. StageRank("blanks") = 3 /\ StageRank("comments") = 2 /\ StageRank("comment") = 1
    BY DEF StageRank
  <2>7. CASE Lex
    <3>1. pc' = pc /\ GetToken
      BY <2>7 DEF Lex
    <3>2. r2 = r
      BY <2>1, <2>2, <3>1
    <3>3. CASE Dequeue
      <4>1. tok = NoTok /\ tok' # NoTok /\ UNCHANGED <<pos, stage>> /\ stage # "comment"
        BY <3>3, Dequeued DEF Dequeue
      <4>2. q2 = q - 1
        <5>1. queue' = Tail(queue)
              /\ (\/ queue = <<Str(queue[1].s), Tok("BLK_CLS")>>
                  \/ queue = <<Tok("BLK_CLS")>>)
          BY <3>3, Dequeued
        <5>2. CASE queue = <<Tok("BLK_CLS")>>
          <6>1. Len(queue) = 1 /\ Len(queue') = 0
            BY <5>1, <5>2
          <6> QED BY <2>1, <2>2, <6>1
        <5>3. CASE queue = <<Str(queue[1].s), Tok("BLK_CLS")>>
          <6>1. PICK x : queue = <<x, Tok("BLK_CLS")>>
            BY <5>3
          <6>2. Len(queue) = 2 /\ Len(queue') = 1
            BY <5>1, <6>1
          <6> QED BY <2>1, <2>2, <6>2
        <5> QED BY <5>1, <5>2, <5>3
      <4>3. p2 = p /\ s2 = s /\ t = 0 /\ t2 = 5
        BY <2>1, <2>2, <4>1 DEF Ready
      <4> QED BY <2>5, <3>2, <4>1, <4>2, <4>3
    <3>4. CASE SkipBlanks
      <4>1. "EOF" \notin Blank
        BY DEF Blank
      <4>2. Run(Blank, pos) \in Nat
        BY <2>1, <4>1, RunBounds
      <4>3. pos' = p + Run(Blank, pos) /\ queue' = queue /\ tok' = tok
            /\ stage = "blanks" /\ stage' = "comments"
        BY <2>1, <3>4 DEF SkipBlanks
      <4>4. p <= p2 /\ q2 = q /\ t2 = t /\ s = 3 /\ s2 = 2
        BY <2>1, <2>2, <2>6, <4>2, <4>3 DEF Ready
      <4> QED BY <2>5, <3>2, <4>3, <4>4
    <3>5. CASE BeginComment
      <4>1. pos' = pos /\ queue' = queue /\ tok' = tok
            /\ stage = "comments" /\ stage' = "comment" /\ Char(pos) = "#"
        BY <3>5 DEF BeginComment
      <4>2. p2 = p /\ q2 = q /\ t2 = t /\ s = 2 /\ s2 = 1
        BY <2>1, <2>2, <2>6, <4>1 DEF Ready
      <4>3. p < l
        BY <2>1, <4>1, CharType
      <4> QED BY <3>2, <4>2, <4>3
    <3>6. CASE SkipComment
      <4>1. p < l
        BY <2>1, <3>6, CharType DEF SkipComment
      <4>2. (p + 1) % WrapAt = p + 1
        <5>1. p + 1 < WrapAt /\ WrapAt \in Nat
          BY <2>1, <4>1, LexerAssumption DEF TypeOK
        <5> QED BY <5>1, NoWrap
      <4>3. pos' = p + 1 /\ queue' = queue /\ tok' = tok
            /\ stage = "comment" /\ stage' \in {"comment", "comments"}
        BY <2>1, <3>6, <4>2 DEF SkipComment
      <4>4. p2 = p + 1 /\ q2 = q /\ t2 = t /\ s = 1 /\ s2 \in {1, 2}
        BY <2>1, <2>2, <2>6, <4>3 DEF Ready
      <4> QED BY <3>2, <4>1, <4>4
    <3>7. CASE ~Dequeue /\ ~SkipBlanks /\ ~BeginComment /\ ~SkipComment
      <4>1. PICK n \in Nat :
              /\ pos' = n /\ pos < n /\ tok = NoTok /\ tok' # NoTok
              /\ stage = "comments" /\ stage' = "blanks"
        BY <3>1, <3>7, ReadsOn DEF Reads
      <4>2. queue = <<>>
        BY <4>1 DEF QueueInv
      <4>3. p < p2 /\ q = 0 /\ t = 0 /\ s = 2 /\ s2 = 3
        BY <2>1, <2>2, <2>6, <4>1, <4>2 DEF Ready
      <4> QED BY <2>5, <3>2, <4>1, <4>3
    <3> QED BY <3>3, <3>4, <3>5, <3>6, <3>7
  <2>8. CASE ~Lex
    <3>1. UNCHANGED <<file, pos, stage, queue>> /\ (Consumes \/ GoesFurther)
      BY <2>8, ParserMoves
    <3>2. tok # NoTok /\ stage = "blanks"
      BY <3>1 DEF Consumes, GoesFurther, Ready, QueueInv
    <3>3. p2 = p /\ q2 = q /\ s2 = s /\ t = 5 /\ p2 <= l + 4
      BY <2>1, <2>2, <2>5, <3>1, <3>2 DEF Ready
    <3>4. CASE Consumes
      <4>1. t2 = 0
        BY <2>2, <3>4 DEF Consumes
      <4> QED BY <3>3, <4>1
    <3>5. CASE GoesFurther
      <4>1. PICK next \in Places :
              tok' = tok /\ pc' = next /\ PlaceRank(next) < PlaceRank(pc)
        BY <3>5 DEF GoesFurther
      <4>2. t2 = t /\ r2 < r
        BY <2>1, <2>2, <4>1 DEF Ready
      <4> QED BY <3>3, <4>2
    <3> QED BY <3>1, <3>4, <3>5
  <2> QED BY <2>7, <2>8
<1>2. TypeOK' => Summed'
  BY Parts, PTL
<1>3. TypeOK' /\ EndInv' => Within'
  BY NotFar, PTL
<1> QED
  BY <1>1, <1>2, <1>3, Parts, TypeCorrect, EndInvariant, PTL DEF Spec, Progress
=============================================================================
