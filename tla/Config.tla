------------------------------- MODULE Config -------------------------------
(***************************************************************************)
(* Loading a configuration file (src/config.c): the parser, which executes *)
(* a command as soon as it has read it and the token after it.  Between    *)
(* two of its steps it waits for lexer_get_token().  What a command does   *)
(* to the list of previews is Previews; here it is known by its name.      *)
(***************************************************************************)
EXTENDS Lexer

CONSTANTS
  Options,        \* [name |-> "bool" or "str"]; no option is an int
  BuiltIn,        \* names of the built-in previews
  MaxTypes,       \* 16
  DefaultShell,
  Installed,      \* the shells that access() finds
  MaxCommands     \* bound on the commands that are executed

ASSUME ConfigAssumption ==
  /\ MaxTypes \in Nat \ {0} /\ MaxCommands \in Nat
  /\ \A o \in DOMAIN Options : Options[o] \in {"bool", "str"}

VARIABLES
  pc,      \* where the parser is
  cmd,     \* the command it reads
  list,    \* ctx->previews # NULL
  known,   \* the names in it
  shell,   \* ctpv.opts.shell
  out      \* history: the commands that were executed

vars == <<lexVars, pc, cmd, list, known, shell, out>>

Null == <<"NULL">>

Commands == {<<"set">>, <<"preview">>, <<"priority">>, <<"remove">>}

NoCommand ==
  [op |-> <<>>, name |-> <<>>, types |-> <<>>, arg |-> NoTok,
   script |-> <<>>]

\* TYPE_SET_EMPTY
AnyType == [ext |-> Null, type |-> Null, subtype |-> Null]

Init ==
  /\ LexInit
  /\ pc = "newlines" /\ cmd = NoCommand
  /\ list \in BOOLEAN /\ known = BuiltIn /\ shell = DefaultShell
  /\ out = <<>>

-----------------------------------------------------------------------------
Got(type) == tok = Tok(type)
GotStr == tok.type = "STR"
GotInt == tok.type = "INT"

\* The token is there.
Ready == tok # NoTok

\* next_token(), and what the parser does after it
Consume(next) ==
  /\ pc' = next
  /\ tok' = NoTok
  /\ UNCHANGED <<file, pos, stage, queue>>

\* The parser goes on with the token it has.
Goto(next) == pc' = next /\ UNCHANGED <<file, pos, stage, queue, tok>>

Reject == Goto("error") /\ opts' = FALSE

\* Mutant: the newline is looked at and not taken.
SeeNewLines ==
  /\ pc = "newlines" /\ Got("NEW_LN")
  /\ Goto("newlines")
  /\ UNCHANGED <<opts, cmd, list, known, shell, out>>

\* newlines()
NewLines ==
  /\ pc = "newlines" /\ Got("NEW_LN")
  /\ Consume("newlines")
  /\ UNCHANGED <<opts, cmd, list, known, shell, out>>

\* commands() accepts TOK_EOF
EndOfFile ==
  /\ pc \in {"newlines", "command"} /\ Got("EOF")
  /\ Consume("shell")
  /\ UNCHANGED <<opts, cmd, list, known, shell, out>>

\* command(): any string may be the command
Keyword ==
  /\ pc \in {"newlines", "command"} /\ GotStr
  /\ cmd' = [NoCommand EXCEPT !.op = tok.s]
  /\ Consume("keyword")
  /\ UNCHANGED <<opts, list, known, shell, out>>

Dispatch ==
  /\ pc = "keyword" /\ Ready
  /\ IF cmd.op \in Commands THEN Goto("name") /\ UNCHANGED opts ELSE Reject
  /\ UNCHANGED <<cmd, list, known, shell, out>>

AfterName ==
  [op \in Commands |->
     CASE op = <<"set">> -> "option" [] op = <<"preview">> -> "types"
       [] op = <<"priority">> -> "bool" [] op = <<"remove">> -> "execute"]

\* All commands begin with a name.
Name ==
  /\ pc = "name" /\ GotStr
  /\ cmd' = [cmd EXCEPT !.name = tok.s]
  /\ Consume(AfterName[cmd.op])
  /\ UNCHANGED <<opts, list, known, shell, out>>

\* get_option()
Option ==
  /\ pc = "option" /\ Ready
  /\ IF cmd.name \in DOMAIN Options
     THEN Goto(Options[cmd.name]) /\ UNCHANGED opts
     ELSE Reject
  /\ UNCHANGED <<cmd, list, known, shell, out>>

\* An integer that may be left out, also that of priority.
IntArg ==
  /\ pc = "bool" /\ Ready
  /\ IF GotInt THEN cmd' = [cmd EXCEPT !.arg = tok] /\ Consume("execute")
     ELSE cmd' = [cmd EXCEPT !.arg = Int_(1)] /\ Goto("execute")
  /\ UNCHANGED <<opts, list, known, shell, out>>

StrArg ==
  /\ pc = "str" /\ GotStr
  /\ cmd' = [cmd EXCEPT !.arg = tok]
  /\ Consume("execute")
  /\ UNCHANGED <<opts, list, known, shell, out>>

-----------------------------------------------------------------------------
\* cmd_preview(): what is no block is one more type.
BlockOpen ==
  /\ pc = "types" /\ Got("BLK_OPEN")
  /\ Consume("script")
  /\ UNCHANGED <<opts, cmd, list, known, shell, out>>

\* Mutant: the limit is tested after the type was read.
MayHaveOneMore == Len(cmd.types) <= MaxTypes

MayHaveMore == Len(cmd.types) < MaxTypes

TooManyTypes ==
  /\ pc = "types" /\ Ready /\ ~Got("BLK_OPEN") /\ ~MayHaveMore
  /\ Reject
  /\ UNCHANGED <<cmd, list, known, shell, out>>

AddType(t) == cmd' = [cmd EXCEPT !.types = Append(@, t)]

ChangeType(f, s) == cmd' = [cmd EXCEPT !.types[Len(cmd.types)][f] = s]

\* preview_type() up to its first token; from here on numbers are texts
TypeBegins ==
  /\ pc = "types" /\ MayHaveMore
  /\ opts' = TRUE
  /\ \/ Got("DOT") /\ AddType(AnyType) /\ Consume("ext")
     \/ Got("STAR") /\ AddType(AnyType) /\ Consume("slash")
     \/ /\ GotStr
        /\ AddType([AnyType EXCEPT !.type = tok.s])
        /\ Consume("slash")
  /\ UNCHANGED <<list, known, shell, out>>

\* preview_type_ext()
Extension ==
  /\ pc = "ext" /\ GotStr
  /\ ChangeType("ext", tok.s)
  /\ Consume("reset")
  /\ UNCHANGED <<opts, list, known, shell, out>>

Slash ==
  /\ pc = "slash" /\ Got("SLASH")
  /\ Consume("subtype")
  /\ UNCHANGED <<opts, cmd, list, known, shell, out>>

\* preview_type_mime_part()
Subtype ==
  /\ pc = "subtype"
  /\ \/ Got("STAR") /\ UNCHANGED cmd
     \/ GotStr /\ ChangeType("subtype", tok.s)
  /\ Consume("reset")
  /\ UNCHANGED <<opts, list, known, shell, out>>

\* Mutant: numbers stay texts.
StaysText == opts

\* reset_lexer_opts()
AfterReset == FALSE

\* preview_type() ends when the token after the type has been read.
TypeEnds ==
  /\ pc = "reset" /\ Ready
  /\ opts' = AfterReset
  /\ Goto("types")
  /\ UNCHANGED <<cmd, list, known, shell, out>>

\* The lexer has queued both the script and the end of the block.
Script ==
  /\ pc = "script" /\ GotStr
  /\ cmd' = [cmd EXCEPT !.script = tok.s]
  /\ Consume("close")
  /\ UNCHANGED <<opts, list, known, shell, out>>

BlockClose ==
  /\ pc = "close" /\ Got("BLK_CLS")
  /\ Consume("execute")
  /\ UNCHANGED <<opts, cmd, list, known, shell, out>>

-----------------------------------------------------------------------------
\* add_priority() and remove_preview() fail when there is no such preview.
NotFound ==
  /\ cmd.op \in {<<"priority">>, <<"remove">>}
  /\ list /\ cmd.name \notin known

\* Mutant: a preview that is removed is not forgotten.
KnownEver ==
  IF list /\ cmd.op = <<"preview">> /\ cmd.types # <<>>
  THEN known \cup {cmd.name} ELSE known

\* The names after the command; a preview without types adds nothing.
KnownAfter ==
  IF ~list THEN known
  ELSE IF cmd.op = <<"preview">> /\ cmd.types # <<>> THEN known \cup {cmd.name}
  ELSE IF cmd.op = <<"remove">> THEN known \ {cmd.name}
  ELSE known

\* The command is executed when the token after it has been read.
Execute ==
  /\ pc = "execute" /\ Ready /\ ~NotFound
  /\ Len(out) < MaxCommands
  /\ out' = Append(out, cmd)
  /\ known' = KnownAfter
  /\ shell' = IF cmd.op = <<"set">> /\ cmd.name = <<"shell">>
              THEN cmd.arg.s ELSE shell
  /\ Goto("end")
  /\ UNCHANGED <<opts, cmd, list>>

Fail ==
  /\ pc = "execute" /\ Ready /\ NotFound
  /\ Reject
  /\ UNCHANGED <<cmd, list, known, shell, out>>

\* end()
End ==
  /\ pc = "end"
  /\ \/ Got("EOF") /\ Consume("command")
     \/ Got("NEW_LN") /\ Consume("newlines")
  /\ UNCHANGED <<opts, cmd, list, known, shell, out>>

\* What the parser can go on with.
Expected ==
  [newlines |-> {"NEW_LN", "EOF", "STR"}, command |-> {"EOF", "STR"},
   name |-> {"STR"}, str |-> {"STR"}, ext |-> {"STR"},
   types |-> {"BLK_OPEN", "DOT", "STAR", "STR"}, slash |-> {"SLASH"},
   subtype |-> {"STAR", "STR"}, end |-> {"EOF", "NEW_LN"}]

\* expect() of another token
Unexpected ==
  /\ pc \in DOMAIN Expected /\ Ready /\ tok.type \notin Expected[pc]
  /\ Reject
  /\ UNCHANGED <<cmd, list, known, shell, out>>

\* config_load() after parse()
CheckShell ==
  /\ pc = "shell" /\ Ready
  /\ Goto(IF shell \in Installed THEN "ok" ELSE "error")
  /\ UNCHANGED <<opts, cmd, list, known, shell, out>>

Lex == GetToken /\ UNCHANGED <<pc, cmd, list, known, shell, out>>

Next ==
  \/ Lex
  \/ NewLines \/ EndOfFile \/ Keyword \/ Dispatch \/ Name \/ Option
  \/ IntArg \/ StrArg
  \/ BlockOpen \/ TooManyTypes \/ TypeBegins \/ Extension \/ Slash
  \/ Subtype \/ TypeEnds \/ Script \/ BlockClose
  \/ Execute \/ Fail \/ End \/ Unexpected \/ CheckShell

Spec == Init /\ [][Next]_vars

\* One process that waits for nothing but a file.
FairSpec == Spec /\ WF_vars(Next)

-----------------------------------------------------------------------------
Places ==
  {"newlines", "command", "keyword", "name", "option", "bool", "str",
   "types", "ext", "slash", "subtype", "reset", "script", "close",
   "execute", "end", "shell", "ok", "error"}

TokenTypes ==
  {"NULL", "EOF", "ERR", "NEW_LN", "BLK_OPEN", "BLK_CLS", "SLASH", "STAR",
   "DOT", "INT", "STR"}

Texts == Seq(Units)

Types == [ext : Texts \cup {Null}, type : Texts \cup {Null},
          subtype : Texts \cup {Null}]

\* A token, whose text is part of the file.
IsToken(t) == t.type \in TokenTypes /\ (t.type = "STR" => t.s \in Texts)

IsCommand(c) ==
  /\ c \in [op : Texts, name : Texts, types : Seq(Types), arg : {c.arg},
            script : Texts]
  /\ Len(c.types) <= MaxTypes

\* Every variable has its type: no more types than types[] has room for, a
\* queue of two tokens at most (tok_queue has room for 15), texts that do not
\* reach behind the end of the file.
TypeOK ==
  /\ file.text \in Texts /\ Len(file.text) + 5 < WrapAt
  /\ pos \in 0 .. WrapAt - 1
  /\ stage \in {"blanks", "comments", "comment"}
  /\ opts \in BOOLEAN
  /\ queue \in Seq(Range(queue)) /\ Len(queue) <= 2
  /\ \A k \in DOMAIN queue : IsToken(queue[k])
  /\ IsToken(tok)
  /\ pc \in Places
  /\ IsCommand(cmd)
  /\ list \in BOOLEAN
  /\ out \in Seq(Range(out)) /\ Len(out) <= MaxCommands

\* What the lexer has queued of a block is read as a script and its end by
\* the command that the block belongs to, and never as a command: either the
\* parser is in that command, or it has stopped.
BlockWhole ==
  /\ queue # <<>> => Got("BLK_OPEN") \/ pc \in {"script", "close", "error"}
  /\ pc = "script" /\ Ready => GotStr
  /\ pc = "close" /\ Ready => Got("BLK_CLS")

\* BlockWhole is not inductive.  What is queued is a script and its end, and
\* nothing is read from the file before it is taken ...
Queued ==
  Len(queue) = 2 /\ queue = <<Str(queue[1].s), Tok("BLK_CLS")>>

QueueInv ==
  /\ stage # "blanks" => queue = <<>> /\ tok = NoTok
  /\ pc = "error" => Ready
  /\ Got("BLK_OPEN") => Queued
  /\ pc = "script" => \/ tok = NoTok /\ Queued
                      \/ GotStr /\ queue = <<Tok("BLK_CLS")>>
  /\ pc = "close" => \/ tok = NoTok /\ queue = <<Tok("BLK_CLS")>>
                     \/ Got("BLK_CLS") /\ queue = <<>>
  /\ pc \notin {"script", "close", "error"} /\ ~Got("BLK_OPEN") => queue = <<>>

\* ... and the parser is where its command has led it, with a type to change.
PlaceInv ==
  /\ pc \in {"name", "option", "bool", "str", "types", "ext", "slash",
             "subtype", "reset", "script", "close", "execute"}
       => cmd.op \in Commands
  /\ pc \in {"ext", "slash", "subtype"} => cmd.types # <<>>

\* How a text is read after doc/ctpv.1, by what the first n units leave open:
\* nothing at the start of a line ("line"), also behind a line that is a
\* comment ("after"), nothing within a line ("code"), a comment, a text in
\* quotes or a block.
ReadAs(text) ==
  LET Opened(n, m) ==
        CASE text[n] = "#"     -> "comment"
          [] text[n] = "nl"    -> "line"
          [] text[n] = "quote" -> "string"
          [] text[n] = "blank" -> m
          [] n > 1 /\ text[n] = "{" /\ text[n - 1] = "{" -> "block"
          [] OTHER -> "code"
      mode[n \in 0 .. Len(text)] ==
        IF n = 0 THEN "line"
        ELSE LET m == mode[n - 1] IN
             CASE m = "comment" -> IF text[n] = "nl" THEN "after" ELSE m
               [] m = "string"  -> IF text[n] = "quote" THEN "code" ELSE m
               [] m = "block"   -> IF text[n] = "}" /\ text[n - 1] = "}"
                                   THEN "code" ELSE m
               [] OTHER -> Opened(n, m)
  IN  mode

\* No byte of a text in quotes is negative as a char, and thereby its end.
PlainTexts(text) ==
  LET r == ReadAs(text) IN
  \A n \in DOMAIN text : r[n - 1] = "string" => text[n] # "hi"

\* The last line is not a comment without a newline behind it.
CommentsEnd(text) == ReadAs(text)[Len(text)] # "comment"

\* A comment has its line for itself, ...
CommentsAlone(text) ==
  LET r == ReadAs(text) IN
  \A n \in DOMAIN text : text[n] = "#" => r[n - 1] # "code"

\* ... and the line after it does not begin with a blank.
NoBlankAfter(text) ==
  LET r == ReadAs(text) IN
  \A n \in DOMAIN text : r[n - 1] = "after" => text[n] # "blank"

EndingFiles == {f \in Files : PlainTexts(f.text) /\ CommentsEnd(f.text)}

PlainFiles ==
  {f \in EndingFiles : CommentsAlone(f.text) /\ NoBlankAfter(f.text)}

Lines ==
  INSTANCE ConfigLines WITH
    items <- file.items,
    status <- IF pc \in {"ok", "error"} THEN pc ELSE "reading"

\* What is executed of a file is what its lines mean, in their order: neither a
\* comment nor an empty line, nor what is in a block or in quotes, nor what the
\* parser has still in mind of an earlier command changes it, and after the
\* first error nothing is executed.  Only of PlainFiles: by doc/ctpv.1:301-303
\* a comment may begin anywhere, but ignore_comments() takes the newline along,
\* so that a comment behind a command joins it with the next line (lexer.c:198),
\* and a blank behind that newline is skipped by nobody and is an error (405);
\* a comment at the very end does not end (198), and a byte from 0x80 on ends a
\* text in quotes (208).
ImplementsLines ==
  Lines!Init /\ [][(file \in PlainFiles) => Lines!Next]_(Lines!vars)

\* Whatever is in the file, also what is neither a command nor a line: what is
\* executed is legal after what was executed before it (a preview that a
\* priority or a remove names is there, however often previews of that name
\* were added and removed), nothing is executed once loading has ended, and it
\* ends well only with a shell that is installed, the last one that was set.
ImplementsAny == Lines!AnySpec

\* ImplementsAny follows from these: the parser keeps the names and the shell
\* that the commands leave, and not the commands.
KnownInv == known = IF list THEN Lines!Known(out) ELSE BuiltIn

ShellInv == shell = Lines!Shell(out)

\* Loading a configuration ends, be it with an error, whatever is in it, but
\* for a file whose last line is a comment without a newline: the loop over a
\* comment ends at a newline only, so that pos wraps around, the rest of the
\* comment is sought at the start of the file and the lines after the first are
\* read, and their commands executed, again, for ever or until one is an error.
\* (Of a byte that ends a text in quotes too early, so that there is a comment
\* in what should be the text, nothing is said either.)
Ends ==
  file \in EndingFiles => <>(pc \in {"ok", "error"})

\* Steps that the parser can take with the token it has
PlaceRank(p) ==
  CASE p = "option" -> 4 [] p = "bool" -> 3
    [] p \in {"execute", "keyword", "reset"} -> 2
    [] p \in {"ok", "error"} -> 0 [] OTHER -> 1

StageRank(s) == CASE s = "blanks" -> 3 [] s = "comments" -> 2 [] OTHER -> 1

\* More than the steps that are left: 4 units may be read behind the end of
\* the file, and of one unit there may be three tokens, of which two wait.
StepsLeft ==
  19 * (Len(file.text) + 4 - pos) + 6 * Len(queue)
    + (IF Ready THEN 5 ELSE 0) + StageRank(stage) + PlaceRank(pc)

\* Loading comes closer to its end with every step, whatever the file is and
\* however the parser and the lexer take turns, unless it is a step behind the
\* end of the file in a comment.
Progress ==
  [][\/ stage = "comment" /\ Char(pos) = "EOF"
     \/ 0 <= StepsLeft' /\ StepsLeft' < StepsLeft]_vars

\* Progress follows from this: outside of comments the lexer does not get far
\* behind the end of the file, because the parser asks for a token after
\* TOK_EOF only twice.
Behind(p) ==
  CASE p = "command" -> 2 [] p \in {"shell", "ok", "error"} -> 3
    [] OTHER -> 1

EndInv ==
  /\ pc = "ok" => Ready
  /\ stage # "comment" =>
       pos <= Len(file.text) + (IF Got("EOF") THEN Behind(pc) + 1
                                ELSE IF Ready THEN 1 ELSE Behind(pc))
=============================================================================
