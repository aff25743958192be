------------------------------ MODULE MCConfig ------------------------------
(***************************************************************************)
(* Instances of Config for TLC: files made of sample lines, each with what *)
(* it means after doc/ctpv.1.                                              *)
(***************************************************************************)
EXTENDS Config, SequencesExt

SomeWords ==
  {"set", "preview", "priority", "remove", "noimages", "shell", "cat", "p",
   "q", "text", "html", "mp", "zsh"}

SomeOptions == <<"noimages">> :> "bool" @@ <<"shell">> :> "str"

SomeBuiltIn == {<<"cat">>}

DefaultSh == <<"/", "bin">>
SomeInstalled == {DefaultSh, <<"zsh">>}

Set(name, arg) == [NoCommand EXCEPT !.op = <<"set">>, !.name = name, !.arg = arg]
Prev(name, types, script) ==
  [NoCommand EXCEPT !.op = <<"preview">>, !.name = name, !.types = types,
                    !.script = script]
Prio(name, n) ==
  [NoCommand EXCEPT !.op = <<"priority">>, !.name = name, !.arg = Int_(n)]
Rem(name) == [NoCommand EXCEPT !.op = <<"remove">>, !.name = name]

Ext(e) == [AnyType EXCEPT !.ext = e]
Mime(t, s) == [AnyType EXCEPT !.type = t, !.subtype = s]

\* The parser says that this is an error.
Bad == NoCommand

B == <<"blank">>
Line(text, items) == [text |-> text, items |-> items]

\* { and } twice, around a script
Block(script) == <<"{", "{">> \o script \o <<"}", "}">>

Script1 == <<"nl", "blank", "#", "cat", "quote", "}", "{", "nl", "hi">>

Empty == Line(<<>>, <<>>)
Comment == Line(<<"#", "blank", "set", "hi", "quote", "#">>, <<>>)
Preview1 ==
  Line(<<"preview", "blank", "p", "blank", ".", "1", "blank", ".", "mp", "2",
         "blank">> \o Block(Script1),
       <<Prev(<<"p">>, <<Ext(<<"1">>), Ext(<<"mp", "2">>)>>, Script1)>>)
PrioP ==
  Line(<<"priority", "blank", "p", "blank", "-", "1", "0">>, <<Prio(<<"p">>, -10)>>)
PrioCat == Line(<<"priority", "blank", "cat">>, <<Prio(<<"cat">>, 1)>>)
RemoveP == Line(<<"remove", "blank", "p">>, <<Rem(<<"p">>)>>)
RemoveCat == Line(<<"remove", "blank", "cat">>, <<Rem(<<"cat">>)>>)
SetZero ==
  Line(<<"set", "blank", "noimages", "blank", "0", "blank">>,
       <<Set(<<"noimages">>, Int_(0))>>)

\* Lines that depend on those before them, and lines that must not matter.
CoreLines ==
  {Empty, Comment, Preview1, PrioP, PrioCat, RemoveP, RemoveCat, SetZero}

OtherLines ==
  {Line(<<"set", "blank", "noimages">>, <<Set(<<"noimages">>, Int_(1))>>),
   Line(<<"set", "noimages">>, <<Bad>>),
   Line(<<"set", "blank", "shell", "blank", "quote", "zsh", "quote">>,
        <<Set(<<"shell">>, Str(<<"zsh">>))>>),
   Line(<<"set", "blank", "shell", "blank", "quote", "cat", "nl", "#", "quote">>,
        <<Set(<<"shell">>, Str(<<"cat", "nl", "#">>))>>),
   Line(<<"preview", "blank", "q", "blank", "text", "/", "*", "blank", "*",
          "/", "html", "blank">> \o Block(<<>>),
        <<Prev(<<"q">>, <<Mime(<<"text">>, Null), Mime(Null, <<"html">>)>>, <<>>)>>),
   Line(<<"preview", "blank", "p", "blank">> \o Block(<<"cat">>),
        <<Prev(<<"p">>, <<>>, <<"cat">>)>>),
   Line(<<"preview", "blank", "p", "blank", "nl">> \o Block(<<"cat">>), <<Bad>>),
   Line(<<"preview", "blank", "p", ".", "1", ".", "2", ".", "0">> \o Block(<<>>),
        <<Bad>>),
   Line(<<"preview", "blank", "p", "blank", ".", "/", "mp">>, <<Bad>>),
   Line(<<"preview", "blank", "p", "blank", "text", "blank", "html">>, <<Bad>>),
   Line(<<"preview", "blank", "p", "blank", "text", "/", "/">>, <<Bad>>),
   Line(<<"set", "blank", "shell", "blank", "2">>, <<Bad>>),
   Line(<<"set", "blank", "q">>, <<Bad>>),
   Line(<<"cat", "blank", "p">>, <<Bad>>),
   Line(<<"set", "blank", "noimages", "blank", "2", "blank", "2">>,
        <<Set(<<"noimages">>, Int_(2)), Bad>>),
   Line(<<"priority", "blank", "cat", "blank", "-", "cat">>,
        <<Prio(<<"cat">>, 1), Bad>>),
   Line(<<"?">>, <<Bad>>)}

\* What lacks its end takes the rest of the file; a text with a byte from 0x80
\* on, which the lexer does not take to its end.
OpenLines ==
  {Line(<<"preview", "blank", "p", "blank", ".", "1", "blank", "{", "{", "}">>,
        <<Bad>>),
   Line(<<"set", "blank", "shell", "blank", "quote", "zsh">>,
        <<Set(<<"shell">>, Str(<<"zsh">>))>>),
   Line(<<"set", "blank", "shell", "blank", "quote", "zsh", "hi", "p", "quote">>,
        <<Set(<<"shell">>, Str(<<"zsh", "hi", "p">>))>>),
   Line(<<"set", "blank", "shell", "blank", "quote", "zsh", "hi", "nl", "#",
          "quote">>,
        <<Set(<<"shell">>, Str(<<"zsh", "hi", "nl", "#">>))>>)}

IndentedLines ==
  {Line(<<"blank">>, <<>>), Line(B \o PrioCat.text, PrioCat.items),
   Line(B \o Comment.text, <<>>)}

\* A comment behind a command
CommentedLine == Line(PrioCat.text \o B \o Comment.text, PrioCat.items)

\* Commands are separated by newlines.
File(lines) ==
  [text |-> FoldLeft(LAMBDA t, k : IF k = 1 THEN lines[k].text
                                   ELSE t \o <<"nl">> \o lines[k].text,
                     <<>>, [k \in DOMAIN lines |-> k]),
   items |-> FlattenSeq([k \in DOMAIN lines |-> lines[k].items])]

SomeLines == CoreLines \cup OtherLines

LastLines == SomeLines \cup OpenLines \cup IndentedLines \cup {CommentedLine}

SomeFiles ==
  {File(f) : f \in {<<l>> : l \in LastLines}
             \cup {<<k, l>> : k \in LastLines \ OpenLines, l \in LastLines}
             \cup {<<j, k, l>> : j \in CoreLines,
                                k \in CoreLines \cup {CommentedLine},
                                l \in CoreLines \cup IndentedLines}}

=============================================================================
