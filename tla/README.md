# ctpv in TLA+

A TLA+ model of [ctpv](../src/README.md), the file previewer for terminals,
checked with TLC and, but for one, all its safety properties proved with
TLAPS. Source references are relative to `src/`, so `src/server.c` is `src/src/server.c` of
this tree.

ctpv is a small C program with a few parts that are easy to write and hard to
test: a server that a signal, a crash or a script can stop between any two
system calls; programs of lf's that start scripts without waiting for them; a
cache that several processes share without a lock; a chain of child processes
with a pipe; a hand-written lexer that refills its buffer in the middle of a
look ahead; a sort by six keys. The project models these parts one module each,
states what they promise, and says where the code keeps the promise and where
it does not.

## 1. The system

`ctpv FILE` reads a configuration, collects the previews (shell scripts with a
pattern of extension, MIME type and subtype), sorts them, and runs those that
match the file until one of them shows it. Images are shown by `ueberzug`,
a program that must live longer than one preview: `ctpv -s ID` keeps it
running, `ctpv -c ID` clears the image and `ctpv -e ID` ends the server.

| component | code | state | operations | how it interacts |
|---|---|---|---|---|
| image server | `src/server.c` | the FIFO, its descriptor, the flag of the signal handler, the pid of ueberzug, the pipe to it | `server_listen`, `listen`, `open_fifo`, `spawn_ueberzug`, `kill_ueberzug`, the handler | reads what scripts write to the FIFO, writes to the standard input of its child |
| scripts of the FIFO | `sh/clear.sh`, `sh/end.sh`, `sh/helpers.sh` | none but their open files | `fifo_open`, `setup_image`, `send_image`, the two commands | write to the FIFO; started by `ctpv -c`, `-e` and by previews |
| running previews | `src/preview.c`, `src/shell.c`, `src/utils.c` | place in the list, two descriptors, status of the last child | `preview_run`, `find_preview`, `run`, `spawn`, `spawn_wait` | a child process per script, its standard error in a pipe |
| list of previews | `src/preview.c`, `src/config.c`, `src/vector.c`, `previews.h` | a vector of previews | `add_preview`, `add_priority`, `remove_preview`, `previews_init`, `find_preview` | changed by the parser, read by running previews |
| lexer | `src/lexer.c` | input buffer, token queue, one option | `peekn_char`, `next_char`, `lexer_get_token` | reads a file, stores texts in the list below |
| text storage | `src/ulist.c` | nodes of memory, the lock | append, lock, unlock | the lexer holds pointers into it until ctpv ends |
| parser | `src/config.c` | one token, the options | `config_load` and a function per rule | calls the lexer, executes commands at once |
| cache | `src/ctpv.c`, `src/utils.c`, `sh/helpers.sh`, `sh/prev/` | a directory of pictures, two times per picture and file | `mkpath`, `check_cache`, `is_newer`, `convert_and_show_image`, the converters | every ctpv of every lf shares it |
| command line | `src/ctpv.c` | global options, paths | `main`, `preview`, `clear`, `end`, `get_input_file` | calls all of the above in a row |
| session | `quit/ctpvquit.c`, `ctpvclear` | a pid | polls, then runs `ctpv -e` | lf starts it, the server and the previews |
| preview scripts | `sh/prev/` | none | one per preview | run by ctpv, may use the FIFO and the cache |
| the rest | `src/vector.c`, `src/error.c`, `embed/`, `deptable/`, `genhelp.sh`, `Makefile` | | memory, messages, build | |

### What is hard in each, and what makes it correct

* **Image server.** Servers, scripts and ueberzug are processes without any
  lock between them; the kernel's FIFO is all that orders them. At a hang-up
  the server closes the FIFO and opens it again *by name* while scripts go on
  writing. Any process may die. Correct means: one server per id and none that
  touches the FIFO of another (`OwnFifo`), what is at the path is removed by its
  owner alone, so that a server that is refused leaves it (`PathKept`), no
  message lost, doubled or reordered while ueberzug lives (`InOrder`,
  `Relayed`), nothing left behind
  (`CleanEnd`), a signal or an end message is obeyed (`SignalObeyed`,
  `EndInFrontObeyed`), no script sleeps in front of a FIFO that the server
  polls (`NoLostWakeup`), and none waits for ever while the server lives
  (`ScriptsEnd`).
* **Session.** The server outlives the programs that write to it, and those
  are started by lf, by ctpvclear and by ctpvquit, which knows lf by a process
  id only. `ctpv -c` does not wait for its script; a configuration with an
  error stops `ctpv -c` and `ctpv -e` before they reach the server. Correct
  means: no image stays when lf has left its file (`NoGhost`), the image of
  the file at the cursor is there (`ShowsSelected`, which the code breaks),
  nothing that a session does stops its server while lf lives (`ServesOn`), and
  the server does not outlive lf (`SessionEnds`).
* **Cache.** Whether a picture is up to date is decided by two times, before
  the script starts that shows it or makes it anew; several ctpv make
  directories, temporary pictures and pictures at once; converters are killed
  half-way; files change while they are converted. Correct means: what is
  shown is whole, the file's, and not older than the file was when ctpv was
  started (`Fresh`), and runs do not fail because of each other
  (`Undisturbed`), each but in cases that the property names.
* **Running previews.** The pipe is read only when the script has ended; a
  script can fill it, or leave a process behind that holds it open; `pipe()`
  and `fork()` can fail. Two variables with the status are shared by all
  rounds of the loop. Correct means: the status that decides is that of the
  script just run (`OwnStatus`), its messages are shown whole
  (`WholeError`, `ErrorPrinted`), the list is tried in order
  (`ImplementsChain`), ctpv hangs only where a script has filled the pipe or a
  process holds it open (`HangsOnly`), and every step brings it nearer to its
  end, but for the writes of a process left behind, each of which costs one
  step more (`Progress`).
* **List of previews.** `qsort()` is not stable, the comparison mixes
  ascending and descending keys with NULLs and subtracts ints; removing
  changes the vector that is gone through. Correct means: the documented order
  (`SpecificFirst`, `CustomFirst`, `PriorityFirst`) and that commands change
  exactly the previews they name (`ImplementsSet`).
* **Lexer and parser.** The buffer ends anywhere, also between two braces; the
  lexer is one token ahead of the parser and has an option that the parser
  sets and resets; comments, blanks and newlines are skipped in different
  places. A block is three tokens that the lexer queues at once. Correct
  means: the lexer sees the file (`ImplementsStream`), a file does what its
  lines mean (`ImplementsLines`), whatever the file is a command is executed
  only when it is legal after those before it, nothing is executed after an
  error, and loading ends well only with a shell that is installed, the last one
  that was set (`ImplementsAny`), what is queued of a block never becomes a
  command (`BlockWhole`), each step brings the end nearer (`Progress`), and
  loading ends (`Ends`).
* **Text storage.** Memory grows while a text is recorded, and pointers handed
  out must stay valid (`TextsKept`, `OneAfterAnother`).

Every hazard, with its line and the properties that would catch it, or why none
does, is listed in `PROJECT.json`.

## 2. The modules

| module | what it is |
|---|---|
| `Server` | image server, FIFO and scripts: one action per system call |
| `Relay` | abstract: an id with one owner, messages in order; `Server` implements it |
| `Session` | `Server` composed with lf, `ctpv`, `ctpvclear` and `ctpvquit`, which start its scripts |
| `Cache` | any number of `ctpv FILE` that share the directory of pictures: `preview()` up to the script, and `convert_and_show_image` |
| `PreviewRun` | `preview_run()`, `run()`, the pipe, the script process |
| `PreviewChain` | abstract: the previews are tried in order until one decides |
| `Previews` | the vector, the three commands, `qsort()` with `cmp_previews()`, `find_preview()` |
| `PreviewSet` | abstract: the set of previews that the manual speaks of |
| `UList` | the unrolled list |
| `InputBuffer` | `peekn_char()` and the functions that read characters |
| `CharStream` | abstract: the characters of a file one after another |
| `Lexer` | tokens of a file: one action per kind of token |
| `Config` | the parser: one action per token it takes |
| `ConfigLines` | abstract: commands executed in order up to the first error, those of a given file (`Spec`) or of any file (`AnySpec`) |
| `MC...` | instances for TLC: tables, sample files, symmetry |
| `...Proofs` | theorems of `Server`, `Session`, `Cache`, `PreviewRun`, `Previews`, `UList`, `InputBuffer`, `Config` |

`Config` extends `Lexer`, and `Session` extends `Server`: its steps are those
of the server, of ueberzug and of the scripts, and of the programs that start
the scripts, and it is proved that every session is a behaviour of `Server`
(`SessionServes`). Every other component stands by itself and meets its
neighbours at an interface that both sides model alike: `Config` ends with the
sequence of executed commands, `Previews` begins with any sequence of them;
`Previews` ends with an order of previews, `PreviewRun` begins with any subset
of a list as the matches; `InputBuffer` shows that the lexer may think of its
input as a sequence, which `Lexer` does; `UList` shows that a text stays what
it was, which `Lexer` takes for granted; a script that `PreviewRun` runs is,
when it uses the FIFO, a client of `Server`, and when it converts a picture, a
run of `Cache`.

### How state and actions correspond to the code

**Server.** `spc[s]` is the program counter of a server, each value the next
system call (`mkfifo`, `open`, `register`, `spawn`, `poll`, `read`, `hup`,
`reopen`, `kill`, `wait`, `unregister`, `closefd`, `remove`); the labels of the
`ERRCHK_GOTO` chain are the values it jumps to. `path` is what the name of the
FIFO refers to, `data[s]` the kernel's buffer, `fd[s]` and the inherited
descriptor of ueberzug its readers, `cfifo` its writers, `sawWriter` what the
kernel needs for `POLLHUP`. A message is the script that sent it. The kernel's
side (open blocks without a reader, EPIPE, SIGPIPE, drop of the data with the
last descriptor, POLLHUP) is modelled from how Linux behaves for the calls the
code makes. Faults are actions that a constant switches on: a signal, SIGKILL,
the death of ueberzug, a failing `pipe()`/`fork()`/`open()`, a broken
configuration.

**Session.** `lf` says what lf does: it is at its files, waits for its
previewer, or has gone (and, with `PidReused`, another process has its id).
`cur` is the image script of the file at the cursor, `volatile` lf's mark that
the previewer has failed, which makes it call the cleaner. `SelectImage`,
`Clean` and `QuitEnds` are a `ctpv FILE`, `ctpv -c` and `ctpv -e` up to the
start of the script: each reads the configuration first and ends there when it
has an error (`Ctpv`, recorded in `broken`). `ScriptHasEnded` is the wait of
`spawn()` with an exit status, which the previewer has and the cleaner has
not. lf is not part of the repository; what is assumed of it is in the head of
the module.

**Cache.** `slot` is the directory: a picture says of which file and version
it is, whether it is whole, who writes it and when it was changed. `pc[r]` is
the place of run `r`, first in `preview()` (`mkdir`, `lstatc`, `lstatf`), then
in the script (`stale`, `write`, `move`, `show`); `arg`, `lvl`, `stat` are its
variables, and `since` remembers the version of the file when it was started.
`how[f]` is the script's way of writing: to the picture itself (video, audio,
svg), to a temporary name that is then moved (pdf, font), to a temporary name
made of the base name (libreoffice). `spoilt`, `wiped` and `clash` are
histories that record the events after which `Fresh` and `Undisturbed` promise
nothing; `spoilt` is taken back when the file changes while nobody previews it,
so that damage that heals is not excused for ever.

**PreviewRun.** `pc` is the place in `run()`, `rfd`/`wfd` the two ends of the
pipe in ctpv, `child` the script, `bg` a process it left and `noise` that
process's writes in the pipe, which come behind the script's. `status` stands
for `exitcode` and `signal` together. `pipe()`, `fork()` and `read()` may fail. The list is 1..`Last`, `matches` the places
that match, so that `find_preview()` is the next match from `i` on.

**Previews.** The vector is a sequence of records with the fields of `Preview`.
A string is its place in the order of `strcmp()`. `qsort()` is any arrangement
that the comparison allows; when the comparison is no order, as the standard
has it, any arrangement at all. Ints are from `-IntMax - 1` to `IntMax`, and
their difference wraps (`Wrap`).

**UList.** `nodes` are the nodes with capacity and contents, `lock_i` as in the
code, `given` the history of pointers handed out with the text that was behind
them.

**InputBuffer.** `b` is the struct, `at` and `got` what the caller has taken and
looked at. The size of the buffer is a constant, and what `malloc()` left in it
is `Junk`. An error of `fread()` is not modelled.

**Lexer, Config.** The file is a sequence of units: a word, a digit, or a
character with a meaning of its own. `stage` is the place in
`lexer_get_token()`; blanks and each character of a comment are steps, a token
is one step. `tok = NoTok` while the parser waits for the lexer. `pc` is the
place in the recursive descent; `cmd` the command it collects. A command is
executed when the code executes it, after the token *behind* it has been read.
`pos` wraps as the unsigned int of the code does, and the characters are then
read again from the buffer.

## 3. Runs

All runs that should pass do, and every action of the models fires in one of
them. "States" are distinct states.

| run | instance | shows | states |
|---|---|---|---|
| `server_safety` | 2 servers, 2 scripts of any kind, all faults, symmetric | `TypeOK`, `OwnFifo`, `InOrder`, `CleanEnd`, `NoLostWakeup`, `PathKept`, `ImplementsRelay` | 1,216,708 |
| `server_end_lost` | 1 server, clear.sh and end.sh | violation of `EndObeyed` | |
| `session_live` | the FIFO of a dead server, 1 server, 3 scripts; signals, errors in the configuration, ueberzug ends, the id of lf is used again | `NoGhost`, `ServesOn`, `SessionEnds`, `Relayed`, `SignalObeyed`, `ScriptsEnd`, `EndInFrontObeyed` | 105,582 |
| `session_cleared` | 1 server, 4 scripts, no fault | violation of `ShowsSelected` | |
| `cache_shared` | 3 runs, 2 files, each kind of converter, all faults, symmetric | `TypeOK`, `Fresh`, `Undisturbed` | 1,474,128 |
| `preview_run` | 3 previews, pipe of 2, failing calls, left processes that write or do not | `TypeOK`, `WholeError`, `OwnStatus`, `HangsOnly`, `ImplementsChain`, `Progress`, `ErrorPrinted` | 8,137 |
| `preview_stuck` | a script writes more than the pipe holds | violation of `ErrorPrinted` | |
| `previews_list` | 3 built-in previews, two of one name, commands with up to 2 types | `TypeOK`, the three orders, `ImplementsSet` | 39,950 |
| `previews_gpg` | the preview for .gpg | violation of `ShortApplies` | |
| `ulist_texts` | nodes of 1, up to 5 elements | `TypeOK`, `TextsKept`, `OneAfterAnother` | 409,856 |
| `buffer_stream` | buffer of 4, files of 0 to 11 | `TypeOK`, `ImplementsStream` | 925 |
| `config_files` | about 1,700 files of 1 to 3 lines, with and without a list | `TypeOK`, `BlockWhole`, `ImplementsLines`, `ImplementsAny`, `Progress`, `Ends` | 152,660 |

### Bounds, and why they are enough

* *Server.* Two servers are enough for one to disturb another (a third is to
  each of them what the second is), two scripts for a message that comes while
  another is read or while the server closes and opens its FIFO after another.
  `BufMsgs = 2` lets one `read()` return one or several messages.
* *Session.* The liveness of the server is checked in the sessions it really
  has. Three scripts are an image, its removal and the end, or an image, the
  next image and the end: one more than the FIFO holds. SIGKILL is left out of
  `session_live`: it would only make a `dead` server earlier, and one of its
  two servers is dead from the start, with its FIFO at the path.
  `session_cleared` needs a fourth script, for the last one is kept for
  ctpvquit.
* *Cache.* Two runs can disturb each other, and a third can come between them:
  one looks at a picture that another has written and a third is writing. Two
  files may share a base name. `Depth = 2`: one
  directory is made while the other is missing. One change of each file and
  one tick of the clock make a change before, in and after the tick of a
  picture. All files have the same kind of converter in one behaviour
  (`Mixed = FALSE`): different kinds share no name, so files of different kinds
  share the directories only; TLC goes through each kind.
* *PreviewRun.* Three previews give a first, a middle and a last; `Cap = 2`
  with `MaxErr = 2` gives empty, part full and exactly full pipes;
  `preview_stuck` has `Cap = 1`, one less than is written.
* *Previews.* Three strings, of which one is "*", two names of which one is
  that of two previews, and at most two additions: enough for every pair of
  keys to differ and to be equal. `IntMax = 3` with priorities -1, 0, 1
  and 2: the largest differences that do not overflow.
* *UList.* `FirstCap = 1`, arrays up to 3, 5 elements in all: growth by one and
  by two doublings, with a lock at the start, in the middle and at the end of a
  node.
* *InputBuffer.* A buffer of four and files up to eleven put the end of a
  buffer and the end of the file at every place relative to each other, with
  a look ahead of up to two characters behind the next (the code's
  `cmp_nextn(ctx, 2, ...)`). All characters differ, so none can be confused.
* *Config.* The samples have every command in every form, every error of the
  parser, blocks with braces, quotes, newlines and `#` in them. All pairs of
  samples, and all triples of those that depend on earlier lines or must not
  matter. `MaxTypes = 2` for 16, and `WrapAt = 100` for 2^32, so that a comment
  without an end wraps and the lines are read again. What lacks its end (a
  block, a quote) comes last in a file. Comments stand at every place: before,
  between and behind the lines, indented, behind a command on its line, before
  an indented line, and at the very end. The samples say what such a file means
  after the manual; `PlainFiles` are those of which `ImplementsLines` claims
  it, `EndingFiles` those of which `Ends` claims that loading ends. Every
  condition of the two is needed: without any one of them TLC finds a file that
  breaks the property.
* `MaxErr`, `MaxAdded`, `MaxTotal`, `MaxPast`, `MaxCommands`, `MaxTime`,
  `MaxVer` bound counters that grow without end otherwise; each is named where it is declared.

### Fairness

* *Server.* Weak fairness of each server's own steps, of each launched script's
  steps, and of ueberzug obeying SIGTERM and the end of its input: the kernel
  schedules a process that can run. Nothing makes anyone start a server, send
  a signal or run a script, and no fault is fair. A signal that arrives before
  `poll()` blocks is noticed because of the timeout of 100 ms: this is why
  `poll()` may return nothing and why the step is fair.
* *Session.* The same, and that lf goes on when its previewer has ended and
  that ctpvquit, which sleeps for a second, looks again and starts `ctpv -e`.
  Nothing makes the user select a file or leave lf, nor a process that got
  lf's id end.
* *PreviewRun.* Weak fairness of ctpv and of the script, whose writes are
  bounded. A process that a script leaves behind need not ever end, nor ever
  stop writing, so `ErrorPrinted` has the exception `HeldForEver`: one stays
  that holds the pipe. `HangsOnly` and `Progress` need no fairness: unless such
  a process goes on writing the steps run out, and where none is possible ctpv
  has ended or hangs as said.
* *Config.* Weak fairness of the one process, for `Ends`; `Progress` needs none.

### What the violations show

Each run that fails is a finding with its line in `PROJECT.json`:

1. `server_end_lost`: the exit byte is looked for at the start of a `read()`
   only, so end.sh behind another message is forwarded to ueberzug and the
   server goes on. (`EndInFrontObeyed` is the promise that is kept.)
2. `session_cleared`: `ctpv -c` ends before clear.sh has written, because
   `spawn()` waits only when it is asked for a status; the next preview may
   send its image first, and the late "remove" takes that image away.
3. `preview_stuck`: a script that fills the pipe never ends, and ctpv waits.
4. `previews_gpg`: a file whose extension is just gpg does not match.

Other disagreements were met while the modules were written. The models have
them, no run is spent on them:

* A comment takes its newline along, and blanks and newlines are not skipped
  behind it (`src/lexer.c:193`): a comment behind a command on its line joins
  the command with the next line, and a line behind a comment that begins with
  a blank is an error. The manual (`doc/ctpv.1:301-303`) has no such limit;
  `ImplementsLines` does not claim anything of these files (`PlainFiles`).
* A comment that the file ends in without a newline is read for ever
  (`src/lexer.c:198`): `pos` wraps around, the lines after the first are read
  again and their commands executed again. `Ends` excepts these files
  (`EndingFiles`), and `Progress` a step behind the end of the file in a
  comment.
* A byte from 0x80 on ends a text in quotes (`src/lexer.c:208`), and the rest
  of it is read as something else; not in `PlainFiles` either.
* What a process that a script has left in the background writes to its
  standard error is printed for as long as it writes (`src/preview.c:144`):
  `run()` may never end. `Progress` has the exception for it.
* A script whose server stops between its probe and its open(2) hangs
  (`sh/helpers.sh`); `ScriptsEnd` has the exception `Stopped` for it.
* The cases in which a stale or broken picture is shown from the cache are
  those that `Fresh` names; each of them TLC reaches.
* end.sh without a server leaves a regular file at the path of the FIFO
  (`OpenWriteFile`), and the next server is refused with a message that is not
  true (`src/server.c:150`).
* The difference of two priorities that are far apart overflows (`Wrap`); the
  order is then no order. `PrioritiesFit` is the condition of the theorems.
* The manual's example `priority cat` (`doc/ctpv.1:500`) does not make cat the
  preview of text/html: the more specific elinks stays above (`CmpPreviews`
  looks at priorities last). `SpecificFirst` claims the order by specificity
  only where it and the priorities do not disagree, as the manual does.
* A look ahead behind the end of a file that fills the buffer exactly returns
  an old byte (`Peeked`; `CharStream` promises nothing there), so that a brace
  at the end may be taken for two.
* A dot is no part of a MIME type: `text/vnd.rar` is a type and an extension
  (`Units`).

## 4. Proofs

TLAPS proves the following for every value of the constants that the named
assumption of the module allows.

| theorem | of | says |
|---|---|---|
| `TypeCorrect`, `OwnFifoAlways`, `InOrderAlways`, `CleanEndAlways`, `NoLostWakeupAlways`, `PathKeptAlways`, `Implementation` | `ServerProofs` | `TypeOK`, `OwnFifo`, `InOrder`, `CleanEnd`, `NoLostWakeup`, `PathKept`, and that `Server` implements `Relay` |
| `SessionServes`, `SessionRelays`, `SessionTypeCorrect`, `NoGhostAlways`, `ServesOnAlways` | `SessionProofs` | that a session is a behaviour of `Server` and all of the row above holds in it, `SessionTypeOK`, `NoGhost`, `ServesOn` |
| `TypeCorrect`, `UndisturbedAlways`, `FreshAlways` | `CacheProofs` | `TypeOK`, `Undisturbed`, `Fresh`, for any number of runs, files, changes and ticks, mixed kinds included |
| `TypeCorrect`, `OwnStatusAlways`, `WholeErrorAlways`, `HangsOnlyAlways`, `ProgressAlways`, `Implementation` | `PreviewRunProofs` | `TypeOK`, `OwnStatus`, `WholeError`, `HangsOnly`, `Progress`, and that `PreviewRun` implements `PreviewChain` |
| `TypeCorrect`, `SpecificFirstAlways`, `CustomFirstAlways`, `PriorityFirstAlways`, `Implementation` | `PreviewsProofs` | `TypeOK`, the three orders while no difference of priorities overflows, and that `Previews` implements `PreviewSet` |
| `TypeCorrect`, `TextsKeptAlways`, `OneAfterAnotherAlways` | `UListProofs` | `TypeOK`, `TextsKept`, `OneAfterAnother` |
| `TypeCorrect`, `Implementation` | `InputBufferProofs` | `TypeOK`, and that `InputBuffer` implements `CharStream` |
| `TypeCorrect`, `BlockWholeAlways`, `ImplementsAnyFile`, `ProgressAlways` | `ConfigProofs` | `TypeOK` of the lexer and the parser, `BlockWhole`, that `Config` implements `ConfigLines` (`AnySpec`), and `Progress`, for every file |

None of the invariants is inductive as it stands; the strengthenings are part
of the modules and were checked by TLC before they were proved.

* **Server.** `OwnInv` adds that the path never names a FIFO that is not yet
  made or already removed: without it a `mkfifo()` could succeed for a server
  whose FIFO is there. `ReapInv` says where ueberzug is known not to run, which
  is why each exit label may skip what it skips. `StreamInv` says where the
  messages are before ueberzug is started, when those already in the FIFO must
  not get lost. `WakeInv` adds to `NoLostWakeup` that the read end is open
  wherever the server reads, which is why an open(2) on either side finds the
  other. `PathKept` is proved action by action and needs `OwnInv`: `remove()`
  takes a name, and only the invariant says whose FIFO that name refers to. The
  implementation proof maps every action to `Start`, `Send`, `Deliver`, `Stop`
  or a stutter; `Deliver` needs `InOrder`.
* **Session.** What is proved of `Server` holds in a session, because
  its steps are steps of `Server` or leave the server alone. `NoGhost` is about
  the order of messages of different programs: `GhostInv` says that every image
  that was written into the FIFO is that of the file at the cursor or has a
  clear.sh behind it or under way; it needs `CursorInv` (lf knows of every
  image that was sent, and only the last previewer runs), `SentInv` (a message
  is sent once) and `UsableInv` (no image where ueberzug cannot be used), and
  `InOrder` to carry the order from the FIFO to ueberzug. `ServesOn` needs
  `ExitInv`: no end.sh has been started while ctpvquit watches.
* **Cache.** `DirsInv` says what a run has made sure of, `TempInv` that a
  temporary picture has one writer unless two have clashed: with them a `mkdir`,
  `lstat` or `mv` fails only where `Undisturbed` says so. `FreshInv` is the
  argument for the two times: while a file is not spoilt, a picture newer than
  its file is right (`Kept`), a converter is alone with what it writes
  (`Writes`), and what a run has taken for newer stays right until it shows it
  (`Reads`). It needs `TimeInv`, that no time lies ahead of the clock: a file
  that changes now is at least as new as every picture. With `>=` in place of
  `>` in `is_newer()` the argument fails, and so does the run.
* **PreviewRun.** `StatusInv` says which descriptor is open and whose status is
  known at each place of `run()`, `ChainInv` that the scripts already run are
  exactly the earlier matches, `ErrorInv` that what was printed followed by
  what is in the pipe is what the script has written. `HangsOnly` says which
  step is possible at each place, with `StatusInv` for the descriptors.
  `Progress` is a termination measure: `StepsLeft` counts for each preview the
  most that its script can write, three steps to a write; `BoundInv` keeps it
  from going below zero. Only a write of a process left behind makes it grow,
  by the one step of reading it. Together they say without fairness that ctpv
  ends, hangs in one of the two ways that `HangsOnly` names, or prints for
  ever what such a process writes for ever.
* **Previews.** `RemoveInv` speaks of the loop that goes backwards: what is
  behind it has no preview of that name, though the last element moves into
  the hole; `SortedInv` that the list is sorted by the comparison. The orders
  then follow from the comparison being transitive, proved key by key.
  `PrioritiesFit` is needed: the comparison is no order without it.
* **UList.** `BeforeLock`: the texts handed out of the last node lie before the
  lock, so what moves into a new node is nobody's.
* **InputBuffer.** `BufferInv`: the buffer is the part of the file before the
  place read, and a look ahead by `i` refills exactly when `i` characters are
  left, so `memmove()` keeps what was looked at and nothing else.

* **Config.** `QueueInv` ties the queue of the lexer to the place of the
  parser: it holds the text and the end of a block exactly while the parser is
  on its way through that block. `PlaceInv` says which command the parser is
  in, which is why there is a type to change when it changes one. `KnownInv`
  says that the names the parser would find are those that the commands so far
  leave, and `ShellInv` the same of the shell: equations between what is kept
  step by step and what is defined over the whole history, so that
  `ImplementsAny` is about `ConfigLines` and not about the parser's own
  variables. The measure of `Progress` gives a unit of the file more weight
  than the tokens it can become and all steps of the parser on them; a step of
  the parser that takes no token lowers the rank of its place. That the measure
  stays above zero is `EndInv`: outside of a comment the lexer is at most four
  places behind the end of the file, for the parser asks for a token after
  `TOK_EOF` only twice. So `pos` can wrap around in a comment only.

What is only model-checked: all liveness properties (`Relayed`, `SignalObeyed`,
`EndInFrontObeyed`, `ScriptsEnd`, `SessionEnds`, `Ends`, `ErrorPrinted`), which
need fairness, out of reach of the prover; and `ImplementsLines`, because what
a file means is given by samples. `ImplementsAny` is what holds, and is proved,
of every file.

## 5. Not modelled, and why

* MIME types, paths, sizes, environment variables, options of the command
  line, list and help output: library calls in a row and formatting.
* The write to `link[-1]` when `readlink()` fails (`src/ctpv.c:137`): memory
  outside of any variable of a model.
* The growth of the vector's memory, freeing memory, `malloc()` failing (the
  code aborts).
* kitty and chafa, which write to the terminal and share nothing but kitty's
  file with a process id.
* In `Cache`: a clock that is set back, two paths with one MD5, and the user
  removing a single picture (the whole directory is removed instead).
* In `Server`: a `write()` to ueberzug that blocks because ueberzug does not
  read its full pipe.
* In `Session`: several lf that share an id (they have different ones), and
  previews that are no image.
* Lines and columns of error messages; a configuration file larger than the
  buffer in `Lexer` (`InputBuffer` is about that); bytes 0xFF, which the lexer
  takes for the end of the file.
* Build tools and generated tables.

## 6. Plan

Done, in this order: `Server`/`Relay` (the concurrent part), `PreviewRun`/
`PreviewChain`, `Previews`/`PreviewSet`, `UList`, `InputBuffer`/`CharStream`,
`Lexer`/`Config`/`ConfigLines`, `Session`, `Cache`, and the proofs of each.

To come:

1. `Config` and `Previews` together: `ctpv -l` shows what the file says.
2. Several sessions at once over one `Cache`, with a server each.
3. The kitty method: the file of `kitty_icat_pid`.
