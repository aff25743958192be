------------------------------- MODULE Server -------------------------------
(***************************************************************************)
(* The image server of ctpv (src/server.c) and the scripts that talk to it *)
(* through the FIFO /tmp/ctpvfifo.<id> (sh/clear.sh, sh/end.sh and the     *)
(* image previews through sh/helpers.sh), all for one id.                  *)
(*                                                                         *)
(* `ctpv -s id' makes the FIFO, starts `ueberzug layer' with a pipe to its *)
(* standard input and copies what it reads from the FIFO into that pipe;   *)
(* a read that starts with a NUL byte ends it.  Nothing but the file       *)
(* system and the kernel's FIFO semantics synchronises the processes: what *)
(* is modelled is every order of their system calls.                       *)
(***************************************************************************)
EXTENDS Naturals, Sequences, Functions

CONSTANTS
  Servers,         \* processes started as `ctpv -s id'
  Stale,           \* those that died in an earlier session, leaving a FIFO
  Clients,         \* runs of the scripts that write to the FIFO
  Kinds,           \* which scripts run: "add" (image preview), "remove"
                   \* (clear.sh), "exit" (end.sh)
  BufMsgs,         \* how many messages a read() of 1024 bytes returns at most
  UeberzugUsable,  \* set_image_method prefers ueberzug once the FIFO exists
  Faults,          \* what may go wrong, a subset of AllFaults
  NoPath,          \* nothing is at the path of the FIFO
  RegFile          \* a regular file is at the path of the FIFO

AllKinds  == {"add", "remove", "exit"}
AllFaults == {"crash", "signal", "ueberzug", "resource", "config"}

ASSUME ServerAssumption ==
  /\ Stale \subseteq Servers
  /\ Kinds \subseteq AllKinds
  /\ BufMsgs \in Nat \ {0}
  /\ UeberzugUsable \in BOOLEAN
  /\ Faults \subseteq AllFaults
  /\ NoPath \notin Servers /\ RegFile \notin Servers /\ NoPath # RegFile

VARIABLES
  path,      \* what /tmp/ctpvfifo.<id> names: NoPath, RegFile or the FIFO
             \* that a server made (FIFOs are named by their maker)
  data,      \* data[s]: messages in the buffer of the FIFO of s
  spc,       \* spc[s]: where server s is in server_listen() and listen()
  doExit,    \* doExit[s]: the flag the signal handler sets
  fd,        \* fd[s]: whether s has its read end open
  revents,   \* revents[s]: the answer of the last poll()
  sawWriter, \* sawWriter[s]: a writer was seen since s opened its read end
  ueb,       \* ueb[s]: the ueberzug child of s
  uin,       \* uin[s]: messages written to the standard input of ueb[s]
  cpc,       \* cpc[c]: where client c is in its script
  kind,      \* kind[c]: the script c runs
  cfifo,     \* cfifo[c]: the FIFO c has open, or is opening, for writing
  accepted   \* accepted[s]: history of the writes to the FIFO of s

serverVars == <<spc, doExit, fd, revents>>
clientVars == <<cpc, kind, cfifo>>
vars == <<path, data, spc, doExit, fd, revents, sawWriter, ueb, uin,
          cpc, kind, cfifo, accepted>>

(***************************************************************************)
(* A message is the client that sent it; kind tells its first byte.        *)
(***************************************************************************)
ServerPC == {"off", "mkfifo", "open", "register", "spawn", "poll", "read",
             "hup", "reopen", "kill", "wait", "unregister", "closefd",
             "remove", "done", "dead"}
ClientPC == {"idle", "detect", "probe", "openw", "blocked", "write",
             "close", "done"}

Over       == {"done", "dead"}
Loop       == {"poll", "read", "hup", "reopen"}
\* From mkfifo() to remove(): the FIFO at the path is this server's.
Owning     == {"open", "register", "spawn", "kill", "wait", "unregister",
               "closefd", "remove"} \cup Loop
\* signal() has installed sig_handler_exit and not yet reset it.
HandlersOn == Loop \cup {"spawn", "kill", "wait", "unregister"}

-----------------------------------------------------------------------------
(***************************************************************************)
(* The kernel's FIFO.                                                      *)
(***************************************************************************)

\* Mutant: open_fifo() with O_CLOEXEC, so that the child does not inherit it.
NotInherited(s) == FALSE

\* open_fifo() does not set O_CLOEXEC: the ueberzug child keeps the read end
\* that was open at the time of the fork for as long as it lives.
Inherits(s) == ueb[s] = "running"

HasReader(s) == fd[s] \/ Inherits(s)

\* A process that waits in open(2) already counts as a writer.
Writers(s) == {c \in Clients : cfifo[c] = s}

Held(s) == HasReader(s) \/ Writers(s) # {}

\* When nobody holds the FIFO any more the kernel drops what is in it.
DropUnheld == data' = [s \in Servers |-> IF Held(s)' THEN data[s] ELSE <<>>]

\* POLLHUP is reported only after a writer has come and all have gone.
PollEvents(s) ==
  (IF data[s] # <<>> THEN {"IN"} ELSE {}) \cup
  (IF Writers(s) = {} /\ sawWriter[s] THEN {"HUP"} ELSE {})

\* open(O_RDONLY | O_NONBLOCK) by s: succeeds at once and lets the writers
\* that wait in open(2) go on.
OpenReadEnd(s) ==
  /\ sawWriter' = [sawWriter EXCEPT ![s] = Writers(s) # {}]
  /\ cpc' = [c \in Clients |->
               IF cpc[c] = "blocked" /\ cfifo[c] = s THEN "write" ELSE cpc[c]]
  /\ UNCHANGED <<kind, cfifo>>

Chunk(q) == SubSeq(q, 1, IF Len(q) < BufMsgs THEN Len(q) ELSE BufMsgs)

\* Mutant: the last message of a chunk is read again.
ReadsTwice(q) == SubSeq(q, Len(Chunk(q)), Len(q))

Rest(q) == SubSeq(q, Len(Chunk(q)) + 1, Len(q))

-----------------------------------------------------------------------------
(***************************************************************************)
(* The server.                                                             *)
(***************************************************************************)
Goto(s, l) == spc' = [spc EXCEPT ![s] = l]

\* check_ueberzug(): `command -v ueberzug' answers 127, or it goes on.
CheckUeberzug(s) ==
  /\ spc[s] = "off"
  /\ Goto(s, "mkfifo") \/ Goto(s, "done")
  /\ UNCHANGED <<path, data, doExit, fd, revents, sawWriter, ueb, uin,
                 clientVars, accepted>>

\* Mutant: a refused mkfifo() leaves through the label that removes the FIFO.
RemoveOnRefusal(s) ==
  /\ spc[s] = "mkfifo"
  /\ \/ path = NoPath /\ path' = s /\ Goto(s, "open")
     \/ path # NoPath /\ path' = path /\ Goto(s, "remove")
  /\ UNCHANGED <<data, doExit, fd, revents, sawWriter, ueb, uin, clientVars,
                 accepted>>

\* mkfifo(); EEXIST, whatever is there, ends the server without a remove().
Mkfifo(s) ==
  /\ spc[s] = "mkfifo"
  /\ \/ path = NoPath /\ path' = s /\ Goto(s, "open")
     \/ path # NoPath /\ path' = path /\ Goto(s, "done")
  /\ UNCHANGED <<data, doExit, fd, revents, sawWriter, ueb, uin, clientVars,
                 accepted>>

\* The first open_fifo() of listen().
OpenFifo(s) ==
  /\ spc[s] = "open"
  /\ Goto(s, "register")
  /\ fd' = [fd EXCEPT ![s] = TRUE]
  /\ OpenReadEnd(s)
  /\ UNCHANGED <<path, data, doExit, revents, ueb, uin, accepted>>

\* It can fail (too many open files): listen() returns to the remove().
OpenFifoFails(s) ==
  /\ "resource" \in Faults
  /\ spc[s] = "open"
  /\ Goto(s, "remove")
  /\ UNCHANGED <<path, data, doExit, fd, revents, sawWriter, ueb, uin,
                 clientVars, accepted>>

\* register_signal() for SIGINT and SIGTERM.
RegisterSignals(s) ==
  /\ spc[s] = "register"
  /\ Goto(s, "spawn")
  /\ UNCHANGED <<path, data, doExit, fd, revents, sawWriter, ueb, uin,
                 clientVars, accepted>>

\* pipe() and spawn() of `ueberzug layer'.
SpawnUeberzug(s) ==
  /\ spc[s] = "spawn"
  /\ Goto(s, "poll")
  /\ ueb' = [ueb EXCEPT ![s] = "running"]
  /\ UNCHANGED <<path, data, doExit, fd, revents, sawWriter, uin, clientVars,
                 accepted>>

\* pipe() fails: leave by "signal"; fork() fails: leave by "close".
SpawnFails(s) ==
  /\ "resource" \in Faults
  /\ spc[s] = "spawn"
  /\ Goto(s, "unregister") \/ Goto(s, "kill")
  /\ UNCHANGED <<path, data, doExit, fd, revents, sawWriter, ueb, uin,
                 clientVars, accepted>>

\* Mutant: poll() with an infinite timeout instead of 100 ms.
PollForever(s) == PollEvents(s) # {}

\* poll(&pollfd, 1, 100) comes back for an event, and after 100 ms without
\* one; the latter matters only when do_exit was set before poll() began.
PollWakes(s) == PollEvents(s) # {} \/ doExit[s]

PollReturns(s) ==
  /\ spc[s] = "poll"
  /\ PollWakes(s)
  /\ \/ doExit[s] /\ Goto(s, "kill") /\ UNCHANGED revents
     \/ /\ ~doExit[s]
        /\ revents' = [revents EXCEPT ![s] = PollEvents(s)]
        /\ Goto(s, IF "IN" \in PollEvents(s) THEN "read" ELSE "hup")
  /\ UNCHANGED <<path, data, doExit, fd, sawWriter, ueb, uin, clientVars,
                 accepted>>

\* Mutant: the server stops at a hang-up instead of opening the FIFO again.
StopAtHangup(s) == "kill"

\* Where the body of the poll loop goes when read() has returned 0 (no
\* writer) or EAGAIN (nothing to read).
AfterReading(s) == IF "HUP" \in revents[s] THEN "hup" ELSE "poll"

ReadsNothing(s) ==
  /\ spc[s] = "read"
  /\ data[s] = <<>>
  /\ Goto(s, AfterReading(s))
  /\ UNCHANGED <<path, data, doExit, fd, revents, sawWriter, ueb, uin,
                 clientVars, accepted>>

\* buf[0] == 0: only the first byte of what a read() returned is looked at.
ExitByte(q) == kind[Head(q)] = "exit"

ReadsExit(s) ==
  /\ spc[s] = "read"
  /\ data[s] # <<>>
  /\ ExitByte(Chunk(data[s]))
  /\ data' = [data EXCEPT ![s] = Rest(data[s])]
  /\ Goto(s, "kill")
  /\ UNCHANGED <<path, doExit, fd, revents, sawWriter, ueb, uin, clientVars,
                 accepted>>

\* write(pipe_fds[1], buf, len): the whole buffer, a later NUL included.  The
\* pipe to ueberzug has room for it: that ueberzug reads so slowly that the
\* write() blocks is not modelled.
Forwarded(q) == Chunk(q)

Forwards(s) ==
  /\ spc[s] = "read"
  /\ data[s] # <<>>
  /\ ~ExitByte(Chunk(data[s]))
  /\ ueb[s] = "running"
  /\ data' = [data EXCEPT ![s] = Rest(data[s])]
  /\ uin' = [uin EXCEPT ![s] = @ \o Forwarded(data[s])]
  /\ UNCHANGED <<path, serverVars, sawWriter, ueb, clientVars, accepted>>

\* With ueberzug gone the write() raises SIGPIPE, which ends the server on
\* the spot: the FIFO stays.
ForwardKills(s) ==
  /\ spc[s] = "read"
  /\ data[s] # <<>>
  /\ ~ExitByte(Chunk(data[s]))
  /\ ueb[s] # "running"
  /\ Goto(s, "dead")
  /\ fd' = [fd EXCEPT ![s] = FALSE]
  /\ UNCHANGED <<path, doExit, revents, sawWriter, ueb, uin, clientVars,
                 accepted>>
  /\ DropUnheld

\* POLLHUP: close(pollfd.fd) ...
CloseHungUp(s) ==
  /\ spc[s] = "hup"
  /\ Goto(s, "reopen")
  /\ fd' = [fd EXCEPT ![s] = FALSE]
  /\ UNCHANGED <<path, doExit, revents, sawWriter, ueb, uin, clientVars,
                 accepted>>
  /\ DropUnheld

\* ... and open_fifo() again, by name (OwnFifo: it is the same FIFO).
Reopen(s) ==
  /\ spc[s] = "reopen"
  /\ Goto(s, "poll")
  /\ fd' = [fd EXCEPT ![s] = TRUE]
  /\ OpenReadEnd(s)
  /\ UNCHANGED <<path, data, doExit, revents, ueb, uin, accepted>>

\* Mutant: the result of the second open_fifo() is not checked, and the loop
\* polls the descriptor that is closed.
ReopenFailsUnseen(s) ==
  /\ "resource" \in Faults
  /\ spc[s] = "reopen"
  /\ Goto(s, "poll")
  /\ UNCHANGED <<path, data, doExit, fd, revents, sawWriter, ueb, uin,
                 clientVars, accepted>>

\* It can fail (too many open files in the system); then no read end is open
\* when listen() is left.
ReopenFails(s) ==
  /\ "resource" \in Faults
  /\ spc[s] = "reopen"
  /\ Goto(s, "kill")
  /\ UNCHANGED <<path, data, doExit, fd, revents, sawWriter, ueb, uin,
                 clientVars, accepted>>

\* kill_ueberzug(): close(pipe_fds[1]) and kill(ueberzug_pid, SIGTERM).
\* ueberzug_pid is still 0 when fork() failed, and SIGTERM then goes to the
\* process group of the server, itself included.
Kill(s) ==
  /\ spc[s] = "kill"
  /\ Goto(s, "wait")
  /\ doExit' = [doExit EXCEPT ![s] = @ \/ ueb[s] = "none"]
  /\ UNCHANGED <<path, data, fd, revents, sawWriter, ueb, uin, clientVars,
                 accepted>>

\* Mutant: kill_ueberzug() without the waitpid().
KillOnly(s) ==
  /\ spc[s] = "wait"
  /\ Goto(s, "unregister")
  /\ UNCHANGED <<path, data, doExit, fd, revents, sawWriter, ueb, uin,
                 clientVars, accepted>>

\* waitpid(): reaps ueberzug, or fails with ECHILD when there is none.
WaitUeberzug(s) ==
  /\ spc[s] = "wait"
  /\ ueb[s] # "running"
  /\ ueb' = [ueb EXCEPT ![s] = IF @ = "zombie" THEN "reaped" ELSE @]
  /\ Goto(s, "unregister")
  /\ UNCHANGED <<path, data, doExit, fd, revents, sawWriter, uin, clientVars,
                 accepted>>

\* signal(SIGINT, SIG_DFL), signal(SIGTERM, SIG_DFL).
UnregisterSignals(s) ==
  /\ spc[s] = "unregister"
  /\ Goto(s, "closefd")
  /\ UNCHANGED <<path, data, doExit, fd, revents, sawWriter, ueb, uin,
                 clientVars, accepted>>

CloseFd(s) ==
  /\ spc[s] = "closefd"
  /\ Goto(s, "remove")
  /\ fd' = [fd EXCEPT ![s] = FALSE]
  /\ UNCHANGED <<path, doExit, revents, sawWriter, ueb, uin, clientVars,
                 accepted>>
  /\ DropUnheld

\* remove(fifo) at the end of server_listen().
RemoveFifo(s) ==
  /\ spc[s] = "remove"
  /\ path' = NoPath
  /\ Goto(s, "done")
  /\ UNCHANGED <<data, doExit, fd, revents, sawWriter, ueb, uin, clientVars,
                 accepted>>

\* SIGINT or SIGTERM arrives: the handler sets do_exit and a poll() that is
\* waiting fails with EINTR, which ends the loop; without the handler the
\* process dies at once.
Signal(s) ==
  /\ "signal" \in Faults
  /\ spc[s] \notin Over \cup {"off"}
  /\ ~doExit[s]
  /\ UNCHANGED <<path, revents, sawWriter, ueb, uin, clientVars, accepted>>
  /\ \/ /\ spc[s] \in HandlersOn
        /\ doExit' = [doExit EXCEPT ![s] = TRUE]
        /\ Goto(s, IF spc[s] = "poll" THEN "kill" ELSE spc[s])
        /\ UNCHANGED <<fd, data>>
     \/ /\ spc[s] \notin HandlersOn
        /\ doExit' = doExit
        /\ Goto(s, "dead")
        /\ fd' = [fd EXCEPT ![s] = FALSE]
        /\ DropUnheld

\* SIGHUP or SIGKILL: no handler anywhere.
Crash(s) ==
  /\ "crash" \in Faults
  /\ spc[s] \notin Over \cup {"off"}
  /\ Goto(s, "dead")
  /\ fd' = [fd EXCEPT ![s] = FALSE]
  /\ UNCHANGED <<path, doExit, revents, sawWriter, ueb, uin, clientVars,
                 accepted>>
  /\ DropUnheld

-----------------------------------------------------------------------------
(***************************************************************************)
(* ueberzug: ends by itself, or when it is told to by SIGTERM or by the    *)
(* end of its standard input.                                              *)
(***************************************************************************)
UeberzugEnds(s) ==
  /\ ueb[s] = "running"
  /\ ueb' = [ueb EXCEPT ![s] = "zombie"]
  /\ UNCHANGED <<path, serverVars, sawWriter, uin, clientVars, accepted>>
  /\ DropUnheld

UeberzugFails(s) == "ueberzug" \in Faults /\ UeberzugEnds(s)
UeberzugObeys(s) == spc[s] \in {"wait", "dead"} /\ UeberzugEnds(s)

-----------------------------------------------------------------------------
(***************************************************************************)
(* The scripts: sh/clear.sh ("remove"), sh/end.sh ("exit") and the last    *)
(* part of an image preview ("add").                                       *)
(***************************************************************************)
Move(c, from, to) == cpc[c] = from /\ cpc' = [cpc EXCEPT ![c] = to]

\* Script k is started by c.
LaunchAs(c, k) ==
  /\ kind' = [kind EXCEPT ![c] = k]
  /\ Move(c, "idle", "detect")
  /\ UNCHANGED <<path, data, serverVars, sawWriter, ueb, uin, cfifo,
                 accepted>>

Launch(c) == \E k \in Kinds : LaunchAs(c, k)

\* clear(), end() and preview() read the configuration first; an error in it
\* ends them before the script runs.
ConfigErrorAs(c, k) ==
  /\ "config" \in Faults
  /\ kind' = [kind EXCEPT ![c] = k]
  /\ Move(c, "idle", "done")
  /\ UNCHANGED <<path, data, serverVars, sawWriter, ueb, uin, cfifo,
                 accepted>>

ConfigError(c) == \E k \in Kinds : ConfigErrorAs(c, k)

\* set_image_method(): ueberzug when it can be used and something is at the
\* path.
MethodIsUeberzug == UeberzugUsable /\ path # NoPath

\* setup_image().  end.sh writes to the FIFO whatever the method is.
Detect(c) ==
  /\ \/ MethodIsUeberzug /\ Move(c, "detect", "probe")
     \/ /\ ~MethodIsUeberzug
        /\ Move(c, "detect", IF kind[c] = "exit" THEN "openw" ELSE "done")
  /\ UNCHANGED <<path, data, serverVars, sawWriter, ueb, uin, kind, cfifo,
                 accepted>>

\* Mutant: setup_fifo() goes on although nobody reads the FIFO.
ProbeAlways == path # NoPath

\* fifo_open(): dd opens the path for writing, with nonblock (fails with
\* ENXIO when the FIFO has no reader) and nocreat (fails when nothing is
\* there), and closes it again.
ProbeSucceeds ==
  \/ path = RegFile
  \/ \E s \in Servers : path = s /\ HasReader(s)

Probe(c) ==
  /\ \/ ProbeSucceeds /\ Move(c, "probe", "openw")
     \/ ~ProbeSucceeds /\ Move(c, "probe", "done")
  /\ sawWriter' = [s \in Servers |->
       IF path = s /\ ProbeSucceeds THEN TRUE ELSE sawWriter[s]]
  /\ UNCHANGED <<path, data, serverVars, ueb, uin, kind, cfifo, accepted>>

\* The shell opens the target of `printf ... > "$fifo"': a FIFO without
\* readers blocks it.
OpenWriteFifo(c) ==
  /\ \E s \in Servers :
       /\ path = s
       /\ Move(c, "openw", IF HasReader(s) THEN "write" ELSE "blocked")
       /\ cfifo' = [cfifo EXCEPT ![c] = s]
       /\ sawWriter' = [sawWriter EXCEPT ![s] = TRUE]
  /\ UNCHANGED <<path, data, serverVars, ueb, uin, kind, accepted>>

\* O_CREAT: when the FIFO is gone a regular file takes its place.
Created == IF path = NoPath THEN RegFile ELSE path

\* The message goes to a regular file, where nobody reads it.
OpenWriteFile(c) ==
  /\ path \notin Servers
  /\ Move(c, "openw", "done")
  /\ path' = Created
  /\ UNCHANGED <<data, serverVars, sawWriter, ueb, uin, kind, cfifo,
                 accepted>>

Write(c) ==
  /\ Move(c, "write", "close")
  /\ HasReader(cfifo[c])
  /\ data' = [data EXCEPT ![cfifo[c]] = Append(@, c)]
  /\ accepted' = [accepted EXCEPT ![cfifo[c]] = Append(@, c)]
  /\ UNCHANGED <<path, serverVars, sawWriter, ueb, uin, kind, cfifo>>

\* EPIPE: the last reader has gone since open(2).
WriteFails(c) ==
  /\ cpc[c] = "write"
  /\ ~HasReader(cfifo[c])
  /\ Move(c, "write", "done")
  /\ cfifo' = [cfifo EXCEPT ![c] = NoPath]
  /\ UNCHANGED <<path, serverVars, sawWriter, ueb, uin, kind, accepted>>
  /\ DropUnheld

\* Mutant: the write end stays open (a process the script leaves behind has
\* inherited it).
LeavesOpen(c) ==
  /\ Move(c, "close", "done")
  /\ UNCHANGED <<path, data, serverVars, sawWriter, ueb, uin, kind, cfifo,
                 accepted>>

CloseWrite(c) ==
  /\ Move(c, "close", "done")
  /\ cfifo' = [cfifo EXCEPT ![c] = NoPath]
  /\ UNCHANGED <<path, serverVars, sawWriter, ueb, uin, kind, accepted>>
  /\ DropUnheld

-----------------------------------------------------------------------------
Init ==
  /\ path \in Stale \cup {NoPath}
  /\ data = [s \in Servers |-> <<>>]
  /\ spc = [s \in Servers |-> IF s \in Stale THEN "dead" ELSE "off"]
  /\ doExit = [s \in Servers |-> FALSE]
  /\ fd = [s \in Servers |-> FALSE]
  /\ revents = [s \in Servers |-> {}]
  /\ sawWriter = [s \in Servers |-> FALSE]
  /\ ueb = [s \in Servers |-> "none"]
  /\ uin = [s \in Servers |-> <<>>]
  /\ cpc = [c \in Clients |-> "idle"]
  /\ kind = [c \in Clients |-> "none"]
  /\ cfifo = [c \in Clients |-> NoPath]
  /\ accepted = [s \in Servers |-> <<>>]

\* What server s does by itself once it has made the FIFO.
Serve(s) ==
  \/ OpenFifo(s) \/ OpenFifoFails(s) \/ RegisterSignals(s)
  \/ SpawnUeberzug(s) \/ SpawnFails(s)
  \/ PollReturns(s) \/ ReadsNothing(s) \/ ReadsExit(s)
  \/ Forwards(s) \/ ForwardKills(s) \/ CloseHungUp(s)
  \/ Reopen(s) \/ ReopenFails(s)
  \/ Kill(s) \/ WaitUeberzug(s) \/ UnregisterSignals(s) \/ CloseFd(s)
  \/ RemoveFifo(s)

\* What client c does by itself once it is launched.
RunScript(c) ==
  \/ Detect(c) \/ Probe(c) \/ OpenWriteFifo(c) \/ OpenWriteFile(c)
  \/ Write(c) \/ WriteFails(c) \/ CloseWrite(c)

\* What happens whoever starts the scripts.
ServerNext ==
  \/ \E s \in Servers :
       \/ CheckUeberzug(s) \/ Mkfifo(s) \/ Serve(s)
       \/ Signal(s) \/ Crash(s) \/ UeberzugFails(s) \/ UeberzugObeys(s)
  \/ \E c \in Clients : RunScript(c)

Next == ServerNext \/ \E c \in Clients : Launch(c) \/ ConfigError(c)

(***************************************************************************)
(* The scheduler runs every process that can run.  Nothing makes a user    *)
(* start a server or a script, or makes a fault happen.  ueberzug obeys    *)
(* SIGTERM and the end of its input.                                       *)
(***************************************************************************)
Fairness ==
  /\ \A s \in Servers : WF_vars(Serve(s)) /\ WF_vars(UeberzugObeys(s))
  /\ \A c \in Clients : WF_vars(RunScript(c))

Spec == Init /\ [][Next]_vars /\ Fairness
-----------------------------------------------------------------------------
(***************************************************************************)
(* Properties.                                                             *)
(***************************************************************************)

\* Every variable has its type, and a script holds a FIFO open exactly from
\* its open(2) to its close(2).
TypeOK ==
  /\ path \in Servers \cup {NoPath, RegFile}
  /\ data \in [Servers -> Seq(Clients)]
  /\ spc \in [Servers -> ServerPC]
  /\ doExit \in [Servers -> BOOLEAN]
  /\ fd \in [Servers -> BOOLEAN]
  /\ revents \in [Servers -> SUBSET {"IN", "HUP"}]
  /\ sawWriter \in [Servers -> BOOLEAN]
  /\ ueb \in [Servers -> {"none", "running", "zombie", "reaped"}]
  /\ uin \in [Servers -> Seq(Clients)]
  /\ accepted \in [Servers -> Seq(Clients)]
  /\ cpc \in [Clients -> ClientPC]
  /\ kind \in [Clients -> AllKinds \cup {"none"}]
  /\ cfifo \in [Clients -> Servers \cup {NoPath}]
  /\ \A c \in Clients :
       cpc[c] \in {"blocked", "write", "close"} <=> cfifo[c] \in Servers

\* Whatever other servers are started, refused, stopped or killed meanwhile,
\* the path names the FIFO of a server from its mkfifo() to its remove(): the
\* open_fifo() after a hang-up opens the FIFO it has closed, a server never
\* removes the FIFO of another, and two servers never serve one id.
OwnFifo == \A s \in Servers : spc[s] \in Owning => path = s

\* While a server relays to a live ueberzug every message that was written to
\* its FIFO has gone to ueberzug or waits in the FIFO, in the order of the
\* writes: a write between the close() and the open_fifo() of a hang-up is
\* not lost.
InOrder ==
  \A s \in Servers :
    spc[s] \in Loop /\ ueb[s] = "running"
      => accepted[s] = uin[s] \o data[s]

\* A server that ends by itself leaves neither its FIFO nor its ueberzug,
\* running or zombie.
CleanEnd ==
  \A s \in Servers :
    spc[s] = "done" => path # s /\ ueb[s] \in {"none", "reaped"}

\* What is at the path of the FIFO stays there, the regular file of an end.sh
\* without a server and the FIFO of a dead server included, until the server
\* that made it comes to its remove(): a server that such a file refuses does
\* not clear it away, and neither does a script.
PathKept ==
  [][path # NoPath /\ path' # path
       => path' = NoPath /\ \E s \in Servers : path = s /\ spc[s] = "remove"
    ]_vars

\* A server that has left the loop of listen(), or died.
Leaving ==
  {"kill", "wait", "unregister", "closefd", "remove"} \cup Over

\* No wake-up is lost: a script hangs in the open(2) of a FIFO only while
\* nobody, not even an ueberzug left behind, can read it, and only for a
\* server that has yet to call open_fifo() or has stopped serving.  No server
\* polls a FIFO in front of which a script waits.
NoLostWakeup ==
  \A c \in Clients :
    cpc[c] = "blocked"
      => /\ ~HasReader(cfifo[c])
         /\ spc[cfifo[c]] \in {"open", "reopen"} \cup Leaving

\* The four invariants above are not inductive.  OwnFifo also needs that the
\* path never names a FIFO that is not yet made or already removed ...
OwnInv ==
  /\ OwnFifo
  /\ \A s \in Servers : spc[s] \in {"off", "mkfifo", "done"} => path # s

\* ... CleanEnd where ueberzug is known not to run ...
ReapInv ==
  \A s \in Servers :
    /\ spc[s] \in {"off", "mkfifo", "open", "register", "spawn"}
         => ueb[s] = "none"
    /\ spc[s] \in {"unregister", "closefd", "remove", "done"}
         => ueb[s] \in {"none", "reaped"}

\* ... NoLostWakeup that the read end is open wherever the server reads ...
WakeInv ==
  /\ NoLostWakeup
  /\ \A s \in Servers :
       spc[s] \in {"register", "spawn", "poll", "read", "hup"} => fd[s]

\* ... and InOrder where the messages are before ueberzug is started.
Stream(s) ==
  /\ spc[s] \in {"off", "mkfifo", "open"}
       => /\ ~fd[s] /\ ueb[s] = "none"
          /\ accepted[s] = <<>> /\ data[s] = <<>> /\ uin[s] = <<>>
  /\ spc[s] \in {"register", "spawn"}
       => /\ fd[s] /\ ueb[s] = "none"
          /\ uin[s] = <<>> /\ accepted[s] = data[s]
  /\ spc[s] \in Loop /\ ueb[s] = "running"
       => accepted[s] = uin[s] \o data[s]

StreamInv == \A s \in Servers : Stream(s)

\* The server implements the abstract relay: whoever's FIFO the path names
\* owns the id, and the messages it reads go to ueberzug each once and in
\* order.
R == INSTANCE Relay WITH
       Owners   <- Servers,
       Messages <- Clients,
       Nobody   <- NoPath,
       owner    <- IF path \in Servers THEN path ELSE NoPath,
       sent     <- accepted,
       got      <- uin

ImplementsRelay == R!Spec

\* What ends a server or leaves it without ueberzug: a signal, a message of
\* end.sh, the end of ueberzug, or a system call that failed in listen().
MayEnd(s) ==
  \/ doExit[s] \/ spc[s] = "dead"
  \/ \E c \in Range(accepted[s]) : kind[c] = "exit"
  \/ ueb[s] = "zombie" /\ spc[s] \in Loop
  \/ /\ spc[s] \in {"kill", "wait", "unregister", "closefd"}
     /\ ~fd[s] \/ ueb[s] = "none"

\* The servers of this session: a stale one does nothing any more.
New == Servers \ Stale

\* Every message in the FIFO of a server that has not done with it reaches
\* ueberzug, whatever is closed and opened in between, unless one of these
\* happens; a script that hangs up is none of them.
Relayed ==
  \A s \in New, c \in Clients :
    c \in Range(data[s]) /\ spc[s] \notin {"remove", "done"}
      ~> c \in Range(uin[s]) \/ MayEnd(s)

\* A server that has stopped serving, or never begun to.
Stopped == {s \in New : spc[s] \in {"remove", "dead"}}

\* Every script that is launched ends, also when a dead server has left its
\* FIFO: none stays in the open(2) or write(2) of a FIFO that nobody reads,
\* unless a server stops meanwhile.
ScriptsEnd ==
  \A c \in Clients : cpc[c] = "detect" ~> cpc[c] = "done" \/ Stopped # {}

\* A server that got SIGINT or SIGTERM stops.
SignalObeyed == \A s \in New : doExit[s] ~> spc[s] \in Over

\* A server whose FIFO got the message of end.sh stops.
EndObeyed ==
  \A s \in Servers, c \in Clients :
    cpc[c] = "close" /\ kind[c] = "exit" /\ cfifo[c] = s
      ~> spc[s] \in Over

\* It does when the message comes to stand at the front of the FIFO, whatever
\* comes behind it, as long as ueberzug lives and keeps the FIFO open.
EndInFrontObeyed ==
  \A s \in New :
    data[s] # <<>> /\ ExitByte(data[s])
      ~> spc[s] \in Over \/ ueb[s] = "zombie"
=============================================================================
