----------------------------- MODULE PreviewRun -----------------------------
(***************************************************************************)
(* preview_run() and run() of src/preview.c with spawn() of src/utils.c:   *)
(* ctpv runs the scripts of the previews that match a file, one after the  *)
(* other, each with its standard error in a pipe that ctpv reads once the  *)
(* script has ended.  ctpv and the script are two processes.               *)
(***************************************************************************)
EXTENDS Naturals, Sequences, Functions

CONSTANTS
  Last,       \* length of the list of previews
  Cap,        \* writes that fit into a pipe
  MaxErr,     \* bound on a script's writes to its standard error
  Lingering,  \* scripts may leave a process with their standard error
  Faulty      \* pipe(), fork() and read() may fail

ASSUME PreviewRunAssumption ==
  /\ Last \in Nat /\ Cap \in Nat \ {0} /\ MaxErr \in Nat
  /\ Lingering \in BOOLEAN /\ Faulty \in BOOLEAN

\* How a script ends: exit status 0, FAILED_PREVIEW_EC (127), ENOUGH_READ_EC
\* (141) or another one; killed by SIGPIPE or by another signal.
ExitKinds == {"ok", "missing", "enough", "fail", "sigpipe", "killed"}
Positions == 1 .. Last

VARIABLES
  matches,  \* positions in the list of the previews that match the file
  i,        \* where find_preview() goes on
  pc,       \* where ctpv is
  rfd,      \* ctpv has the read end of the pipe open
  wfd,      \* ctpv has the write end of the pipe open
  pipe,     \* what is in the pipe: <<position, number>> of each write
  child,    \* the script: "none", "running", "writing" or how it ended
  wrote,    \* how often the script has written to its standard error
  noise,    \* writes of the process left behind that are in the pipe: behind
            \* pipe, as a script writes nothing once it has ended
  bg,       \* a process that the script has left holds the write end
  status,   \* exitcode and signal as spawn_wait() sets them, or "unset"
  ret,      \* what run() returns
  shown,    \* what ctpv has copied to its standard output
  result,   \* what preview_run() returns, or "none"
  tried,    \* history: previews whose script has ended
  last      \* history: how the latest script ended

ctpvVars == <<i, pc, rfd, wfd, status, ret, result>>
vars == <<matches, i, pc, rfd, wfd, pipe, noise, child, wrote, bg, status, ret,
          shown, result, tried, last>>

PC == {"find", "pipe", "fork", "wait", "closew", "drain", "closer",
       "decide", "done"}

Init ==
  /\ matches \in SUBSET Positions
  /\ i = 1
  /\ pc = "find"
  /\ rfd = FALSE /\ wfd = FALSE /\ pipe = <<>> /\ noise = 0
  /\ child = "none" /\ wrote = 0 /\ bg = FALSE
  /\ status = "unset" /\ ret = "OK"
  /\ shown = <<>> /\ result = "none"
  /\ tried = {} /\ last = "none"

Goto(l) == pc' = l

Return(r) == Goto("done") /\ result' = r

-----------------------------------------------------------------------------
(***************************************************************************)
(* ctpv.                                                                   *)
(***************************************************************************)

\* Where find_preview() stops: at the first match from i on.
FirstMatch(j) == j \in matches /\ j >= i /\ \A k \in matches : k >= i => j <= k

FindPreview ==
  /\ pc = "find"
  /\ \E j \in Positions : FirstMatch(j) /\ i' = j
  /\ Goto("pipe")
  /\ UNCHANGED <<matches, rfd, wfd, pipe, noise, child, wrote, bg, status, ret,
                 shown, result, tried, last>>

\* "ctpv: no previews found"
FindNothing ==
  /\ pc = "find"
  /\ ~\E j \in matches : j >= i
  /\ i' = Last + 1
  /\ Return("ERR")
  /\ UNCHANGED <<matches, rfd, wfd, pipe, noise, child, wrote, bg, status, ret,
                 shown, tried, last>>

Pipe ==
  /\ pc = "pipe"
  /\ rfd' = TRUE /\ wfd' = TRUE
  /\ pipe' = <<>> /\ noise' = 0 /\ bg' = FALSE
  /\ Goto("fork")
  /\ UNCHANGED <<matches, i, child, wrote, status, ret, shown, result, tried,
                 last>>

PipeFails ==
  /\ Faulty
  /\ pc = "pipe"
  /\ Return("ERR")
  /\ UNCHANGED <<matches, i, rfd, wfd, pipe, noise, child, wrote, bg, status,
                 ret, shown, tried, last>>

Fork ==
  /\ pc = "fork"
  /\ child' = "running" /\ wrote' = 0 /\ status' = "unset" /\ ret' = "OK"
  /\ Goto("wait")
  /\ UNCHANGED <<matches, i, rfd, wfd, pipe, noise, bg, shown, result, tried,
                 last>>

\* spawn() has set exitcode to -1: run() goes on to read.
ForkFails ==
  /\ Faulty
  /\ pc = "fork"
  /\ status' = "unset" /\ ret' = "ERR"
  /\ Goto("closew")
  /\ UNCHANGED <<matches, i, rfd, wfd, pipe, noise, child, wrote, bg, shown,
                 result, tried, last>>

\* Mutant: waitpid() with WNOHANG.
WaitNot == child # "none"

\* waitpid() comes back only when the script has ended.
ScriptEnded == child \in ExitKinds

SpawnWait ==
  /\ pc = "wait"
  /\ ScriptEnded
  /\ status' = child
  /\ child' = "none"
  /\ Goto("closew")
  /\ UNCHANGED <<matches, i, rfd, wfd, pipe, noise, wrote, bg, ret, shown,
                 result, tried, last>>

\* Mutant: the standard error of every script is printed.
NeverSkips == FALSE

\* What a preview that hands over has written is not printed.
Skips == status = "missing"

\* Mutant: the write end stays open in ctpv.
KeepsWriteEnd == UNCHANGED wfd

ClosesWriteEnd == wfd' = FALSE

CloseWriteEnd ==
  /\ pc = "closew"
  /\ ClosesWriteEnd
  /\ Goto(IF Skips THEN "closer" ELSE "drain")
  /\ UNCHANGED <<matches, i, rfd, pipe, noise, child, wrote, bg, status, ret,
                 shown, result, tried, last>>

\* read() and write() of up to 256 bytes.
Drain ==
  /\ pc = "drain"
  /\ pipe # <<>>
  /\ shown' = Append(shown, Head(pipe))
  /\ pipe' = Tail(pipe)
  /\ UNCHANGED <<matches, ctpvVars, noise, child, wrote, bg, tried, last>>

\* The same of what the process left behind has written: it is printed too.
DrainRest ==
  /\ pc = "drain"
  /\ pipe = <<>> /\ noise > 0
  /\ noise' = noise - 1
  /\ UNCHANGED <<matches, ctpvVars, pipe, child, wrote, bg, shown, tried, last>>

ReadFails ==
  /\ Faulty
  /\ pc = "drain"
  /\ ret' = "ERR"
  /\ Goto("closer")
  /\ UNCHANGED <<matches, i, rfd, wfd, pipe, noise, child, wrote, bg, status,
                 shown, result, tried, last>>

\* Mutant: one read() instead of the loop.
ReadsOnce == TRUE

\* read() returns 0: nothing is left, and nobody can write any more.
EndOfPipe ==
  /\ pipe = <<>> /\ noise = 0
  /\ ~wfd /\ ~bg /\ child \notin {"running", "writing"}

DrainEnds ==
  /\ pc = "drain"
  /\ EndOfPipe
  /\ Goto("closer")
  /\ UNCHANGED <<matches, i, rfd, wfd, pipe, noise, child, wrote, bg, status,
                 ret, shown, result, tried, last>>

CloseReadEnd ==
  /\ pc = "closer"
  /\ rfd' = FALSE
  /\ IF ret = "OK" THEN Goto("decide") /\ UNCHANGED result ELSE Return("ERR")
  /\ UNCHANGED <<matches, i, wfd, pipe, noise, child, wrote, bg, status, ret,
                 shown, tried, last>>

\* Mutant: any failure hands over to the next preview.
AnyFailure == status \notin {"ok", "enough", "sigpipe"}

\* exitcode is FAILED_PREVIEW_EC.
Failed == status = "missing"

\* Mutant: find_preview() is called again without i++.
SameAgain == i

NextIndex == i + 1

NextPreview ==
  /\ pc = "decide"
  /\ Failed
  /\ i' = NextIndex
  /\ Goto("find")
  /\ UNCHANGED <<matches, rfd, wfd, pipe, noise, child, wrote, bg, status, ret,
                 shown, result, tried, last>>

\* ENOUGH_READ_EC and SIGPIPE count as success.
Finish ==
  /\ pc = "decide"
  /\ ~Failed
  /\ Return(IF status \in {"ok", "enough", "sigpipe"} THEN "OK" ELSE "ERR")
  /\ UNCHANGED <<matches, i, rfd, wfd, pipe, noise, child, wrote, bg, status,
                 ret, shown, tried, last>>

-----------------------------------------------------------------------------
(***************************************************************************)
(* The script.  A write() to a full pipe waits.  ctpv holds the read end   *)
(* as long as the script lives, so that no write fails.  What a process in *)
(* the background writes while the script lives counts as the script's.    *)
(***************************************************************************)
StartWrite ==
  /\ child = "running"
  /\ wrote < MaxErr
  /\ child' = "writing"
  /\ UNCHANGED <<matches, ctpvVars, pipe, noise, wrote, bg, shown, tried, last>>

FinishWrite ==
  /\ child = "writing"
  /\ Len(pipe) < Cap
  /\ child' = "running"
  /\ pipe' = Append(pipe, <<i, wrote + 1>>)
  /\ wrote' = wrote + 1
  /\ UNCHANGED <<matches, ctpvVars, noise, bg, shown, tried, last>>

Exit ==
  /\ child = "running"
  /\ child' \in ExitKinds
  /\ bg' \in {FALSE, Lingering}
  /\ tried' = tried \cup {i}
  /\ last' = child'
  /\ UNCHANGED <<matches, ctpvVars, pipe, noise, wrote, shown>>

\* The process that was left behind writes: nothing bounds how often.
LingererWrites ==
  /\ bg /\ rfd
  /\ Len(pipe) + noise < Cap
  /\ noise' = noise + 1
  /\ UNCHANGED <<matches, ctpvVars, pipe, child, wrote, bg, shown, tried, last>>

\* It ends, as it also does when it writes to a pipe without a read end.
LingererEnds ==
  /\ bg
  /\ bg' = FALSE
  /\ UNCHANGED <<matches, ctpvVars, pipe, noise, child, wrote, shown, tried,
                 last>>

-----------------------------------------------------------------------------
Ctpv ==
  \/ FindPreview \/ FindNothing \/ Pipe \/ PipeFails \/ Fork \/ ForkFails
  \/ SpawnWait \/ CloseWriteEnd \/ Drain \/ DrainRest \/ ReadFails \/ DrainEnds
  \/ CloseReadEnd \/ NextPreview \/ Finish

Script == StartWrite \/ FinishWrite \/ Exit

Lingerer == LingererWrites \/ LingererEnds

Next == Ctpv \/ Script \/ Lingerer

\* Both processes are scheduled, and a script that can go on ends some time:
\* its writes are bounded by MaxErr.  A process left behind may write or do
\* nothing, for ever: nothing makes it end.
Spec == Init /\ [][Next]_vars /\ WF_vars(Ctpv) /\ WF_vars(Script)

-----------------------------------------------------------------------------
(***************************************************************************)
(* Properties.                                                             *)
(***************************************************************************)

\* Every variable has its type.
TypeOK ==
  /\ matches \subseteq Positions
  /\ i \in 1 .. Last + 1
  /\ pc \in PC
  /\ rfd \in BOOLEAN /\ wfd \in BOOLEAN /\ bg \in BOOLEAN
  /\ pipe \in Seq(Nat \X Nat) /\ shown \in Seq(Nat \X Nat) /\ noise \in Nat
  /\ child \in ExitKinds \cup {"none", "running", "writing"}
  /\ wrote \in Nat
  /\ status \in ExitKinds \cup {"unset"}
  /\ ret \in {"OK", "ERR"}
  /\ result \in {"none", "OK", "ERR"}
  /\ tried \subseteq Positions
  /\ last \in ExitKinds \cup {"none"}

\* When a script decides, its whole standard error has been printed, in order,
\* and nothing of the scripts that handed over before it.  (What a process that
\* it has left behind writes comes behind it, and is not in shown.)
WholeError ==
  pc = "decide" /\ status # "missing"
    => shown = [n \in 1 .. wrote |-> <<i, n>>]

\* A preview is judged by the script it ran: preview_run() never looks at the
\* status of an earlier script or of one that still runs, and between two
\* previews no end of a pipe is left open.
OwnStatus ==
  /\ pc = "decide" => status = last /\ i \in tried
  /\ pc \in {"find", "done"} => ~rfd /\ ~wfd /\ child = "none"

\* ctpv is at a match from pipe() on, and in waitpid() as long as there is a
\* script.
InStep ==
  /\ pc \notin {"find", "done"} => i \in matches
  /\ pc = "wait" <=> child # "none"

\* Why OwnStatus holds: where each descriptor is open, and whose status is
\* known at each point of run().
StatusInv ==
  /\ pc \in {"find", "pipe", "decide", "done"} => ~rfd
  /\ pc \in {"find", "pipe", "drain", "closer", "decide", "done"} => ~wfd
  /\ child \in ExitKinds => last = child /\ i \in tried
  /\ pc = "wait" => ret = "OK"
  /\ pc = "drain" => status # "missing"
  /\ pc \in {"closew", "drain", "closer", "decide"} =>
       \/ ret = "OK" /\ status \in ExitKinds /\ status = last /\ i \in tried
       \/ ret = "ERR" /\ status = "unset" /\ Faulty /\ pc # "decide"
       \/ ret = "ERR" /\ pc = "closer" /\ Faulty

\* Why ImplementsChain holds: before its script has run, a preview has exactly
\* the earlier matches behind it, and all of them have handed over.
Before(n) == {k \in matches : k < n}

Pending ==
  \/ pc \in {"find", "pipe", "fork"}
  \/ pc = "wait" /\ child \in {"running", "writing"}

ChainInv ==
  /\ Pending => tried = Before(i) /\ last \in {"none", "missing"}
  /\ pc = "wait" /\ ~Pending => tried = Before(i + 1)
  /\ pc \in {"closew", "drain", "closer", "decide"} /\ ret = "OK"
       => tried = Before(i + 1)
  /\ pc = "done" <=> result # "none"

\* Why WholeError holds: what was printed followed by what is in the pipe is
\* what the script has written, until it is dropped or all printed; nobody else
\* has written to the pipe before the script ended.
Whole == [n \in 1 .. wrote |-> <<i, n>>]

ErrorInv ==
  /\ pc \in {"find", "pipe", "fork", "wait", "closew"} => shown = <<>>
  /\ pc = "fork" => pipe = <<>>
  /\ pc = "fork" \/ child \in {"running", "writing"} => noise = 0 /\ ~bg
  /\ pc \in {"wait", "closew"} /\ ret = "OK" => pipe = Whole
  /\ pc = "drain" /\ ret = "OK" => shown \o pipe = Whole
  /\ pc \in {"closer", "decide"} /\ ret = "OK" =>
       IF status = "missing" THEN shown = <<>> ELSE shown = Whole

\* The list is tried in order, each preview at most once, until one does not
\* exit with 127, and that one's status decides (doc/ctpv.1:234-247).
Chain == INSTANCE PreviewChain WITH
           Good <- {"ok", "enough", "sigpipe"}, Missing <- "missing",
           None <- "none"

ImplementsChain == Chain!Spec

\* Until preview_run() has returned, ctpv or the script can go on, but for the
\* two cases that run() does not provide for: a script that fills the pipe
\* while ctpv is in waitpid(), and a process that holds the pipe while ctpv
\* is in read().  In particular ctpv never waits for itself.
CtpvGoesOn ==
  \/ pc \in {"find", "pipe", "fork", "closew", "closer", "decide"}
  \/ pc = "wait" /\ ScriptEnded
  \/ pc = "drain" /\ (pipe # <<>> \/ noise > 0 \/ EndOfPipe)

ScriptGoesOn == child = "running" \/ (child = "writing" /\ Len(pipe) < Cap)

HangsOnly ==
  \/ pc = "done" \/ CtpvGoesOn \/ ScriptGoesOn
  \/ pc = "wait" /\ child = "writing" /\ Len(pipe) >= Cap
  \/ pc = "drain" /\ bg

\* How many steps ctpv, the scripts and the processes they leave can still
\* take if these do not write: those for the previews behind i, the writes of
\* the script at i (three steps each: to begin it, to end it and to read it),
\* what is in the pipe, and the rest of the way through run().
Written == IF pc \in {"find", "pipe", "fork"} THEN 0 ELSE wrote

Unread == IF pc \in {"wait", "closew", "drain"} THEN Len(pipe) + noise ELSE 0

Stage ==
  CASE pc = "find"   -> 10 [] pc = "pipe"   -> 9 [] pc = "fork"   -> 8
    [] pc = "wait"   -> 5  [] pc = "closew" -> 4 [] pc = "drain"  -> 3
    [] pc = "closer" -> 2  [] pc = "decide" -> 1 [] pc = "done"   -> 0

Alive ==
  CASE child = "running" -> 2 [] child = "writing" -> 1 [] OTHER -> 0

LeftBehind == IF bg THEN 1 ELSE 0

PerPreview == 3 * MaxErr + 10

StepsLeft ==
  (Last + 1 - i) * PerPreview + 3 * (MaxErr - Written) + Unread + Stage
    + Alive + LeftBehind

\* Each step of ctpv and the scripts, and the end of a process left behind,
\* brings the end of preview_run() nearer, and a write of such a process makes
\* the way longer by the one step of reading it.  So ctpv goes on for ever only
\* if a process that a script has left writes for ever, which the loop of run()
\* then prints; nothing that ctpv and the scripts do among themselves can.
LingererWrote == bg /\ noise' = noise + 1 /\ StepsLeft' <= StepsLeft + 1

Progress ==
  [][0 <= StepsLeft' /\ (StepsLeft' < StepsLeft \/ LingererWrote)]_vars

\* Progress needs that a script keeps to its bound.
BoundInv == wrote <= MaxErr /\ (child = "writing" => wrote < MaxErr)

\* A process that a script has left holds its standard error for ever.
HeldForEver == <>[]bg

\* What a script writes to its standard error is printed, unless it hands over
\* to the next preview (doc/ctpv.1:243-247), such a process is left, or read()
\* fails, which run() reports.
ErrorPrinted ==
  \/ HeldForEver
  \/ \A j \in Positions :
       i = j /\ child = "writing"
         ~> i # j \/ (pc = "done" /\ (Len(shown) = wrote \/ ret = "ERR"))
=============================================================================
