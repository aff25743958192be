------------------------------- MODULE Session ------------------------------
(***************************************************************************)
(* A session of lf with ctpv: lf starts the image server and ctpvquit      *)
(* (README.md, "Integration"), runs `ctpv' for the file at the cursor and  *)
(* ctpvclear when it leaves a file whose preview must be cleared; when lf  *)
(* has gone ctpvquit (quit/ctpvquit.c) runs `ctpv -e'.  The server, its    *)
(* FIFO and the scripts are those of Server, which this module composes    *)
(* with the programs that start the scripts.                               *)
(*                                                                         *)
(* lf is not part of ctpv: it runs one program at a time for the preview   *)
(* and waits for it, and it calls the cleaner only after a previewer that  *)
(* has exited with a status other than 0.                                  *)
(***************************************************************************)
EXTENDS Server

CONSTANTS
  PidReused,  \* the process id of lf may go to another process
  NoFile      \* lf is not at a file with an image preview

ASSUME SessionAssumption ==
  /\ Kinds = AllKinds
  /\ PidReused \in BOOLEAN
  /\ NoFile \notin Clients

VARIABLES
  lf,        \* "files", "preview" (the previewer runs), "gone", or "other":
             \* another process of the user has got its id
  cur,       \* the image script of the file lf is at, or NoFile
  volatile,  \* lf: the last previewer has failed, the cleaner is to be called
  quit,      \* ctpvquit: "watching" or "done"
  broken     \* history: a ctpv has ended with an error in its configuration

lfVars == <<lf, cur, volatile>>
sessionVars == <<vars, lfVars, quit, broken>>

SessionInit ==
  /\ Init
  /\ lf = "files" /\ cur = NoFile /\ volatile = FALSE
  /\ quit = "watching" /\ broken = FALSE

-----------------------------------------------------------------------------
(***************************************************************************)
(* lf and what it runs.                                                    *)
(***************************************************************************)

Unused == {c \in Clients : cpc[c] = "idle"}

\* The next process that lf or ctpvquit starts; which client stands for it
\* does not matter.
Fresh(c) == Unused # {} /\ c = CHOOSE d \in Unused : TRUE

\* The bound on what lf runs: the last script is left to ctpvquit.
Spare(c) == Fresh(c) /\ Unused # {c}

\* config(), then the script, unless the configuration has an error.
Ctpv(c, k) ==
  \/ LaunchAs(c, k) /\ UNCHANGED broken
  \/ ConfigErrorAs(c, k) /\ broken' = TRUE

\* `ctpv file' for a file with an image preview.
SelectImage(c) ==
  /\ lf = "files" /\ ~volatile
  /\ Spare(c)
  /\ Ctpv(c, "add")
  /\ lf' = "preview" /\ cur' = c
  /\ UNCHANGED <<volatile, quit>>

\* Mutant: the previewer does not wait for its script.
ReturnsAtOnce(c) == TRUE

\* run() asks for the exit status, so that spawn() waits for the script.
ScriptHasEnded(c) == cpc[c] = "done"

\* send_image() returns 1 when the image was sent: lf takes it for a preview
\* that must be cleared.  Otherwise other previews are tried, which end with
\* any status.
PreviewEnds ==
  /\ lf = "preview"
  /\ ScriptHasEnded(cur)
  /\ lf' = "files"
  /\ volatile' \in IF \E s \in Servers : cur \in Range(accepted[s])
                   THEN {TRUE} ELSE BOOLEAN
  /\ UNCHANGED <<vars, cur, quit, broken>>

\* ctpvclear is `ctpv -c': server_clear() asks spawn() for nothing, so that
\* it does not wait for clear.sh.
Clean(c) ==
  /\ lf = "files" /\ volatile
  /\ Spare(c)
  /\ Ctpv(c, "remove")
  /\ volatile' = FALSE /\ cur' = NoFile
  /\ UNCHANGED <<lf, quit>>

\* A file whose preview is text.
SelectText ==
  /\ lf = "files" /\ ~volatile
  /\ cur' = NoFile
  /\ UNCHANGED <<vars, lf, volatile, quit, broken>>

\* lf ends, or is killed; its previewer goes on.
LfEnds ==
  /\ lf \in {"files", "preview"}
  /\ lf' = "gone"
  /\ UNCHANGED <<vars, cur, volatile, quit, broken>>

-----------------------------------------------------------------------------
(***************************************************************************)
(* ctpvquit.                                                               *)
(***************************************************************************)

\* Mutant: the watch never sees that lf has gone (another errno is tested).
NeverGone == FALSE

\* Mutant: the answer of kill() is not looked at.
GoneAtOnce == TRUE

\* kill(pid, 0) fails with ESRCH.
LfHasGone == lf = "gone"

\* execlp("ctpv", "ctpv", "-e", id): end.sh.
QuitEnds(c) ==
  /\ quit = "watching"
  /\ LfHasGone
  /\ Fresh(c)
  /\ Ctpv(c, "exit")
  /\ quit' = "done"
  /\ UNCHANGED lfVars

\* The id goes to another process of the user, which ctpvquit takes for lf.
PidTaken ==
  /\ PidReused
  /\ lf = "gone" /\ lf' = "other"
  /\ UNCHANGED <<vars, cur, volatile, quit, broken>>

OtherEnds ==
  /\ lf = "other" /\ lf' = "gone"
  /\ UNCHANGED <<vars, cur, volatile, quit, broken>>

\* The id goes to a process of another user: kill() fails with EPERM, and
\* ctpvquit ends without `ctpv -e'.
QuitFails ==
  /\ PidReused
  /\ quit = "watching" /\ lf = "gone"
  /\ quit' = "done"
  /\ UNCHANGED <<vars, lfVars, broken>>

-----------------------------------------------------------------------------
SessionNext ==
  \/ ServerNext /\ UNCHANGED <<lfVars, quit, broken>>
  \/ \E c \in Clients : SelectImage(c) \/ Clean(c) \/ QuitEnds(c)
  \/ PreviewEnds \/ SelectText \/ LfEnds
  \/ PidTaken \/ OtherEnds \/ QuitFails

\* lf waits for its previewer, and ctpvquit looks for lf every second.
\* Nothing makes a user select files or leave lf.
SessionSpec ==
  /\ SessionInit /\ [][SessionNext]_sessionVars
  /\ Fairness
  /\ WF_sessionVars(PreviewEnds)
  /\ WF_sessionVars(\E c \in Clients : QuitEnds(c))

-----------------------------------------------------------------------------
(***************************************************************************)
(* Properties.                                                             *)
(***************************************************************************)

\* Every variable of the session has its type; the previewer lf waits for was
\* started, the cleaner is called only for a file, and `ctpv -e' is never run
\* while lf lives.
SessionTypeOK ==
  /\ lf \in {"files", "preview", "gone", "other"}
  /\ cur \in Clients \cup {NoFile}
  /\ volatile \in BOOLEAN /\ broken \in BOOLEAN
  /\ quit \in {"watching", "done"}
  /\ lf = "preview" \/ volatile => cur # NoFile
  /\ quit = "done" => lf \in {"gone", "other"}
  /\ cur # NoFile => kind[cur] = "add" /\ cpc[cur] # "idle"

\* Nothing is under way: every script has ended, and server s has forwarded
\* what was written.
Settled(s) ==
  /\ lf = "files"
  /\ \A c \in Clients : cpc[c] \in {"idle", "done"}
  /\ spc[s] \in Loop /\ ueb[s] = "running" /\ data[s] = <<>>

\* Messages that change the screen.
ImageMsg(c) == kind[c] \in {"add", "remove"}

\* The image on the screen: the last of these messages is that of a preview.
OnScreen(s) ==
  {c \in Clients :
     /\ ImageMsg(c) /\ kind[c] = "add"
     /\ \E i \in DOMAIN uin[s] :
          /\ uin[s][i] = c
          /\ \A j \in i + 1 .. Len(uin[s]) : ~ImageMsg(uin[s][j])}

\* No image stays when lf has left its file: the message of clear.sh comes
\* after that of the preview, although two programs write them through a FIFO
\* that is closed and opened meanwhile.
NoGhost ==
  \A s \in Servers :
    Settled(s) /\ cur = NoFile /\ ~broken => OnScreen(s) = {}

\* NoGhost is not inductive.  Server s takes whatever is written ...
Live(s) ==
  \/ spc[s] \in {"register", "spawn"}
  \/ spc[s] \in Loop /\ ueb[s] = "running"

\* ... clear.sh is under way to it, or has written behind message i ...
Cleared(s, i) ==
  \E d \in Clients :
    /\ kind[d] = "remove"
    /\ \/ cpc[d] \in {"detect", "probe", "openw"}
       \/ cpc[d] = "write" /\ cfifo[d] = s
       \/ \E j \in DOMAIN accepted[s] : j > i /\ accepted[s][j] = d

\* ... every image but that of the file at the cursor is cleared ...
GhostInv ==
  ~broken =>
    \A s \in Servers : Live(s) =>
      \A i \in DOMAIN accepted[s] :
        kind[accepted[s][i]] = "add"
          => accepted[s][i] = cur \/ Cleared(s, i)

\* ... lf knows of every image that was sent, and no previewer but the last
\* one runs ...
CursorInv ==
  /\ \A c \in Clients :
       kind[c] = "add" /\ cpc[c] \notin {"idle", "done"} => c = cur
  /\ lf = "files" /\ cur # NoFile
       => /\ cpc[cur] = "done"
          /\ volatile \/ \A s \in Servers : cur \notin Range(accepted[s])

\* ... a message is sent once by a script that was started ...
SentInv ==
  \A s \in Servers : \A i \in DOMAIN accepted[s] :
    cpc[accepted[s][i]] \in {"close", "done"}

\* ... and an image only where ueberzug can be used.
UsableInv ==
  UeberzugUsable \/
    /\ \A c \in Clients :
         kind[c] \in {"add", "remove"} => cpc[c] \in {"idle", "detect", "done"}
    /\ \A s \in Servers : \A i \in DOMAIN accepted[s] :
         kind[accepted[s][i]] \notin {"add", "remove"}

\* When ctpv was given a file and has sent an image of it, the image is shown
\* (doc/ctpv.1:47-51).
ShowsSelected ==
  \A s \in Servers :
    Settled(s) /\ cur \in Range(accepted[s]) => cur \in OnScreen(s)

\* As long as lf lives nothing that ctpv does ends the server of its session:
\* the loop of listen() is left only for a signal, for want of ueberzug, at an
\* open_fifo() that fails, or because the server is killed.  The only message
\* that ends it is that of ctpvquit.
LfAlive == lf \in {"files", "preview"}

ServesOn ==
  [][\A s \in Servers :
       LfAlive /\ spc[s] \in Loop
         => \/ spc'[s] \in Loop \cup {"dead"}
            \/ doExit'[s] \/ ueb[s] # "running"
            \/ spc[s] = "reopen"
    ]_sessionVars

\* ServesOn needs that end.sh has not been run before ctpvquit has ended.
ExitInv == quit = "watching" => \A c \in Clients : kind[c] # "exit"

\* A message of end.sh is behind another one, with which it may be read.
Behind(s) == \E k \in 2 .. Len(data[s]) : kind[data[s][k]] = "exit"

\* When lf ends while a server serves its id, the server ends, unless
\* ctpvquit took another process for lf, the configuration has an error,
\* ueberzug has ended or the message comes behind another one.
SessionEnds ==
  \A s \in New :
    lf = "gone" /\ quit = "watching" /\ spc[s] \in Loop
      ~> \/ spc[s] \in Over \/ ueb[s] = "zombie" \/ Behind(s)
         \/ broken \/ lf = "other"
         \/ (quit = "done" /\ \A c \in Clients : kind[c] # "exit")
=============================================================================
