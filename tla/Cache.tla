-------------------------------- MODULE Cache -------------------------------
(***************************************************************************)
(* The cache of pictures: preview() of src/ctpv.c decides whether the      *)
(* picture it keeps of a file is newer than the file, and                  *)
(* convert_and_show_image of sh/helpers.sh with the scripts of sh/prev     *)
(* makes and shows it.  Any number of ctpv run at the same time: every lf  *)
(* has its own, and all share one directory without a lock.                *)
(*                                                                         *)
(* A picture is named by the MD5 of its file's path: one name per file.    *)
(***************************************************************************)
EXTENDS Naturals

CONSTANTS
  Runs,     \* runs of `ctpv file'
  Files,    \* files whose preview is a converted picture
  Depth,    \* directories that mkpath() may have to make
  MaxTime,  \* bound on the ticks of the file system's clock
  MaxVer,   \* bound on the changes of a file
  Faults,   \* what may go wrong, a subset of AllFaults
  Base,     \* the base name that the files of libreoffice share
  Mixed,    \* bound: pictures of several kinds, which share no name
  NoRun, NoPic, NoFile

Hows == {"direct", "rename", "office"}
AllFaults == {"cut", "change", "gone", "wipe"}

\* of and ver: what it shows; by: the converter that writes it.
Pictures ==
  [of : Files, ver : 0 .. MaxVer, whole : BOOLEAN, by : Runs \cup {NoRun},
   ctime : 0 .. MaxTime]

ASSUME CacheAssumption ==
  /\ Depth \in Nat /\ MaxTime \in Nat /\ MaxVer \in Nat
  /\ Faults \subseteq AllFaults
  /\ Mixed \in BOOLEAN
  /\ NoRun \notin Runs /\ Base \notin Files /\ NoFile \notin Files
  /\ NoPic \notin Pictures

VARIABLES
  now,      \* the file system's clock
  ver,      \* ver[f]: the version of file f
  ctime,    \* ctime[f]: when it was last changed
  how,      \* how[f]: how its script writes the picture
  dirs,     \* how many of the directories exist
  slot,     \* slot[n]: the picture with name n, or NoPic
  pc,       \* pc[r]: where run r is, in ctpv and then in its script, or how
            \* it has ended
  arg,      \* arg[r]: its file, or NoFile when r does not run
  lvl,      \* lvl[r]: directories that mkpath() has seen to
  stat,     \* stat[r]: the ctime of the picture that lstat() has told
  since,    \* since[r]: the version of the file when r was started
  spoilt,   \* history: spoilt[f], see Fresh
  wiped,    \* history: the directory has been removed
  clash     \* history: two scripts have written under one temporary name

\* What no run changes.
world == <<now, ver, ctime, how>>
locals == <<arg, lvl, stat, since>>
history == <<spoilt, wiped, clash>>
vars == <<world, dirs, slot, pc, locals, history>>

Names == ({"cache"} \X Files) \cup ({"temp"} \X (Files \cup {Base}))

Cached(f) == <<"cache", f>>

\* Where the converter writes: audio.sh, video.sh and svg.sh to the picture
\* itself; pdf.sh and font.sh beside it; libreoffice.sh to a name made of the
\* base name of the file.
Target(f) ==
  CASE how[f] = "direct" -> Cached(f)
    [] how[f] = "rename" -> <<"temp", f>>
    [] how[f] = "office" -> <<"temp", Base>>

\* "ERR" and "nomove": ctpv, or its script, could not go on.
Ended == {"over", "ERR", "nomove"}

Under(r) == pc[r] \notin {"idle"} \cup Ended

Goto(r, l) == pc' = [pc EXCEPT ![r] = l]

\* The process ends, and its variables with it.
Return(r, res) ==
  /\ Goto(r, res)
  /\ arg' = [arg EXCEPT ![r] = NoFile]
  /\ lvl' = [lvl EXCEPT ![r] = 0]
  /\ stat' = [stat EXCEPT ![r] = 0]
  /\ since' = [since EXCEPT ![r] = 0]

Spoil(fs) == spoilt' = [f \in Files |-> spoilt[f] \/ f \in fs]

-----------------------------------------------------------------------------
(***************************************************************************)
(* preview() of src/ctpv.c.                                                *)
(***************************************************************************)
Begin(r) ==
  /\ pc[r] = "idle"
  /\ Goto(r, "mkdir")
  /\ \E f \in Files :
       /\ arg' = [arg EXCEPT ![r] = f]
       /\ since' = [since EXCEPT ![r] = ver[f]]
  /\ UNCHANGED <<world, dirs, slot, lvl, stat, history>>

\* realpath(), magic_file() or lstat() of the file fails: it was removed.
FileGone(r) ==
  /\ "gone" \in Faults
  /\ pc[r] = "lstatf" \/ (pc[r] = "mkdir" /\ lvl[r] = 0)
  /\ Return(r, "over")
  /\ UNCHANGED <<world, dirs, slot, history>>

\* Mutant: mkdir() of a directory that exists is an error.
ExistsFails(n) == dirs = n

\* EEXIST is none, ENOENT is.
MkdirWorks(n) == dirs >= n

\* Mutant: a directory that exists is made once more.
MadeAgain(n) == dirs + 1

Made(n) == IF dirs = n THEN dirs + 1 ELSE dirs

\* One mkdir() of mkpath().
Mkdir(r) ==
  /\ pc[r] = "mkdir"
  /\ lvl[r] < Depth
  /\ \/ /\ MkdirWorks(lvl[r])
        /\ dirs' = Made(lvl[r])
        /\ lvl' = [lvl EXCEPT ![r] = @ + 1]
        /\ UNCHANGED <<pc, arg, stat, since>>
     \/ /\ ~MkdirWorks(lvl[r])
        /\ Return(r, "ERR")
        /\ UNCHANGED dirs
  /\ UNCHANGED <<world, slot, history>>

\* access(cache_file, F_OK).  A picture that is being written is taken for a
\* complete one.
Access(r) ==
  LET p == slot[Cached(arg[r])] IN
  /\ pc[r] = "mkdir"
  /\ lvl[r] = Depth
  /\ Goto(r, IF p = NoPic THEN "stale" ELSE "lstatc")
  /\ Spoil(IF p # NoPic /\ p.by # NoRun THEN {arg[r]} ELSE {})
  /\ UNCHANGED <<world, dirs, slot, locals, wiped, clash>>

\* lstat() of the picture: it may have been removed.
LstatCache(r) ==
  LET p == slot[Cached(arg[r])] IN
  /\ pc[r] = "lstatc"
  /\ \/ /\ p # NoPic
        /\ stat' = [stat EXCEPT ![r] = p.ctime]
        /\ Goto(r, "lstatf")
        /\ UNCHANGED <<arg, lvl, since>>
     \/ /\ p = NoPic
        /\ Return(r, "ERR")
  /\ UNCHANGED <<world, dirs, slot, history>>

\* Mutant: a picture as old as its file counts as newer.
NotOlder(t, u) == t >= u

Newer(t, u) == t > u

\* lstat() of the file, and the comparison of is_newer(), after which the
\* script shows the picture that is there ([ -n "$cache_valid" ]) or makes it.
LstatFile(r) ==
  /\ pc[r] = "lstatf"
  /\ Goto(r, IF Newer(stat[r], ctime[arg[r]]) THEN "show" ELSE "stale")
  /\ UNCHANGED <<world, dirs, slot, locals, history>>

-----------------------------------------------------------------------------
(***************************************************************************)
(* convert_and_show_image of sh/helpers.sh.                                *)
(***************************************************************************)

\* noimages or setup_image exits with 127.
NoMethod(r) ==
  /\ pc[r] = "stale"
  /\ Return(r, "over")
  /\ UNCHANGED <<world, dirs, slot, history>>

\* Runs that the writing of r disturbs: those that are to show what it writes,
\* or write, or have written but not moved, under the same name.
Rivals(r) ==
  {q \in Runs \ {r} :
     IF how[arg[r]] = "direct"
     THEN arg[q] = arg[r]
     ELSE pc[q] \in {"write", "move"} /\ Target(arg[q]) = Target(arg[r])}

\* The converter reads the file and opens its output, cutting it off.
StartWriting(r) ==
  LET f == arg[r]
      n == Target(f) IN
  /\ pc[r] = "stale"
  /\ dirs = Depth
  /\ slot' = [slot EXCEPT ![n] =
       [of |-> f, ver |-> ver[f], whole |-> FALSE, by |-> r,
        ctime |-> now]]
  /\ Spoil(IF Rivals(r) = {} THEN {} ELSE {arg[q] : q \in Rivals(r) \cup {r}})
  /\ clash' = (clash \/ Rivals(r) # {})
  /\ Goto(r, "write")
  /\ UNCHANGED <<world, dirs, locals, wiped>>

\* The picture r writes is complete, unless another converter has opened it
\* meanwhile or it is removed.  A picture that was renamed is still r's.
FinishWriting(r) ==
  /\ pc[r] = "write"
  /\ slot' = [n \in Names |->
       IF slot[n] # NoPic /\ slot[n].by = r
       THEN [slot[n] EXCEPT !.whole = TRUE, !.by = NoRun, !.ctime = now]
       ELSE slot[n]]
  /\ Goto(r, IF how[arg[r]] = "direct" THEN "show" ELSE "move")
  /\ UNCHANGED <<world, dirs, locals, history>>

\* The converter fails, or is killed with the preview: what it has written
\* stays.
Cut(r) ==
  /\ "cut" \in Faults
  /\ pc[r] = "write"
  /\ slot' = [n \in Names |->
       IF slot[n] # NoPic /\ slot[n].by = r
       THEN [slot[n] EXCEPT !.by = NoRun] ELSE slot[n]]
  /\ Spoil(IF how[arg[r]] = "direct" THEN {arg[r]} ELSE {})
  /\ Return(r, "over")
  /\ UNCHANGED <<world, dirs, wiped, clash>>

\* It finds no directory to write into.
CannotWrite(r) ==
  /\ pc[r] = "stale"
  /\ dirs # Depth
  /\ Return(r, "ERR")
  /\ UNCHANGED <<world, dirs, slot, history>>

\* rename(2) sets the ctime.
Moved(s, f) ==
  [s EXCEPT ![Target(f)] = NoPic,
            ![Cached(f)] = [s[Target(f)] EXCEPT !.ctime = now]]

\* mv -- "$cache_f.jpg" "$cache_f"
Move(r) ==
  /\ pc[r] = "move"
  /\ \/ /\ slot[Target(arg[r])] # NoPic
        /\ slot' = Moved(slot, arg[r])
        /\ Goto(r, "show")
        /\ UNCHANGED locals
     \/ /\ slot[Target(arg[r])] = NoPic
        /\ Return(r, "nomove")
        /\ UNCHANGED slot
  /\ UNCHANGED <<world, dirs, history>>

\* send_image "$cache_f": shown, unless there is no image method (127).
Show(r) ==
  /\ pc[r] = "show"
  /\ Return(r, "over")
  /\ UNCHANGED <<world, dirs, slot, history>>

-----------------------------------------------------------------------------
(***************************************************************************)
(* The world.                                                              *)
(***************************************************************************)
Tick ==
  /\ now < MaxTime
  /\ now' = now + 1
  /\ UNCHANGED <<ver, ctime, how, dirs, slot, pc, locals, history>>

RunsOf(f) == {r \in Runs : arg[r] = f}

\* No preview of f runs, and no other run writes its picture (libreoffice.sh
\* may have moved what another run still writes).
AtRest(f) ==
  LET p == slot[Cached(f)] IN RunsOf(f) = {} /\ (p = NoPic \/ p.by = NoRun)

\* The file is changed.  A picture of it that is being made is of the version
\* before, yet will be newer.  A change at rest mends what was spoilt: the
\* picture there is is now older.
FileChanges(f) ==
  /\ "change" \in Faults
  /\ ver[f] < MaxVer
  /\ ver' = [ver EXCEPT ![f] = @ + 1]
  /\ ctime' = [ctime EXCEPT ![f] = now]
  /\ spoilt' = [spoilt EXCEPT ![f] =
       \/ \E r \in RunsOf(f) : pc[r] \in {"write", "move"}
       \/ @ /\ ~AtRest(f)]
  /\ UNCHANGED <<now, how, dirs, slot, pc, locals, wiped, clash>>

\* The user removes the directory.
Wipe ==
  /\ "wipe" \in Faults
  /\ ~wiped
  /\ dirs' = 0
  /\ slot' = [n \in Names |-> NoPic]
  /\ wiped' = TRUE
  /\ UNCHANGED <<world, pc, locals, spoilt, clash>>

-----------------------------------------------------------------------------
Init ==
  /\ now = 0
  /\ ver = [f \in Files |-> 0]
  /\ ctime = [f \in Files |-> 0]
  /\ how \in [Files -> Hows]
  /\ Mixed \/ \A f, g \in Files : how[f] = how[g]
  /\ dirs = 0
  /\ slot = [n \in Names |-> NoPic]
  /\ pc = [r \in Runs |-> "idle"]
  /\ arg = [r \in Runs |-> NoFile]
  /\ lvl = [r \in Runs |-> 0]
  /\ stat = [r \in Runs |-> 0]
  /\ since = [r \in Runs |-> 0]
  /\ spoilt = [f \in Files |-> FALSE]
  /\ wiped = FALSE
  /\ clash = FALSE

Next ==
  \/ \E r \in Runs :
       \/ Begin(r) \/ FileGone(r) \/ Mkdir(r) \/ Access(r)
       \/ LstatCache(r) \/ LstatFile(r) \/ NoMethod(r)
       \/ StartWriting(r) \/ FinishWriting(r) \/ Cut(r) \/ CannotWrite(r)
       \/ Move(r) \/ Show(r)
  \/ Tick \/ Wipe
  \/ \E f \in Files : FileChanges(f)

Spec == Init /\ [][Next]_vars
-----------------------------------------------------------------------------
(***************************************************************************)
(* Properties.                                                             *)
(***************************************************************************)

\* Every variable has its type.
TypeOK ==
  /\ now \in 0 .. MaxTime
  /\ ver \in [Files -> 0 .. MaxVer]
  /\ ctime \in [Files -> 0 .. MaxTime]
  /\ how \in [Files -> Hows]
  /\ dirs \in 0 .. Depth
  /\ slot \in [Names -> Pictures \cup {NoPic}]
  /\ pc \in [Runs -> {"idle", "mkdir", "lstatc", "lstatf", "stale", "write",
                      "move", "show"} \cup Ended]
  /\ arg \in [Runs -> Files \cup {NoFile}]
  /\ \A r \in Runs : Under(r) => arg[r] # NoFile
  /\ lvl \in [Runs -> 0 .. Depth]
  /\ stat \in [Runs -> 0 .. MaxTime]
  /\ since \in [Runs -> 0 .. MaxVer]
  /\ spoilt \in [Files -> BOOLEAN]
  /\ wiped \in BOOLEAN /\ clash \in BOOLEAN

\* A picture that is shown is a whole one of its file, not older than the file
\* was when ctpv was started, although nothing but two times tells whether the
\* picture is up to date -- unless since the file was last changed at rest
\* (a) a converter that writes the picture itself was cut, (b) a converter has
\* written what another run was using, or (c) the file was changed while it
\* was converted.
Fresh ==
  \A r \in Runs :
    pc[r] = "show" =>
      LET p == slot[Cached(arg[r])] IN
      \/ p = NoPic \/ spoilt[arg[r]]
      \/ p.whole /\ p.of = arg[r] /\ p.ver >= since[r]

\* ctpv and its scripts do not fail because others make the directories, the
\* pictures and the temporary pictures at the same time: one fails only when
\* the directory was removed, or when two converters have clashed.
Undisturbed ==
  \A r \in Runs :
    /\ pc[r] = "ERR" => wiped
    /\ pc[r] = "nomove" => wiped \/ clash

\* Undisturbed is not inductive.  What mkpath() has seen is there until it is
\* removed ...
DirsInv ==
  /\ \A r \in Runs : pc[r] \in {"lstatc", "lstatf", "stale"} => lvl[r] = Depth
  /\ ~wiped =>
       /\ \A r \in Runs : lvl[r] <= dirs
       /\ \A r \in Runs : pc[r] = "lstatc" => slot[Cached(arg[r])] # NoPic

\* ... and so is a temporary picture, which one converter writes unless two
\* have clashed.
TempInv ==
  /\ \A r \in Runs : pc[r] = "move" => how[arg[r]] # "direct"
  /\ ~clash =>
       \A r \in Runs : pc[r] \in {"write", "move"} =>
         /\ wiped \/ slot[Target(arg[r])] # NoPic
         /\ \A q \in Runs \ {r} :
              pc[q] \in {"write", "move"} => Target(arg[q]) # Target(arg[r])

\* Nor is Fresh.  No time lies ahead ...
TimeInv ==
  /\ \A n \in Names : slot[n] # NoPic => slot[n].ctime <= now
  /\ \A r \in Runs : stat[r] <= now
  /\ \A r \in Runs : Under(r) => since[r] <= ver[arg[r]]

Right(p, f) == p.whole /\ p.of = f /\ p.ver = ver[f]

\* ... a picture that is newer than its file is right, and one that is being
\* written was opened before anyone looked at it ...
Kept(f) ==
  LET p == slot[Cached(f)] IN
  p # NoPic =>
    \/ p.by = NoRun /\ (Newer(p.ctime, ctime[f]) => Right(p, f))
    \/ /\ p.by # NoRun
       /\ how[f] = "direct" /\ pc[p.by] = "write" /\ arg[p.by] = f
       /\ p.of = f /\ p.ver = ver[f]
       /\ \A q \in RunsOf(f) \ {p.by} : pc[q] = "mkdir"

\* ... a converter is alone with what it writes ...
Writes(r) ==
  LET t == slot[Target(arg[r])] IN
  pc[r] \in {"write", "move"} =>
    /\ t # NoPic =>
         /\ t.of = arg[r] /\ t.ver = ver[arg[r]]
         /\ pc[r] = "write" => t.by = r
         /\ pc[r] = "move" => t.by = NoRun /\ t.whole
    /\ \A q \in Runs \ {r} :
         pc[q] \in {"write", "move"} => Target(arg[q]) # Target(arg[r])

\* ... and what a run has taken for newer, or is to show, stays good.
Reads(r) ==
  LET p == slot[Cached(arg[r])] IN
  /\ pc[r] = "lstatf" /\ Newer(stat[r], ctime[arg[r]])
       => p = NoPic \/ (p.by = NoRun /\ Right(p, arg[r]))
  /\ pc[r] = "show"
       => p = NoPic \/ (/\ p.by = NoRun /\ p.whole
                        /\ p.of = arg[r] /\ p.ver >= since[r])

Sound(f) == Kept(f) /\ \A r \in RunsOf(f) : Writes(r) /\ Reads(r)

FreshInv == \A f \in Files : ~spoilt[f] => Sound(f)
=============================================================================
