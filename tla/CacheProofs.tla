----------------------------- MODULE CacheProofs ----------------------------
(***************************************************************************)
(* Proofs about Cache for every set of runs and files.                     *)
(***************************************************************************)
EXTENDS Cache, TLAPS

\* The pictures have names of their own; only a converter that writes the
\* picture itself shares one with the cache.
LEMMA NamesDiffer ==
  ASSUME how \in [Files -> Hows], NEW f \in Files
  PROVE  /\ Cached(f) \in Names /\ Target(f) \in Names
         /\ \A g \in Files : Cached(f) = Cached(g) => f = g
         /\ how[f] = "direct" => Target(f) = Cached(f)
         /\ how[f] # "direct" => \A g \in Files : Target(f) # Cached(g)
<1>1. /\ how[f] = "direct" => Target(f) = Cached(f)
      /\ how[f] = "rename" => Target(f) = <<"temp", f>>
      /\ how[f] = "office" => Target(f) = <<"temp", Base>>
  BY DEF Target
<1>2. how[f] \in {"direct", "rename", "office"}
  BY DEF Hows
<1> QED BY <1>1, <1>2 DEF Cached, Names

\* What a converter writes does not depend on anything that changes.
LEMMA TargetStays ==
  ASSUME how' = how, NEW f
  PROVE  Target(f)' = Target(f)
BY DEF Target, Cached

Locations == {"idle", "mkdir", "lstatc", "lstatf", "stale", "write", "move",
              "show"} \cup Ended

\* Where a step of run r may lead: it goes on with its file, or ends.
LEMMA ReturnType ==
  ASSUME TypeOK, NEW r \in Runs, NEW l \in Ended, Return(r, l)
  PROVE  /\ pc' \in [Runs -> Locations]
         /\ arg' \in [Runs -> Files \cup {NoFile}]
         /\ lvl' \in [Runs -> 0 .. Depth]
         /\ stat' \in [Runs -> 0 .. MaxTime]
         /\ since' \in [Runs -> 0 .. MaxVer]
         /\ \A q \in Runs : Under(q)' => arg'[q] # NoFile
<1>1. 0 \in 0 .. Depth /\ 0 \in 0 .. MaxTime /\ 0 \in 0 .. MaxVer
  BY CacheAssumption
<1> QED
  BY <1>1 DEF Return, Goto, TypeOK, Locations, Under

\* Every variable keeps its type (checked as TypeOK in run cache_shared).
THEOREM TypeCorrect == Spec => []TypeOK
<1>1. Init => TypeOK
  <2>1. 0 \in 0 .. Depth /\ 0 \in 0 .. MaxTime /\ 0 \in 0 .. MaxVer
    BY CacheAssumption
  <2> QED BY <2>1 DEF Init, TypeOK, Under
<1>2. TypeOK /\ [Next]_vars => TypeOK'
  <2> SUFFICES ASSUME TypeOK, [Next]_vars PROVE TypeOK'
    OBVIOUS
  <2> USE DEF world, locals, history
  <2>1. ASSUME NEW r \in Runs, Begin(r) PROVE TypeOK'
    BY <2>1, CacheAssumption DEF Begin, Goto, TypeOK, Under
  <2>2. ASSUME NEW r \in Runs, FileGone(r) PROVE TypeOK'
    BY <2>2, ReturnType DEF FileGone, TypeOK, Locations, Ended
  <2>3. ASSUME NEW r \in Runs, Mkdir(r) PROVE TypeOK'
    <3>1. CASE ~MkdirWorks(lvl[r])
      BY <2>3, <3>1, ReturnType DEF Mkdir, TypeOK, Locations, Ended
    <3>2. CASE MkdirWorks(lvl[r])
      <4>1. Made(lvl[r]) \in 0 .. Depth /\ lvl[r] + 1 \in 0 .. Depth
        BY <2>3, <3>2, CacheAssumption DEF Mkdir, Made, MkdirWorks, TypeOK
      <4> QED BY <2>3, <3>2, <4>1 DEF Mkdir, TypeOK, Under
    <3> QED BY <3>1, <3>2
  <2>4. ASSUME NEW r \in Runs, Access(r) PROVE TypeOK'
    BY <2>4 DEF Access, Goto, Spoil, TypeOK, Under, Ended
  <2>5. ASSUME NEW r \in Runs, LstatCache(r) PROVE TypeOK'
    <3>1. CASE slot[Cached(arg[r])] = NoPic
      BY <2>5, <3>1, ReturnType DEF LstatCache, TypeOK, Locations, Ended
    <3>2. CASE slot[Cached(arg[r])] # NoPic
      <4>1. arg[r] \in Files
        BY <2>5 DEF LstatCache, TypeOK, Under, Ended
      <4>2. slot[Cached(arg[r])].ctime \in 0 .. MaxTime
        BY <3>2, <4>1, NamesDiffer DEF TypeOK, Pictures
      <4> QED BY <2>5, <3>2, <4>2 DEF LstatCache, Goto, TypeOK, Under, Ended
    <3> QED BY <3>1, <3>2
  <2>6. ASSUME NEW r \in Runs, LstatFile(r) PROVE TypeOK'
    BY <2>6 DEF LstatFile, Goto, TypeOK, Under, Ended
  <2>7. ASSUME NEW r \in Runs, NoMethod(r) PROVE TypeOK'
    BY <2>7, ReturnType DEF NoMethod, TypeOK, Locations, Ended
  <2>8. ASSUME NEW r \in Runs, StartWriting(r) PROVE TypeOK'
    <3> DEFINE p == [of |-> arg[r], ver |-> ver[arg[r]], whole |-> FALSE,
                     by |-> r, ctime |-> now]
    <3>1. arg[r] \in Files
      BY <2>8 DEF StartWriting, TypeOK, Under, Ended
    <3>2. p \in Pictures
      BY <3>1 DEF Pictures, TypeOK
    <3>3. slot' \in [Names -> Pictures \cup {NoPic}]
      BY <2>8, <3>2 DEF StartWriting, TypeOK
    <3>4. clash' \in BOOLEAN /\ spoilt' \in [Files -> BOOLEAN]
      BY <2>8 DEF StartWriting, Spoil, TypeOK
    <3> QED BY <2>8, <3>3, <3>4 DEF StartWriting, Goto, TypeOK, Under, Ended
  <2>9. ASSUME NEW r \in Runs, FinishWriting(r) PROVE TypeOK'
    <3>1. ASSUME NEW n \in Names, slot[n] # NoPic
          PROVE  [slot[n] EXCEPT !.whole = TRUE, !.by = NoRun, !.ctime = now]
                   \in Pictures
      <4>1. slot[n] \in Pictures
        BY <3>1 DEF TypeOK
      <4> QED BY <4>1 DEF Pictures, TypeOK
    <3>2. slot' \in [Names -> Pictures \cup {NoPic}]
      BY <2>9, <3>1 DEF FinishWriting, TypeOK
    <3> QED BY <2>9, <3>2 DEF FinishWriting, Goto, TypeOK, Under, Ended
  <2>10. ASSUME NEW r \in Runs, Cut(r) PROVE TypeOK'
    <3>1. ASSUME NEW n \in Names, slot[n] # NoPic
          PROVE  [slot[n] EXCEPT !.by = NoRun] \in Pictures
      <4>1. slot[n] \in Pictures
        BY <3>1 DEF TypeOK
      <4> QED BY <4>1 DEF Pictures, TypeOK
    <3>2. slot' \in [Names -> Pictures \cup {NoPic}]
      BY <2>10, <3>1 DEF Cut, TypeOK
    <3> QED
      BY <2>10, <3>2, ReturnType DEF Cut, Spoil, TypeOK, Locations, Ended
  <2>11. ASSUME NEW r \in Runs, CannotWrite(r) PROVE TypeOK'
    BY <2>11, ReturnType DEF CannotWrite, TypeOK, Locations, Ended
  <2>12. ASSUME NEW r \in Runs, Move(r) PROVE TypeOK'
    <3>1. CASE slot[Target(arg[r])] = NoPic
      BY <2>12, <3>1, ReturnType DEF Move, TypeOK, Locations, Ended
    <3>2. CASE slot[Target(arg[r])] # NoPic
      <4>1. arg[r] \in Files
        BY <2>12 DEF Move, TypeOK, Under, Ended
      <4>2. slot[Target(arg[r])] \in Pictures
        BY <3>2, <4>1, NamesDiffer DEF TypeOK
      <4>3. [slot[Target(arg[r])] EXCEPT !.ctime = now] \in Pictures
        BY <4>2 DEF Pictures, TypeOK
      <4>4. slot' \in [Names -> Pictures \cup {NoPic}]
        BY <2>12, <3>2, <4>3 DEF Move, Moved, TypeOK
      <4> QED BY <2>12, <3>2, <4>4 DEF Move, Goto, TypeOK, Under, Ended
    <3> QED BY <3>1, <3>2
  <2>13. ASSUME NEW r \in Runs, Show(r) PROVE TypeOK'
    BY <2>13, ReturnType DEF Show, TypeOK, Locations, Ended
  <2>14. CASE Tick
    BY <2>14, CacheAssumption DEF Tick, TypeOK, Under
  <2>15. CASE Wipe
    BY <2>15, CacheAssumption DEF Wipe, TypeOK, Under
  <2>16. ASSUME NEW f \in Files, FileChanges(f) PROVE TypeOK'
    <3>1. ver[f] + 1 \in 0 .. MaxVer
      BY <2>16, CacheAssumption DEF FileChanges, TypeOK
    <3>2. spoilt' \in [Files -> BOOLEAN]
      BY <2>16 DEF FileChanges, TypeOK
    <3> QED BY <2>16, <3>1, <3>2 DEF FileChanges, TypeOK, Under
  <2>17. CASE UNCHANGED vars
    BY <2>17 DEF vars, TypeOK, Under
  <2> QED
    BY <2>1, <2>2, <2>3, <2>4, <2>5, <2>6, <2>7, <2>8, <2>9, <2>10, <2>11,
       <2>12, <2>13, <2>14, <2>15, <2>16, <2>17
    DEF Next
<1> QED BY <1>1, <1>2, PTL DEF Spec
-----------------------------------------------------------------------------
(***************************************************************************)
(* Runs do not disturb each other.                                         *)
(***************************************************************************)

\* A picture that a step completes, cuts off or moves is still one.
LEMMA StillPicture ==
  ASSUME TypeOK, NEW n \in Names, slot[n] # NoPic
  PROVE  /\ [slot[n] EXCEPT !.whole = TRUE, !.by = NoRun, !.ctime = now] # NoPic
         /\ [slot[n] EXCEPT !.by = NoRun] # NoPic
         /\ [slot[n] EXCEPT !.ctime = now] # NoPic
<1>1. slot[n] \in Pictures
  BY DEF TypeOK
<1>2. /\ [slot[n] EXCEPT !.whole = TRUE, !.by = NoRun, !.ctime = now] \in Pictures
      /\ [slot[n] EXCEPT !.by = NoRun] \in Pictures
      /\ [slot[n] EXCEPT !.ctime = now] \in Pictures
  BY <1>1 DEF Pictures, TypeOK
<1> QED BY <1>2, CacheAssumption

\* A run that has left mkpath() and not ended has a file.
LEMMA HasFile ==
  ASSUME TypeOK, NEW r \in Runs,
         pc[r] \in {"mkdir", "lstatc", "lstatf", "stale", "write", "move", "show"}
  PROVE  arg[r] \in Files
BY DEF TypeOK, Under, Ended

\* The picture that a run opens is one.
LEMMA NewPicture ==
  ASSUME TypeOK, NEW r \in Runs, NEW f \in Files
  PROVE  [of |-> f, ver |-> ver[f], whole |-> FALSE, by |-> r, ctime |-> now]
           # NoPic
<1>1. [of |-> f, ver |-> ver[f], whole |-> FALSE, by |-> r, ctime |-> now]
        \in Pictures
  BY DEF Pictures, TypeOK
<1> QED BY <1>1, CacheAssumption

\* A picture goes away only when it is moved or the directory is removed.
LEMMA PicturesStay ==
  ASSUME TypeOK, [Next]_vars, NEW n \in Names, slot[n] # NoPic, ~wiped'
  PROVE  \/ slot'[n] # NoPic
         \/ \E r \in Runs : Move(r) /\ n = Target(arg[r])
<1> USE DEF world, locals, history
<1>1. ASSUME NEW r \in Runs, StartWriting(r) PROVE slot'[n] # NoPic
  <2>1. arg[r] \in Files
    BY <1>1, HasFile DEF StartWriting
  <2> DEFINE p == [of |-> arg[r], ver |-> ver[arg[r]], whole |-> FALSE,
                   by |-> r, ctime |-> now]
  <2>2. p # NoPic
    BY <2>1, NewPicture
  <2>3. slot' = [slot EXCEPT ![Target(arg[r])] = p]
    BY <1>1 DEF StartWriting
  <2> HIDE DEF p
  <2> QED BY <2>2, <2>3 DEF TypeOK
<1>2. ASSUME NEW r \in Runs, FinishWriting(r) PROVE slot'[n] # NoPic
  BY <1>2, StillPicture DEF FinishWriting
<1>3. ASSUME NEW r \in Runs, Cut(r) PROVE slot'[n] # NoPic
  BY <1>3, StillPicture DEF Cut
<1>4. ASSUME NEW r \in Runs, Move(r)
      PROVE  slot'[n] # NoPic \/ n = Target(arg[r])
  <2>1. CASE slot[Target(arg[r])] = NoPic
    BY <1>4, <2>1 DEF Move
  <2>2. CASE slot[Target(arg[r])] # NoPic
    <3>1. Target(arg[r]) \in Names
      BY <1>4, HasFile, NamesDiffer DEF Move, TypeOK
    <3>2. [slot[Target(arg[r])] EXCEPT !.ctime = now] # NoPic
      BY <2>2, <3>1, StillPicture
    <3> QED BY <1>4, <2>2, <3>2 DEF Move, Moved, TypeOK
  <2> QED BY <2>1, <2>2
<1>5. CASE Wipe
  BY <1>5 DEF Wipe
<1>6. ASSUME NEW r \in Runs,
             \/ Begin(r) \/ FileGone(r) \/ Mkdir(r) \/ Access(r)
             \/ LstatCache(r) \/ LstatFile(r) \/ NoMethod(r)
             \/ CannotWrite(r) \/ Show(r)
      PROVE  slot' = slot
  BY <1>6 DEF Begin, FileGone, Mkdir, Access, LstatCache, LstatFile, NoMethod,
    CannotWrite, Show
<1>7. CASE Tick \/ (\E f \in Files : FileChanges(f)) \/ UNCHANGED vars
  BY <1>7 DEF Tick, FileChanges, vars
<1> QED BY <1>1, <1>2, <1>3, <1>4, <1>5, <1>6, <1>7 DEF Next

\* What has happened has happened.
LEMMA HistoryGrows ==
  ASSUME [Next]_vars
  PROVE  (clash => clash') /\ (wiped => wiped')
<1> USE DEF world, locals, history
<1>1. ASSUME NEW r \in Runs,
             \/ Begin(r) \/ FileGone(r) \/ Mkdir(r) \/ Access(r)
             \/ LstatCache(r) \/ LstatFile(r) \/ NoMethod(r)
             \/ FinishWriting(r) \/ Cut(r) \/ CannotWrite(r) \/ Move(r)
             \/ Show(r)
      PROVE  UNCHANGED <<clash, wiped>>
  BY <1>1 DEF Begin, FileGone, Mkdir, Access, LstatCache, LstatFile,
    NoMethod, FinishWriting, Cut, CannotWrite, Move, Show
<1>3. ASSUME NEW r \in Runs, StartWriting(r)
      PROVE  (clash => clash') /\ (wiped => wiped')
  BY <1>3 DEF StartWriting
<1>2. CASE Tick \/ Wipe \/ (\E f \in Files : FileChanges(f)) \/ UNCHANGED vars
  BY <1>2 DEF Tick, Wipe, FileChanges, vars
<1> QED BY <1>1, <1>2, <1>3 DEF Next

\* A temporary picture stays until its run moves it, unless two converters have
\* clashed or the directory was removed.
THEOREM TempInvariant == Spec => []TempInv
<1>1. Init => TempInv
  BY DEF Init, TempInv
<1>2. TypeOK /\ TempInv /\ [Next]_vars => TempInv'
  <2> SUFFICES ASSUME TypeOK, TempInv, [Next]_vars PROVE TempInv'
    OBVIOUS
  <2> USE DEF world, locals, history
  <2> DEFINE Busy(r) == pc[r] \in {"write", "move"}
             Alone(r) == \A q \in Runs \ {r} :
                           Busy(q) => Target(arg[q]) # Target(arg[r])
  \* Where a run that writes or has written comes from.
  <2>1. ASSUME NEW r \in Runs, Busy(r)'
        PROVE  /\ how' = how /\ arg'[r] = arg[r] /\ arg[r] \in Files
               /\ \/ Busy(r) /\ (pc'[r] = "move" => how[arg[r]] # "direct")
                  \/ StartWriting(r) /\ pc'[r] = "write"
    <3>1. ASSUME pc[r] = pc'[r], how' = how, arg'[r] = arg[r]
          PROVE  /\ how' = how /\ arg'[r] = arg[r] /\ arg[r] \in Files
                 /\ Busy(r) /\ (pc'[r] = "move" => how[arg[r]] # "direct")
      BY <2>1, <3>1, HasFile DEF TempInv
    <3>2. CASE StartWriting(r)
      BY <2>1, <3>2, HasFile DEF StartWriting, Goto, TypeOK
    <3>3. CASE FinishWriting(r)
      BY <2>1, <3>3, HasFile DEF FinishWriting, Goto, TypeOK
    <3>4. ASSUME NEW q \in Runs, q # r, StartWriting(q) \/ FinishWriting(q)
          PROVE  pc[r] = pc'[r] /\ how' = how /\ arg'[r] = arg[r]
      BY <3>4 DEF StartWriting, FinishWriting, Goto, TypeOK
    <3>5. ASSUME NEW q \in Runs,
                 \/ Begin(q) \/ FileGone(q) \/ Mkdir(q) \/ Access(q)
                 \/ LstatCache(q) \/ LstatFile(q) \/ NoMethod(q)
          PROVE  pc[r] = pc'[r] /\ how' = how /\ arg'[r] = arg[r]
      BY <2>1, <3>5 DEF Begin, FileGone, Mkdir, Access, LstatCache, LstatFile,
        NoMethod, Return, Goto, TypeOK
    <3>6. ASSUME NEW q \in Runs, Cut(q) \/ CannotWrite(q) \/ Move(q) \/ Show(q)
          PROVE  pc[r] = pc'[r] /\ how' = how /\ arg'[r] = arg[r]
      BY <2>1, <3>6 DEF Cut, CannotWrite, Move, Show, Return, Goto, TypeOK
    <3>7. CASE Tick \/ Wipe \/ (\E f \in Files : FileChanges(f))
      BY <3>1, <3>7 DEF Tick, Wipe, FileChanges
    <3>8. CASE UNCHANGED vars
      BY <3>1, <3>8 DEF vars
    <3> QED BY <3>1, <3>2, <3>3, <3>4, <3>5, <3>6, <3>7, <3>8 DEF Next
  <2>2. (clash => clash') /\ (wiped => wiped')
    BY HistoryGrows
  <2>3. \A r \in Runs : pc'[r] = "move" => how'[arg'[r]] # "direct"
    BY <2>1
  \* Two runs with one target clash when the second begins to write.
  <2>4. ASSUME ~clash', NEW r \in Runs, StartWriting(r)
        PROVE  Alone(r)
    <3> SUFFICES ASSUME NEW q \in Runs \ {r}, Busy(q),
                        Target(arg[q]) = Target(arg[r])
                 PROVE  FALSE
      OBVIOUS
    <3>1. arg[q] \in Files /\ arg[r] \in Files
      BY <2>4, HasFile DEF StartWriting
    <3>2. q \notin Rivals(r)
      BY <2>4 DEF StartWriting
    <3>3. CASE how[arg[r]] = "direct"
      <4>1. Target(arg[q]) = Cached(arg[r])
        BY <3>1, <3>3, NamesDiffer DEF TypeOK
      <4>2. arg[q] = arg[r]
        BY <3>1, <4>1, NamesDiffer DEF TypeOK
      <4> QED BY <3>2, <3>3, <4>2 DEF Rivals
    <3>4. CASE how[arg[r]] # "direct"
      BY <3>2, <3>4 DEF Rivals
    <3> QED BY <3>3, <3>4
  <2>5. ASSUME ~clash', NEW r \in Runs, Busy(r)',
               NEW q \in Runs \ {r}, Busy(q)'
        PROVE  Target(arg[q]) # Target(arg[r])
    <3>1. CASE Busy(r) /\ Busy(q)
      BY <2>2, <2>5, <3>1 DEF TempInv
    <3>2. CASE StartWriting(r)
      <4>1. Busy(q)
        BY <2>5, <3>2 DEF StartWriting, Goto, TypeOK
      <4> QED BY <2>4, <2>5, <3>2, <4>1
    <3>3. CASE StartWriting(q)
      <4>1. Busy(r)
        BY <2>5, <3>3 DEF StartWriting, Goto, TypeOK
      <4> QED BY <2>4, <2>5, <3>3, <4>1
    <3> QED BY <2>1, <2>5, <3>1, <3>2, <3>3
  <2>6. ASSUME ~clash', ~wiped', NEW r \in Runs, Busy(r)'
        PROVE  slot'[Target(arg[r])] # NoPic
    <3>1. Target(arg[r]) \in Names /\ arg[r] \in Files
      BY <2>1, <2>6, NamesDiffer DEF TypeOK
    <3>2. CASE StartWriting(r)
      <4> DEFINE p == [of |-> arg[r], ver |-> ver[arg[r]], whole |-> FALSE,
                       by |-> r, ctime |-> now]
      <4>1. p # NoPic
        BY <3>1, NewPicture
      <4>2. slot' = [slot EXCEPT ![Target(arg[r])] = p]
        BY <3>2 DEF StartWriting
      <4> HIDE DEF p
      <4> QED BY <3>1, <4>1, <4>2 DEF TypeOK
    <3>3. CASE Busy(r)
      <4>1. ~wiped
        BY <2>2, <2>6
      <4>2. slot[Target(arg[r])] # NoPic
        BY <2>2, <2>6, <3>3, <4>1 DEF TempInv
      <4>3. ASSUME NEW q \in Runs, Move(q), Target(arg[q]) = Target(arg[r])
            PROVE  FALSE
        <5>1. q # r
          BY <2>6, <4>2, <4>3 DEF Move, Goto, TypeOK
        <5> QED BY <2>2, <2>6, <3>3, <4>3, <5>1 DEF TempInv, Move
      <4> QED BY <2>6, <3>1, <4>2, <4>3, PicturesStay
    <3> QED BY <2>1, <2>6, <3>2, <3>3
  <2>7. \A r \in Runs : Busy(r)' => Target(arg[r])' = Target(arg[r])
    <3> SUFFICES ASSUME NEW r \in Runs, Busy(r)'
                 PROVE  Target(arg[r])' = Target(arg[r])
      OBVIOUS
    <3>1. how' = how /\ arg'[r] = arg[r]
      BY <2>1
    <3> QED BY <3>1 DEF Target, Cached
  <2> QED BY <2>2, <2>3, <2>5, <2>6, <2>7 DEF TempInv
<1> QED BY <1>1, <1>2, TypeCorrect, PTL DEF Spec

\* What mkpath() has seen, and the picture that access() has seen, stays until
\* the directory is removed.
THEOREM DirsInvariant == Spec => []DirsInv
<1>1. Init => DirsInv
  BY CacheAssumption DEF Init, DirsInv
<1>2. TypeOK /\ TempInv /\ DirsInv /\ [Next]_vars => DirsInv'
  <2> SUFFICES ASSUME TypeOK, TempInv, DirsInv, [Next]_vars PROVE DirsInv'
    OBVIOUS
  <2> DEFINE Staged == \A r \in Runs :
                         pc[r] \in {"lstatc", "lstatf", "stale"} => lvl[r] = Depth
             Levels == ~wiped => \A r \in Runs : lvl[r] <= dirs
             Found  == ~wiped => \A r \in Runs :
                         pc[r] = "lstatc" => slot[Cached(arg[r])] # NoPic
  <2>1. Staged /\ Levels /\ Found
    BY DEF DirsInv
  <2> USE DEF world, locals, history
  <2>2. ASSUME NEW r \in Runs, NEW l \in Ended, Return(r, l), dirs' = dirs,
               wiped' = wiped
        PROVE  Staged' /\ Levels'
    <3>1. dirs \in Nat
      BY CacheAssumption DEF TypeOK
    <3> QED BY <2>1, <2>2, <3>1 DEF Return, Goto, Ended, TypeOK
  <2>3. Staged' /\ Levels'
    <3>1. ASSUME NEW r \in Runs,
                 FileGone(r) \/ NoMethod(r) \/ Cut(r) \/ CannotWrite(r) \/ Show(r)
          PROVE  Staged' /\ Levels'
      <4>1. "over" \in Ended /\ "ERR" \in Ended
        BY DEF Ended
      <4> QED
        BY <2>2, <3>1, <4>1 DEF FileGone, NoMethod, Cut, CannotWrite, Show
    <3>2. ASSUME NEW r \in Runs, Begin(r) PROVE Staged' /\ Levels'
      BY <2>1, <3>2 DEF Begin, Goto, TypeOK
    <3>3. ASSUME NEW r \in Runs, Mkdir(r) PROVE Staged' /\ Levels'
      <4>1. CASE ~MkdirWorks(lvl[r])
        BY <2>2, <3>3, <4>1 DEF Mkdir, Ended
      <4>2. CASE MkdirWorks(lvl[r])
        <5>1. /\ dirs' >= dirs /\ dirs' >= lvl[r] + 1
              /\ dirs \in Nat /\ dirs' \in Nat
          BY <3>3, <4>2, CacheAssumption DEF Mkdir, MkdirWorks, Made, TypeOK
        <5>2. \A q \in Runs : lvl[q] \in Nat
          BY CacheAssumption DEF TypeOK
        <5> QED BY <2>1, <3>3, <4>2, <5>1, <5>2 DEF Mkdir, TypeOK
      <4> QED BY <4>1, <4>2
    <3>4. ASSUME NEW r \in Runs, Access(r) PROVE Staged' /\ Levels'
      BY <2>1, <3>4 DEF Access, Goto, TypeOK
    <3>5. ASSUME NEW r \in Runs, LstatCache(r) PROVE Staged' /\ Levels'
      BY <2>1, <2>2, <3>5 DEF LstatCache, Goto, Ended, TypeOK
    <3>6. ASSUME NEW r \in Runs, LstatFile(r) PROVE Staged' /\ Levels'
      BY <2>1, <3>6 DEF LstatFile, Goto, TypeOK
    <3>7. ASSUME NEW r \in Runs, StartWriting(r) \/ FinishWriting(r)
          PROVE  Staged' /\ Levels'
      BY <2>1, <3>7 DEF StartWriting, FinishWriting, Goto, TypeOK
    <3>8. ASSUME NEW r \in Runs, Move(r) PROVE Staged' /\ Levels'
      BY <2>1, <2>2, <3>8 DEF Move, Goto, Ended, TypeOK
    <3>9. CASE Tick \/ Wipe \/ (\E f \in Files : FileChanges(f))
      BY <2>1, <3>9 DEF Tick, Wipe, FileChanges
    <3>10. CASE UNCHANGED vars
      BY <2>1, <3>10 DEF vars
    <3> QED
      BY <3>1, <3>2, <3>3, <3>4, <3>5, <3>6, <3>7, <3>8, <3>9, <3>10 DEF Next
  <2>4. ASSUME ~wiped', NEW q \in Runs, pc'[q] = "lstatc"
        PROVE  /\ ~wiped /\ arg'[q] = arg[q] /\ arg[q] \in Files
               /\ slot[Cached(arg[q])] # NoPic
    <3>1. ASSUME ~wiped, arg'[q] = arg[q], pc[q] = "lstatc"
          PROVE  /\ ~wiped /\ arg'[q] = arg[q] /\ arg[q] \in Files
                 /\ slot[Cached(arg[q])] # NoPic
      BY <2>1, <3>1, HasFile
    <3>2. ASSUME NEW r \in Runs, Access(r)
          PROVE  /\ ~wiped /\ arg'[q] = arg[q] /\ arg[q] \in Files
                 /\ slot[Cached(arg[q])] # NoPic
      <4>1. CASE q = r
        BY <2>4, <3>2, <4>1, HasFile DEF Access, Goto, TypeOK
      <4>2. CASE q # r
        BY <2>4, <3>1, <3>2, <4>2 DEF Access, Goto, TypeOK
      <4> QED BY <4>1, <4>2
    <3>3. ASSUME NEW r \in Runs,
                 \/ Begin(r) \/ FileGone(r) \/ Mkdir(r) \/ LstatCache(r)
                 \/ LstatFile(r) \/ NoMethod(r)
          PROVE  ~wiped /\ arg'[q] = arg[q] /\ pc[q] = "lstatc"
      BY <2>4, <3>3 DEF Begin, FileGone, Mkdir, LstatCache, LstatFile,
        NoMethod, Return, Goto, Ended, TypeOK
    <3>4. ASSUME NEW r \in Runs,
                 \/ StartWriting(r) \/ FinishWriting(r) \/ Cut(r)
                 \/ CannotWrite(r) \/ Move(r) \/ Show(r)
          PROVE  ~wiped /\ arg'[q] = arg[q] /\ pc[q] = "lstatc"
      BY <2>4, <3>4 DEF StartWriting, FinishWriting, Cut, CannotWrite, Move,
        Show, Return, Goto, Ended, TypeOK
    <3>5. CASE Tick \/ Wipe \/ (\E f \in Files : FileChanges(f))
      BY <2>4, <3>1, <3>5 DEF Tick, Wipe, FileChanges
    <3>6. CASE UNCHANGED vars
      BY <2>4, <3>1, <3>6 DEF vars
    <3> QED BY <3>1, <3>2, <3>3, <3>4, <3>5, <3>6 DEF Next
  <2>5. Found'
    <3> SUFFICES ASSUME ~wiped', NEW q \in Runs, pc'[q] = "lstatc"
                 PROVE  slot'[Cached(arg'[q])] # NoPic
      BY DEF Cached
    <3>1. /\ arg'[q] = arg[q] /\ arg[q] \in Files
          /\ slot[Cached(arg[q])] # NoPic
      BY <2>4
    <3>2. /\ Cached(arg[q]) \in Names
          /\ \A r \in Runs : pc[r] = "move" => Cached(arg[q]) # Target(arg[r])
      BY <3>1, NamesDiffer, HasFile DEF TypeOK, TempInv
    <3> QED BY <3>1, <3>2, PicturesStay DEF Move
  <2> QED BY <2>3, <2>5 DEF DirsInv
<1> QED BY <1>1, <1>2, TypeCorrect, TempInvariant, PTL DEF Spec

\* No run fails because of others, unless the directory was removed or two
\* converters have clashed (checked as Undisturbed in run cache_shared).
THEOREM UndisturbedAlways == Spec => []Undisturbed
<1>1. Init => Undisturbed
  BY DEF Init, Undisturbed
<1>2. TypeOK /\ DirsInv /\ TempInv /\ Undisturbed /\ [Next]_vars => Undisturbed'
  <2> SUFFICES ASSUME TypeOK, DirsInv, TempInv, Undisturbed, [Next]_vars
               PROVE  Undisturbed'
    OBVIOUS
  <2> USE DEF world, locals, history
  <2> DEFINE Good(q) == /\ pc'[q] = "ERR" => wiped'
                        /\ pc'[q] = "nomove" => wiped' \/ clash'
  <2>1. (clash => clash') /\ (wiped => wiped')
    BY HistoryGrows
  <2>2. ASSUME NEW q \in Runs, pc'[q] = pc[q] PROVE Good(q)
    BY <2>1, <2>2 DEF Undisturbed
  <2>3. ASSUME NEW q \in Runs, pc'[q] \notin {"ERR", "nomove"} PROVE Good(q)
    BY <2>3
  <2>4. ASSUME NEW r \in Runs, NEW q \in Runs \ {r},
               \/ Begin(r) \/ FileGone(r) \/ Mkdir(r) \/ Access(r)
               \/ LstatCache(r) \/ LstatFile(r) \/ NoMethod(r)
               \/ StartWriting(r) \/ FinishWriting(r) \/ Cut(r)
               \/ CannotWrite(r) \/ Move(r) \/ Show(r)
        PROVE  Good(q)
    <3>1. pc'[q] = pc[q]
      BY <2>4 DEF Begin, FileGone, Mkdir, Access, LstatCache, LstatFile,
        NoMethod, StartWriting, FinishWriting, Cut, CannotWrite, Move, Show,
        Return, Goto, TypeOK
    <3> QED BY <2>2, <3>1
  \* A directory is missing, or a picture.
  <2>5. ASSUME NEW r \in Runs, Mkdir(r) PROVE Good(r)
    <3>1. CASE MkdirWorks(lvl[r])
      BY <2>2, <2>5, <3>1 DEF Mkdir
    <3>2. CASE ~MkdirWorks(lvl[r])
      <4>1. lvl[r] \in Nat /\ dirs \in Nat
        BY CacheAssumption DEF TypeOK
      <4>2. wiped
        BY <3>2, <4>1 DEF MkdirWorks, DirsInv
      <4> QED BY <2>1, <2>5, <3>2, <4>2 DEF Mkdir, Return, Goto, TypeOK
    <3> QED BY <3>1, <3>2
  <2>6. ASSUME NEW r \in Runs, LstatCache(r) PROVE Good(r)
    <3>1. CASE slot[Cached(arg[r])] # NoPic
      BY <2>3, <2>6, <3>1 DEF LstatCache, Goto, TypeOK
    <3>2. CASE slot[Cached(arg[r])] = NoPic
      <4>1. wiped
        BY <2>6, <3>2 DEF LstatCache, DirsInv
      <4> QED BY <2>1, <2>6, <3>2, <4>1 DEF LstatCache, Return, Goto, TypeOK
    <3> QED BY <3>1, <3>2
  <2>7. ASSUME NEW r \in Runs, CannotWrite(r) PROVE Good(r)
    <3>1. lvl[r] = Depth /\ dirs \in 0 .. Depth
      BY <2>7 DEF CannotWrite, DirsInv, TypeOK
    <3>2. wiped
      BY <2>7, <3>1, CacheAssumption DEF CannotWrite, DirsInv
    <3> QED BY <2>1, <2>7, <3>2 DEF CannotWrite, Return, Goto, TypeOK
  <2>8. ASSUME NEW r \in Runs, Move(r) PROVE Good(r)
    <3>1. CASE slot[Target(arg[r])] # NoPic
      BY <2>3, <2>8, <3>1 DEF Move, Goto, TypeOK
    <3>2. CASE slot[Target(arg[r])] = NoPic
      <4>1. wiped \/ clash
        BY <2>8, <3>2 DEF Move, TempInv
      <4> QED BY <2>1, <2>8, <3>2, <4>1 DEF Move, Return, Goto, TypeOK
    <3> QED BY <3>1, <3>2
  \* The other steps do not end a run with an error.
  <2>9. ASSUME NEW r \in Runs,
               \/ Begin(r) \/ FileGone(r) \/ Access(r) \/ LstatFile(r)
               \/ NoMethod(r) \/ StartWriting(r) \/ FinishWriting(r) \/ Cut(r)
               \/ Show(r)
        PROVE  Good(r)
    <3>1. pc'[r] \notin {"ERR", "nomove"}
      BY <2>9 DEF Begin, FileGone, Access, LstatFile, NoMethod, StartWriting,
        FinishWriting, Cut, Show, Return, Goto, TypeOK
    <3> QED BY <2>3, <3>1
  <2>10. ASSUME Tick \/ Wipe \/ (\E f \in Files : FileChanges(f)) \/ UNCHANGED vars,
                NEW q \in Runs
         PROVE  Good(q)
    <3>1. pc' = pc
      BY <2>10 DEF Tick, Wipe, FileChanges, vars
    <3> QED BY <2>2, <3>1
  <2>11. ASSUME NEW q \in Runs PROVE Good(q)
    BY <2>4, <2>5, <2>6, <2>7, <2>8, <2>9, <2>10, <2>11 DEF Next
  <2> QED BY <2>11 DEF Undisturbed
<1> QED
  BY <1>1, <1>2, TypeCorrect, DirsInvariant, TempInvariant, PTL DEF Spec
-----------------------------------------------------------------------------
(***************************************************************************)
(* What is shown is fresh.                                                 *)
(***************************************************************************)

\* No time of a picture lies ahead, and no file is older than when its run was
\* started.
THEOREM TimeInvariant == Spec => []TimeInv
<1>1. Init => TimeInv
  BY DEF Init, TimeInv, Under
<1>2. TypeOK /\ TimeInv /\ [Next]_vars => TimeInv'
  <2> SUFFICES ASSUME TypeOK, TimeInv, [Next]_vars PROVE TimeInv'
    OBVIOUS
  <2> USE DEF world, locals, history
  <2>0. /\ now \in Nat /\ \A f \in Files : ver[f] \in Nat
        /\ \A r \in Runs : stat[r] \in Nat /\ since[r] \in Nat
    BY CacheAssumption DEF TypeOK
  <2>1. ASSUME NEW r \in Runs, Begin(r) PROVE TimeInv'
    BY <2>0, <2>1 DEF Begin, Goto, TypeOK, TimeInv, Under
  <2>2. ASSUME NEW r \in Runs, NEW l \in Ended, Return(r, l),
               slot' = slot, UNCHANGED world
        PROVE  TimeInv'
    BY <2>0, <2>2 DEF Return, Goto, TypeOK, TimeInv, Under
  <2>3. ASSUME NEW r \in Runs,
               FileGone(r) \/ NoMethod(r) \/ CannotWrite(r) \/ Show(r)
        PROVE  TimeInv'
    BY <2>2, <2>3 DEF FileGone, NoMethod, CannotWrite, Show, Ended
  <2>4. ASSUME NEW r \in Runs, Mkdir(r) PROVE TimeInv'
    BY <2>2, <2>4 DEF Mkdir, Ended, TimeInv, Under
  <2>5. ASSUME NEW r \in Runs, Access(r) \/ LstatFile(r) PROVE TimeInv'
    BY <2>5 DEF Access, LstatFile, Goto, TypeOK, TimeInv, Under, Ended
  <2>6. ASSUME NEW r \in Runs, LstatCache(r) PROVE TimeInv'
    <3>1. CASE slot[Cached(arg[r])] = NoPic
      BY <2>2, <2>6, <3>1 DEF LstatCache, Ended
    <3>2. CASE slot[Cached(arg[r])] # NoPic
      <4>1. Cached(arg[r]) \in Names
        BY <2>6, HasFile, NamesDiffer DEF LstatCache, TypeOK
      <4>2. slot[Cached(arg[r])].ctime <= now
        BY <3>2, <4>1 DEF TimeInv
      <4> QED
        BY <2>6, <3>2, <4>2
        DEF LstatCache, Goto, TypeOK, TimeInv, Under, Ended
    <3> QED BY <3>1, <3>2
  <2>7. ASSUME NEW r \in Runs, StartWriting(r) PROVE TimeInv'
    <3>1. \A n \in Names : slot'[n] = slot[n] \/ slot'[n].ctime = now
      BY <2>7 DEF StartWriting, TypeOK
    <3> QED
      BY <2>0, <2>7, <3>1 DEF StartWriting, Goto, TypeOK, TimeInv, Under, Ended
  <2>8. ASSUME NEW r \in Runs, FinishWriting(r) PROVE TimeInv'
    <3>1. ASSUME NEW n \in Names
          PROVE  slot'[n] = slot[n] \/ slot'[n].ctime = now
      <4>1. slot[n] # NoPic => slot[n] \in Pictures
        BY DEF TypeOK
      <4> QED BY <2>8, <4>1 DEF FinishWriting, Pictures
    <3>2. \A n \in Names : slot'[n] # NoPic => slot'[n].ctime <= now
      BY <2>0, <3>1 DEF TimeInv
    <3>3. \A q \in Runs : Under(q)' => Under(q)
      BY <2>8 DEF FinishWriting, Goto, Under, Ended, TypeOK
    <3> QED BY <2>8, <3>2, <3>3 DEF FinishWriting, TimeInv
  <2>9. ASSUME NEW r \in Runs, Cut(r) PROVE TimeInv'
    <3>1. ASSUME NEW n \in Names, slot'[n] # NoPic
          PROVE  slot[n] # NoPic /\ slot'[n].ctime = slot[n].ctime
      <4>1. slot[n] # NoPic => slot[n] \in Pictures
        BY DEF TypeOK
      <4> QED BY <2>9, <3>1, <4>1 DEF Cut, Pictures
    <3> QED
      BY <2>0, <2>9, <3>1
      DEF Cut, Return, Goto, TypeOK, TimeInv, Under, Ended
  <2>10. ASSUME NEW r \in Runs, Move(r) PROVE TimeInv'
    <3>1. CASE slot[Target(arg[r])] = NoPic
      BY <2>2, <2>10, <3>1 DEF Move, Ended
    <3>2. CASE slot[Target(arg[r])] # NoPic
      <4>1. Target(arg[r]) \in Names
        BY <2>10, HasFile, NamesDiffer DEF Move, TypeOK
      <4>2. slot[Target(arg[r])] \in Pictures
        BY <3>2, <4>1 DEF TypeOK
      <4>3. [slot[Target(arg[r])] EXCEPT !.ctime = now].ctime = now
        BY <4>2 DEF Pictures
      <4>4. \A n \in Names :
              slot'[n] = slot[n] \/ slot'[n] = NoPic \/ slot'[n].ctime = now
        BY <2>10, <3>2, <4>3 DEF Move, Moved, TypeOK
      <4>5. UNCHANGED <<now, arg, stat, since, ver>> /\ pc' = [pc EXCEPT ![r] = "show"]
        BY <2>10, <3>2 DEF Move, Goto
      <4>6. \A q \in Runs : Under(q)' => Under(q)
        BY <2>10, <4>5 DEF Move, Under, Ended, TypeOK
      <4> QED BY <2>0, <4>4, <4>5, <4>6 DEF TimeInv
    <3> QED BY <3>1, <3>2
  <2>11. CASE Tick
    <3>1. now' = now + 1
      BY <2>11 DEF Tick
    <3>2. \A n \in Names : slot[n] # NoPic => slot[n].ctime \in Nat
      BY CacheAssumption DEF TypeOK, Pictures
    <3> QED BY <2>0, <2>11, <3>1, <3>2 DEF Tick, TimeInv, Under
  <2>12. CASE Wipe
    BY <2>12 DEF Wipe, TimeInv, Under
  <2>13. ASSUME NEW f \in Files, FileChanges(f) PROVE TimeInv'
    <3>1. \A g \in Files : ver'[g] >= ver[g] /\ ver'[g] \in Nat
      BY <2>0, <2>13 DEF FileChanges, TypeOK
    <3>2. \A r \in Runs : Under(r) => arg[r] \in Files
      BY DEF TypeOK
    <3> QED BY <2>0, <2>13, <3>1, <3>2 DEF FileChanges, TimeInv, Under
  <2>14. CASE UNCHANGED vars
    BY <2>14 DEF vars, TimeInv, Under
  <2> QED
    BY <2>1, <2>3, <2>4, <2>5, <2>6, <2>7, <2>8, <2>9, <2>10, <2>11, <2>12,
       <2>13, <2>14
    DEF Next
<1> QED BY <1>1, <1>2, TypeCorrect, PTL DEF Spec

\* What is spoilt stays so until a change of the file at rest.
LEMMA SpoiltStays ==
  ASSUME TypeOK, [Next]_vars, NEW f \in Files, spoilt[f], ~spoilt'[f]
  PROVE  FileChanges(f)
<1> USE DEF world, locals, history
<1>1. ASSUME NEW r \in Runs,
             \/ Begin(r) \/ FileGone(r) \/ Mkdir(r) \/ LstatCache(r)
             \/ LstatFile(r) \/ NoMethod(r) \/ FinishWriting(r)
             \/ CannotWrite(r) \/ Move(r) \/ Show(r)
      PROVE  spoilt' = spoilt
  BY <1>1 DEF Begin, FileGone, Mkdir, LstatCache, LstatFile, NoMethod,
    FinishWriting, CannotWrite, Move, Show
<1>2. ASSUME NEW r \in Runs, Access(r) \/ StartWriting(r) \/ Cut(r)
      PROVE  spoilt'[f]
  BY <1>2 DEF Access, StartWriting, Cut, Spoil
<1>3. ASSUME NEW g \in Files, FileChanges(g), g # f PROVE spoilt'[f]
  BY <1>3 DEF FileChanges, TypeOK
<1>4. CASE Tick \/ Wipe \/ UNCHANGED vars
  BY <1>4 DEF Tick, Wipe, vars
<1> QED BY <1>1, <1>2, <1>3, <1>4 DEF Next

\* Run q stays where it is.
Still(q) == /\ pc'[q] = pc[q] /\ arg'[q] = arg[q]
            /\ stat'[q] = stat[q] /\ since'[q] = since[q]

\* Two converters with one target are rivals.
LEMMA SameTarget ==
  ASSUME TypeOK, NEW r \in Runs, NEW q \in Runs \ {r},
         arg[r] \in Files, pc[q] \in {"write", "move"},
         Target(arg[q]) = Target(arg[r])
  PROVE  q \in Rivals(r)
<1>1. arg[q] \in Files
  BY HasFile
<1>2. CASE how[arg[r]] = "direct"
  <2>1. Target(arg[q]) = Cached(arg[r])
    BY <1>2, NamesDiffer DEF TypeOK
  <2>2. arg[q] = arg[r]
    BY <1>1, <2>1, NamesDiffer DEF TypeOK
  <2> QED BY <1>2, <2>2 DEF Rivals
<1>3. CASE how[arg[r]] # "direct"
  BY <1>3 DEF Rivals
<1> QED BY <1>2, <1>3

\* A step of a run that neither writes nor changes the pictures.
LEMMA StepAside ==
  ASSUME TypeOK, FreshInv, UNCHANGED <<how, ver, ctime, slot>>,
         NEW r \in Runs, \A q \in Runs \ {r} : Still(q),
         pc[r] # "write", pc'[r] \notin {"write", "move"},
         NEW f \in Files, ~spoilt[f],
         arg'[r] = f =>
           /\ \/ pc'[r] = "mkdir"
              \/ arg[r] = f /\ pc[r] # "mkdir"
              \/ slot[Cached(f)] = NoPic \/ slot[Cached(f)].by = NoRun
           /\ Reads(r)'
  PROVE  Sound(f)'
<1>1. Kept(f) /\ \A q \in RunsOf(f) : Writes(q) /\ Reads(q)
  BY DEF FreshInv, Sound
<1>2. Kept(f)'
  <2> DEFINE p == slot[Cached(f)]
  <2>1. p # NoPic => p.by \in Runs \cup {NoRun}
    BY NamesDiffer DEF TypeOK, Pictures
  <2>2. CASE p = NoPic \/ p.by = NoRun
    BY <1>1, <2>2 DEF Kept, Right, Cached
  <2>3. CASE p # NoPic /\ p.by # NoRun
    <3>1. /\ how[f] = "direct" /\ pc[p.by] = "write" /\ arg[p.by] = f
          /\ p.of = f /\ p.ver = ver[f]
          /\ \A q \in RunsOf(f) \ {p.by} : pc[q] = "mkdir"
      BY <1>1, <2>3 DEF Kept
    <3>2. p.by \in Runs \ {r}
      BY <2>1, <2>3, <3>1
    <3>3. pc'[p.by] = "write" /\ arg'[p.by] = f
      BY <3>1, <3>2 DEF Still
    <3>4. ASSUME NEW q \in Runs, arg'[q] = f, q # p.by PROVE pc'[q] = "mkdir"
      <4>1. CASE q = r
        BY <2>3, <3>1, <3>4, <4>1 DEF RunsOf
      <4>2. CASE q # r
        BY <3>1, <3>4, <4>2 DEF RunsOf, Still
      <4> QED BY <4>1, <4>2
    <3> QED BY <2>3, <3>1, <3>3, <3>4 DEF Kept, RunsOf, Cached
  <2> QED BY <2>2, <2>3
<1>3. ASSUME NEW q \in Runs, arg'[q] = f PROVE Writes(q)' /\ Reads(q)'
  <2>1. CASE q = r
    BY <1>3, <2>1 DEF Writes
  <2>2. CASE q # r
    <3>1. Still(q) /\ q \in RunsOf(f) /\ Writes(q) /\ Reads(q)
      BY <1>1, <1>3, <2>2 DEF Still, RunsOf
    <3>2. Reads(q)'
      BY <3>1 DEF Still, Reads, Right, Cached
    <3>3. \A x \in Runs : x # r => Target(arg[x])' = Target(arg[x])
      BY DEF Still, Target, Cached
    <3>4. Target(arg[q])' = Target(arg[q])
      BY <2>2, <3>3
    <3>5. ASSUME pc[q] \in {"write", "move"}, NEW x \in Runs \ {q},
                 pc'[x] \in {"write", "move"}
          PROVE  Target(arg[x])' # Target(arg[q])'
      <4>1. x # r
        BY <3>5
      <4> QED BY <3>1, <3>3, <3>4, <3>5, <4>1 DEF Still, Writes
    <3>6. Writes(q)'
      BY <3>1, <3>4, <3>5 DEF Still, Writes
    <3> QED BY <3>2, <3>6
  <2> QED BY <2>1, <2>2
<1> QED BY <1>2, <1>3 DEF Sound, RunsOf

\* A run begins to write: it spoils what it disturbs, and is alone otherwise.
LEMMA StartSound ==
  ASSUME TypeOK, FreshInv, NEW r \in Runs, StartWriting(r),
         NEW f \in Files, ~spoilt[f], ~spoilt'[f]
  PROVE  Sound(f)'
<1> DEFINE g == arg[r]
           p == [of |-> g, ver |-> ver[g], whole |-> FALSE, by |-> r,
                 ctime |-> now]
<1>1. /\ pc[r] = "stale" /\ pc' = [pc EXCEPT ![r] = "write"]
      /\ UNCHANGED <<ver, ctime, how, arg, stat, since>>
      /\ slot' = [slot EXCEPT ![Target(g)] = p]
  BY DEF StartWriting, Goto, world, locals
<1>2. g \in Files /\ Target(g) \in Names
  BY <1>1, HasFile, NamesDiffer DEF TypeOK
<1>3. p.of = g /\ p.ver = ver[g] /\ p.by = r /\ r # NoRun
  BY CacheAssumption
<1>4. Kept(f) /\ \A q \in RunsOf(f) : Writes(q) /\ Reads(q)
  BY DEF FreshInv, Sound
<1>5. Rivals(r) # {} => f # g /\ \A q \in Rivals(r) : arg[q] # f
  BY DEF StartWriting, Spoil
<1>6. \A x : Target(x)' = Target(x)
  BY <1>1 DEF Target, Cached
<1>7. \A q \in Runs \ {r} : pc'[q] = pc[q]
  BY <1>1 DEF TypeOK
<1>8. pc'[r] = "write"
  BY <1>1 DEF TypeOK
<1>9. \A n \in Names : slot'[n] = IF n = Target(g) THEN p ELSE slot[n]
  BY <1>1 DEF TypeOK
<1> HIDE DEF p
<1>10. Kept(f)'
  <2>1. CASE f = g /\ how[f] = "direct"
    <3>1. slot'[Cached(f)] = p
      BY <1>2, <1>9, <2>1, NamesDiffer DEF TypeOK
    <3>2. RunsOf(f) \ {r} = {}
      BY <1>5, <2>1 DEF Rivals, RunsOf
    <3> QED BY <1>1, <1>3, <1>8, <2>1, <3>1, <3>2 DEF Kept, RunsOf, Cached
  <2>2. CASE ~(f = g /\ how[f] = "direct")
    <3>1. slot'[Cached(f)] = slot[Cached(f)]
      BY <1>2, <1>9, <2>2, NamesDiffer DEF TypeOK
    <3>2. CASE slot[Cached(f)] = NoPic \/ slot[Cached(f)].by = NoRun
      BY <1>1, <1>4, <3>1, <3>2 DEF Kept, Right, Cached
    <3>3. CASE slot[Cached(f)] # NoPic /\ slot[Cached(f)].by # NoRun
      <4> DEFINE o == slot[Cached(f)]
      <4>1. /\ how[f] = "direct" /\ pc[o.by] = "write" /\ arg[o.by] = f
            /\ o.of = f /\ o.ver = ver[f]
            /\ \A q \in RunsOf(f) \ {o.by} : pc[q] = "mkdir"
        BY <1>4, <3>3 DEF Kept
      <4>2. o.by \in Runs
        BY <3>3, NamesDiffer DEF TypeOK, Pictures
      <4>3. o.by # r /\ pc'[o.by] = "write"
        BY <1>1, <1>7, <4>1, <4>2
      <4>4. \A q \in RunsOf(f) \ {o.by} : pc'[q] = "mkdir"
        BY <1>1, <1>7, <4>1, <4>3 DEF RunsOf
      <4> QED BY <1>1, <3>1, <3>3, <4>1, <4>3, <4>4 DEF Kept, RunsOf, Cached
    <3> QED BY <3>2, <3>3
  <2> QED BY <2>1, <2>2
<1>11. ASSUME NEW q \in Runs, arg[q] = f PROVE Writes(q)' /\ Reads(q)'
  <2>1. CASE q = r
    <3>1. Rivals(r) = {}
      BY <1>5, <1>11, <2>1
    <3>2. \A x \in Runs \ {r} :
            pc'[x] \in {"write", "move"} => Target(arg[x]) # Target(g)
      BY <1>2, <1>7, <3>1, SameTarget
    <3>3. slot'[Target(g)] = p
      BY <1>2, <1>9
    <3> QED
      BY <1>1, <1>3, <1>6, <1>8, <2>1, <3>2, <3>3 DEF Writes, Reads
  <2>2. CASE q # r
    <3>1. /\ q \in RunsOf(f) /\ Writes(q) /\ Reads(q) /\ q \notin Rivals(r)
          /\ pc'[q] = pc[q]
      BY <1>4, <1>5, <1>7, <1>11, <2>2 DEF RunsOf
    <3>2. Reads(q)'
      <4>1. ~(how[g] = "direct" /\ f = g)
        BY <1>11, <2>2, <3>1 DEF Rivals
      <4>2. slot'[Cached(f)] = slot[Cached(f)]
        BY <1>2, <1>9, <4>1, NamesDiffer DEF TypeOK
      <4> QED BY <1>1, <1>11, <3>1, <4>2 DEF Reads, Right, Cached
    <3>3. ASSUME pc[q] \in {"write", "move"}
          PROVE  /\ Target(f) # Target(g)
                 /\ slot'[Target(f)] = slot[Target(f)]
      <4>1. Target(f) # Target(g)
        BY <1>2, <1>11, <2>2, <3>1, <3>3, SameTarget
      <4> QED BY <1>9, <4>1, NamesDiffer DEF TypeOK
    <3>4. Writes(q)'
      BY <1>1, <1>6, <1>7, <1>11, <3>1, <3>3 DEF Writes
    <3> QED BY <3>2, <3>4
  <2> QED BY <2>1, <2>2
<1> QED BY <1>1, <1>10, <1>11 DEF Sound, RunsOf

\* The picture that a step completes or moves, and what it keeps of it.
LEMMA PictureFields ==
  ASSUME TypeOK, NEW n \in Names, slot[n] # NoPic
  PROVE  LET o == slot[n]
             d == [o EXCEPT !.whole = TRUE, !.by = NoRun, !.ctime = now]
             m == [o EXCEPT !.ctime = now] IN
         /\ o.by \in Runs \cup {NoRun} /\ o.ver \in 0 .. MaxVer
         /\ d.whole /\ d.by = NoRun /\ d.of = o.of /\ d.ver = o.ver
         /\ m.whole = o.whole /\ m.by = o.by /\ m.of = o.of /\ m.ver = o.ver
<1>1. slot[n] \in Pictures
  BY DEF TypeOK
<1> QED BY <1>1 DEF Pictures

\* A run that ends its writing, or is cut, completes or leaves only what it
\* has opened itself.
LEMMA EndsSound ==
  ASSUME TypeOK, TimeInv, FreshInv, NEW r \in Runs, FinishWriting(r) \/ Cut(r),
         NEW f \in Files, ~spoilt[f], ~spoilt'[f]
  PROVE  Sound(f)'
<1> DEFINE g == arg[r]
<1>1. /\ pc[r] = "write" /\ UNCHANGED <<ver, ctime, how>>
      /\ \A q \in Runs \ {r} : Still(q)
  BY DEF FinishWriting, Cut, Return, Goto, Still, world, locals, TypeOK
<1>2. \A n \in Names : slot[n] = NoPic \/ slot[n].by # r => slot'[n] = slot[n]
  BY DEF FinishWriting, Cut
<1>3. g \in Files /\ r # NoRun
  BY <1>1, HasFile, CacheAssumption
<1>4. Kept(f) /\ \A q \in RunsOf(f) : Writes(q) /\ Reads(q)
  BY DEF FreshInv, Sound
<1>5. \A x : Target(x)' = Target(x)
  BY <1>1 DEF Target, Cached
<1>6. Cached(f) \in Names /\ Target(f) \in Names
  BY NamesDiffer DEF TypeOK
<1>7. CASE slot[Cached(f)] # NoPic /\ slot[Cached(f)].by = r
  <2>1. how[f] = "direct" /\ g = f /\ slot[Cached(f)].of = f
        /\ slot[Cached(f)].ver = ver[f]
    BY <1>3, <1>4, <1>7 DEF Kept
  <2>2. FinishWriting(r)
    BY <2>1 DEF Cut, Spoil
  <2>3. slot'[Cached(f)] = [slot[Cached(f)] EXCEPT !.whole = TRUE, !.by = NoRun,
                                                   !.ctime = now]
    BY <1>6, <1>7, <2>2 DEF FinishWriting
  <2>4. slot'[Cached(f)].by = NoRun /\ Right(slot'[Cached(f)], f)
    BY <1>6, <1>7, <2>1, <2>3, PictureFields DEF Right
  <2>5. Kept(f)'
    BY <1>1, <2>4 DEF Kept, Right, Cached
  <2>6. ASSUME NEW q \in Runs, arg'[q] = f PROVE Writes(q)' /\ Reads(q)'
    <3>1. arg' = arg /\ since' = since /\ pc' = [pc EXCEPT ![r] = "show"]
      BY <2>1, <2>2 DEF FinishWriting, Goto, locals
    <3>2. CASE q = r
      <4>1. since[r] <= ver[f]
        BY <1>1, <2>1 DEF TimeInv, Under, Ended
      <4> QED
        BY <1>1, <2>1, <2>4, <3>1, <3>2, <4>1
        DEF Writes, Reads, Right, Cached, TypeOK
    <3>3. CASE q # r
      <4>1. pc'[q] = "mkdir"
        BY <1>4, <1>7, <2>6, <3>1, <3>3, <1>3 DEF Kept, RunsOf, TypeOK
      <4> QED BY <4>1 DEF Writes, Reads
    <3> QED BY <3>2, <3>3
  <2> QED BY <2>5, <2>6 DEF Sound, RunsOf
<1>8. CASE slot[Cached(f)] = NoPic \/ slot[Cached(f)].by # r
  <2>1. slot'[Cached(f)] = slot[Cached(f)]
    BY <1>2, <1>6, <1>8
  <2>2. Kept(f)'
    <3>1. CASE slot[Cached(f)] = NoPic \/ slot[Cached(f)].by = NoRun
      BY <1>1, <1>4, <2>1, <3>1 DEF Kept, Right, Cached
    <3>2. CASE slot[Cached(f)] # NoPic /\ slot[Cached(f)].by # NoRun
      <4> DEFINE o == slot[Cached(f)]
      <4>1. /\ how[f] = "direct" /\ pc[o.by] = "write" /\ arg[o.by] = f
            /\ o.of = f /\ o.ver = ver[f]
            /\ \A q \in RunsOf(f) \ {o.by} : pc[q] = "mkdir"
        BY <1>4, <3>2 DEF Kept
      <4>2. o.by \in Runs \ {r}
        BY <1>6, <1>8, <3>2, PictureFields
      <4>3. pc'[o.by] = "write" /\ arg'[o.by] = f
        BY <1>1, <4>1, <4>2 DEF Still
      <4>4. g # f
        BY <1>1, <1>8, <3>2, <4>1 DEF RunsOf
      <4>5. arg'[r] = g \/ arg'[r] = NoFile
        BY DEF FinishWriting, Cut, Return, locals, TypeOK
      <4>6. ASSUME NEW q \in Runs, arg'[q] = f, q # o.by PROVE pc'[q] = "mkdir"
        <5>1. q # r
          BY <4>4, <4>5, <4>6, CacheAssumption
        <5> QED BY <1>1, <4>1, <4>6, <5>1 DEF RunsOf, Still
      <4> QED BY <1>1, <2>1, <3>2, <4>1, <4>3, <4>6 DEF Kept, RunsOf, Cached
    <3> QED BY <3>1, <3>2
  <2>3. ASSUME NEW q \in Runs, arg'[q] = f PROVE Writes(q)' /\ Reads(q)'
    <3>1. CASE q = r
      <4>1. FinishWriting(r) /\ g = f
        BY <2>3, <3>1, CacheAssumption DEF FinishWriting, Cut, Return, locals, TypeOK
      <4>2. Writes(r) /\ arg' = arg
            /\ pc'[r] = IF how[f] = "direct" THEN "show" ELSE "move"
        BY <1>4, <4>1 DEF RunsOf, FinishWriting, Goto, locals, TypeOK
      <4>3. CASE how[f] = "direct"
        <5>1. slot[Cached(f)] = NoPic
          BY <1>1, <1>8, <4>1, <4>2, <4>3, NamesDiffer DEF Writes, TypeOK
        <5> QED
          BY <2>1, <2>3, <3>1, <4>2, <4>3, <5>1 DEF Writes, Reads, Cached
      <4>4. CASE how[f] # "direct"
        <5> DEFINE d == [slot[Target(f)] EXCEPT !.whole = TRUE, !.by = NoRun,
                                                !.ctime = now]
        <5>1. slot[Target(f)] # NoPic => slot'[Target(f)] = d
          <6>1. slot[Target(f)] # NoPic => slot[Target(f)].by = r
            BY <1>1, <4>1, <4>2 DEF Writes
          <6>2. slot[Target(f)] # NoPic /\ slot[Target(f)].by = r
                  => slot'[Target(f)] = d
            BY <1>6, <4>1 DEF FinishWriting
          <6> HIDE DEF d
          <6> QED BY <6>1, <6>2
        <5>2. slot[Target(f)] = NoPic => slot'[Target(f)] = NoPic
          BY <1>2, <1>6
        <5>3. slot[Target(f)] # NoPic =>
                /\ slot'[Target(f)].whole /\ slot'[Target(f)].by = NoRun
                /\ slot'[Target(f)].of = f /\ slot'[Target(f)].ver = ver[f]
          <6>1. slot[Target(f)] # NoPic =>
                  /\ d.whole /\ d.by = NoRun
                  /\ d.of = slot[Target(f)].of /\ d.ver = slot[Target(f)].ver
            BY <1>6, PictureFields
          <6>2. slot[Target(f)] # NoPic =>
                  slot[Target(f)].of = f /\ slot[Target(f)].ver = ver[f]
            BY <1>1, <4>1, <4>2 DEF Writes
          <6> HIDE DEF d
          <6> QED BY <5>1, <6>1, <6>2
        <5>4. \A x \in Runs \ {r} :
                pc'[x] \in {"write", "move"} => Target(arg'[x]) # Target(f)
          BY <1>1, <4>1, <4>2 DEF Writes, Still
        <5> QED
          BY <1>1, <1>5, <3>1, <4>1, <4>2, <4>4, <5>2, <5>3, <5>4
          DEF Writes, Reads
      <4> QED BY <4>3, <4>4
    <3>2. CASE q # r
      <4>1. q \in RunsOf(f) /\ Writes(q) /\ Reads(q) /\ Still(q)
        BY <1>1, <1>4, <2>3, <3>2 DEF RunsOf, Still
      <4>2. Reads(q)'
        BY <1>1, <2>1, <2>3, <4>1 DEF Reads, Right, Cached, Still
      <4>3. ASSUME pc[q] \in {"write", "move"}
            PROVE  slot'[Target(f)] = slot[Target(f)]
        BY <1>2, <1>3, <1>6, <2>3, <3>2, <4>1, <4>3 DEF Writes, Still
      <4>4. ASSUME pc[q] \in {"write", "move"}, NEW x \in Runs \ {q},
                   pc'[x] \in {"write", "move"}
            PROVE  Target(arg'[x]) # Target(f)
        <5>1. CASE x # r
          BY <1>1, <2>3, <4>1, <4>4, <5>1 DEF Writes, Still
        <5>2. CASE x = r
          <6>1. arg'[r] = g
            BY <4>4, <5>2
            DEF FinishWriting, Cut, Return, Goto, Ended, locals, TypeOK
          <6> QED BY <1>1, <2>3, <3>2, <4>1, <4>4, <5>2, <6>1 DEF Writes, Still
        <5> QED BY <5>1, <5>2
      <4>5. Writes(q)'
        BY <1>1, <1>5, <2>3, <4>1, <4>3, <4>4 DEF Writes, Still
      <4> QED BY <4>2, <4>5
    <3> QED BY <3>1, <3>2
  <2> QED BY <2>2, <2>3 DEF Sound, RunsOf
<1> QED BY <1>7, <1>8

\* A picture that is moved into its place is the file's own, and complete.
LEMMA MoveSound ==
  ASSUME TypeOK, TimeInv, TempInv, FreshInv, NEW r \in Runs, Move(r),
         NEW f \in Files, ~spoilt[f]
  PROVE  Sound(f)'
<1> DEFINE g == arg[r]
           d == [slot[Target(g)] EXCEPT !.ctime = now]
<1>1. /\ pc[r] = "move" /\ UNCHANGED <<ver, ctime, how>>
      /\ g \in Files /\ how[g] # "direct"
  BY HasFile DEF Move, world, TempInv
<1>2. Kept(f) /\ \A q \in RunsOf(f) : Writes(q) /\ Reads(q)
  BY DEF FreshInv, Sound
<1>3. CASE slot[Target(g)] = NoPic
  <2>1. /\ pc'[r] = "nomove" /\ arg'[r] = NoFile /\ slot' = slot
        /\ \A q \in Runs \ {r} : Still(q)
    BY <1>3 DEF Move, Return, Goto, Still, TypeOK
  <2> QED BY <1>1, <2>1, StepAside, CacheAssumption
<1>4. CASE slot[Target(g)] # NoPic
  <2>1. /\ pc' = [pc EXCEPT ![r] = "show"] /\ UNCHANGED <<arg, stat, since>>
        /\ slot' = [slot EXCEPT ![Target(g)] = NoPic, ![Cached(g)] = d]
    BY <1>4 DEF Move, Moved, Goto, locals
  <2>2. /\ Target(g) \in Names /\ Cached(g) \in Names /\ Cached(f) \in Names
        /\ Target(f) \in Names /\ Target(g) # Cached(f)
    BY <1>1, NamesDiffer DEF TypeOK
  <2>3. pc'[r] = "show" /\ \A q \in Runs \ {r} : pc'[q] = pc[q]
    BY <2>1 DEF TypeOK
  <2>4. /\ slot'[Cached(g)] = d
        /\ \A n \in Names : n # Target(g) /\ n # Cached(g) => slot'[n] = slot[n]
    BY <2>1, <2>2 DEF TypeOK
  <2>5. /\ d.whole = slot[Target(g)].whole /\ d.by = slot[Target(g)].by
        /\ d.of = slot[Target(g)].of /\ d.ver = slot[Target(g)].ver
    BY <1>4, <2>2, PictureFields
  <2>6. \A x : Target(x)' = Target(x)
    BY <1>1 DEF Target, Cached
  <2> HIDE DEF d
  <2>7. CASE f = g
    <3>1. Writes(r)
      BY <1>2, <2>7 DEF RunsOf
    <3>2. d.by = NoRun /\ d.whole /\ d.of = f /\ d.ver = ver[f]
      BY <1>1, <1>4, <2>5, <2>7, <3>1 DEF Writes
    <3>3. slot'[Cached(f)] = d
      BY <2>4, <2>7
    <3>4. Kept(f)'
      BY <1>1, <3>2, <3>3 DEF Kept, Right, Cached
    <3>5. ASSUME NEW q \in Runs, arg'[q] = f PROVE Writes(q)' /\ Reads(q)'
      <4>1. pc'[q] \notin {"write", "move"}
        BY <1>1, <2>1, <2>3, <2>7, <3>1, <3>5 DEF Writes
      <4>2. Writes(q)'
        BY <4>1 DEF Writes
      <4>3. pc'[q] = "show" => since[q] <= ver[f]
        BY <1>1, <2>1, <2>3, <3>5 DEF TimeInv, Under, Ended
      <4>4. Reads(q)'
        BY <1>1, <2>1, <3>2, <3>3, <3>5, <4>3 DEF Reads, Right, Cached
      <4> QED BY <4>2, <4>4
    <3> QED BY <3>4, <3>5 DEF Sound, RunsOf
  <2>8. CASE f # g
    <3>1. slot'[Cached(f)] = slot[Cached(f)]
      BY <1>1, <2>2, <2>4, <2>8, NamesDiffer DEF TypeOK
    <3>2. \A q \in RunsOf(f) : q # r /\ pc'[q] = pc[q]
      BY <2>3, <2>8 DEF RunsOf
    <3>3. Kept(f)'
      <4> DEFINE o == slot[Cached(f)]
      <4>1. CASE o = NoPic \/ o.by = NoRun
        BY <1>1, <1>2, <3>1, <4>1 DEF Kept, Right, Cached
      <4>2. CASE o # NoPic /\ o.by # NoRun
        <5>1. /\ how[f] = "direct" /\ pc[o.by] = "write" /\ arg[o.by] = f
              /\ o.of = f /\ o.ver = ver[f]
              /\ \A q \in RunsOf(f) \ {o.by} : pc[q] = "mkdir"
          BY <1>2, <4>2 DEF Kept
        <5>2. o.by \in Runs
          BY <2>2, <4>2, PictureFields
        <5>3. pc'[o.by] = "write"
          BY <3>2, <5>1, <5>2 DEF RunsOf
        <5>4. \A q \in RunsOf(f) \ {o.by} : pc'[q] = "mkdir"
          BY <3>2, <5>1
        <5> QED
          BY <1>1, <2>1, <3>1, <4>2, <5>1, <5>3, <5>4 DEF Kept, RunsOf, Cached
      <4> QED BY <4>1, <4>2
    <3>4. ASSUME NEW q \in Runs, arg'[q] = f PROVE Writes(q)' /\ Reads(q)'
      <4>1. q \in RunsOf(f) /\ Writes(q) /\ Reads(q) /\ q # r /\ pc'[q] = pc[q]
        BY <1>2, <2>1, <3>2, <3>4 DEF RunsOf
      <4>2. Reads(q)'
        BY <1>1, <2>1, <3>1, <3>4, <4>1 DEF Reads, Right, Cached
      <4>3. ASSUME pc[q] \in {"write", "move"}
            PROVE  slot'[Target(f)] = slot[Target(f)]
        <5>1. Target(f) # Target(g)
          BY <1>1, <2>1, <3>4, <4>1, <4>3 DEF Writes
        <5>2. Target(f) # Cached(g)
          BY <1>1, <2>8, NamesDiffer DEF TypeOK
        <5> QED BY <2>2, <2>4, <5>1, <5>2
      <4>4. Writes(q)'
        BY <1>1, <2>1, <2>3, <2>6, <3>4, <4>1, <4>3 DEF Writes
      <4> QED BY <4>2, <4>4
    <3> QED BY <3>3, <3>4 DEF Sound, RunsOf
  <2> QED BY <2>7, <2>8
<1> QED BY <1>3, <1>4

\* A file that is changed: nobody is writing its picture, and no time that a
\* run knows is after the change.
LEMMA ChangeSound ==
  ASSUME TypeOK, TimeInv, FreshInv, NEW g \in Files, FileChanges(g),
         NEW f \in Files, ~spoilt'[f]
  PROVE  Sound(f)'
<1>1. /\ ver[g] < MaxVer
      /\ ver' = [ver EXCEPT ![g] = ver[g] + 1]
      /\ ctime' = [ctime EXCEPT ![g] = now]
      /\ UNCHANGED <<how, slot, pc, arg, stat, since>>
  BY DEF FileChanges, locals
<1>2. \A x : Target(x)' = Target(x) /\ Cached(x)' = Cached(x)
  BY <1>1 DEF Target, Cached
<1>3. now \in Nat /\ ver[f] \in Nat /\ Cached(f) \in Names
  BY NamesDiffer DEF TypeOK
<1>4. CASE f = g
  <2>1. ver'[f] = ver[f] + 1 /\ ctime'[f] = now
    BY <1>1, <1>4 DEF TypeOK
  <2>2. \A r \in RunsOf(f) : pc[r] \notin {"write", "move"}
    BY <1>4 DEF FileChanges, TypeOK
  <2>3. spoilt[f] => AtRest(f)
    BY <1>4 DEF FileChanges, TypeOK
  <2> DEFINE o == slot[Cached(f)]
  <2>4. ~spoilt[f] => Kept(f) /\ \A r \in RunsOf(f) : Writes(r) /\ Reads(r)
    BY DEF FreshInv, Sound
  <2>5. o # NoPic => o.by \in Runs \cup {NoRun} /\ o.ctime \in Nat /\ o.ctime <= now
    BY <1>3 DEF TypeOK, TimeInv, Pictures
  <2>6. o # NoPic => o.by = NoRun
    BY <2>2, <2>3, <2>4, <2>5 DEF AtRest, Kept, RunsOf
  <2>7. Kept(f)'
    <3>1. o # NoPic => ~Newer(o.ctime, now)
      BY <1>3, <2>5 DEF Newer
    <3> QED BY <1>1, <1>2, <2>1, <2>6, <3>1 DEF Kept
  <2>8. ASSUME NEW r \in RunsOf(f) PROVE Writes(r)' /\ Reads(r)'
    <3>1. ~spoilt[f] /\ arg[r] = f /\ r \in Runs
      BY <2>3 DEF AtRest, RunsOf
    <3>2. Writes(r)'
      BY <1>1, <2>2 DEF Writes
    <3>3. stat[r] \in Nat /\ stat[r] <= now
      BY <3>1 DEF TypeOK, TimeInv
    <3>4. ~Newer(stat[r], now)
      BY <1>3, <3>3 DEF Newer
    <3>5. Reads(r)
      BY <2>4, <3>1
    <3>6. Reads(r)'
      BY <1>1, <1>2, <2>1, <3>1, <3>4, <3>5 DEF Reads
    <3> QED BY <3>2, <3>6
  <2> QED BY <1>1, <2>7, <2>8 DEF Sound, RunsOf
<1>5. CASE f # g
  <2>1. ver'[f] = ver[f] /\ ctime'[f] = ctime[f]
    BY <1>1, <1>5 DEF TypeOK
  <2>2. ~spoilt[f]
    BY <1>5 DEF FileChanges, TypeOK
  <2>3. Kept(f) /\ \A r \in RunsOf(f) : Writes(r) /\ Reads(r)
    BY <2>2 DEF FreshInv, Sound
  <2>4. Kept(f)'
    BY <1>1, <1>2, <2>1, <2>3 DEF Kept, Right, RunsOf
  <2>5. ASSUME NEW r \in RunsOf(f) PROVE Writes(r)' /\ Reads(r)'
    BY <1>1, <1>2, <2>1, <2>3, <2>5 DEF Writes, Reads, Right, RunsOf
  <2> QED BY <1>1, <2>4, <2>5 DEF Sound, RunsOf
<1> QED BY <1>4, <1>5

\* A run that does not write yet, and goes on in ctpv or ends.
LEMMA ReadsSound ==
  ASSUME TypeOK, TimeInv, DirsInv, FreshInv, NEW r \in Runs,
         \/ Begin(r) \/ FileGone(r) \/ Mkdir(r) \/ Access(r) \/ LstatCache(r)
         \/ LstatFile(r) \/ NoMethod(r) \/ CannotWrite(r) \/ Show(r),
         NEW f \in Files, ~spoilt[f], ~spoilt'[f]
  PROVE  Sound(f)'
<1> USE DEF world, locals, history
<1> DEFINE o == slot[Cached(f)]
<1>1. Kept(f) /\ \A q \in RunsOf(f) : Writes(q) /\ Reads(q)
  BY DEF FreshInv, Sound
<1>2. ASSUME NEW l \in Ended, Return(r, l), pc[r] # "write",
             UNCHANGED <<how, ver, ctime, slot>>
      PROVE  Sound(f)'
  <2>1. /\ pc'[r] = l /\ arg'[r] = NoFile
        /\ \A q \in Runs \ {r} : Still(q)
    BY <1>2 DEF Return, Goto, Still, TypeOK
  <2> QED BY <1>2, <2>1, StepAside, CacheAssumption DEF Ended
<1>3. CASE Begin(r)
  <2>1. /\ pc[r] = "idle" /\ pc'[r] = "mkdir"
        /\ UNCHANGED <<how, ver, ctime, slot>>
        /\ \A q \in Runs \ {r} : Still(q)
    BY <1>3 DEF Begin, Goto, Still, TypeOK
  <2>2. Reads(r)'
    BY <2>1 DEF Reads
  <2> QED BY <2>1, <2>2, StepAside
<1>4. CASE FileGone(r) \/ NoMethod(r) \/ CannotWrite(r) \/ Show(r)
  BY <1>2, <1>4 DEF FileGone, NoMethod, CannotWrite, Show, Ended
<1>5. CASE Mkdir(r)
  <2>1. CASE MkdirWorks(lvl[r])
    <3>1. /\ pc[r] = "mkdir" /\ pc'[r] = "mkdir"
          /\ UNCHANGED <<how, ver, ctime, slot>>
          /\ \A q \in Runs \ {r} : Still(q)
      BY <1>5, <2>1 DEF Mkdir, Still, TypeOK
    <3>2. Reads(r)'
      BY <3>1 DEF Reads
    <3> QED BY <3>1, <3>2, StepAside
  <2>2. CASE ~MkdirWorks(lvl[r])
    BY <1>2, <1>5, <2>2 DEF Mkdir, Ended
  <2> QED BY <2>1, <2>2
\* What access() finds is not being written: f would be spoilt.
<1>6. CASE Access(r)
  <2>1. /\ pc[r] = "mkdir" /\ pc'[r] \in {"stale", "lstatc"} /\ arg' = arg
        /\ UNCHANGED <<how, ver, ctime, slot>>
        /\ \A q \in Runs \ {r} : Still(q)
    BY <1>6 DEF Access, Goto, Still, TypeOK
  <2>2. Reads(r)'
    BY <2>1 DEF Reads
  <2>3. arg'[r] = f => o = NoPic \/ o.by = NoRun
    BY <1>6, <2>1 DEF Access, Spoil
  <2> QED BY <2>1, <2>2, <2>3, StepAside
\* A picture with a time after its file's is right.
<1>7. CASE LstatCache(r)
  <2>1. CASE slot[Cached(arg[r])] = NoPic
    BY <1>2, <1>7, <2>1 DEF LstatCache, Ended
  <2>2. CASE slot[Cached(arg[r])] # NoPic
    <3>1. /\ pc[r] = "lstatc" /\ pc'[r] = "lstatf" /\ arg' = arg
          /\ stat'[r] = slot[Cached(arg[r])].ctime
          /\ UNCHANGED <<how, ver, ctime, slot>>
          /\ \A q \in Runs \ {r} : Still(q)
      BY <1>7, <2>2 DEF LstatCache, Goto, Still, TypeOK
    <3>2. ASSUME arg[r] = f PROVE Reads(r)'
      <4>1. o # NoPic
        BY <2>2, <3>2
      <4>2. o.by = NoRun
        <5>1. o.by = NoRun \/ \A q \in RunsOf(f) \ {o.by} : pc[q] = "mkdir"
          BY <1>1, <4>1 DEF Kept
        <5>2. o.by # NoRun => pc[o.by] = "write"
          BY <1>1, <4>1 DEF Kept
        <5> QED BY <3>1, <3>2, <5>1, <5>2 DEF RunsOf
      <4>3. Newer(stat'[r], ctime[f]) => Right(o, f)
        BY <1>1, <3>1, <3>2, <4>1, <4>2 DEF Kept
      <4> QED BY <3>1, <3>2, <4>2, <4>3 DEF Reads, Right, Cached
    <3> QED BY <3>1, <3>2, StepAside
  <2> QED BY <2>1, <2>2
<1>8. CASE LstatFile(r)
  <2>1. /\ pc[r] = "lstatf" /\ pc'[r] \in {"show", "stale"}
        /\ pc'[r] = "show" => Newer(stat[r], ctime[arg[r]])
        /\ UNCHANGED <<how, ver, ctime, slot, arg, stat, since>>
        /\ \A q \in Runs \ {r} : Still(q)
    BY <1>8 DEF LstatFile, Goto, Still, TypeOK
  <2>2. ASSUME arg[r] = f PROVE Reads(r)'
    <3>1. Reads(r)
      BY <1>1, <2>2 DEF RunsOf
    <3>2. since[r] <= ver[f]
      BY <2>1, <2>2 DEF TimeInv, Under, Ended
    <3> QED BY <2>1, <2>2, <3>1, <3>2 DEF Reads, Right, Cached
  <2> QED BY <2>1, <2>2, StepAside
<1> QED BY <1>3, <1>4, <1>5, <1>6, <1>7, <1>8

\* What makes Fresh inductive, of every file whose picture is not spoilt: only
\* a step that changes the file at rest mends a picture.
THEOREM FreshInvariant == Spec => []FreshInv
<1>1. Init => FreshInv
  <2> SUFFICES ASSUME Init, NEW f \in Files PROVE Sound(f)
    BY DEF FreshInv
  <2>1. slot[Cached(f)] = NoPic
    BY NamesDiffer DEF Init
  <2> QED BY <2>1, CacheAssumption DEF Init, Sound, Kept, RunsOf
<1>2. /\ TypeOK /\ TimeInv /\ TempInv /\ DirsInv /\ FreshInv /\ [Next]_vars
      => FreshInv'
  <2> SUFFICES ASSUME TypeOK, TimeInv, TempInv, DirsInv, FreshInv, [Next]_vars,
                      NEW f \in Files, ~spoilt'[f]
               PROVE  Sound(f)'
    BY DEF FreshInv
  <2>1. ASSUME NEW g \in Files, FileChanges(g) PROVE Sound(f)'
    BY <2>1, ChangeSound
  <2>2. CASE \A g \in Files : ~FileChanges(g)
    <3>1. ~spoilt[f]
      BY <2>2, SpoiltStays
    <3>2. Sound(f)
      BY <3>1 DEF FreshInv
    <3>3. ASSUME NEW r \in Runs,
                 \/ Begin(r) \/ FileGone(r) \/ Mkdir(r) \/ Access(r)
                 \/ LstatCache(r) \/ LstatFile(r) \/ NoMethod(r)
                 \/ CannotWrite(r) \/ Show(r)
          PROVE  Sound(f)'
      BY <3>1, <3>3, ReadsSound
    <3>4. ASSUME NEW r \in Runs, StartWriting(r) PROVE Sound(f)'
      BY <3>1, <3>4, StartSound
    <3>5. ASSUME NEW r \in Runs, FinishWriting(r) \/ Cut(r) PROVE Sound(f)'
      BY <3>1, <3>5, EndsSound
    <3>6. ASSUME NEW r \in Runs, Move(r) PROVE Sound(f)'
      BY <3>1, <3>6, MoveSound
    <3>7. CASE Tick \/ UNCHANGED vars
      <4>1. UNCHANGED <<ver, ctime, how, slot, pc, arg, stat, since>>
        BY <3>7 DEF Tick, vars, world, locals
      <4>2. \A x : Target(x)' = Target(x) /\ Cached(x)' = Cached(x)
        BY <4>1 DEF Target, Cached
      <4>3. Kept(f)'
        BY <3>2, <4>1, <4>2 DEF Sound, Kept, Right, RunsOf
      <4>4. ASSUME NEW r \in RunsOf(f) PROVE Writes(r)' /\ Reads(r)'
        BY <3>2, <4>1, <4>2, <4>4 DEF Sound, Writes, Reads, Right, RunsOf
      <4> QED BY <4>1, <4>3, <4>4 DEF Sound, RunsOf
    <3>8. CASE Wipe
      <4>1. UNCHANGED <<how, pc, arg>> /\ \A n \in Names : slot'[n] = NoPic
        BY <3>8 DEF Wipe, world, locals
      <4>2. \A x : Target(x)' = Target(x) /\ Cached(x)' = Cached(x)
        BY <4>1 DEF Target, Cached
      <4>3. Cached(f) \in Names /\ Target(f) \in Names
        BY NamesDiffer DEF TypeOK
      <4>4. Kept(f)'
        BY <4>1, <4>2, <4>3 DEF Kept
      <4>5. ASSUME NEW r \in RunsOf(f) PROVE Writes(r)' /\ Reads(r)'
        BY <3>2, <4>1, <4>2, <4>3, <4>5 DEF Sound, Writes, Reads, RunsOf
      <4> QED BY <4>1, <4>4, <4>5 DEF Sound, RunsOf
    <3> QED
      BY <2>2, <3>3, <3>4, <3>5, <3>6, <3>7, <3>8 DEF Next
  <2> QED BY <2>1, <2>2
<1> QED
  BY <1>1, <1>2, TypeCorrect, TimeInvariant, TempInvariant, DirsInvariant, PTL
  DEF Spec

\* A picture that is shown is whole, the file's, and not older than the file
\* was when ctpv was started, unless it was spoilt (Fresh in run
\* cache_shared).
THEOREM FreshAlways == Spec => []Fresh
<1>1. TypeOK /\ FreshInv => Fresh
  <2> SUFFICES ASSUME TypeOK, FreshInv, NEW r \in Runs, pc[r] = "show",
                      ~spoilt[arg[r]]
               PROVE  LET p == slot[Cached(arg[r])] IN
                      p = NoPic \/ (p.whole /\ p.of = arg[r] /\ p.ver >= since[r])
    BY DEF Fresh
  <2>1. arg[r] \in Files
    BY HasFile
  <2>2. Reads(r)
    BY <2>1 DEF FreshInv, Sound, RunsOf
  <2> QED BY <2>2 DEF Reads
<1> QED BY <1>1, TypeCorrect, FreshInvariant, PTL
=============================================================================
