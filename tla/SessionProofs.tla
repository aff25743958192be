---------------------------- MODULE SessionProofs ---------------------------
(***************************************************************************)
(* Proofs about Session for every set of servers, scripts and faults.      *)
(***************************************************************************)
EXTENDS Session, ServerProofs

\* What lf and ctpvquit do to the scripts is to start one ...
LEMMA Starts ==
  ASSUME NEW c \in Clients, NEW k \in AllKinds, Ctpv(c, k)
  PROVE  Next
BY SessionAssumption DEF Ctpv, Launch, ConfigError, Next

\* ... so that every session is a behaviour of the server and its scripts:
\* what is proved about these holds in a session.
THEOREM SessionServes == SessionSpec => Spec
<1>1. SessionInit => Init
  BY DEF SessionInit
<1>2. [SessionNext]_sessionVars => [Next]_vars
  <2> SUFFICES ASSUME [SessionNext]_sessionVars PROVE Next \/ UNCHANGED vars
    OBVIOUS
  <2>1. CASE ServerNext
    BY <2>1 DEF Next
  <2>2. CASE \E c \in Clients : SelectImage(c)
    BY <2>2, Starts DEF SelectImage, AllKinds
  <2>3. CASE \E c \in Clients : Clean(c)
    BY <2>3, Starts DEF Clean, AllKinds
  <2>4. CASE \E c \in Clients : QuitEnds(c)
    BY <2>4, Starts DEF QuitEnds, AllKinds
  <2>5. CASE PreviewEnds \/ SelectText \/ LfEnds \/ PidTaken \/ OtherEnds
               \/ QuitFails
    BY <2>5
    DEF PreviewEnds, SelectText, LfEnds, PidTaken, OtherEnds, QuitFails
  <2>6. CASE UNCHANGED sessionVars
    BY <2>6 DEF sessionVars
  <2> QED BY <2>1, <2>2, <2>3, <2>4, <2>5, <2>6 DEF SessionNext
<1> QED BY <1>1, <1>2, PTL DEF SessionSpec, Spec

-----------------------------------------------------------------------------
(***************************************************************************)
(* What the steps of the server and of the scripts leave alone.            *)
(***************************************************************************)

\* A step of the server, the kernel or ueberzug.
ServerSide(s) ==
  \/ CheckUeberzug(s) \/ Mkfifo(s) \/ Serve(s)
  \/ Signal(s) \/ Crash(s) \/ UeberzugFails(s) \/ UeberzugObeys(s)

\* No script moves, but one that waited in open(2) for server s.
Onlooking(s) ==
  /\ UNCHANGED <<kind, cfifo, accepted>>
  /\ cpc' \in [Clients -> ClientPC]
  /\ \A c \in Clients :
       cpc'[c] = cpc[c] \/ (cpc[c] = "blocked" /\ cpc'[c] = "write")

LEMMA ServerSideOnlooks ==
  ASSUME TypeOK, NEW s \in Servers, ServerSide(s)
  PROVE  Onlooking(s)
<1> USE DEF Onlooking, TypeOK, ClientPC
<1>1. CASE OpenFifo(s)
  BY <1>1 DEF OpenFifo, OpenReadEnd
<1>2. CASE Reopen(s)
  BY <1>2 DEF Reopen, OpenReadEnd
<1>3. CASE CheckUeberzug(s) \/ Mkfifo(s) \/ OpenFifoFails(s)
             \/ RegisterSignals(s) \/ SpawnUeberzug(s) \/ SpawnFails(s)
  BY <1>3 DEF CheckUeberzug, Mkfifo, OpenFifoFails, RegisterSignals,
    SpawnUeberzug, SpawnFails, clientVars
<1>4. CASE PollReturns(s) \/ ReadsNothing(s) \/ ReadsExit(s) \/ Forwards(s)
             \/ ForwardKills(s) \/ CloseHungUp(s) \/ ReopenFails(s)
  BY <1>4 DEF PollReturns, ReadsNothing, ReadsExit, Forwards, ForwardKills,
    CloseHungUp, ReopenFails, clientVars
<1>5. CASE Kill(s) \/ WaitUeberzug(s) \/ UnregisterSignals(s) \/ CloseFd(s)
             \/ RemoveFifo(s)
  BY <1>5 DEF Kill, WaitUeberzug, UnregisterSignals, CloseFd, RemoveFifo,
    clientVars
<1>6. CASE Signal(s) \/ Crash(s) \/ UeberzugFails(s) \/ UeberzugObeys(s)
  BY <1>6 DEF Signal, Crash, UeberzugFails, UeberzugObeys, UeberzugEnds,
    clientVars
<1> QED BY <1>1, <1>2, <1>3, <1>4, <1>5, <1>6 DEF ServerSide, Serve

\* A script that has been started is not started again, and runs on.
LEMMA StartedOnce ==
  ASSUME TypeOK, ServerNext
  PROVE  /\ kind' = kind
         /\ \A c \in Clients : cpc[c] # "idle" => cpc'[c] # "idle"
         /\ \A c \in Clients : cpc[c] \in {"idle", "done"} => cpc'[c] = cpc[c]
<1>1. CASE \E s \in Servers : ServerSide(s)
  BY <1>1, ServerSideOnlooks DEF Onlooking
<1>2. ASSUME NEW c \in Clients, RunScript(c)
      PROVE  /\ kind' = kind
             /\ cpc[c] \notin {"idle", "done"}
             /\ \E l \in ClientPC \ {"idle"} : cpc' = [cpc EXCEPT ![c] = l]
  <2> USE DEF Move, ClientPC
  <2>1. CASE Detect(c) \/ Probe(c)
    BY <2>1 DEF Detect, Probe
  <2>2. CASE OpenWriteFifo(c) \/ OpenWriteFile(c)
    BY <2>2 DEF OpenWriteFifo, OpenWriteFile
  <2>3. CASE Write(c) \/ WriteFails(c) \/ CloseWrite(c)
    BY <2>3 DEF Write, WriteFails, CloseWrite
  <2> QED BY <1>2, <2>1, <2>2, <2>3 DEF RunScript
<1>3. CASE \E c \in Clients : RunScript(c)
  BY <1>2, <1>3 DEF TypeOK
<1> QED BY <1>1, <1>3 DEF ServerNext, ServerSide

\* A ctpv is one script more, or ends with an error.
LEMMA Started ==
  ASSUME TypeOK, NEW c \in Clients, NEW k \in AllKinds, Ctpv(c, k)
  PROVE  /\ cpc[c] = "idle"
         /\ kind' = [kind EXCEPT ![c] = k] /\ kind'[c] = k
         /\ \E l \in {"detect", "done"} :
              /\ cpc' = [cpc EXCEPT ![c] = l] /\ cpc'[c] = l
              /\ l = "detect" \/ broken'
         /\ \A e \in Clients \ {c} : kind'[e] = kind[e] /\ cpc'[e] = cpc[e]
         /\ broken \in BOOLEAN => broken' \in BOOLEAN
         /\ UNCHANGED <<spc, ueb, cfifo, accepted>>
<1>1. kind \in [Clients -> AllKinds \cup {"none"}] /\ cpc \in [Clients -> ClientPC]
  BY DEF TypeOK
<1>2. CASE LaunchAs(c, k) /\ UNCHANGED broken
  BY <1>1, <1>2 DEF LaunchAs, Move, serverVars
<1>3. CASE ConfigErrorAs(c, k) /\ broken' = TRUE
  BY <1>1, <1>3 DEF ConfigErrorAs, Move, serverVars
<1> QED BY <1>2, <1>3 DEF Ctpv

\* What is promised of servers and scripts holds whatever lf, ctpvclear and
\* ctpvquit do with them.
THEOREM SessionRelays ==
  SessionSpec => /\ [](OwnFifo /\ InOrder /\ CleanEnd /\ NoLostWakeup)
                 /\ PathKept /\ ImplementsRelay
BY SessionServes, OwnFifoAlways, InOrderAlways, CleanEndAlways,
   NoLostWakeupAlways, PathKeptAlways, Implementation, PTL

-----------------------------------------------------------------------------
\* lf waits only for a previewer it has started, the cleaner is called only
\* for a file, and `ctpv -e' is not run while lf lives: what every
\* proof about a session begins with.
THEOREM SessionTypeCorrect == SessionSpec => []SessionTypeOK
<1>1. SessionInit => SessionTypeOK
  BY SessionAssumption DEF SessionInit, SessionTypeOK
<1>2. TypeOK /\ SessionTypeOK /\ [SessionNext]_sessionVars => SessionTypeOK'
  <2> SUFFICES ASSUME TypeOK, SessionTypeOK, [SessionNext]_sessionVars
               PROVE  SessionTypeOK'
    OBVIOUS
  <2>1. CASE ServerNext /\ UNCHANGED <<lfVars, quit, broken>>
    BY <2>1, StartedOnce DEF SessionTypeOK, lfVars
  <2>2. ASSUME NEW c \in Clients, SelectImage(c) PROVE SessionTypeOK'
    <3>1. Ctpv(c, "add") /\ "add" \in AllKinds
      BY <2>2 DEF SelectImage, AllKinds
    <3>2. kind'[c] = "add" /\ cpc'[c] # "idle" /\ broken' \in BOOLEAN
      BY <3>1, Started DEF SessionTypeOK
    <3> QED
      BY <2>2, <3>2, SessionAssumption DEF SelectImage, SessionTypeOK
  <2>3. ASSUME NEW c \in Clients, Clean(c) PROVE SessionTypeOK'
    <3>1. Ctpv(c, "remove") /\ "remove" \in AllKinds
      BY <2>3 DEF Clean, AllKinds
    <3>2. broken' \in BOOLEAN
      BY <3>1, Started DEF SessionTypeOK
    <3> QED
      BY <2>3, <3>2 DEF Clean, SessionTypeOK
  <2>4. ASSUME NEW c \in Clients, QuitEnds(c) PROVE SessionTypeOK'
    <3>1. Ctpv(c, "exit") /\ "exit" \in AllKinds
      BY <2>4 DEF QuitEnds, AllKinds
    <3>2. broken' \in BOOLEAN
      BY <3>1, Started DEF SessionTypeOK
    <3>3. cur # NoFile => kind'[cur] = kind[cur] /\ cpc'[cur] = cpc[cur]
      BY <3>1, Started DEF SessionTypeOK
    <3> QED
      BY <2>4, <3>2, <3>3 DEF QuitEnds, LfHasGone, SessionTypeOK, lfVars
  <2>5. CASE PreviewEnds
    BY <2>5 DEF PreviewEnds, SessionTypeOK, vars
  <2>6. CASE SelectText
    BY <2>6, SessionAssumption DEF SelectText, SessionTypeOK, vars
  <2>7. CASE LfEnds \/ PidTaken \/ OtherEnds \/ QuitFails
    BY <2>7
    DEF LfEnds, PidTaken, OtherEnds, QuitFails, SessionTypeOK, vars, lfVars
  <2>8. CASE UNCHANGED sessionVars
    BY <2>8 DEF sessionVars, lfVars, vars, SessionTypeOK
  <2> QED
    BY <2>1, <2>2, <2>3, <2>4, <2>5, <2>6, <2>7, <2>8 DEF SessionNext
<1>3. SessionSpec => []TypeOK
  BY SessionServes, TypeCorrect, PTL
<1> QED BY <1>1, <1>2, <1>3, PTL DEF SessionSpec
-----------------------------------------------------------------------------
(***************************************************************************)
(* No image stays.  Four invariants lead to it.                            *)
(***************************************************************************)

\* A step of a script: to where it goes, and what it sends.
LEMMA ScriptSteps ==
  ASSUME TypeOK, NEW c \in Clients, RunScript(c)
  PROVE  /\ UNCHANGED <<spc, ueb, kind>>
         /\ cpc[c] \notin {"idle", "done"}
         /\ cpc' \in [Clients -> ClientPC] /\ cpc'[c] # "idle"
         /\ \A e \in Clients \ {c} : cpc'[e] = cpc[e] /\ cfifo'[e] = cfifo[e]
         /\ \/ accepted' = accepted
            \/ /\ cpc[c] = "write" /\ cpc'[c] = "close"
               /\ accepted' =
                    [accepted EXCEPT ![cfifo[c]] = Append(accepted[cfifo[c]], c)]
<1>1. cpc \in [Clients -> ClientPC] /\ cfifo \in [Clients -> Servers \cup {NoPath}]
  BY DEF TypeOK
<1> USE <1>1 DEF Move, ClientPC, serverVars
<1>2. CASE Detect(c)
  BY <1>2 DEF Detect
<1>3. CASE Probe(c)
  BY <1>3 DEF Probe
<1>4. CASE OpenWriteFifo(c)
  BY <1>4 DEF OpenWriteFifo
<1>5. CASE OpenWriteFile(c)
  BY <1>5 DEF OpenWriteFile
<1>6. CASE Write(c)
  BY <1>6 DEF Write
<1>7. CASE WriteFails(c)
  BY <1>7 DEF WriteFails
<1>8. CASE CloseWrite(c)
  BY <1>8 DEF CloseWrite
<1> QED BY <1>2, <1>3, <1>4, <1>5, <1>6, <1>7, <1>8 DEF RunScript

\* What one more message changes.
LEMMA OneMore ==
  ASSUME NEW q \in Seq(Clients), NEW c \in Clients
  PROVE  /\ DOMAIN Append(q, c) = DOMAIN q \cup {Len(q) + 1}
         /\ Append(q, c)[Len(q) + 1] = c
         /\ \A i \in DOMAIN q : Append(q, c)[i] = q[i] /\ i < Len(q) + 1
         /\ \A i \in DOMAIN q : i \in Nat /\ q[i] \in Clients
<1>1. Len(q) \in Nat /\ DOMAIN q = 1 .. Len(q)
  BY LenProperties
<1>2. /\ Len(Append(q, c)) = Len(q) + 1
      /\ DOMAIN Append(q, c) = 1 .. Len(q) + 1
      /\ \A i \in 1 .. Len(q) : Append(q, c)[i] = q[i]
      /\ Append(q, c)[Len(q) + 1] = c
  BY <1>1, AppendProperties, LenProperties
<1>3. \A i \in 1 .. Len(q) : q[i] \in Clients
  BY <1>1, ElementOfSeq
<1> QED BY <1>1, <1>2, <1>3

\* The same for the messages written to a FIFO: the new one is behind all ...
LEMMA AcceptsLast ==
  ASSUME TypeOK, NEW t \in Servers, NEW c \in Clients,
         accepted' = [accepted EXCEPT ![t] = Append(accepted[t], c)],
         NEW i \in DOMAIN accepted[t]
  PROVE  \E j \in DOMAIN accepted'[t] : j > i /\ accepted'[t][j] = c
<1>1. accepted[t] \in Seq(Clients) /\ accepted'[t] = Append(accepted[t], c)
  BY DEF TypeOK
<1>2. Len(accepted[t]) \in Nat
  BY <1>1, LenProperties
<1>3. /\ Len(accepted[t]) + 1 \in DOMAIN accepted'[t]
      /\ accepted'[t][Len(accepted[t]) + 1] = c
      /\ i \in Nat /\ i < Len(accepted[t]) + 1
  BY <1>1, OneMore
<1> QED BY <1>2, <1>3

\* ... and these stay.
LEMMA Accepts ==
  ASSUME TypeOK, NEW t \in Servers, NEW c \in Clients,
         accepted' = [accepted EXCEPT ![t] = Append(accepted[t], c)]
  PROVE  \A s \in Servers :
           /\ DOMAIN accepted[s] \subseteq DOMAIN accepted'[s]
           /\ \A i \in DOMAIN accepted[s] : accepted'[s][i] = accepted[s][i]
           /\ \A i \in DOMAIN accepted'[s] :
                \/ i \in DOMAIN accepted[s]
                \/ s = t /\ accepted'[s][i] = c
<1>1. accepted \in [Servers -> Seq(Clients)]
  BY DEF TypeOK
<1>2. TAKE s \in Servers
<1>3. CASE s = t
  <2>1. accepted'[s] = Append(accepted[s], c)
    BY <1>1, <1>3
  <2>2. Len(accepted[s]) \in Nat
    BY <1>1, LenProperties
  <2> QED BY <1>1, <1>3, <2>1, <2>2, OneMore
<1>4. CASE s # t
  BY <1>1, <1>4
<1> QED BY <1>3, <1>4

\* The steps of a session, seen from the scripts.
LEMMA SessionSteps ==
  ASSUME [SessionNext]_sessionVars
  PROVE  \/ \E s \in Servers : ServerSide(s) /\ UNCHANGED <<lfVars, quit, broken>>
         \/ \E c \in Clients : RunScript(c) /\ UNCHANGED <<lfVars, quit, broken>>
         \/ \E c \in Clients : SelectImage(c)
         \/ \E c \in Clients : Clean(c)
         \/ \E c \in Clients : QuitEnds(c)
         \/ PreviewEnds
         \/ SelectText
         \/ UNCHANGED <<vars, cur, volatile, broken>> /\ lf' # "files"
         \/ UNCHANGED <<vars, cur, volatile, broken, lf>>
<1>1. CASE ServerNext /\ UNCHANGED <<lfVars, quit, broken>>
  BY <1>1 DEF ServerNext, ServerSide
<1>2. CASE LfEnds \/ PidTaken \/ OtherEnds \/ QuitFails
  BY <1>2 DEF LfEnds, PidTaken, OtherEnds, QuitFails, lfVars
<1>3. CASE UNCHANGED sessionVars
  BY <1>3 DEF sessionVars, lfVars
<1> QED BY <1>1, <1>2, <1>3 DEF SessionNext

\* What a script has sent it has sent for good.
THEOREM SentInvariant == SessionSpec => []SentInv
<1>1. SessionInit => SentInv
  BY EmptySeq DEF SessionInit, Init, SentInv
<1>2. TypeOK /\ SentInv /\ [SessionNext]_sessionVars => SentInv'
  <2> SUFFICES ASSUME TypeOK, SentInv, [SessionNext]_sessionVars
               PROVE  SentInv'
    OBVIOUS
  <2>1. ASSUME NEW s \in Servers, NEW i \in DOMAIN accepted[s]
        PROVE  accepted[s][i] \in Clients
    BY <2>1, OneMore DEF TypeOK
  <2>2. CASE \E s \in Servers : ServerSide(s)
    BY <2>1, <2>2, ServerSideOnlooks DEF Onlooking, SentInv
  <2>3. ASSUME NEW c \in Clients, RunScript(c) PROVE SentInv'
    <3>1. /\ cpc' \in [Clients -> ClientPC] /\ cpc[c] \notin {"idle", "done"}
          /\ \A e \in Clients \ {c} : cpc'[e] = cpc[e]
      BY <2>3, ScriptSteps
    <3>2. cpc[c] = "close" => cpc'[c] = "done" /\ accepted' = accepted
      BY <2>3 DEF RunScript, Detect, Probe, OpenWriteFifo, OpenWriteFile,
        Write, WriteFails, CloseWrite, Move, TypeOK
    <3>3. CASE accepted' = accepted
      BY <2>1, <3>1, <3>2, <3>3 DEF SentInv
    <3>4. CASE /\ cpc[c] = "write" /\ cpc'[c] = "close"
               /\ accepted' =
                    [accepted EXCEPT ![cfifo[c]] = Append(accepted[cfifo[c]], c)]
      <4>1. cfifo[c] \in Servers
        BY <3>4 DEF TypeOK
      <4>2. \A s \in Servers : \A i \in DOMAIN accepted'[s] :
              \/ /\ i \in DOMAIN accepted[s]
                 /\ accepted'[s][i] = accepted[s][i]
              \/ accepted'[s][i] = c
        BY <3>4, <4>1, Accepts
      <4> QED BY <2>1, <3>1, <3>4, <4>2 DEF SentInv
    <3> QED BY <2>3, <3>3, <3>4, ScriptSteps
  <2>4. ASSUME NEW c \in Clients, NEW k \in AllKinds, Ctpv(c, k) PROVE SentInv'
    BY <2>1, <2>4, Started DEF SentInv
  <2>5. CASE UNCHANGED vars
    BY <2>5 DEF vars, SentInv
  <2> QED
    BY <2>2, <2>3, <2>4, <2>5, SessionSteps
    DEF SelectImage, Clean, QuitEnds, PreviewEnds, SelectText, AllKinds
<1>3. SessionSpec => []TypeOK
  BY SessionServes, TypeCorrect, PTL
<1> QED BY <1>1, <1>2, <1>3, PTL DEF SessionSpec

\* Without ueberzug no image is sent.
THEOREM UsableInvariant == SessionSpec => []UsableInv
<1>1. SessionInit => UsableInv
  BY EmptySeq DEF SessionInit, Init, UsableInv
<1>2. TypeOK /\ SentInv /\ UsableInv /\ [SessionNext]_sessionVars => UsableInv'
  <2> SUFFICES ASSUME TypeOK, SentInv, UsableInv, ~UeberzugUsable,
                      [SessionNext]_sessionVars
               PROVE  UsableInv'
    BY DEF UsableInv
  <2>1. ASSUME NEW s \in Servers, NEW i \in DOMAIN accepted[s]
        PROVE  accepted[s][i] \in Clients
    BY <2>1, OneMore DEF TypeOK
  <2>2. CASE \E s \in Servers : ServerSide(s)
    BY <2>2, ServerSideOnlooks DEF Onlooking, UsableInv
  <2>3. ASSUME NEW c \in Clients, RunScript(c) PROVE UsableInv'
    <3>1. /\ kind' = kind
          /\ cpc' \in [Clients -> ClientPC] /\ cpc[c] \notin {"idle", "done"}
          /\ \A e \in Clients \ {c} : cpc'[e] = cpc[e]
      BY <2>3, ScriptSteps
    <3>2. kind[c] \in {"add", "remove"} => cpc[c] = "detect" /\ cpc'[c] = "done"
      <4>1. kind[c] \in {"add", "remove"} => cpc[c] = "detect"
        BY <3>1 DEF UsableInv
      <4>2. cpc[c] = "detect" => Detect(c)
        BY <2>3 DEF RunScript, Probe, OpenWriteFifo, OpenWriteFile, Write,
          WriteFails, CloseWrite, Move
      <4> QED BY <4>1, <4>2 DEF Detect, MethodIsUeberzug, Move, TypeOK
    <3>3. \A e \in Clients :
            kind'[e] \in {"add", "remove"} => cpc'[e] \in {"idle", "detect", "done"}
      BY <3>1, <3>2 DEF UsableInv
    <3>4. \A s \in Servers : \A i \in DOMAIN accepted'[s] :
            \/ /\ i \in DOMAIN accepted[s]
               /\ accepted'[s][i] = accepted[s][i]
            \/ accepted'[s][i] = c /\ cpc[c] = "write"
      <4>1. CASE accepted' = accepted
        BY <4>1
      <4>2. CASE /\ cpc[c] = "write"
                 /\ accepted' =
                      [accepted EXCEPT ![cfifo[c]] = Append(accepted[cfifo[c]], c)]
        <5>1. cfifo[c] \in Servers
          BY <4>2 DEF TypeOK
        <5> QED BY <4>2, <5>1, Accepts
      <4> QED BY <2>3, <4>1, <4>2, ScriptSteps
    <3>5. \A s \in Servers : \A i \in DOMAIN accepted'[s] :
            kind'[accepted'[s][i]] \notin {"add", "remove"}
      BY <3>1, <3>2, <3>4 DEF UsableInv
    <3> QED BY <3>3, <3>5 DEF UsableInv
  <2>4. ASSUME NEW c \in Clients, NEW k \in AllKinds, Ctpv(c, k) PROVE UsableInv'
    <3>1. \A e \in Clients :
            kind'[e] \in {"add", "remove"} => cpc'[e] \in {"idle", "detect", "done"}
      BY <2>4, Started DEF UsableInv
    <3>2. \A s \in Servers : \A i \in DOMAIN accepted[s] : accepted[s][i] # c
      BY <2>4, Started DEF SentInv
    <3>3. \A s \in Servers : \A i \in DOMAIN accepted'[s] :
            kind'[accepted'[s][i]] \notin {"add", "remove"}
      BY <2>1, <2>4, <3>2, Started DEF UsableInv
    <3> QED BY <3>1, <3>3 DEF UsableInv
  <2>5. CASE UNCHANGED vars
    BY <2>5 DEF vars, UsableInv
  <2> QED
    BY <2>2, <2>3, <2>4, <2>5, SessionSteps
    DEF SelectImage, Clean, QuitEnds, PreviewEnds, SelectText, AllKinds
<1>3. SessionSpec => []TypeOK
  BY SessionServes, TypeCorrect, PTL
<1> QED BY <1>1, <1>2, <1>3, SentInvariant, PTL DEF SessionSpec

\* lf has been told of every image, and one previewer runs at a time.
THEOREM CursorInvariant == SessionSpec => []CursorInv
<1>1. SessionInit => CursorInv
  BY DEF SessionInit, Init, CursorInv
<1>2. TypeOK /\ SessionTypeOK /\ CursorInv /\ [SessionNext]_sessionVars
        => CursorInv'
  <2> SUFFICES ASSUME TypeOK, SessionTypeOK, CursorInv,
                      [SessionNext]_sessionVars
               PROVE  CursorInv'
    OBVIOUS
  <2> DEFINE Quiet == \A e \in Clients : kind[e] = "add" => cpc[e] \in {"idle", "done"}
  <2>1. lf = "files" => Quiet
    BY SessionAssumption DEF CursorInv
  <2>2. CASE \E s \in Servers : ServerSide(s) /\ UNCHANGED <<lfVars, quit, broken>>
    BY <2>2, ServerSideOnlooks
    DEF Onlooking, CursorInv, SessionTypeOK, lfVars
  <2>3. ASSUME NEW c \in Clients, RunScript(c),
               UNCHANGED <<lfVars, quit, broken>>
        PROVE  CursorInv'
    <3>1. /\ kind' = kind /\ cpc[c] \notin {"idle", "done"}
          /\ \A e \in Clients \ {c} : cpc'[e] = cpc[e]
      BY <2>3, ScriptSteps
    <3>2. \A s \in Servers :
            \A e \in Clients \ {c} : e \in Range(accepted'[s])
                                      => e \in Range(accepted[s])
      <4>1. CASE accepted' = accepted
        BY <4>1
      <4>2. CASE /\ cpc[c] = "write"
                 /\ accepted' =
                      [accepted EXCEPT ![cfifo[c]] = Append(accepted[cfifo[c]], c)]
        <5>1. cfifo[c] \in Servers
          BY <4>2 DEF TypeOK
        <5> QED BY <4>2, <5>1, Accepts DEF Range
      <4> QED BY <2>3, <4>1, <4>2, ScriptSteps
    <3> QED BY <2>3, <3>1, <3>2 DEF CursorInv, SessionTypeOK, lfVars
  <2>4. ASSUME NEW c \in Clients, SelectImage(c) PROVE CursorInv'
    <3>1. Ctpv(c, "add") /\ "add" \in AllKinds /\ lf = "files"
          /\ lf' = "preview" /\ cur' = c
      BY <2>4 DEF SelectImage, AllKinds
    <3>2. \A e \in Clients \ {c} : kind'[e] = kind[e] /\ cpc'[e] = cpc[e]
      BY <3>1, Started
    <3> QED BY <2>1, <3>1, <3>2 DEF CursorInv
  <2>5. ASSUME NEW c \in Clients, Clean(c) PROVE CursorInv'
    <3>1. Ctpv(c, "remove") /\ "remove" \in AllKinds /\ lf = "files"
          /\ cur' = NoFile
      BY <2>5 DEF Clean, AllKinds
    <3>2. /\ kind'[c] = "remove"
          /\ \A e \in Clients \ {c} : kind'[e] = kind[e] /\ cpc'[e] = cpc[e]
      BY <3>1, Started
    <3> QED BY <2>1, <3>1, <3>2 DEF CursorInv
  <2>6. ASSUME NEW c \in Clients, QuitEnds(c) PROVE CursorInv'
    <3>1. Ctpv(c, "exit") /\ "exit" \in AllKinds /\ lf = "gone"
          /\ lf' = lf /\ cur' = cur
      BY <2>6 DEF QuitEnds, LfHasGone, AllKinds, lfVars
    <3>2. /\ kind'[c] = "exit"
          /\ \A e \in Clients \ {c} : kind'[e] = kind[e] /\ cpc'[e] = cpc[e]
      BY <3>1, Started
    <3> QED BY <3>1, <3>2 DEF CursorInv
  <2>7. CASE PreviewEnds
    <3>1. cpc[cur] = "done"
      BY <2>7 DEF PreviewEnds, ScriptHasEnded
    <3>2. volatile' \/ \A s \in Servers : cur \notin Range(accepted[s])
      BY <2>7 DEF PreviewEnds
    <3> QED BY <2>7, <3>1, <3>2 DEF PreviewEnds, CursorInv, vars
  <2>8. CASE SelectText
    BY <2>1, <2>8 DEF SelectText, CursorInv, vars
  <2>9. CASE UNCHANGED <<vars, cur, volatile, broken>> /\ lf' # "files"
    BY <2>9 DEF CursorInv, vars
  <2>10. CASE UNCHANGED <<vars, cur, volatile, broken, lf>>
    BY <2>10 DEF CursorInv, vars
  <2> QED
    BY <2>2, <2>3, <2>4, <2>5, <2>6, <2>7, <2>8, <2>9, <2>10, SessionSteps
<1>3. SessionSpec => []TypeOK
  BY SessionServes, TypeCorrect, PTL
<1> QED BY <1>1, <1>2, <1>3, SessionTypeCorrect, PTL DEF SessionSpec

\* A server begins to take messages when none was written yet.
LEMMA GoesLive ==
  ASSUME TypeOK, StreamInv, NEW s \in Servers, ServerSide(s),
         NEW t \in Servers, Live(t)'
  PROVE  Live(t) \/ accepted[t] = <<>>
<1> USE DEF Live, Loop, Goto, TypeOK
<1>1. CASE OpenFifo(s)
  BY <1>1 DEF OpenFifo, StreamInv, Stream
<1>2. CASE CheckUeberzug(s) \/ Mkfifo(s) \/ OpenFifoFails(s)
             \/ RegisterSignals(s) \/ SpawnUeberzug(s) \/ SpawnFails(s)
  BY <1>2 DEF CheckUeberzug, Mkfifo, OpenFifoFails, RegisterSignals,
    SpawnUeberzug, SpawnFails
<1>3. CASE PollReturns(s) \/ ReadsNothing(s)
  BY <1>3 DEF PollReturns, ReadsNothing, AfterReading
<1>7. CASE ReadsExit(s) \/ Forwards(s) \/ ForwardKills(s)
  BY <1>7 DEF ReadsExit, Forwards, ForwardKills, serverVars
<1>8. CASE CloseHungUp(s) \/ Reopen(s) \/ ReopenFails(s)
  BY <1>8 DEF CloseHungUp, Reopen, ReopenFails
<1>4. CASE Kill(s) \/ WaitUeberzug(s) \/ UnregisterSignals(s) \/ CloseFd(s)
             \/ RemoveFifo(s)
  BY <1>4 DEF Kill, WaitUeberzug, UnregisterSignals, CloseFd, RemoveFifo
<1>5. CASE Signal(s) \/ Crash(s)
  BY <1>5 DEF Signal, Crash
<1>6. CASE UeberzugFails(s) \/ UeberzugObeys(s)
  BY <1>6 DEF UeberzugFails, UeberzugObeys, UeberzugEnds, serverVars
<1> QED
  BY <1>1, <1>2, <1>3, <1>4, <1>5, <1>6, <1>7, <1>8 DEF ServerSide, Serve

\* A server that takes messages has its FIFO at the path, open for reading.
LEMMA LiveReads ==
  ASSUME OwnFifo, StreamInv, NEW s \in Servers, Live(s)
  PROVE  path = s /\ HasReader(s)
BY DEF OwnFifo, StreamInv, Stream, Live, Owning, Loop, HasReader, Inherits

\* clear.sh comes nearer to its write, or has written behind message i.
LEMMA ClearingGoesOn ==
  ASSUME TypeOK, OwnFifo, StreamInv, UeberzugUsable, NEW c \in Clients,
         RunScript(c), kind[c] = "remove", NEW s \in Servers, Live(s),
         NEW i \in DOMAIN accepted[s],
         \/ cpc[c] \in {"detect", "probe", "openw"}
         \/ cpc[c] = "write" /\ cfifo[c] = s
  PROVE  \/ cpc'[c] \in {"detect", "probe", "openw"}
         \/ cpc'[c] = "write" /\ cfifo'[c] = s
         \/ \E j \in DOMAIN accepted'[s] : j > i /\ accepted'[s][j] = c
<1>1. path = s /\ HasReader(s)
  BY LiveReads
<1>2. CASE Detect(c)
  BY <1>1, <1>2, ServerAssumption DEF Detect, MethodIsUeberzug, Move, TypeOK
<1>3. CASE Probe(c)
  BY <1>1, <1>3 DEF Probe, ProbeSucceeds, Move, TypeOK
<1>4. CASE OpenWriteFifo(c)
  <2>1. cpc' = [cpc EXCEPT ![c] = "write"] /\ cfifo' = [cfifo EXCEPT ![c] = s]
    BY <1>1, <1>4 DEF OpenWriteFifo, Move
  <2> QED BY <2>1 DEF TypeOK
<1>5. CASE OpenWriteFile(c)
  BY <1>1, <1>5 DEF OpenWriteFile
<1>6. CASE Write(c)
  <2>1. cfifo[c] = s
    BY <1>6 DEF Write, Move
  <2>2. accepted' = [accepted EXCEPT ![s] = Append(accepted[s], c)]
    BY <1>6, <2>1 DEF Write
  <2>3. \E j \in DOMAIN accepted'[s] : j > i /\ accepted'[s][j] = c
    BY <2>2, AcceptsLast
  <2> QED BY <2>3
<1>7. CASE WriteFails(c)
  BY <1>1, <1>7 DEF WriteFails
<1>8. CASE CloseWrite(c)
  BY <1>8 DEF CloseWrite, Move
<1> QED BY <1>2, <1>3, <1>4, <1>5, <1>6, <1>7, <1>8 DEF RunScript

\* A ctpv that is started leaves what was sent before as it is.
LEMMA StartKeeps ==
  ASSUME TypeOK, SentInv, NEW c \in Clients, NEW k \in AllKinds, Ctpv(c, k),
         NEW s \in Servers, NEW i \in DOMAIN accepted[s]
  PROVE  /\ accepted' = accepted
         /\ kind'[accepted[s][i]] = kind[accepted[s][i]]
         /\ Live(s)' <=> Live(s)
         /\ Cleared(s, i) => Cleared(s, i)'
         /\ ~broken' => ~broken
<1>1. /\ accepted' = accepted /\ spc' = spc /\ ueb' = ueb /\ cfifo' = cfifo
      /\ cpc[c] = "idle" /\ kind'[c] = k
      /\ \A e \in Clients \ {c} : kind'[e] = kind[e] /\ cpc'[e] = cpc[e]
  BY Started
<1>2. \A j \in DOMAIN accepted[s] : accepted[s][j] \in Clients \ {c}
  <2>1. accepted[s] \in Seq(Clients)
    BY DEF TypeOK
  <2>2. \A j \in DOMAIN accepted[s] : accepted[s][j] \in Clients
    BY <2>1, OneMore
  <2> QED BY <1>1, <2>2 DEF SentInv
<1>3. ASSUME Cleared(s, i) PROVE Cleared(s, i)'
  <2>1. PICK d \in Clients :
          /\ kind[d] = "remove"
          /\ \/ cpc[d] \in {"detect", "probe", "openw"}
             \/ cpc[d] = "write" /\ cfifo[d] = s
             \/ \E j \in DOMAIN accepted[s] : j > i /\ accepted[s][j] = d
    BY <1>3 DEF Cleared
  <2>2. d # c
    BY <1>1, <1>2, <2>1
  <2> QED BY <1>1, <2>1, <2>2 DEF Cleared
<1>4. ~broken' => ~broken
  BY DEF Ctpv
<1> QED BY <1>1, <1>2, <1>3, <1>4 DEF Live

\* An image that is on the screen is that of the file at the cursor, or
\* clear.sh is under way or has written behind it, as long as no configuration
\* had an error.
THEOREM GhostInvariant == SessionSpec => []GhostInv
<1> DEFINE Known == TypeOK /\ OwnFifo /\ StreamInv /\ SessionTypeOK /\ SentInv
                    /\ UsableInv /\ CursorInv
<1>1. SessionInit => GhostInv
  BY EmptySeq DEF SessionInit, Init, GhostInv
<1>2. Known /\ GhostInv /\ [SessionNext]_sessionVars => GhostInv'
  <2> SUFFICES ASSUME TypeOK, OwnFifo, StreamInv, SessionTypeOK, SentInv,
                      UsableInv, CursorInv, GhostInv,
                      [SessionNext]_sessionVars, ~broken',
                      NEW s \in Servers, Live(s)',
                      NEW i \in DOMAIN accepted'[s],
                      kind'[accepted'[s][i]] = "add"
               PROVE  accepted'[s][i] = cur' \/ Cleared(s, i)'
    BY DEF GhostInv
  <2> DEFINE x == accepted[s][i]
  <2>1. ASSUME ~broken, Live(s), i \in DOMAIN accepted[s], kind[x] = "add"
        PROVE  x = cur \/ Cleared(s, i)
    BY <2>1 DEF GhostInv
  <2>2. ASSUME NEW t \in Servers, ServerSide(t),
               UNCHANGED <<lfVars, quit, broken>>
        PROVE  accepted'[s][i] = cur' \/ Cleared(s, i)'
    <3>1. Onlooking(t)
      BY <2>2, ServerSideOnlooks
    <3>2. accepted[s] # <<>>
      BY <3>1 DEF Onlooking
    <3>3. Live(s)
      BY <2>2, <3>2, GoesLive
    <3>4. Cleared(s, i) => Cleared(s, i)'
      BY <3>1 DEF Onlooking, Cleared
    <3> QED BY <2>1, <2>2, <3>1, <3>3, <3>4 DEF Onlooking, lfVars
  <2>3. ASSUME NEW c \in Clients, RunScript(c),
               UNCHANGED <<lfVars, quit, broken>>
        PROVE  accepted'[s][i] = cur' \/ Cleared(s, i)'
    <3>1. /\ UNCHANGED <<spc, ueb, kind>> /\ cpc[c] \notin {"idle", "done"}
          /\ \A e \in Clients \ {c} : cpc'[e] = cpc[e] /\ cfifo'[e] = cfifo[e]
      BY <2>3, ScriptSteps
    <3>2. Live(s)
      BY <3>1 DEF Live
    <3>3. /\ \A j \in DOMAIN accepted[s] :
               j \in DOMAIN accepted'[s] /\ accepted'[s][j] = accepted[s][j]
          /\ i \in DOMAIN accepted[s] \/ accepted'[s][i] = c
      <4>1. CASE accepted' = accepted
        BY <4>1
      <4>2. CASE /\ cpc[c] = "write"
                 /\ accepted' =
                      [accepted EXCEPT ![cfifo[c]] = Append(accepted[cfifo[c]], c)]
        <5>1. cfifo[c] \in Servers
          BY <4>2 DEF TypeOK
        <5> QED BY <4>2, <5>1, Accepts
      <4> QED BY <2>3, <4>1, <4>2, ScriptSteps
    <3>4. CASE i \notin DOMAIN accepted[s]
      BY <2>3, <3>1, <3>3, <3>4 DEF CursorInv, lfVars
    <3>5. CASE i \in DOMAIN accepted[s]
      <4>1. kind[x] = "add" /\ accepted'[s][i] = x
        BY <3>1, <3>3, <3>5
      <4>2. UeberzugUsable
        BY <3>5, <4>1 DEF UsableInv
      <4>3. ASSUME Cleared(s, i) PROVE Cleared(s, i)'
        <5>1. PICK d \in Clients :
                /\ kind[d] = "remove"
                /\ \/ cpc[d] \in {"detect", "probe", "openw"}
                   \/ cpc[d] = "write" /\ cfifo[d] = s
                   \/ \E j \in DOMAIN accepted[s] : j > i /\ accepted[s][j] = d
          BY <4>3 DEF Cleared
        <5>2. CASE \E j \in DOMAIN accepted[s] : j > i /\ accepted[s][j] = d
          BY <3>1, <3>3, <5>1, <5>2 DEF Cleared
        <5>3. CASE /\ d # c
                   /\ \/ cpc[d] \in {"detect", "probe", "openw"}
                      \/ cpc[d] = "write" /\ cfifo[d] = s
          BY <3>1, <5>1, <5>3 DEF Cleared
        <5>4. CASE /\ d = c
                   /\ \/ cpc[d] \in {"detect", "probe", "openw"}
                      \/ cpc[d] = "write" /\ cfifo[d] = s
          <6>1. \/ cpc'[d] \in {"detect", "probe", "openw"}
                \/ cpc'[d] = "write" /\ cfifo'[d] = s
                \/ \E j \in DOMAIN accepted'[s] : j > i /\ accepted'[s][j] = d
            BY <2>3, <3>2, <3>5, <4>2, <5>1, <5>4, ClearingGoesOn
          <6> QED BY <3>1, <5>1, <6>1 DEF Cleared
        <5> QED BY <5>1, <5>2, <5>3, <5>4
      <4> QED BY <2>1, <2>3, <3>2, <3>5, <4>1, <4>3 DEF lfVars
    <3> QED BY <3>4, <3>5
  <2>4. ASSUME NEW c \in Clients, NEW k \in AllKinds, Ctpv(c, k)
        PROVE  /\ accepted' = accepted /\ kind[x] = "add"
               /\ x = cur \/ Cleared(s, i)'
    <3>1. accepted' = accepted
      BY <2>4, Started
    <3>2. i \in DOMAIN accepted[s]
      BY <3>1
    <3> QED BY <2>1, <2>4, <3>1, <3>2, StartKeeps
  <2>5. ASSUME lf = "files", ~volatile, accepted' = accepted, kind[x] = "add"
        PROVE  x # cur
    <3>1. x \in Clients
      BY <2>5, OneMore DEF TypeOK
    <3>2. x \in Range(accepted[s])
      BY <2>5 DEF Range
    <3> QED BY <2>5, <3>1, <3>2, SessionAssumption DEF CursorInv
  <2>6. ASSUME NEW c \in Clients, SelectImage(c)
        PROVE  Cleared(s, i)'
    BY <2>4, <2>5, <2>6 DEF SelectImage, AllKinds
  <2>7. ASSUME NEW c \in Clients, Clean(c)
        PROVE  Cleared(s, i)'
    <3>1. Ctpv(c, "remove") /\ "remove" \in AllKinds
      BY <2>7 DEF Clean, AllKinds
    <3>2. kind'[c] = "remove" /\ cpc'[c] = "detect"
      BY <3>1, Started
    <3> QED BY <3>2 DEF Cleared
  <2>8. ASSUME NEW c \in Clients, QuitEnds(c)
        PROVE  accepted'[s][i] = cur' \/ Cleared(s, i)'
    BY <2>4, <2>8 DEF QuitEnds, AllKinds, lfVars
  <2>9. CASE SelectText
    <3>1. UNCHANGED vars /\ UNCHANGED broken /\ lf = "files" /\ ~volatile
      BY <2>9 DEF SelectText
    <3>2. UNCHANGED <<accepted, kind, cpc, cfifo, spc, ueb>>
      BY <3>1 DEF vars
    <3>3. Cleared(s, i)' <=> Cleared(s, i)
      BY <3>2 DEF Cleared
    <3> QED BY <2>1, <2>5, <3>1, <3>2, <3>3 DEF Live
  <2>10. CASE UNCHANGED <<vars, cur, broken>>
    <3>1. UNCHANGED <<accepted, kind, cpc, cfifo, spc, ueb>>
      BY <2>10 DEF vars
    <3>2. Cleared(s, i)' <=> Cleared(s, i)
      BY <3>1 DEF Cleared
    <3> QED BY <2>1, <2>10, <3>1, <3>2 DEF Live
  <2> QED
    BY <2>2, <2>3, <2>6, <2>7, <2>8, <2>9, <2>10, SessionSteps
    DEF PreviewEnds
<1>3. SessionSpec => [](TypeOK /\ OwnFifo /\ StreamInv)
  BY SessionServes, TypeCorrect, OwnFifoAlways, StreamInvariant, PTL
<1> QED
  BY <1>1, <1>2, <1>3, SessionTypeCorrect, SentInvariant, UsableInvariant,
     CursorInvariant, PTL
  DEF SessionSpec

\* When everything is at rest and lf is at a file without an image, no image is
\* on the screen, whatever the order in which the programs and the server ran
\* (checked as NoGhost in run session_live).
THEOREM NoGhostAlways == SessionSpec => []NoGhost
<1>1. TypeOK /\ InOrder /\ GhostInv => NoGhost
  <2> SUFFICES ASSUME TypeOK, InOrder, GhostInv, NEW s \in Servers,
                      Settled(s), cur = NoFile, ~broken,
                      NEW c \in OnScreen(s)
               PROVE  FALSE
    BY DEF NoGhost
  <2>1. spc[s] \in Loop /\ ueb[s] = "running" /\ data[s] = <<>>
    BY DEF Settled
  <2>2. accepted[s] = uin[s]
    <3>1. uin[s] \in Seq(Clients)
      BY DEF TypeOK
    <3>2. accepted[s] = uin[s] \o <<>>
      BY <2>1 DEF InOrder
    <3> QED BY <3>1, <3>2, ConcatEmptySeq
  <2>3. PICK i \in DOMAIN accepted[s] :
          /\ accepted[s][i] = c /\ kind[c] = "add" /\ c \in Clients
          /\ \A j \in i + 1 .. Len(accepted[s]) : ~ImageMsg(accepted[s][j])
    BY <2>2 DEF OnScreen
  <2>4. Cleared(s, i)
    BY <2>1, <2>3, SessionAssumption DEF GhostInv, Live
  <2>5. PICK d \in Clients :
          /\ kind[d] = "remove"
          /\ \E j \in DOMAIN accepted[s] : j > i /\ accepted[s][j] = d
    BY <2>4 DEF Cleared, Settled
  <2>6. PICK j \in DOMAIN accepted[s] : j > i /\ accepted[s][j] = d
    BY <2>5
  <2>7. j \in i + 1 .. Len(accepted[s])
    BY <2>6, LenProperties DEF TypeOK
  <2> QED BY <2>3, <2>5, <2>6, <2>7 DEF ImageMsg
<1> QED
  BY <1>1, SessionServes, TypeCorrect, InOrderAlways, GhostInvariant, PTL

-----------------------------------------------------------------------------
\* `ctpv -e' is run by ctpvquit alone, which ends with it.
THEOREM ExitInvariant == SessionSpec => []ExitInv
<1>1. SessionInit => ExitInv
  BY DEF SessionInit, Init, ExitInv
<1>2. TypeOK /\ ExitInv /\ [SessionNext]_sessionVars => ExitInv'
  <2> SUFFICES ASSUME TypeOK, ExitInv, [SessionNext]_sessionVars
               PROVE  ExitInv'
    OBVIOUS
  <2>1. CASE ServerNext /\ UNCHANGED <<lfVars, quit, broken>>
    BY <2>1, StartedOnce DEF ExitInv
  <2>2. ASSUME NEW c \in Clients, SelectImage(c) PROVE ExitInv'
    <3>1. Ctpv(c, "add") /\ "add" \in AllKinds /\ quit' = quit
      BY <2>2 DEF SelectImage, AllKinds
    <3> QED BY <3>1, Started DEF ExitInv
  <2>3. ASSUME NEW c \in Clients, Clean(c) PROVE ExitInv'
    <3>1. Ctpv(c, "remove") /\ "remove" \in AllKinds /\ quit' = quit
      BY <2>3 DEF Clean, AllKinds
    <3> QED BY <3>1, Started DEF ExitInv
  <2>4. CASE (\E c \in Clients : QuitEnds(c)) \/ QuitFails
    BY <2>4 DEF QuitEnds, QuitFails, ExitInv
  <2>5. CASE PreviewEnds \/ SelectText \/ LfEnds \/ PidTaken \/ OtherEnds
    BY <2>5
    DEF PreviewEnds, SelectText, LfEnds, PidTaken, OtherEnds, ExitInv, vars,
        clientVars
  <2>6. CASE UNCHANGED sessionVars
    BY <2>6 DEF sessionVars, vars, ExitInv
  <2> QED BY <2>1, <2>2, <2>3, <2>4, <2>5, <2>6 DEF SessionNext
<1>3. SessionSpec => []TypeOK
  BY SessionServes, TypeCorrect, PTL
<1> QED BY <1>1, <1>2, <1>3, PTL DEF SessionSpec

\* What ends the loop of listen(): a message that begins with a NUL byte, or
\* one of the reasons that ServesOn names.
LEMMA LeavesLoop ==
  ASSUME TypeOK, ReapInv, NEW s \in Servers, NEW t \in Servers,
         ServerSide(t), spc[s] \in Loop
  PROVE  \/ spc'[s] \in Loop \cup {"dead"}
         \/ doExit'[s] \/ ueb[s] # "running"
         \/ spc[s] = "reopen"
         \/ data[s] # <<>> /\ ExitByte(Chunk(data[s]))
<1> USE DEF Goto, TypeOK, Loop
<1>1. CASE s # t
  <2>1. \E l : spc' = [spc EXCEPT ![t] = l] \/ spc' = spc
    BY DEF ServerSide, Serve, CheckUeberzug, Mkfifo, OpenFifo, OpenFifoFails,
      RegisterSignals, SpawnUeberzug, SpawnFails, PollReturns, ReadsNothing,
      ReadsExit, Forwards, ForwardKills, CloseHungUp, Reopen, ReopenFails,
      Kill, WaitUeberzug, UnregisterSignals, CloseFd, RemoveFifo, Signal,
      Crash, UeberzugFails, UeberzugObeys, UeberzugEnds, serverVars
  <2> QED BY <1>1, <2>1
<1>2. CASE s = t
  <2>1. CASE \/ CheckUeberzug(s) \/ Mkfifo(s) \/ OpenFifo(s)
             \/ OpenFifoFails(s) \/ RegisterSignals(s) \/ SpawnUeberzug(s)
             \/ SpawnFails(s) \/ Kill(s) \/ WaitUeberzug(s)
             \/ UnregisterSignals(s) \/ CloseFd(s) \/ RemoveFifo(s)
    BY <2>1 DEF CheckUeberzug, Mkfifo, OpenFifo, OpenFifoFails,
      RegisterSignals, SpawnUeberzug, SpawnFails, Kill, WaitUeberzug,
      UnregisterSignals, CloseFd, RemoveFifo
  <2>2. CASE PollReturns(s)
    BY <2>2 DEF PollReturns
  <2>3. CASE ReadsNothing(s) \/ Forwards(s) \/ CloseHungUp(s) \/ Reopen(s)
    BY <2>3 DEF ReadsNothing, AfterReading, Forwards, CloseHungUp, Reopen,
      serverVars
  <2>4. CASE ReadsExit(s) \/ ReopenFails(s)
    BY <2>4 DEF ReadsExit, ReopenFails
  <2>5. CASE ForwardKills(s) \/ Crash(s)
    BY <2>5 DEF ForwardKills, Crash
  <2>6. CASE Signal(s)
    BY <2>6 DEF Signal
  <2>7. CASE UeberzugFails(s) \/ UeberzugObeys(s)
    BY <2>7 DEF UeberzugFails, UeberzugObeys, UeberzugEnds, serverVars
  <2> QED
    BY <1>2, <2>1, <2>2, <2>3, <2>4, <2>5, <2>6, <2>7 DEF ServerSide, Serve
<1> QED BY <1>1, <1>2

\* A session does not lose its server while lf lives (checked as ServesOn in
\* run session_live): the byte that ends it comes from ctpvquit only, which
\* writes it when lf has gone (ExitInv).
THEOREM ServesOnAlways == SessionSpec => ServesOn
<1> DEFINE Serves ==
      \A s \in Servers :
        LfAlive /\ spc[s] \in Loop
          => \/ spc'[s] \in Loop \cup {"dead"}
             \/ doExit'[s] \/ ueb[s] # "running"
             \/ spc[s] = "reopen"
<1>1. /\ TypeOK /\ ReapInv /\ SessionTypeOK /\ ExitInv
      /\ [SessionNext]_sessionVars
      => [Serves]_sessionVars
  <2> SUFFICES ASSUME TypeOK, ReapInv, SessionTypeOK, ExitInv,
                      [SessionNext]_sessionVars,
                      NEW s \in Servers, LfAlive, spc[s] \in Loop
               PROVE  \/ spc'[s] \in Loop \cup {"dead"}
                      \/ doExit'[s] \/ ueb[s] # "running"
                      \/ spc[s] = "reopen"
    OBVIOUS
  <2>1. ASSUME data[s] # <<>>, ExitByte(Chunk(data[s])) PROVE FALSE
    <3>1. data[s] \in Seq(Clients)
      BY DEF TypeOK
    <3>2. Chunk(data[s]) \in Seq(Clients) /\ Len(Chunk(data[s])) > 0
          /\ Len(Chunk(data[s])) \in Nat
      BY <2>1, <3>1, ReadSplits
    <3>3. Head(Chunk(data[s])) \in Clients
      BY <3>2, HeadTailProperties, EmptySeq, LenProperties
    <3>4. quit = "watching"
      BY DEF LfAlive, SessionTypeOK
    <3> QED BY <2>1, <3>3, <3>4 DEF ExitByte, ExitInv
  <2>2. CASE \E t \in Servers : ServerSide(t)
    BY <2>1, <2>2, LeavesLoop
  <2>3. CASE \E c \in Clients : RunScript(c)
    BY <2>3, ScriptSteps
  <2>4. ASSUME NEW c \in Clients, NEW k \in AllKinds, Ctpv(c, k)
        PROVE  spc' = spc
    BY <2>4, Started
  <2>5. CASE UNCHANGED vars
    BY <2>5 DEF vars
  <2> QED
    BY <2>2, <2>3, <2>4, <2>5, SessionSteps
    DEF SelectImage, Clean, QuitEnds, PreviewEnds, SelectText, AllKinds
<1>2. SessionSpec => [](TypeOK /\ ReapInv)
  BY SessionServes, TypeCorrect, ReapInvariant, PTL
<1> QED
  BY <1>1, <1>2, SessionTypeCorrect, ExitInvariant, PTL
  DEF SessionSpec, ServesOn
=============================================================================
