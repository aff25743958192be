---------------------------- MODULE ServerProofs ----------------------------
(***************************************************************************)
(* Proofs about Server for every set of servers, scripts and faults.       *)
(***************************************************************************)
EXTENDS Server, SequenceTheorems, TLAPS

\* A read() splits what the FIFO holds: nothing is lost, doubled or moved.
LEMMA ReadSplits ==
  ASSUME NEW q \in Seq(Clients)
  PROVE  /\ Chunk(q) \in Seq(Clients)
         /\ Rest(q) \in Seq(Clients)
         /\ Chunk(q) \o Rest(q) = q
         /\ Len(Chunk(q)) \in Nat
         /\ q # <<>> => Len(Chunk(q)) > 0
<1> DEFINE n == IF Len(q) < BufMsgs THEN Len(q) ELSE BufMsgs
<1>1. n \in 0 .. Len(q) /\ (q # <<>> => n > 0)
  BY LenProperties, EmptySeq, ServerAssumption
<1>2. \A i \in 1 .. n : q[i] \in Clients
  BY <1>1, ElementOfSeq
<1>3. Chunk(q) = SubSeq(q, 1, n)
  BY DEF Chunk
<1>4. Chunk(q) \in Seq(Clients) /\ Len(Chunk(q)) = n
  BY <1>1, <1>2, <1>3, SubSeqProperties
<1>5. Rest(q) = SubSeq(q, n + 1, Len(q))
  BY <1>4 DEF Rest
<1>6. Rest(q) \in Seq(Clients)
  <2>1. \A i \in n + 1 .. Len(q) : q[i] \in Clients
    BY <1>1, ElementOfSeq, LenProperties
  <2> QED BY <1>1, <1>5, <2>1, LenProperties, SubSeqProperties
<1>7. Chunk(q) \o Rest(q) = q
  <2> HIDE DEF n
  <2>1. /\ 1 \in 1 .. Len(q) + 1
        /\ n \in 1 - 1 .. Len(q)
        /\ Len(q) \in n .. Len(q)
    BY <1>1, LenProperties
  <2>2. SubSeq(q, 1, n) \o SubSeq(q, n + 1, Len(q)) = SubSeq(q, 1, Len(q))
    BY <2>1, ConcatAdjacentSubSeq
  <2> QED BY <1>3, <1>5, <2>2, SubSeqFull
<1> QED BY <1>1, <1>4, <1>6, <1>7

\* What the kernel drops leaves sequences of messages.
LEMMA DropType ==
  ASSUME data \in [Servers -> Seq(Clients)], DropUnheld
  PROVE  data' \in [Servers -> Seq(Clients)]
BY EmptySeq DEF DropUnheld

\* The variables keep their types, and a script has a FIFO open exactly between
\* its open(2) and its close(2) (checked as TypeOK in run server_safety).
THEOREM TypeCorrect == Spec => []TypeOK
<1>1. Init => TypeOK
  BY ServerAssumption, EmptySeq DEF Init, TypeOK, ServerPC, ClientPC
<1>2. TypeOK /\ [Next]_vars => TypeOK'
  <2> SUFFICES ASSUME TypeOK, [Next]_vars PROVE TypeOK'
    OBVIOUS
  <2>2. ASSUME NEW s \in Servers, CheckUeberzug(s) PROVE TypeOK'
    BY <2>2 DEF CheckUeberzug, Goto, clientVars, ServerPC, TypeOK
  <2>3. ASSUME NEW s \in Servers, Mkfifo(s) PROVE TypeOK'
    <3>1. spc' \in [Servers -> ServerPC]
      <4>1. Goto(s, "open") \/ Goto(s, "done")
        BY <2>3 DEF Mkfifo
      <4> QED BY <4>1 DEF Goto, ServerPC, TypeOK
    <3>2. path' \in Servers \cup {NoPath, RegFile}
      BY <2>3 DEF Mkfifo, TypeOK
    <3> QED BY <2>3, <3>1, <3>2 DEF Mkfifo, clientVars, TypeOK
  <2>4. ASSUME NEW s \in Servers, OpenFifo(s) PROVE TypeOK'
    BY <2>4 DEF OpenFifo, Goto, OpenReadEnd, ServerPC, ClientPC, TypeOK
  <2>5. ASSUME NEW s \in Servers, OpenFifoFails(s) PROVE TypeOK'
    BY <2>5 DEF OpenFifoFails, Goto, clientVars, ServerPC, TypeOK
  <2>6. ASSUME NEW s \in Servers, RegisterSignals(s) PROVE TypeOK'
    BY <2>6 DEF RegisterSignals, Goto, clientVars, ServerPC, TypeOK
  <2>7. ASSUME NEW s \in Servers, SpawnUeberzug(s) PROVE TypeOK'
    BY <2>7 DEF SpawnUeberzug, Goto, clientVars, ServerPC, TypeOK
  <2>8. ASSUME NEW s \in Servers, SpawnFails(s) PROVE TypeOK'
    BY <2>8 DEF SpawnFails, Goto, clientVars, ServerPC, TypeOK
  <2>9. ASSUME NEW s \in Servers, PollReturns(s) PROVE TypeOK'
    <3>1. PollEvents(s) \in SUBSET {"IN", "HUP"}
      BY DEF PollEvents
    <3>2. revents' \in [Servers -> SUBSET {"IN", "HUP"}]
      BY <2>9, <3>1 DEF PollReturns, TypeOK
    <3>3. spc' \in [Servers -> ServerPC]
      <4>1. PICK l \in {"kill", "read", "hup"} : Goto(s, l)
        BY <2>9 DEF PollReturns
      <4>2. l \in ServerPC
        BY DEF ServerPC
      <4> QED BY <4>1, <4>2 DEF Goto, TypeOK
    <3> QED BY <2>9, <3>2, <3>3 DEF PollReturns, clientVars, TypeOK
  <2>10. ASSUME NEW s \in Servers, ReadsNothing(s) PROVE TypeOK'
    BY <2>10 DEF ReadsNothing, Goto, AfterReading, clientVars, ServerPC,
      TypeOK
  <2>11. ASSUME NEW s \in Servers, ReadsExit(s) PROVE TypeOK'
    BY <2>11, ReadSplits DEF ReadsExit, Goto, clientVars, ServerPC, TypeOK
  <2>12. ASSUME NEW s \in Servers, Forwards(s) PROVE TypeOK'
    <3>1. /\ Chunk(data[s]) \in Seq(Clients)
          /\ Rest(data[s]) \in Seq(Clients)
      BY ReadSplits DEF TypeOK
    <3>2. uin[s] \o Chunk(data[s]) \in Seq(Clients)
      BY <3>1, ConcatProperties DEF TypeOK
    <3> QED
      BY <2>12, <3>1, <3>2
      DEF Forwards, Forwarded, serverVars, clientVars, TypeOK
  <2>13. ASSUME NEW s \in Servers, ForwardKills(s) PROVE TypeOK'
    BY <2>13, DropType DEF ForwardKills, Goto, clientVars, ServerPC, TypeOK
  <2>14. ASSUME NEW s \in Servers, CloseHungUp(s) PROVE TypeOK'
    BY <2>14, DropType DEF CloseHungUp, Goto, clientVars, ServerPC, TypeOK
  <2>15. ASSUME NEW s \in Servers, Reopen(s) PROVE TypeOK'
    BY <2>15 DEF Reopen, Goto, OpenReadEnd, ServerPC, ClientPC, TypeOK
  <2>16. ASSUME NEW s \in Servers, ReopenFails(s) PROVE TypeOK'
    BY <2>16 DEF ReopenFails, Goto, clientVars, ServerPC, TypeOK
  <2>17. ASSUME NEW s \in Servers, Kill(s) PROVE TypeOK'
    BY <2>17 DEF Kill, Goto, clientVars, ServerPC, TypeOK
  <2>18. ASSUME NEW s \in Servers, WaitUeberzug(s) PROVE TypeOK'
    BY <2>18 DEF WaitUeberzug, Goto, clientVars, ServerPC, TypeOK
  <2>19. ASSUME NEW s \in Servers, UnregisterSignals(s) PROVE TypeOK'
    BY <2>19 DEF UnregisterSignals, Goto, clientVars, ServerPC, TypeOK
  <2>20. ASSUME NEW s \in Servers, CloseFd(s) PROVE TypeOK'
    BY <2>20, DropType DEF CloseFd, Goto, clientVars, ServerPC, TypeOK
  <2>21. ASSUME NEW s \in Servers, RemoveFifo(s) PROVE TypeOK'
    BY <2>21, ServerAssumption DEF RemoveFifo, Goto, clientVars, ServerPC,
      TypeOK
  <2>22. ASSUME NEW s \in Servers, Signal(s) PROVE TypeOK'
    <3>1. spc' \in [Servers -> ServerPC]
      <4>1. PICK l \in {"kill", "dead", spc[s]} : Goto(s, l)
        BY <2>22 DEF Signal
      <4>2. l \in ServerPC
        BY DEF ServerPC, TypeOK
      <4> QED BY <4>1, <4>2 DEF Goto, TypeOK
    <3>2. data' \in [Servers -> Seq(Clients)]
      BY <2>22, DropType DEF Signal, TypeOK
    <3>3. doExit' \in [Servers -> BOOLEAN] /\ fd' \in [Servers -> BOOLEAN]
      BY <2>22 DEF Signal, TypeOK
    <3> QED BY <2>22, <3>1, <3>2, <3>3 DEF Signal, clientVars, TypeOK
  <2>23. ASSUME NEW s \in Servers, Crash(s) PROVE TypeOK'
    BY <2>23, DropType DEF Crash, Goto, clientVars, Over, ServerPC, TypeOK
  <2>24. ASSUME NEW s \in Servers, UeberzugFails(s) PROVE TypeOK'
    BY <2>24, DropType DEF UeberzugFails, UeberzugEnds, serverVars,
      clientVars, TypeOK
  <2>25. ASSUME NEW s \in Servers, UeberzugObeys(s) PROVE TypeOK'
    BY <2>25, DropType DEF UeberzugObeys, UeberzugEnds, serverVars,
      clientVars, TypeOK
  <2>26. ASSUME NEW c \in Clients, Launch(c) PROVE TypeOK'
    <3>1. kind' \in [Clients -> AllKinds \cup {"none"}]
      BY <2>26, ServerAssumption DEF Launch, LaunchAs, TypeOK
    <3>2. cpc' \in [Clients -> ClientPC]
      BY <2>26 DEF Launch, LaunchAs, Move, ClientPC, TypeOK
    <3> QED BY <2>26, <3>1, <3>2 DEF Launch, LaunchAs, Move, serverVars, TypeOK
  <2>27. ASSUME NEW c \in Clients, ConfigError(c) PROVE TypeOK'
    <3>1. kind' \in [Clients -> AllKinds \cup {"none"}]
      BY <2>27, ServerAssumption DEF ConfigError, ConfigErrorAs, TypeOK
    <3>2. cpc' \in [Clients -> ClientPC]
      BY <2>27 DEF ConfigError, ConfigErrorAs, Move, ClientPC, TypeOK
    <3> QED BY <2>27, <3>1, <3>2 DEF ConfigError, ConfigErrorAs, Move, serverVars, TypeOK
  <2>28. ASSUME NEW c \in Clients, Detect(c) PROVE TypeOK'
    <3>1. PICK l \in {"probe", "openw", "done"} :
            cpc[c] = "detect" /\ cpc' = [cpc EXCEPT ![c] = l]
      BY <2>28 DEF Detect, Move
    <3> QED BY <2>28, <3>1 DEF Detect, serverVars, ClientPC, TypeOK
  <2>29. ASSUME NEW c \in Clients, Probe(c) PROVE TypeOK'
    BY <2>29 DEF Probe, Move, serverVars, ClientPC, TypeOK
  <2>30. ASSUME NEW c \in Clients, OpenWriteFifo(c) PROVE TypeOK'
    BY <2>30, ServerAssumption DEF OpenWriteFifo, Move, serverVars,
      ClientPC, TypeOK
  <2>31. ASSUME NEW c \in Clients, OpenWriteFile(c) PROVE TypeOK'
    BY <2>31, ServerAssumption DEF OpenWriteFile, Move, Created, serverVars,
      ClientPC, TypeOK
  <2>32. ASSUME NEW c \in Clients, Write(c) PROVE TypeOK'
    BY <2>32, AppendProperties DEF Write, Move, serverVars, ClientPC, TypeOK
  <2>33. ASSUME NEW c \in Clients, WriteFails(c) PROVE TypeOK'
    BY <2>33, DropType, ServerAssumption DEF WriteFails, Move, serverVars,
      ClientPC, TypeOK
  <2>34. ASSUME NEW c \in Clients, CloseWrite(c) PROVE TypeOK'
    BY <2>34, DropType, ServerAssumption DEF CloseWrite, Move, serverVars,
      ClientPC, TypeOK
  <2>35. CASE UNCHANGED vars
      BY <2>35 DEF vars, serverVars, clientVars, TypeOK
  <2>36. QED
      BY <2>2, <2>3, <2>4, <2>5, <2>6, <2>7, <2>8, <2>9, <2>10, <2>11,
         <2>12, <2>13, <2>14, <2>15, <2>16, <2>17, <2>18, <2>19, <2>20,
         <2>21, <2>22, <2>23, <2>24, <2>25, <2>26, <2>27, <2>28, <2>29,
         <2>30, <2>31, <2>32, <2>33, <2>34, <2>35 DEF Next, ServerNext, Serve,
         RunScript
<1>3. QED
  BY <1>1, <1>2, PTL DEF Spec

\* From mkfifo() to remove() the path names the FIFO of the server, whatever
\* other servers, signals and crashes do (checked as OwnFifo in run
\* server_safety).  Every server that is refused, fails or is killed meanwhile
\* has to leave the path alone: OwnInv.
THEOREM OwnInvariant == Spec => []OwnInv
<1>1. Init => OwnInv
  BY ServerAssumption DEF Init, OwnInv, OwnFifo, Owning, Loop
<1>2. TypeOK /\ OwnInv /\ [Next]_vars => OwnInv'
  <2> SUFFICES ASSUME TypeOK, OwnInv, [Next]_vars PROVE OwnInv'
    OBVIOUS
  <2> USE ServerAssumption DEF TypeOK
  <2>1. ASSUME NEW s \in Servers, CheckUeberzug(s) PROVE OwnInv'
    BY <2>1 DEF CheckUeberzug, Goto, OwnInv, OwnFifo, Owning, Loop
  <2>2. ASSUME NEW s \in Servers, Mkfifo(s) PROVE OwnInv'
    BY <2>2 DEF Mkfifo, Goto, OwnInv, OwnFifo, Owning, Loop
  <2>3. ASSUME NEW s \in Servers, OpenFifo(s) PROVE OwnInv'
    BY <2>3 DEF OpenFifo, Goto, OpenReadEnd, OwnInv, OwnFifo, Owning, Loop
  <2>4. ASSUME NEW s \in Servers, OpenFifoFails(s) PROVE OwnInv'
    BY <2>4 DEF OpenFifoFails, Goto, OwnInv, OwnFifo, Owning, Loop
  <2>5. ASSUME NEW s \in Servers, RegisterSignals(s) PROVE OwnInv'
    BY <2>5 DEF RegisterSignals, Goto, OwnInv, OwnFifo, Owning, Loop
  <2>6. ASSUME NEW s \in Servers, SpawnUeberzug(s) PROVE OwnInv'
    BY <2>6 DEF SpawnUeberzug, Goto, OwnInv, OwnFifo, Owning, Loop
  <2>7. ASSUME NEW s \in Servers, SpawnFails(s) PROVE OwnInv'
    BY <2>7 DEF SpawnFails, Goto, OwnInv, OwnFifo, Owning, Loop
  <2>8. ASSUME NEW s \in Servers, PollReturns(s) PROVE OwnInv'
    BY <2>8 DEF PollReturns, Goto, OwnInv, OwnFifo, Owning, Loop
  <2>9. ASSUME NEW s \in Servers, ReadsNothing(s) PROVE OwnInv'
    BY <2>9 DEF ReadsNothing, Goto, AfterReading, OwnInv, OwnFifo, Owning,
      Loop
  <2>10. ASSUME NEW s \in Servers, ReadsExit(s) PROVE OwnInv'
    BY <2>10 DEF ReadsExit, Goto, OwnInv, OwnFifo, Owning, Loop
  <2>11. ASSUME NEW s \in Servers, Forwards(s) PROVE OwnInv'
    BY <2>11 DEF Forwards, serverVars, OwnInv, OwnFifo, Owning, Loop
  <2>12. ASSUME NEW s \in Servers, ForwardKills(s) PROVE OwnInv'
    BY <2>12 DEF ForwardKills, Goto, OwnInv, OwnFifo, Owning, Loop
  <2>13. ASSUME NEW s \in Servers, CloseHungUp(s) PROVE OwnInv'
    BY <2>13 DEF CloseHungUp, Goto, OwnInv, OwnFifo, Owning, Loop
  <2>14. ASSUME NEW s \in Servers, Reopen(s) PROVE OwnInv'
    BY <2>14 DEF Reopen, Goto, OpenReadEnd, OwnInv, OwnFifo, Owning, Loop
  <2>15. ASSUME NEW s \in Servers, ReopenFails(s) PROVE OwnInv'
    BY <2>15 DEF ReopenFails, Goto, OwnInv, OwnFifo, Owning, Loop
  <2>16. ASSUME NEW s \in Servers, Kill(s) PROVE OwnInv'
    BY <2>16 DEF Kill, Goto, OwnInv, OwnFifo, Owning, Loop
  <2>17. ASSUME NEW s \in Servers, WaitUeberzug(s) PROVE OwnInv'
    BY <2>17 DEF WaitUeberzug, Goto, OwnInv, OwnFifo, Owning, Loop
  <2>18. ASSUME NEW s \in Servers, UnregisterSignals(s) PROVE OwnInv'
    BY <2>18 DEF UnregisterSignals, Goto, OwnInv, OwnFifo, Owning, Loop
  <2>19. ASSUME NEW s \in Servers, CloseFd(s) PROVE OwnInv'
    BY <2>19 DEF CloseFd, Goto, OwnInv, OwnFifo, Owning, Loop
  <2>20. ASSUME NEW s \in Servers, RemoveFifo(s) PROVE OwnInv'
    BY <2>20 DEF RemoveFifo, Goto, OwnInv, OwnFifo, Owning, Loop
  <2>21. ASSUME NEW s \in Servers, Signal(s) PROVE OwnInv'
    BY <2>21 DEF Signal, Goto, Over, OwnInv, OwnFifo, Owning, Loop
  <2>22. ASSUME NEW s \in Servers, Crash(s) PROVE OwnInv'
    BY <2>22 DEF Crash, Goto, Over, OwnInv, OwnFifo, Owning, Loop
  <2>23. ASSUME NEW s \in Servers, UeberzugFails(s) PROVE OwnInv'
    BY <2>23 DEF UeberzugFails, UeberzugEnds, serverVars, OwnInv, OwnFifo,
      Owning, Loop
  <2>24. ASSUME NEW s \in Servers, UeberzugObeys(s) PROVE OwnInv'
    BY <2>24 DEF UeberzugObeys, UeberzugEnds, serverVars, OwnInv, OwnFifo,
      Owning, Loop
  <2>25. ASSUME NEW c \in Clients, OpenWriteFile(c) PROVE OwnInv'
    BY <2>25 DEF OpenWriteFile, Move, Created, serverVars, OwnInv, OwnFifo,
      Owning, Loop
  <2>26. ASSUME NEW c \in Clients,
               Launch(c) \/ ConfigError(c) \/ Detect(c) \/ Probe(c) \/
                 OpenWriteFifo(c) \/ Write(c) \/ WriteFails(c) \/
                 CloseWrite(c)
       PROVE  OwnInv'
    BY <2>26 DEF Launch, LaunchAs, ConfigError, ConfigErrorAs, Detect,
      Probe, OpenWriteFifo, Write,
      WriteFails, CloseWrite, serverVars, OwnInv, OwnFifo
  <2>27. CASE UNCHANGED vars
    BY <2>27 DEF vars, serverVars, clientVars, OwnInv, OwnFifo, Owning,
      Loop
  <2>28. QED
    BY <2>1, <2>2, <2>3, <2>4, <2>5, <2>6, <2>7, <2>8, <2>9, <2>10, <2>11,
      <2>12, <2>13, <2>14, <2>15, <2>16, <2>17, <2>18, <2>19, <2>20, <2>21,
      <2>22, <2>23, <2>24, <2>25, <2>26, <2>27 DEF Next, ServerNext, Serve, RunScript
<1>3. QED
  BY <1>1, <1>2, TypeCorrect, PTL DEF Spec

THEOREM OwnFifoAlways == Spec => []OwnFifo
BY OwnInvariant, PTL DEF OwnInv

\* Where ueberzug is known not to run, it does not.
THEOREM ReapInvariant == Spec => []ReapInv
<1>1. Init => ReapInv
  BY DEF Init, ReapInv
<1>2. TypeOK /\ ReapInv /\ [Next]_vars => ReapInv'
  <2> SUFFICES ASSUME TypeOK, ReapInv, [Next]_vars PROVE ReapInv'
    OBVIOUS
  <2> USE DEF TypeOK
  <2>1. ASSUME NEW s \in Servers, CheckUeberzug(s) PROVE ReapInv'
    BY <2>1 DEF CheckUeberzug, Goto, ReapInv
  <2>2. ASSUME NEW s \in Servers, Mkfifo(s) PROVE ReapInv'
    BY <2>2 DEF Mkfifo, Goto, ReapInv
  <2>3. ASSUME NEW s \in Servers, OpenFifo(s) PROVE ReapInv'
    BY <2>3 DEF OpenFifo, Goto, OpenReadEnd, ReapInv
  <2>4. ASSUME NEW s \in Servers, OpenFifoFails(s) PROVE ReapInv'
    BY <2>4 DEF OpenFifoFails, Goto, ReapInv
  <2>5. ASSUME NEW s \in Servers, RegisterSignals(s) PROVE ReapInv'
    BY <2>5 DEF RegisterSignals, Goto, ReapInv
  <2>6. ASSUME NEW s \in Servers, SpawnUeberzug(s) PROVE ReapInv'
    BY <2>6 DEF SpawnUeberzug, Goto, ReapInv
  <2>7. ASSUME NEW s \in Servers, SpawnFails(s) PROVE ReapInv'
    BY <2>7 DEF SpawnFails, Goto, ReapInv
  <2>8. ASSUME NEW s \in Servers, PollReturns(s) PROVE ReapInv'
    BY <2>8 DEF PollReturns, Goto, ReapInv
  <2>9. ASSUME NEW s \in Servers, ReadsNothing(s) PROVE ReapInv'
    BY <2>9 DEF ReadsNothing, Goto, AfterReading, ReapInv
  <2>10. ASSUME NEW s \in Servers, ReadsExit(s) PROVE ReapInv'
    BY <2>10 DEF ReadsExit, Goto, ReapInv
  <2>11. ASSUME NEW s \in Servers, Forwards(s) PROVE ReapInv'
    BY <2>11 DEF Forwards, serverVars, ReapInv
  <2>12. ASSUME NEW s \in Servers, ForwardKills(s) PROVE ReapInv'
    BY <2>12 DEF ForwardKills, Goto, ReapInv
  <2>13. ASSUME NEW s \in Servers, CloseHungUp(s) PROVE ReapInv'
    BY <2>13 DEF CloseHungUp, Goto, ReapInv
  <2>14. ASSUME NEW s \in Servers, Reopen(s) PROVE ReapInv'
    BY <2>14 DEF Reopen, Goto, OpenReadEnd, ReapInv
  <2>15. ASSUME NEW s \in Servers, ReopenFails(s) PROVE ReapInv'
    BY <2>15 DEF ReopenFails, Goto, ReapInv
  <2>16. ASSUME NEW s \in Servers, Kill(s) PROVE ReapInv'
    BY <2>16 DEF Kill, Goto, ReapInv
  <2>17. ASSUME NEW s \in Servers, WaitUeberzug(s) PROVE ReapInv'
    BY <2>17 DEF WaitUeberzug, Goto, ReapInv
  <2>18. ASSUME NEW s \in Servers, UnregisterSignals(s) PROVE ReapInv'
    BY <2>18 DEF UnregisterSignals, Goto, ReapInv
  <2>19. ASSUME NEW s \in Servers, CloseFd(s) PROVE ReapInv'
    BY <2>19 DEF CloseFd, Goto, ReapInv
  <2>20. ASSUME NEW s \in Servers, RemoveFifo(s) PROVE ReapInv'
    BY <2>20 DEF RemoveFifo, Goto, ReapInv
  <2>21. ASSUME NEW s \in Servers, Signal(s) PROVE ReapInv'
    BY <2>21 DEF Signal, Goto, Over, ReapInv
  <2>22. ASSUME NEW s \in Servers, Crash(s) PROVE ReapInv'
    BY <2>22 DEF Crash, Goto, Over, ReapInv
  <2>23. ASSUME NEW s \in Servers, UeberzugFails(s) PROVE ReapInv'
    BY <2>23 DEF UeberzugFails, UeberzugEnds, serverVars, ReapInv
  <2>24. ASSUME NEW s \in Servers, UeberzugObeys(s) PROVE ReapInv'
    BY <2>24 DEF UeberzugObeys, UeberzugEnds, serverVars, ReapInv
  <2>25. ASSUME NEW c \in Clients,
               Launch(c) \/ ConfigError(c) \/ Detect(c) \/ Probe(c) \/
                 OpenWriteFifo(c) \/ OpenWriteFile(c) \/ Write(c) \/
                 WriteFails(c) \/ CloseWrite(c)
       PROVE  ReapInv'
    BY <2>25 DEF Launch, LaunchAs, ConfigError, ConfigErrorAs, Detect,
      Probe, OpenWriteFifo,
      OpenWriteFile, Write, WriteFails, CloseWrite, serverVars, ReapInv
  <2>26. CASE UNCHANGED vars
    BY <2>26 DEF vars, serverVars, clientVars, ReapInv
  <2>27. QED
    BY <2>1, <2>2, <2>3, <2>4, <2>5, <2>6, <2>7, <2>8, <2>9, <2>10, <2>11,
      <2>12, <2>13, <2>14, <2>15, <2>16, <2>17, <2>18, <2>19, <2>20, <2>21,
      <2>22, <2>23, <2>24, <2>25, <2>26 DEF Next, ServerNext, Serve, RunScript
<1>3. QED
  BY <1>1, <1>2, TypeCorrect, PTL DEF Spec

\* A server that ends by itself has removed its FIFO and reaped its ueberzug
\* (checked as CleanEnd in run server_safety).
THEOREM CleanEndAlways == Spec => []CleanEnd
<1>1. OwnInv /\ ReapInv => CleanEnd
  BY DEF OwnInv, ReapInv, CleanEnd
<1> QED BY <1>1, OwnInvariant, ReapInvariant, PTL

\* Passing on a chunk, or writing a message, keeps what was passed on followed
\* by what is held.
LEMMA Regroup ==
  \A a, q, r \in Seq(Clients) : (a \o q) \o r = a \o (q \o r)
BY ConcatAssociative

LEMMA PassOn ==
  \A a, q \in Seq(Clients) : (a \o Chunk(q)) \o Rest(q) = a \o q
<1> SUFFICES ASSUME NEW a \in Seq(Clients), NEW q \in Seq(Clients)
             PROVE  (a \o Chunk(q)) \o Rest(q) = a \o q
  OBVIOUS
<1>1. /\ Chunk(q) \in Seq(Clients)
      /\ Rest(q) \in Seq(Clients)
  BY ReadSplits
<1>2. (a \o Chunk(q)) \o Rest(q) = a \o (Chunk(q) \o Rest(q))
  BY <1>1, Regroup
<1>3. Chunk(q) \o Rest(q) = q
  BY ReadSplits
<1> QED BY <1>2, <1>3

LEMMA AppendRight ==
  \A a, q \in Seq(Clients), c \in Clients :
    Append(a \o q, c) = a \o Append(q, c)
<1> SUFFICES ASSUME NEW a \in Seq(Clients), NEW q \in Seq(Clients),
                    NEW c \in Clients
             PROVE  Append(a \o q, c) = a \o Append(q, c)
  OBVIOUS
<1>1. <<c>> \in Seq(Clients) /\ a \o q \in Seq(Clients)
  BY ConcatProperties
<1>2. Append(a \o q, c) = (a \o q) \o <<c>>
  BY <1>1, AppendIsConcat
<1>3. Append(q, c) = q \o <<c>>
  BY AppendIsConcat
<1>4. (a \o q) \o <<c>> = a \o (q \o <<c>>)
  BY <1>1, Regroup, Zenon
<1> QED BY <1>2, <1>3, <1>4, Zenon

\* What is passed on after a read extends what was passed on before by a
\* prefix of what is held.
LEMMA Extends ==
  ASSUME NEW a \in Seq(Clients), NEW q \in Seq(Clients), q # <<>>
  PROVE  /\ Len(a \o Chunk(q)) \in 1 .. Len(a \o q)
         /\ Len(a \o Chunk(q)) > Len(a)
         /\ SubSeq(a \o q, 1, Len(a \o Chunk(q))) = a \o Chunk(q)
<1> DEFINE b == a \o Chunk(q)
           r == Rest(q)
<1>1. /\ Chunk(q) \in Seq(Clients) /\ r \in Seq(Clients)
      /\ Len(Chunk(q)) \in Nat /\ Len(Chunk(q)) > 0
  BY ReadSplits
<1>2. /\ b \in Seq(Clients)
      /\ Len(b) = Len(a) + Len(Chunk(q))
  BY <1>1, ConcatProperties
<1>3. Len(b) \in Nat /\ Len(b) > Len(a) /\ Len(b) > 0
  BY <1>1, <1>2, LenProperties
<1>4. b \o r = a \o q
  BY PassOn
<1> HIDE DEF b, r
<1>5. Len(b \o r) = Len(b) + Len(r) /\ Len(r) \in Nat
  BY <1>1, <1>2, ConcatProperties, LenProperties
<1>6. SubSeq(b \o r, 1, Len(b)) = SubSeq(b, 1, Len(b))
  BY <1>1, <1>2, <1>3, SubSeqOfConcat1
<1>7. SubSeq(b, 1, Len(b)) = b
  BY <1>2, SubSeqFull
<1>8. Len(b) \in 1 .. Len(a \o q)
  BY <1>3, <1>4, <1>5
<1>9. SubSeq(a \o q, 1, Len(b)) = b
  BY <1>4, <1>6, <1>7
<1> QED BY <1>3, <1>8, <1>9 DEF b

\* What somebody holds is not dropped.
LEMMA Dropped ==
  ASSUME TypeOK, DropUnheld, NEW s \in Servers
  PROVE  /\ data[s] = <<>> => data'[s] = <<>>
         /\ (fd'[s] \/ ueb'[s] = "running") => data'[s] = data[s]
BY DEF TypeOK, DropUnheld, Held, HasReader, Inherits

\* A step of a server that leaves the messages, the FIFO and ueberzug alone
\* only has to stay in the same phase, or to leave the loop.
LEMMA Moves ==
  ASSUME TypeOK, StreamInv, NEW s \in Servers, NEW l, Goto(s, l),
         UNCHANGED <<data, uin, accepted, ueb, fd>>,
         l \in {"off", "mkfifo", "open"} => spc[s] \in {"off", "mkfifo", "open"},
         l \in {"register", "spawn"} => spc[s] \in {"register", "spawn"},
         l \in Loop => spc[s] \in Loop
  PROVE  StreamInv'
<1> SUFFICES ASSUME NEW t \in Servers PROVE Stream(t)'
  BY DEF StreamInv
<1>1. Stream(t)
  BY DEF StreamInv
<1>2. CASE t = s
  <2>1. spc'[t] = l
    BY <1>2 DEF Goto, TypeOK
  <2> QED BY <1>1, <1>2, <2>1 DEF Stream
<1>3. CASE t # s
  <2>1. spc'[t] = spc[t]
    BY <1>3 DEF Goto, TypeOK
  <2> QED BY <1>1, <2>1 DEF Stream
<1> QED BY <1>2, <1>3

\* A relaying server has passed on, or still holds, every message that was
\* written to its FIFO, in the order of the writes (checked as InOrder in run
\* server_safety).  StreamInv says in addition that nothing can be written
\* before the first open_fifo() and nothing is read before ueberzug runs.
THEOREM StreamInvariant == Spec => []StreamInv
<1>1. Init => StreamInv
  BY DEF Init, StreamInv, Stream, Loop
<1>2. TypeOK /\ StreamInv /\ [Next]_vars => StreamInv'
  <2> SUFFICES ASSUME TypeOK, StreamInv, [Next]_vars PROVE StreamInv'
    OBVIOUS
  <2> USE DEF TypeOK
  <2>1. ASSUME NEW s \in Servers, CheckUeberzug(s) PROVE StreamInv'
    <3>1. PICK l \in {"mkfifo", "done"} : Goto(s, l)
      BY <2>1 DEF CheckUeberzug
    <3>2. spc[s] = "off" /\ UNCHANGED <<data, uin, accepted, ueb, fd>>
      BY <2>1 DEF CheckUeberzug
    <3> QED BY <3>1, <3>2, Moves DEF Loop
  <2>2. ASSUME NEW s \in Servers, Mkfifo(s) PROVE StreamInv'
    <3>1. PICK l \in {"open", "done"} : Goto(s, l)
      BY <2>2 DEF Mkfifo
    <3>2. spc[s] = "mkfifo" /\ UNCHANGED <<data, uin, accepted, ueb, fd>>
      BY <2>2 DEF Mkfifo
    <3> QED BY <3>1, <3>2, Moves DEF Loop
  <2>3. ASSUME NEW s \in Servers, OpenFifo(s) PROVE StreamInv'
    BY <2>3 DEF OpenFifo, Goto, OpenReadEnd, StreamInv, Stream, Loop
  <2>4. ASSUME NEW s \in Servers, OpenFifoFails(s) PROVE StreamInv'
    <3>1. PICK l \in {"remove"} : Goto(s, l)
      BY <2>4 DEF OpenFifoFails
    <3>2. spc[s] = "open" /\ UNCHANGED <<data, uin, accepted, ueb, fd>>
      BY <2>4 DEF OpenFifoFails
    <3> QED BY <3>1, <3>2, Moves DEF Loop
  <2>5. ASSUME NEW s \in Servers, RegisterSignals(s) PROVE StreamInv'
    <3>1. PICK l \in {"spawn"} : Goto(s, l)
      BY <2>5 DEF RegisterSignals
    <3>2. spc[s] = "register" /\ UNCHANGED <<data, uin, accepted, ueb, fd>>
      BY <2>5 DEF RegisterSignals
    <3> QED BY <3>1, <3>2, Moves DEF Loop
  <2>6. ASSUME NEW s \in Servers, SpawnUeberzug(s) PROVE StreamInv'
    <3>1. accepted[s] = uin[s] \o data[s]
      BY <2>6, ConcatEmptySeq DEF SpawnUeberzug, StreamInv, Stream
    <3> QED
      BY <2>6, <3>1
      DEF SpawnUeberzug, Goto, clientVars, StreamInv, Stream, Loop
  <2>7. ASSUME NEW s \in Servers, SpawnFails(s) PROVE StreamInv'
    <3>1. PICK l \in {"unregister", "kill"} : Goto(s, l)
      BY <2>7 DEF SpawnFails
    <3>2. spc[s] = "spawn" /\ UNCHANGED <<data, uin, accepted, ueb, fd>>
      BY <2>7 DEF SpawnFails
    <3> QED BY <3>1, <3>2, Moves DEF Loop
  <2>8. ASSUME NEW s \in Servers, PollReturns(s) PROVE StreamInv'
    <3>1. PICK l \in {"kill", "read", "hup"} : Goto(s, l)
      BY <2>8 DEF PollReturns
    <3>2. spc[s] = "poll" /\ UNCHANGED <<data, uin, accepted, ueb, fd>>
      BY <2>8 DEF PollReturns
    <3> QED BY <3>1, <3>2, Moves DEF Loop
  <2>9. ASSUME NEW s \in Servers, ReadsNothing(s) PROVE StreamInv'
    <3>1. PICK l \in {"hup", "poll"} : Goto(s, l)
      BY <2>9 DEF ReadsNothing, AfterReading
    <3>2. spc[s] = "read" /\ UNCHANGED <<data, uin, accepted, ueb, fd>>
      BY <2>9 DEF ReadsNothing
    <3> QED BY <3>1, <3>2, Moves DEF Loop
  <2>10. ASSUME NEW s \in Servers, ReadsExit(s) PROVE StreamInv'
    BY <2>10 DEF ReadsExit, Goto, StreamInv, Stream, Loop
  <2>11. ASSUME NEW s \in Servers, Forwards(s) PROVE StreamInv'
    <3>1. /\ Chunk(data[s]) \in Seq(Clients)
          /\ Rest(data[s]) \in Seq(Clients)
          /\ Chunk(data[s]) \o Rest(data[s]) = data[s]
      BY ReadSplits
    <3>2. (uin[s] \o Chunk(data[s])) \o Rest(data[s]) = uin[s] \o data[s]
      BY <3>1, PassOn DEF TypeOK
    <3>3. accepted[s] = uin[s] \o data[s]
      BY <2>11 DEF Forwards, StreamInv, Stream, Loop
    <3>4. uin'[s] \o data'[s] = accepted'[s]
      BY <2>11, <3>2, <3>3 DEF Forwards, Forwarded
    <3> QED
      BY <2>11, <3>4
      DEF Forwards, serverVars, StreamInv, Stream, Loop
  <2>12. ASSUME NEW s \in Servers, ForwardKills(s) PROVE StreamInv'
    <3> SUFFICES ASSUME NEW t \in Servers PROVE Stream(t)'
      BY DEF StreamInv
    <3>1. CASE t = s
      BY <2>12, <3>1, Dropped DEF ForwardKills, Goto, StreamInv, Stream, Loop
    <3>2. CASE t # s
      BY <2>12, <3>2, Dropped DEF ForwardKills, Goto, StreamInv, Stream
    <3> QED BY <3>1, <3>2
  <2>13. ASSUME NEW s \in Servers, CloseHungUp(s) PROVE StreamInv'
    <3> SUFFICES ASSUME NEW t \in Servers PROVE Stream(t)'
      BY DEF StreamInv
    <3>1. CASE t = s
      BY <2>13, <3>1, Dropped DEF CloseHungUp, Goto, StreamInv, Stream, Loop
    <3>2. CASE t # s
      BY <2>13, <3>2, Dropped DEF CloseHungUp, Goto, StreamInv, Stream
    <3> QED BY <3>1, <3>2
  <2>14. ASSUME NEW s \in Servers, Reopen(s) PROVE StreamInv'
    BY <2>14 DEF Reopen, Goto, OpenReadEnd, StreamInv, Stream, Loop
  <2>15. ASSUME NEW s \in Servers, ReopenFails(s) PROVE StreamInv'
    BY <2>15 DEF ReopenFails, Goto, StreamInv, Stream, Loop
  <2>16. ASSUME NEW s \in Servers, Kill(s) PROVE StreamInv'
    BY <2>16 DEF Kill, Goto, StreamInv, Stream, Loop
  <2>17. ASSUME NEW s \in Servers, WaitUeberzug(s) PROVE StreamInv'
    BY <2>17 DEF WaitUeberzug, Goto, StreamInv, Stream, Loop
  <2>18. ASSUME NEW s \in Servers, UnregisterSignals(s) PROVE StreamInv'
    BY <2>18 DEF UnregisterSignals, Goto, StreamInv, Stream, Loop
  <2>19. ASSUME NEW s \in Servers, CloseFd(s) PROVE StreamInv'
    BY <2>19, Dropped, SMTT(30) DEF CloseFd, Goto, StreamInv, Stream, Loop
  <2>20. ASSUME NEW s \in Servers, RemoveFifo(s) PROVE StreamInv'
    BY <2>20 DEF RemoveFifo, Goto, StreamInv, Stream, Loop
  <2>21. ASSUME NEW s \in Servers, Signal(s) PROVE StreamInv'
    <3> SUFFICES ASSUME NEW t \in Servers PROVE Stream(t)'
      BY DEF StreamInv
    <3>1. CASE t = s
      <4>1. CASE spc[s] \in HandlersOn
        BY <2>21, <3>1, <4>1
        DEF Signal, HandlersOn, Goto, Over, StreamInv, Stream, Loop
      <4>2. CASE spc[s] \notin HandlersOn
        BY <2>21, <3>1, <4>2 DEF Signal, Goto, Stream, Loop
      <4> QED BY <4>1, <4>2
    <3>2. CASE t # s
      <4>1. /\ \A u \in Servers \ {s} : spc'[u] = spc[u] /\ fd'[u] = fd[u]
            /\ UNCHANGED <<ueb, uin, accepted>>
        BY <2>21 DEF Signal, Goto
      <4>2. UNCHANGED data \/ DropUnheld
        BY <2>21 DEF Signal
      <4> QED BY <3>2, <4>1, <4>2, Dropped DEF StreamInv, Stream, Loop
    <3> QED BY <3>1, <3>2
  <2>22. ASSUME NEW s \in Servers, Crash(s) PROVE StreamInv'
    BY <2>22, Dropped DEF Crash, Goto, Over, StreamInv, Stream, Loop
  <2>23. ASSUME NEW s \in Servers, UeberzugFails(s) PROVE StreamInv'
    BY <2>23, Dropped DEF UeberzugFails, UeberzugEnds, serverVars,
      StreamInv, Stream, Loop
  <2>24. ASSUME NEW s \in Servers, UeberzugObeys(s) PROVE StreamInv'
    BY <2>24, Dropped DEF UeberzugObeys, UeberzugEnds, serverVars,
      StreamInv, Stream, Loop
  <2>25. ASSUME NEW c \in Clients,
               Launch(c) \/ ConfigError(c) \/ Detect(c) \/ Probe(c) \/
                 OpenWriteFifo(c) \/ OpenWriteFile(c)
       PROVE  StreamInv'
    BY <2>25, ZenonT(40) DEF Launch, LaunchAs, ConfigError, ConfigErrorAs, Detect,
      Probe, OpenWriteFifo,
      OpenWriteFile, serverVars, StreamInv, Stream, Loop
  <2>26. ASSUME NEW c \in Clients, Write(c) PROVE StreamInv'
    <3>1. PICK t \in Servers : t = cfifo[c]
      BY <2>26 DEF Write, Move
    <3>2. fd[t] \/ ueb[t] = "running"
      BY <2>26, <3>1 DEF Write, HasReader, Inherits
    <3>3. Append(uin[t] \o data[t], c) = uin[t] \o Append(data[t], c)
      <4>1. PICK a \in Seq(Clients) : a = uin[t]
        BY DEF TypeOK
      <4>2. PICK q \in Seq(Clients) : q = data[t]
        BY DEF TypeOK
      <4>3. Append(a \o q, c) = a \o Append(q, c)
        BY AppendRight, ZenonT(40)
      <4> QED BY <4>1, <4>2, <4>3
    <3>4. /\ UNCHANGED <<spc, fd, ueb, uin>>
          /\ data' = [data EXCEPT ![t] = Append(data[t], c)]
          /\ accepted' = [accepted EXCEPT ![t] = Append(accepted[t], c)]
      BY <2>26, <3>1 DEF Write, serverVars
    <3> QED
      BY <3>1, <3>2, <3>3, <3>4, ZenonT(40) DEF StreamInv, Stream, Loop
  <2>27. ASSUME NEW c \in Clients, WriteFails(c) PROVE StreamInv'
    BY <2>27, Dropped DEF WriteFails, Move, serverVars, StreamInv, Stream,
      Loop
  <2>28. ASSUME NEW c \in Clients, CloseWrite(c) PROVE StreamInv'
    BY <2>28, Dropped DEF CloseWrite, Move, serverVars, StreamInv, Stream,
      Loop
  <2>29. CASE UNCHANGED vars
    BY <2>29 DEF vars, serverVars, clientVars, StreamInv, Stream, Loop
  <2>30. QED
    BY <2>1, <2>2, <2>3, <2>4, <2>5, <2>6, <2>7, <2>8, <2>9, <2>10, <2>11,
      <2>12, <2>13, <2>14, <2>15, <2>16, <2>17, <2>18, <2>19, <2>20, <2>21,
      <2>22, <2>23, <2>24, <2>25, <2>26, <2>27, <2>28, <2>29 DEF Next, ServerNext,
      Serve, RunScript
<1>3. QED
  BY <1>1, <1>2, TypeCorrect, PTL DEF Spec

THEOREM InOrderAlways == Spec => []InOrder
<1>1. StreamInv => InOrder
  BY DEF StreamInv, Stream, InOrder
<1> QED BY <1>1, StreamInvariant, PTL

\* The server implements the abstract relay (checked as ImplementsRelay in run
\* server_safety): mkfifo() starts it, a write to the FIFO sends, a write to
\* ueberzug delivers what comes next, remove() stops it, and every other step
\* of the processes stutters.
THEOREM Implementation == Spec => ImplementsRelay
<1> DEFINE Owner == IF path \in Servers THEN path ELSE NoPath
           Inv == TypeOK /\ OwnInv /\ StreamInv
<1> USE ServerAssumption
<1>1. Init => R!Init
  BY DEF Init, R!Init
<1>2. Inv /\ [Next]_vars => [R!Next]_(R!vars)
  <2> SUFFICES ASSUME Inv, [Next]_vars PROVE [R!Next]_(R!vars)
    OBVIOUS
  <2>1. ASSUME NEW s \in Servers, Mkfifo(s), path = NoPath
        PROVE  R!Start(s)
    BY <2>1 DEF Mkfifo, Goto, R!Start, StreamInv, Stream, TypeOK
  <2>2. ASSUME NEW s \in Servers, RemoveFifo(s) PROVE R!Stop(s)
    BY <2>2 DEF RemoveFifo, Goto, R!Stop, OwnInv, OwnFifo, Owning
  <2>3. ASSUME NEW s \in Servers, Forwards(s) PROVE R!Deliver(s)
    <3> DEFINE u == uin[s]
               q == data[s]
               n == Len(u \o Chunk(q))
    <3>1. u \in Seq(Clients) /\ q \in Seq(Clients)
      BY DEF TypeOK
    <3>2. accepted[s] = u \o q /\ path = s /\ q # <<>>
      BY <2>3 DEF Forwards, StreamInv, Stream, OwnInv, OwnFifo, Owning, Loop
    <3>3. uin' = [uin EXCEPT ![s] = u \o Chunk(q)]
      BY <2>3 DEF Forwards, Forwarded
    <3>4. UNCHANGED <<path, accepted>>
      BY <2>3 DEF Forwards
    <3> HIDE DEF u, q
    <3>5. /\ n \in 1 .. Len(u \o q) /\ n > Len(u)
          /\ SubSeq(u \o q, 1, n) = u \o Chunk(q)
      BY <3>1, <3>2, Extends
    <3> QED
      BY <3>2, <3>3, <3>4, <3>5 DEF R!Deliver, u
  <2>4. ASSUME NEW c \in Clients, Write(c)
        PROVE  cfifo[c] \in Servers /\ R!Send(cfifo[c], c)
    BY <2>4 DEF Write, Move, serverVars, R!Send, TypeOK
  <2>5. ASSUME NEW c \in Clients, OpenWriteFile(c)
        PROVE  UNCHANGED <<Owner, accepted, uin>>
    BY <2>5 DEF OpenWriteFile, Created
  <2> DEFINE
        Silent(s) ==
          \/ CheckUeberzug(s)
          \/ Mkfifo(s) /\ path # NoPath
          \/ OpenFifo(s) \/ OpenFifoFails(s) \/ RegisterSignals(s)
          \/ SpawnUeberzug(s) \/ SpawnFails(s) \/ PollReturns(s)
          \/ ReadsNothing(s) \/ ReadsExit(s) \/ ForwardKills(s)
          \/ CloseHungUp(s) \/ Reopen(s) \/ ReopenFails(s) \/ Kill(s)
          \/ WaitUeberzug(s) \/ UnregisterSignals(s) \/ CloseFd(s)
          \/ Signal(s) \/ Crash(s)
          \/ UeberzugFails(s) \/ UeberzugObeys(s)
  <2>6. ASSUME NEW s \in Servers, Silent(s)
        PROVE  UNCHANGED <<Owner, accepted, uin>>
    BY <2>6
    DEF CheckUeberzug, Mkfifo, OpenFifo, OpenFifoFails, RegisterSignals,
        SpawnUeberzug, SpawnFails, PollReturns, ReadsNothing, ReadsExit,
        ForwardKills, CloseHungUp, Reopen, ReopenFails, Kill, WaitUeberzug,
        UnregisterSignals, CloseFd, Signal, Crash, UeberzugFails,
        UeberzugObeys, UeberzugEnds
  <2>7. ASSUME NEW c \in Clients,
               \/ Launch(c) \/ ConfigError(c) \/ Detect(c) \/ Probe(c)
               \/ OpenWriteFifo(c) \/ WriteFails(c) \/ CloseWrite(c)
        PROVE  UNCHANGED <<Owner, accepted, uin>>
    BY <2>7
    DEF Launch, LaunchAs, ConfigError, ConfigErrorAs, Detect, Probe,
      OpenWriteFifo, WriteFails,
        CloseWrite
  <2>8. CASE UNCHANGED vars
    BY <2>8 DEF vars, R!vars
  <2>9. UNCHANGED <<Owner, accepted, uin>> => UNCHANGED R!vars
    BY DEF R!vars
  <2> HIDE DEF Owner
  <2>10. ASSUME NEW s \in Servers,
                \/ CheckUeberzug(s) \/ Mkfifo(s) \/ Serve(s) \/ Signal(s)
                \/ Crash(s) \/ UeberzugFails(s) \/ UeberzugObeys(s)
         PROVE  R!Start(s) \/ R!Stop(s) \/ R!Deliver(s) \/ UNCHANGED R!vars
    <3>1. CASE Mkfifo(s)
      BY <2>1, <2>6, <2>9, <3>1
    <3>2. CASE RemoveFifo(s) \/ Forwards(s)
      BY <2>2, <2>3, <3>2
    <3>3. CASE ~Mkfifo(s) /\ ~RemoveFifo(s) /\ ~Forwards(s)
      <4>1. Silent(s)
        BY <2>10, <3>3 DEF Serve
      <4> HIDE DEF Silent
      <4> QED BY <2>6, <2>9, <4>1
    <3> QED BY <3>1, <3>2, <3>3
  <2>11. ASSUME NEW c \in Clients,
                Launch(c) \/ ConfigError(c) \/ RunScript(c)
         PROVE  \/ UNCHANGED R!vars
                \/ \E s \in Servers, m \in Clients : R!Send(s, m)
    BY <2>4, <2>5, <2>7, <2>9, <2>11 DEF RunScript
  <2>12. QED
    BY <2>8, <2>10, <2>11 DEF Next, ServerNext, R!Next
<1>3. QED
  BY <1>1, <1>2, TypeCorrect, OwnInvariant, StreamInvariant, PTL
  DEF Spec, ImplementsRelay, R!Spec

\* Whatever is at the path of the FIFO is taken away by the server that made
\* it only, at its remove() (checked as PathKept in run server_safety).  The
\* remove() names the path and not the FIFO: OwnInv is what makes the two the
\* same.
THEOREM PathKeptAlways == Spec => PathKept
<1> DEFINE Kept == path # NoPath /\ path' # path
                     => /\ path' = NoPath
                        /\ \E s \in Servers : path = s /\ spc[s] = "remove"
<1>1. OwnInv /\ [Next]_vars => [Kept]_vars
  <2> SUFFICES ASSUME OwnInv, [Next]_vars PROVE Kept \/ UNCHANGED vars
    OBVIOUS
  <2>1. ASSUME NEW s \in Servers, RemoveFifo(s) PROVE Kept
    BY <2>1 DEF RemoveFifo, OwnInv, OwnFifo, Owning
  <2>2. ASSUME NEW s \in Servers, Mkfifo(s) PROVE Kept
    BY <2>2 DEF Mkfifo
  <2>3. ASSUME NEW c \in Clients, OpenWriteFile(c) PROVE Kept
    BY <2>3 DEF OpenWriteFile, Created
  <2>4. ASSUME NEW s \in Servers,
               \/ CheckUeberzug(s) \/ OpenFifo(s) \/ OpenFifoFails(s)
               \/ RegisterSignals(s) \/ SpawnUeberzug(s) \/ SpawnFails(s)
               \/ PollReturns(s) \/ ReadsNothing(s) \/ ReadsExit(s)
               \/ Forwards(s) \/ ForwardKills(s) \/ CloseHungUp(s)
               \/ Reopen(s) \/ ReopenFails(s) \/ Kill(s) \/ WaitUeberzug(s)
               \/ UnregisterSignals(s) \/ CloseFd(s) \/ Signal(s) \/ Crash(s)
               \/ UeberzugFails(s) \/ UeberzugObeys(s)
        PROVE  path' = path
    BY <2>4
    DEF CheckUeberzug, OpenFifo, OpenFifoFails, RegisterSignals,
        SpawnUeberzug, SpawnFails, PollReturns, ReadsNothing, ReadsExit,
        Forwards, ForwardKills, CloseHungUp, Reopen, ReopenFails, Kill,
        WaitUeberzug, UnregisterSignals, CloseFd, Signal, Crash,
        UeberzugFails, UeberzugObeys, UeberzugEnds
  <2>5. ASSUME NEW c \in Clients,
               \/ Launch(c) \/ ConfigError(c) \/ Detect(c) \/ Probe(c)
               \/ OpenWriteFifo(c) \/ Write(c) \/ WriteFails(c)
               \/ CloseWrite(c)
        PROVE  path' = path
    BY <2>5
    DEF Launch, LaunchAs, ConfigError, ConfigErrorAs, Detect, Probe,
        OpenWriteFifo, Write, WriteFails, CloseWrite
  <2> QED
    BY <2>1, <2>2, <2>3, <2>4, <2>5 DEF Next, ServerNext, Serve, RunScript
<1> QED BY <1>1, OwnInvariant, PTL DEF Spec, PathKept

\* Nobody begins to read a FIFO in these steps, so that whoever waits for it
\* has nothing to wake up for.
LEMMA NoReaderComes ==
  ASSUME TypeOK, WakeInv, NEW s \in Servers, NEW l,
         Goto(s, l), UNCHANGED <<cpc, cfifo>>,
         \A t \in Servers : HasReader(t)' => HasReader(t),
         \A t \in Servers \ {s} : fd'[t] = fd[t],
         spc[s] \in {"open", "reopen"} \cup Leaving
           => l \in {"open", "reopen"} \cup Leaving,
         l \in {"register", "spawn", "poll", "read", "hup"} => fd'[s]
  PROVE  WakeInv'
<1>1. ASSUME NEW t \in Servers
      PROVE  spc'[t] = IF t = s THEN l ELSE spc[t]
  BY DEF Goto, TypeOK
<1>2. NoLostWakeup'
  <2> SUFFICES ASSUME NEW c \in Clients, cpc[c] = "blocked"
               PROVE  /\ ~HasReader(cfifo[c])'
                      /\ spc'[cfifo[c]] \in {"open", "reopen"} \cup Leaving
    BY DEF NoLostWakeup
  <2>1. cfifo[c] \in Servers /\ UNCHANGED cfifo
    BY DEF TypeOK
  <2>2. /\ ~HasReader(cfifo[c])
        /\ spc[cfifo[c]] \in {"open", "reopen"} \cup Leaving
    BY DEF WakeInv, NoLostWakeup
  <2>3. ~HasReader(cfifo[c])'
    BY <2>1, <2>2 DEF HasReader, Inherits
  <2> QED BY <1>1, <2>1, <2>2, <2>3
<1>3. ASSUME NEW t \in Servers,
             spc'[t] \in {"register", "spawn", "poll", "read", "hup"}
      PROVE  fd'[t]
  BY <1>1, <1>3 DEF WakeInv
<1> QED BY <1>2, <1>3 DEF WakeInv

\* When a server opens its FIFO, every script that waits for it goes on.
LEMMA ReaderComes ==
  ASSUME TypeOK, WakeInv, NEW s \in Servers, NEW l, Goto(s, l),
         l \in {"register", "poll"},
         fd' = [fd EXCEPT ![s] = TRUE], ueb' = ueb, OpenReadEnd(s)
  PROVE  WakeInv'
<1>1. ASSUME NEW t \in Servers
      PROVE  /\ spc'[t] = IF t = s THEN l ELSE spc[t]
             /\ fd'[t] = IF t = s THEN TRUE ELSE fd[t]
  BY DEF Goto, TypeOK
<1>2. ASSUME NEW c \in Clients, cpc'[c] = "blocked"
      PROVE  cpc[c] = "blocked" /\ cfifo[c] # s /\ cfifo' = cfifo
  BY <1>2 DEF OpenReadEnd
<1>3. NoLostWakeup'
  <2> SUFFICES ASSUME NEW c \in Clients, cpc'[c] = "blocked"
               PROVE  /\ ~HasReader(cfifo[c])'
                      /\ spc'[cfifo[c]] \in {"open", "reopen"} \cup Leaving
    BY <1>2 DEF NoLostWakeup
  <2>1. cpc[c] = "blocked" /\ cfifo[c] # s /\ cfifo' = cfifo
    BY <1>2
  <2>2. cfifo[c] \in Servers
    BY <2>1 DEF TypeOK
  <2>3. /\ ~HasReader(cfifo[c])
        /\ spc[cfifo[c]] \in {"open", "reopen"} \cup Leaving
    BY <2>1 DEF WakeInv, NoLostWakeup
  <2> QED BY <1>1, <2>1, <2>2, <2>3 DEF HasReader, Inherits
<1>4. ASSUME NEW t \in Servers,
             spc'[t] \in {"register", "spawn", "poll", "read", "hup"}
      PROVE  fd'[t]
  BY <1>1, <1>4 DEF WakeInv
<1> QED BY <1>3, <1>4 DEF WakeInv

\* No script hangs before a FIFO that is read, or before a server that polls
\* (checked as NoLostWakeup in run server_safety): the open_fifo() that makes
\* a reader wakes all who wait, a script that finds a reader does not wait,
\* and the server is never past open_fifo() without a read end (WakeInv).
THEOREM WakeInvariant == Spec => []WakeInv
<1>1. Init => WakeInv
  BY DEF Init, WakeInv, NoLostWakeup
<1>2. TypeOK /\ OwnInv /\ WakeInv /\ [Next]_vars => WakeInv'
  <2> SUFFICES ASSUME TypeOK, OwnInv, WakeInv, [Next]_vars PROVE WakeInv'
    OBVIOUS
  <2>1. ASSUME NEW s \in Servers, OpenFifo(s) PROVE WakeInv'
    BY <2>1, ReaderComes DEF OpenFifo
  <2>2. ASSUME NEW s \in Servers, Reopen(s) PROVE WakeInv'
    BY <2>2, ReaderComes DEF Reopen
  <2>3. ASSUME NEW s \in Servers, CheckUeberzug(s) \/ Mkfifo(s)
        PROVE  WakeInv'
    <3>1. PICK l \in {"mkfifo", "open", "done"} : Goto(s, l)
      BY <2>3 DEF CheckUeberzug, Mkfifo
    <3>2. spc[s] \in {"off", "mkfifo"} /\ UNCHANGED <<cpc, cfifo, fd, ueb>>
      BY <2>3 DEF CheckUeberzug, Mkfifo, clientVars
    <3> QED
      BY <3>1, <3>2, NoReaderComes DEF HasReader, Inherits, Leaving, Over
  <2>4. ASSUME NEW s \in Servers, OpenFifoFails(s) \/ ReopenFails(s)
        PROVE  WakeInv'
    <3>1. PICK l \in {"remove", "kill"} : Goto(s, l)
      BY <2>4 DEF OpenFifoFails, ReopenFails
    <3>2. UNCHANGED <<cpc, cfifo, fd, ueb>>
      BY <2>4 DEF OpenFifoFails, ReopenFails, clientVars
    <3> QED
      BY <3>1, <3>2, NoReaderComes DEF HasReader, Inherits, Leaving, Over
  <2>5. ASSUME NEW s \in Servers, RegisterSignals(s) PROVE WakeInv'
    <3>1. Goto(s, "spawn") /\ spc[s] = "register" /\ fd[s]
          /\ UNCHANGED <<cpc, cfifo, fd, ueb>>
      BY <2>5 DEF RegisterSignals, clientVars, WakeInv
    <3> QED BY <3>1, NoReaderComes DEF HasReader, Inherits, Leaving, Over
  <2>6. ASSUME NEW s \in Servers, SpawnUeberzug(s) PROVE WakeInv'
    <3>1. /\ Goto(s, "poll") /\ spc[s] = "spawn" /\ fd[s]
          /\ UNCHANGED <<cpc, cfifo, fd>>
          /\ ueb' = [ueb EXCEPT ![s] = "running"]
      BY <2>6 DEF SpawnUeberzug, clientVars, WakeInv
    <3>2. \A t \in Servers : HasReader(t)' => HasReader(t)
      BY <3>1 DEF HasReader, Inherits, TypeOK
    <3> QED BY <3>1, <3>2, NoReaderComes DEF Leaving, Over
  <2>7. ASSUME NEW s \in Servers, SpawnFails(s) PROVE WakeInv'
    <3>1. PICK l \in {"unregister", "kill"} : Goto(s, l)
      BY <2>7 DEF SpawnFails
    <3>2. UNCHANGED <<cpc, cfifo, fd, ueb>>
      BY <2>7 DEF SpawnFails, clientVars
    <3> QED
      BY <3>1, <3>2, NoReaderComes DEF HasReader, Inherits, Leaving, Over
  <2>8. ASSUME NEW s \in Servers, PollReturns(s) \/ ReadsNothing(s)
        PROVE  WakeInv'
    <3>1. PICK l \in {"kill", "read", "hup", "poll"} : Goto(s, l)
      BY <2>8 DEF PollReturns, ReadsNothing, AfterReading
    <3>2. /\ spc[s] \in {"poll", "read"} /\ fd[s]
          /\ UNCHANGED <<cpc, cfifo, fd, ueb>>
      BY <2>8 DEF PollReturns, ReadsNothing, clientVars, WakeInv
    <3> QED
      BY <3>1, <3>2, NoReaderComes DEF HasReader, Inherits, Leaving, Over
  <2>9. ASSUME NEW s \in Servers, ReadsExit(s) \/ Kill(s) PROVE WakeInv'
    <3>1. PICK l \in {"kill", "wait"} : Goto(s, l)
      BY <2>9 DEF ReadsExit, Kill
    <3>2. UNCHANGED <<cpc, cfifo, fd, ueb>>
      BY <2>9 DEF ReadsExit, Kill, clientVars
    <3> QED
      BY <3>1, <3>2, NoReaderComes DEF HasReader, Inherits, Leaving, Over
  <2>10. ASSUME NEW s \in Servers, Forwards(s) PROVE WakeInv'
    BY <2>10
    DEF Forwards, serverVars, clientVars, WakeInv, NoLostWakeup, HasReader,
        Inherits
  <2>11. ASSUME NEW s \in Servers, ForwardKills(s) \/ CloseHungUp(s)
         PROVE  WakeInv'
    <3>1. PICK l \in {"dead", "reopen"} : Goto(s, l)
      BY <2>11 DEF ForwardKills, CloseHungUp
    <3>2. /\ UNCHANGED <<cpc, cfifo, ueb>>
          /\ fd' = [fd EXCEPT ![s] = FALSE]
      BY <2>11 DEF ForwardKills, CloseHungUp, clientVars
    <3>3. \A t \in Servers : HasReader(t)' => HasReader(t)
      BY <3>2 DEF HasReader, Inherits, TypeOK
    <3> QED BY <3>1, <3>2, <3>3, NoReaderComes DEF Leaving, Over, TypeOK
  <2>12. ASSUME NEW s \in Servers, WaitUeberzug(s) PROVE WakeInv'
    <3>1. /\ Goto(s, "unregister") /\ UNCHANGED <<cpc, cfifo, fd>>
          /\ ueb' = [ueb EXCEPT ![s] = IF @ = "zombie" THEN "reaped" ELSE @]
          /\ spc[s] = "wait"
      BY <2>12 DEF WaitUeberzug, clientVars
    <3>2. \A t \in Servers : HasReader(t)' => HasReader(t)
      BY <3>1 DEF HasReader, Inherits, TypeOK
    <3> QED BY <3>1, <3>2, NoReaderComes DEF Leaving, Over
  <2>13. ASSUME NEW s \in Servers, UnregisterSignals(s) \/ RemoveFifo(s)
         PROVE  WakeInv'
    <3>1. PICK l \in {"closefd", "done"} : Goto(s, l)
      BY <2>13 DEF UnregisterSignals, RemoveFifo
    <3>2. UNCHANGED <<cpc, cfifo, fd, ueb>>
      BY <2>13 DEF UnregisterSignals, RemoveFifo, clientVars
    <3> QED
      BY <3>1, <3>2, NoReaderComes DEF HasReader, Inherits, Leaving, Over
  <2>14. ASSUME NEW s \in Servers, CloseFd(s) \/ Crash(s) PROVE WakeInv'
    <3>1. PICK l \in {"remove", "dead"} : Goto(s, l)
      BY <2>14 DEF CloseFd, Crash
    <3>2. /\ UNCHANGED <<cpc, cfifo, ueb>>
          /\ fd' = [fd EXCEPT ![s] = FALSE]
      BY <2>14 DEF CloseFd, Crash, clientVars
    <3>3. \A t \in Servers : HasReader(t)' => HasReader(t)
      BY <3>2 DEF HasReader, Inherits, TypeOK
    <3> QED BY <3>1, <3>2, <3>3, NoReaderComes DEF Leaving, Over, TypeOK
  <2>15. ASSUME NEW s \in Servers, Signal(s) PROVE WakeInv'
    <3>1. UNCHANGED <<cpc, cfifo, ueb>>
      BY <2>15 DEF Signal, clientVars
    <3>2. CASE spc[s] \in HandlersOn
      <4>1. PICK l \in {"kill", spc[s]} : Goto(s, l)
        BY <2>15, <3>2 DEF Signal
      <4>2. UNCHANGED fd
        BY <2>15, <3>2 DEF Signal
      <4> QED
        BY <3>1, <4>1, <4>2, NoReaderComes
        DEF HasReader, Inherits, Leaving, Over, WakeInv
    <3>3. CASE spc[s] \notin HandlersOn
      <4>1. Goto(s, "dead") /\ fd' = [fd EXCEPT ![s] = FALSE]
        BY <2>15, <3>3 DEF Signal
      <4>2. \A t \in Servers : HasReader(t)' => HasReader(t)
        BY <3>1, <4>1 DEF HasReader, Inherits, TypeOK
      <4> QED BY <3>1, <4>1, <4>2, NoReaderComes DEF Leaving, Over, TypeOK
    <3> QED BY <3>2, <3>3
  <2>16. ASSUME NEW s \in Servers, UeberzugFails(s) \/ UeberzugObeys(s)
         PROVE  WakeInv'
    <3>1. /\ UNCHANGED <<spc, fd, cpc, cfifo>>
          /\ ueb' = [ueb EXCEPT ![s] = "zombie"]
      BY <2>16
      DEF UeberzugFails, UeberzugObeys, UeberzugEnds, serverVars, clientVars
    <3> QED
      BY <3>1 DEF WakeInv, NoLostWakeup, HasReader, Inherits, TypeOK
  <2>17. ASSUME NEW c \in Clients, OpenWriteFifo(c) PROVE WakeInv'
    <3>1. PICK s \in Servers :
            /\ path = s /\ cfifo' = [cfifo EXCEPT ![c] = s]
            /\ Move(c, "openw", IF HasReader(s) THEN "write" ELSE "blocked")
      BY <2>17 DEF OpenWriteFifo
    <3>2. UNCHANGED <<spc, fd, ueb>>
      BY <2>17 DEF OpenWriteFifo, serverVars
    <3>3. spc[s] \notin {"off", "mkfifo", "done"}
      BY <3>1 DEF OwnInv
    <3>4. ~HasReader(s) => spc[s] \in {"open", "reopen"} \cup Leaving
      BY <3>3 DEF HasReader, WakeInv, Leaving, Over, ServerPC, TypeOK
    <3> QED
      BY <3>1, <3>2, <3>4
      DEF Move, WakeInv, NoLostWakeup, HasReader, Inherits, TypeOK
  <2>18. ASSUME NEW c \in Clients,
                \/ Launch(c) \/ ConfigError(c) \/ Detect(c) \/ Probe(c)
                \/ OpenWriteFile(c) \/ Write(c)
         PROVE  WakeInv'
    <3>1. UNCHANGED <<spc, fd, ueb, cfifo>>
      BY <2>18
      DEF Launch, LaunchAs, ConfigError, ConfigErrorAs, Detect, Probe,
          OpenWriteFile, Write, serverVars
    <3>2. PICK l \in {"detect", "probe", "openw", "close", "done"} :
            cpc' = [cpc EXCEPT ![c] = l]
      BY <2>18
      DEF Launch, LaunchAs, ConfigError, ConfigErrorAs, Detect, Probe,
          OpenWriteFile, Write, Move
    <3>3. \A d \in Clients : cpc'[d] = "blocked" => cpc[d] = "blocked"
      BY <3>2 DEF TypeOK
    <3> QED BY <3>1, <3>3 DEF WakeInv, NoLostWakeup, HasReader, Inherits
  <2>19. ASSUME NEW c \in Clients, WriteFails(c) \/ CloseWrite(c)
         PROVE  WakeInv'
    <3>1. /\ UNCHANGED <<spc, fd, ueb>>
          /\ cpc' = [cpc EXCEPT ![c] = "done"]
          /\ cfifo' = [cfifo EXCEPT ![c] = NoPath]
      BY <2>19 DEF WriteFails, CloseWrite, Move, serverVars
    <3> QED BY <3>1 DEF WakeInv, NoLostWakeup, HasReader, Inherits, TypeOK
  <2>20. CASE UNCHANGED vars
    BY <2>20
    DEF vars, clientVars, WakeInv, NoLostWakeup, HasReader, Inherits
  <2>21. QED
    BY <2>1, <2>2, <2>3, <2>4, <2>5, <2>6, <2>7, <2>8, <2>9, <2>10, <2>11,
      <2>12, <2>13, <2>14, <2>15, <2>16, <2>17, <2>18, <2>19, <2>20
    DEF Next, ServerNext, Serve, RunScript
<1>3. QED
  BY <1>1, <1>2, TypeCorrect, OwnInvariant, PTL DEF Spec

THEOREM NoLostWakeupAlways == Spec => []NoLostWakeup
BY WakeInvariant, PTL DEF WakeInv
=============================================================================
