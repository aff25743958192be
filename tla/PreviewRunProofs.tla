-------------------------- MODULE PreviewRunProofs --------------------------
(***************************************************************************)
(* Proofs about PreviewRun for every list length, pipe capacity and bound. *)
(***************************************************************************)
EXTENDS PreviewRun, SequenceTheorems, TLAPS

\* Writing to a pipe and reading from it keep what it holds in order: the
\* parts of the output add up to the same whole.
LEMMA DrainKeeps ==
  ASSUME NEW S, NEW a \in Seq(S), NEW q \in Seq(S), q # <<>>
  PROVE  /\ Append(a, Head(q)) \in Seq(S)
         /\ Tail(q) \in Seq(S)
         /\ Append(a, Head(q)) \o Tail(q) = a \o q
<1>1. Head(q) \in S /\ Tail(q) \in Seq(S) /\ q = <<Head(q)>> \o Tail(q)
  BY HeadTailProperties
<1>2. Append(a, Head(q)) = a \o <<Head(q)>>
  BY <1>1, AppendIsConcat
<1>3. <<Head(q)>> \in Seq(S)
  BY <1>1
<1>4. (a \o <<Head(q)>>) \o Tail(q) = a \o (<<Head(q)>> \o Tail(q))
  BY <1>1, <1>3, ConcatAssociative
<1> QED BY <1>1, <1>2, <1>4, AppendProperties

\* One more write makes the output one longer.
LEMMA WholeGrows ==
  ASSUME NEW k, NEW n \in Nat
  PROVE  Append([m \in 1 .. n |-> <<k, m>>], <<k, n + 1>>)
           = [m \in 1 .. n + 1 |-> <<k, m>>]
<1> DEFINE w == [m \in 1 .. n |-> <<k, m>>]
<1>1. w \in Seq({k} \X Nat) /\ Len(w) = n
  OBVIOUS
<1>2. Append(w, <<k, n + 1>>)
        = [m \in 1 .. n + 1 |-> IF m = n + 1 THEN <<k, n + 1>> ELSE w[m]]
  BY <1>1
<1> QED BY <1>2

\* The variables keep their types, and ctpv waits exactly as long as a script
\* runs.
LEMMA TypeStep == Spec => [](TypeOK /\ InStep)
<1>1. Init => TypeOK
  <2> SUFFICES ASSUME Init PROVE TypeOK
    OBVIOUS
  <2>1. i \in 1 .. Last + 1 /\ wrote \in Nat
    BY PreviewRunAssumption DEF Init
  <2>2. pipe \in Seq(Nat \X Nat) /\ shown \in Seq(Nat \X Nat)
    BY EmptySeq DEF Init
  <2> QED BY <2>1, <2>2 DEF Init, TypeOK, PC
<1>2. Init => InStep
  BY DEF Init, InStep
<1>3. TypeOK /\ InStep /\ [Next]_vars => TypeOK'
  <2> SUFFICES ASSUME TypeOK, InStep, [Next]_vars PROVE TypeOK'
    OBVIOUS
  <2> USE PreviewRunAssumption DEF Goto, PC, Positions
  <2>1. ASSUME FindPreview PROVE TypeOK'
    BY <2>1 DEF FindPreview, FirstMatch, TypeOK
  <2>2. ASSUME FindNothing PROVE TypeOK'
    BY <2>2 DEF FindNothing, Return, TypeOK
  <2>3. ASSUME Pipe PROVE TypeOK'
    BY <2>3, EmptySeq DEF Pipe, TypeOK
  <2>4. ASSUME PipeFails PROVE TypeOK'
    BY <2>4 DEF PipeFails, Return, TypeOK
  <2>5. ASSUME Fork PROVE TypeOK'
    BY <2>5 DEF Fork, TypeOK
  <2>6. ASSUME ForkFails PROVE TypeOK'
    BY <2>6 DEF ForkFails, TypeOK
  <2>7. ASSUME SpawnWait PROVE TypeOK'
    BY <2>7 DEF SpawnWait, ScriptEnded, TypeOK
  <2>8. ASSUME CloseWriteEnd PROVE TypeOK'
    BY <2>8 DEF CloseWriteEnd, ClosesWriteEnd, TypeOK
  <2>9. ASSUME Drain PROVE TypeOK'
    <3>1. shown' \in Seq(Nat \X Nat) /\ pipe' \in Seq(Nat \X Nat)
      BY <2>9, DrainKeeps DEF Drain, TypeOK
    <3> QED BY <2>9, <3>1 DEF Drain, ctpvVars, TypeOK
  <2>10. ASSUME DrainEnds PROVE TypeOK'
    BY <2>10 DEF DrainEnds, TypeOK
  <2>11. ASSUME CloseReadEnd PROVE TypeOK'
    BY <2>11 DEF CloseReadEnd, Return, TypeOK
  <2>12. ASSUME NextPreview PROVE TypeOK'
    <3>1. i \in Positions
      BY <2>12 DEF NextPreview, InStep, TypeOK
    <3> QED BY <2>12, <3>1 DEF NextPreview, NextIndex, TypeOK
  <2>13. ASSUME Finish PROVE TypeOK'
    BY <2>13 DEF Finish, Return, TypeOK
  <2>14. ASSUME StartWrite PROVE TypeOK'
    BY <2>14 DEF StartWrite, ctpvVars, TypeOK
  <2>15. ASSUME FinishWrite PROVE TypeOK'
    <3>1. pipe' \in Seq(Nat \X Nat) /\ wrote' \in Nat
      BY <2>15, AppendProperties DEF FinishWrite, TypeOK
    <3> QED BY <2>15, <3>1 DEF FinishWrite, ctpvVars, TypeOK
  <2>16. ASSUME Exit PROVE TypeOK'
    <3>1. i \in Positions
      BY <2>16 DEF Exit, InStep, TypeOK
    <3>2. child' \in ExitKinds /\ bg' \in BOOLEAN
      BY <2>16 DEF Exit
    <3>3. tried' \subseteq Positions
      BY <2>16, <3>1 DEF Exit, TypeOK
    <3> QED BY <2>16, <3>2, <3>3 DEF Exit, ctpvVars, TypeOK
  <2>17. ASSUME LingererEnds PROVE TypeOK'
    BY <2>17, ZenonT(40) DEF LingererEnds, ctpvVars, TypeOK
  <2>19. ASSUME DrainRest PROVE TypeOK'
    BY <2>19 DEF DrainRest, ctpvVars, TypeOK
  <2>20. ASSUME ReadFails PROVE TypeOK'
    BY <2>20 DEF ReadFails, TypeOK
  <2>21. ASSUME LingererWrites PROVE TypeOK'
    BY <2>21 DEF LingererWrites, ctpvVars, TypeOK
  <2>18. ASSUME UNCHANGED vars PROVE TypeOK'
    BY <2>18 DEF vars, TypeOK
  <2> QED
    BY <2>1, <2>2, <2>3, <2>4, <2>5, <2>6, <2>7, <2>8, <2>9, <2>10, <2>11,
       <2>12, <2>13, <2>14, <2>15, <2>16, <2>17, <2>18, <2>19, <2>20,
       <2>21
    DEF Next, Ctpv, Script, Lingerer
<1>4. TypeOK /\ InStep /\ [Next]_vars => InStep'
  <2> SUFFICES ASSUME TypeOK, InStep, [Next]_vars PROVE InStep'
    OBVIOUS
  <2>1. CASE Ctpv
    <3>1. CASE FindPreview \/ FindNothing \/ Pipe \/ PipeFails
      BY <3>1 DEF FindPreview, FirstMatch, FindNothing, Pipe, PipeFails, Goto,
        Return, InStep
    <3>2. CASE Fork \/ ForkFails \/ SpawnWait \/ CloseWriteEnd
      BY <3>2 DEF Fork, ForkFails, SpawnWait, CloseWriteEnd, Goto, InStep
    <3>3. CASE Drain \/ DrainRest \/ ReadFails
      BY <3>3 DEF Drain, DrainRest, ReadFails, ctpvVars, Goto, InStep
    <3>4. CASE DrainEnds \/ CloseReadEnd
      BY <3>4 DEF DrainEnds, CloseReadEnd, Goto, Return, InStep
    <3>5. CASE NextPreview \/ Finish
      BY <3>5 DEF NextPreview, Finish, Goto, Return, InStep
    <3> QED BY <2>1, <3>1, <3>2, <3>3, <3>4, <3>5 DEF Ctpv
  <2>2. CASE Script \/ Lingerer
    BY <2>2 DEF Script, StartWrite, FinishWrite, Exit, ExitKinds, Lingerer,
      LingererWrites, LingererEnds, ctpvVars, InStep
  <2>3. CASE UNCHANGED vars
    BY <2>3 DEF vars, InStep
  <2> QED BY <2>1, <2>2, <2>3 DEF Next
<1> QED BY <1>1, <1>2, <1>3, <1>4, PTL DEF Spec

\* The variables keep their types (checked as TypeOK in run preview_run).
THEOREM TypeCorrect == Spec => []TypeOK
BY TypeStep, PTL

\* Where descriptors are open and whose status is known (see StatusInv).
LEMMA StatusInvariant == Spec => []StatusInv
<1>1. Init => StatusInv
  BY DEF Init, ExitKinds, StatusInv
<1>2. TypeOK /\ InStep /\ StatusInv /\ [Next]_vars => StatusInv'
  <2> SUFFICES ASSUME TypeOK, InStep, StatusInv, [Next]_vars PROVE StatusInv'
    OBVIOUS
  <2> USE DEF StatusInv, Goto, Return
  <2>1. ASSUME FindPreview PROVE StatusInv'
    BY <2>1 DEF FindPreview, InStep, ExitKinds
  <2>2. ASSUME FindNothing PROVE StatusInv'
    BY <2>2 DEF FindNothing, InStep, ExitKinds
  <2>3. ASSUME Pipe PROVE StatusInv'
    BY <2>3 DEF Pipe
  <2>4. ASSUME PipeFails PROVE StatusInv'
    BY <2>4 DEF PipeFails
  <2>5. ASSUME Fork PROVE StatusInv'
    BY <2>5 DEF Fork, ExitKinds
  <2>6. ASSUME ForkFails PROVE StatusInv'
    BY <2>6 DEF ForkFails
  <2>7. ASSUME SpawnWait PROVE StatusInv'
    <3>1. status' \in ExitKinds /\ status' = last' /\ i' \in tried'
      BY <2>7 DEF SpawnWait, ScriptEnded
    <3> QED BY <2>7, <3>1 DEF SpawnWait, ExitKinds
  <2>8. ASSUME CloseWriteEnd PROVE StatusInv'
    BY <2>8 DEF CloseWriteEnd, ClosesWriteEnd, Skips
  <2>9. ASSUME Drain PROVE StatusInv'
    BY <2>9 DEF Drain, ctpvVars
  <2>10. ASSUME DrainEnds PROVE StatusInv'
    BY <2>10 DEF DrainEnds
  <2>11. ASSUME CloseReadEnd PROVE StatusInv'
    BY <2>11 DEF CloseReadEnd
  <2>12. ASSUME NextPreview PROVE StatusInv'
    BY <2>12 DEF NextPreview, InStep, ExitKinds
  <2>13. ASSUME Finish PROVE StatusInv'
    BY <2>13 DEF Finish
  <2>14. ASSUME StartWrite PROVE StatusInv'
    BY <2>14 DEF StartWrite, ctpvVars, ExitKinds
  <2>15. ASSUME FinishWrite PROVE StatusInv'
    BY <2>15 DEF FinishWrite, ctpvVars, ExitKinds
  <2>16. ASSUME Exit PROVE StatusInv'
    BY <2>16 DEF Exit, ctpvVars, InStep
  <2>17. ASSUME LingererEnds PROVE StatusInv'
    BY <2>17 DEF LingererEnds, ctpvVars
  <2>19. ASSUME DrainRest PROVE StatusInv'
    BY <2>19 DEF DrainRest, ctpvVars
  <2>20. ASSUME ReadFails PROVE StatusInv'
    BY <2>20 DEF ReadFails
  <2>21. ASSUME LingererWrites PROVE StatusInv'
    BY <2>21 DEF LingererWrites, ctpvVars
  <2>18. ASSUME UNCHANGED vars PROVE StatusInv'
    BY <2>18 DEF vars
  <2> QED
    BY <2>1, <2>2, <2>3, <2>4, <2>5, <2>6, <2>7, <2>8, <2>9, <2>10, <2>11,
       <2>12, <2>13, <2>14, <2>15, <2>16, <2>17, <2>18, <2>19, <2>20,
       <2>21
    DEF Next, Ctpv, Script, Lingerer
<1> QED BY <1>1, <1>2, TypeStep, PTL DEF Spec

\* preview_run() judges a preview by the status of its own script, and leaks no
\* end of a pipe (checked as OwnStatus in run preview_run).
THEOREM OwnStatusAlways == Spec => []OwnStatus
<1>1. InStep /\ StatusInv => OwnStatus
  BY DEF InStep, StatusInv, OwnStatus
<1> QED BY <1>1, TypeStep, StatusInvariant, PTL
\* Output is lost or mixed up nowhere between the script and ctpv.
LEMMA OutputStep == Spec => []ErrorInv
<1>1. Init => ErrorInv
  BY DEF Init, ErrorInv
<1>2. TypeOK /\ InStep /\ StatusInv /\ ErrorInv /\ [Next]_vars => ErrorInv'
  <2> SUFFICES ASSUME TypeOK, InStep, StatusInv, ErrorInv, [Next]_vars
               PROVE  ErrorInv'
    OBVIOUS
  <2> USE DEF ErrorInv, Whole, Goto, Return
  <2>1. ASSUME FindPreview PROVE ErrorInv'
    BY <2>1 DEF FindPreview
  <2>2. ASSUME FindNothing PROVE ErrorInv'
    BY <2>2 DEF FindNothing
  <2>3. ASSUME Pipe PROVE ErrorInv'
    BY <2>3 DEF Pipe
  <2>4. ASSUME PipeFails PROVE ErrorInv'
    BY <2>4 DEF PipeFails
  <2>5. ASSUME Fork PROVE ErrorInv'
    BY <2>5 DEF Fork
  <2>6. ASSUME ForkFails PROVE ErrorInv'
    BY <2>6 DEF ForkFails
  <2>7. ASSUME SpawnWait PROVE ErrorInv'
    BY <2>7 DEF SpawnWait
  <2>8. ASSUME CloseWriteEnd PROVE ErrorInv'
    <3>1. pipe \in Seq(Nat \X Nat) /\ <<>> \o pipe = pipe
      BY ConcatEmptySeq DEF TypeOK
    <3> QED BY <2>8, <3>1 DEF CloseWriteEnd, ClosesWriteEnd, Skips
  <2>9. ASSUME Drain PROVE ErrorInv'
    <3> DEFINE Write == Nat \X Nat
    <3>1. shown \in Seq(Write) /\ pipe \in Seq(Write) /\ pipe # <<>>
      BY <2>9 DEF Drain, TypeOK
    <3> HIDE DEF Write
    <3>2. Append(shown, Head(pipe)) \o Tail(pipe) = shown \o pipe
      BY <3>1, DrainKeeps
    <3>3. shown' \o pipe' = shown \o pipe
      BY <2>9, <3>2 DEF Drain
    <3> QED BY <2>9, <3>3 DEF Drain, ctpvVars
  <2>10. ASSUME DrainEnds PROVE ErrorInv'
    <3>1. shown \o <<>> = shown
      BY ConcatEmptySeq DEF TypeOK
    <3> QED BY <2>10, <3>1 DEF DrainEnds, EndOfPipe, StatusInv
  <2>11. ASSUME CloseReadEnd PROVE ErrorInv'
    BY <2>11 DEF CloseReadEnd
  <2>12. ASSUME NextPreview PROVE ErrorInv'
    BY <2>12 DEF NextPreview, Failed, StatusInv
  <2>13. ASSUME Finish PROVE ErrorInv'
    BY <2>13 DEF Finish
  <2>14. ASSUME StartWrite PROVE ErrorInv'
    BY <2>14 DEF StartWrite, ctpvVars
  <2>15. ASSUME FinishWrite PROVE ErrorInv'
    <3>1. pc = "wait"
      BY <2>15 DEF FinishWrite, InStep
    <3>2. pipe = [m \in 1 .. wrote |-> <<i, m>>] /\ wrote \in Nat
      BY <3>1 DEF StatusInv, TypeOK
    <3>3. pipe' = [m \in 1 .. wrote + 1 |-> <<i, m>>]
      BY <2>15, <3>2, WholeGrows DEF FinishWrite
    <3>4. pipe' = Whole'
      BY <2>15, <3>3 DEF FinishWrite, ctpvVars
    <3> QED BY <2>15, <3>1, <3>4 DEF FinishWrite, ctpvVars
  <2>16. ASSUME Exit PROVE ErrorInv'
    <3>1. pc = "wait" /\ pc' = "wait" /\ child' \in ExitKinds
      BY <2>16 DEF Exit, ctpvVars, InStep
    <3> QED BY <2>16, <3>1 DEF Exit, ctpvVars, ExitKinds
  <2>17. ASSUME LingererEnds PROVE ErrorInv'
    BY <2>17 DEF LingererEnds, ctpvVars
  <2>19. ASSUME DrainRest PROVE ErrorInv'
    BY <2>19 DEF DrainRest, ctpvVars
  <2>20. ASSUME ReadFails PROVE ErrorInv'
    BY <2>20 DEF ReadFails
  <2>21. ASSUME LingererWrites PROVE ErrorInv'
    BY <2>21 DEF LingererWrites, ctpvVars
  <2>18. ASSUME UNCHANGED vars PROVE ErrorInv'
    BY <2>18 DEF vars
  <2> QED
    BY <2>1, <2>2, <2>3, <2>4, <2>5, <2>6, <2>7, <2>8, <2>9, <2>10, <2>11,
       <2>12, <2>13, <2>14, <2>15, <2>16, <2>17, <2>18, <2>19, <2>20,
       <2>21
    DEF Next, Ctpv, Script, Lingerer
<1> QED BY <1>1, <1>2, TypeStep, StatusInvariant, PTL DEF Spec

\* The script that decides has its whole standard error printed, in order and
\* without a line of another script (checked as WholeError in preview_run).
THEOREM WholeErrorAlways == Spec => []WholeError
<1>1. StatusInv /\ ErrorInv => WholeError
  BY DEF StatusInv, ErrorInv, Whole, WholeError
<1> QED BY <1>1, StatusInvariant, OutputStep, PTL
\* Every script that has run handed over, but the latest (see ChainInv).
LEMMA ChainStep == Spec => []ChainInv
<1>1. Init => ChainInv
  <2> SUFFICES ASSUME Init PROVE ChainInv
    OBVIOUS
  <2>1. \A k \in matches : ~(k < i)
    BY PreviewRunAssumption DEF Init, Positions
  <2>2. tried = Before(i)
    BY <2>1 DEF Init, Before
  <2> QED BY <2>2 DEF Init, Pending, ChainInv
<1>2. TypeOK /\ InStep /\ StatusInv /\ ChainInv /\ [Next]_vars => ChainInv'
  <2> SUFFICES ASSUME TypeOK, InStep, StatusInv, ChainInv, [Next]_vars
               PROVE  ChainInv'
    OBVIOUS
  <2> USE DEF ChainInv, Pending, Before, Goto, Return
  <2>1. ASSUME FindPreview PROVE ChainInv'
    <3>1. PICK j \in Positions : FirstMatch(j) /\ i' = j
      BY <2>1 DEF FindPreview
    <3>2. \A k \in matches : k < i <=> k < j
      BY <3>1 DEF FirstMatch, Positions, TypeOK
    <3>3. tried' = Before(i)'
      BY <2>1, <3>1, <3>2 DEF FindPreview
    <3> QED BY <2>1, <3>3 DEF FindPreview
  <2>2. ASSUME FindNothing PROVE ChainInv'
    BY <2>2 DEF FindNothing
  <2>3. ASSUME Pipe PROVE ChainInv'
    BY <2>3 DEF Pipe
  <2>4. ASSUME PipeFails PROVE ChainInv'
    BY <2>4 DEF PipeFails
  <2>5. ASSUME Fork PROVE ChainInv'
    BY <2>5 DEF Fork
  <2>6. ASSUME ForkFails PROVE ChainInv'
    BY <2>6 DEF ForkFails
  <2>7. ASSUME SpawnWait PROVE ChainInv'
    BY <2>7 DEF SpawnWait, ScriptEnded, ExitKinds
  <2>8. ASSUME CloseWriteEnd PROVE ChainInv'
    BY <2>8 DEF CloseWriteEnd, ClosesWriteEnd, Skips
  <2>9. ASSUME Drain PROVE ChainInv'
    BY <2>9 DEF Drain, ctpvVars
  <2>10. ASSUME DrainEnds PROVE ChainInv'
    BY <2>10 DEF DrainEnds
  <2>11. ASSUME CloseReadEnd PROVE ChainInv'
    BY <2>11 DEF CloseReadEnd
  <2>12. ASSUME NextPreview PROVE ChainInv'
    BY <2>12 DEF NextPreview, NextIndex, Failed, StatusInv
  <2>13. ASSUME Finish PROVE ChainInv'
    BY <2>13 DEF Finish
  <2>14. ASSUME StartWrite PROVE ChainInv'
    BY <2>14 DEF StartWrite, ctpvVars
  <2>15. ASSUME FinishWrite PROVE ChainInv'
    BY <2>15 DEF FinishWrite, ctpvVars
  <2>16. ASSUME Exit PROVE ChainInv'
    <3>1. pc = "wait" /\ i \in matches /\ tried = Before(i)
      BY <2>16 DEF Exit, InStep
    <3>2. \A k \in matches : k < i + 1 <=> k < i \/ k = i
      BY DEF Positions, TypeOK
    <3>3. tried' = Before(i + 1)'
      BY <2>16, <3>1, <3>2 DEF Exit, ctpvVars
    <3> QED BY <2>16, <3>1, <3>3 DEF Exit, ctpvVars, ExitKinds
  <2>17. ASSUME LingererEnds PROVE ChainInv'
    BY <2>17 DEF LingererEnds, ctpvVars
  <2>19. ASSUME DrainRest PROVE ChainInv'
    BY <2>19 DEF DrainRest, ctpvVars
  <2>20. ASSUME ReadFails PROVE ChainInv'
    BY <2>20 DEF ReadFails
  <2>21. ASSUME LingererWrites PROVE ChainInv'
    BY <2>21 DEF LingererWrites, ctpvVars
  <2>18. ASSUME UNCHANGED vars PROVE ChainInv'
    BY <2>18 DEF vars
  <2> QED
    BY <2>1, <2>2, <2>3, <2>4, <2>5, <2>6, <2>7, <2>8, <2>9, <2>10, <2>11,
       <2>12, <2>13, <2>14, <2>15, <2>16, <2>17, <2>18, <2>19, <2>20,
       <2>21
    DEF Next, Ctpv, Script, Lingerer
<1> QED BY <1>1, <1>2, TypeStep, StatusInvariant, PTL DEF Spec

\* The previews that match a file are tried in the order of the list until one
\* does not hand over, which decides the result: the steps of ctpv, of the
\* scripts and of the pipe implement PreviewChain (checked as ImplementsChain
\* in run preview_run).
THEOREM Implementation == Spec => ImplementsChain
<1>1. Init => Chain!Init
  BY DEF Init, Chain!Init, Positions
<1>2. TypeOK /\ InStep /\ StatusInv /\ ChainInv /\ [Next]_vars
        => [Chain!Next]_Chain!vars
  <2> SUFFICES ASSUME TypeOK, InStep, StatusInv, ChainInv, [Next]_vars
               PROVE  Chain!Next \/ UNCHANGED Chain!vars
    OBVIOUS
  <2> USE DEF Chain!vars, Goto, Return
  <2>1. CASE Exit
    <3>1. i \in matches /\ tried = Before(i)
      BY <2>1 DEF Exit, InStep, ChainInv, Pending
    <3>2. result = "none" /\ last \in {"none", "missing"}
      BY <2>1 DEF Exit, InStep, ChainInv, Pending
    <3>3. i \in matches \ tried /\ \A k \in matches \ tried : i <= k
      BY <3>1 DEF Before, Positions, TypeOK
    <3>4. Chain!Try(i)
      BY <2>1, <3>2, <3>3 DEF Exit, ctpvVars, Chain!Try
    <3> QED BY <3>1, <3>4 DEF Chain!Next
  <2>2. CASE Finish
    <3>1. status = last /\ last \in ExitKinds \ {"missing"}
      BY <2>2 DEF Finish, Failed, StatusInv
    <3>2. result = "none"
      BY <2>2 DEF Finish, ChainInv
    <3> QED BY <2>2, <3>1, <3>2 DEF Finish, Chain!Judge, Chain!Next
  <2>3. CASE FindNothing
    <3>1. result = "none" /\ last \in {"none", "missing"} /\ tried = Before(i)
      BY <2>3 DEF FindNothing, ChainInv, Pending
    <3>2. matches \subseteq tried
      BY <2>3, <3>1 DEF FindNothing, Before, Positions, TypeOK
    <3> QED BY <2>3, <3>1, <3>2 DEF FindNothing, Chain!GiveUp, Chain!Next
  <2>4. CASE PipeFails
    BY <2>4 DEF PipeFails, ChainInv, Chain!Abort, Chain!Next
  <2>5. CASE CloseReadEnd
    <3>1. CASE ret = "OK"
      BY <2>5, <3>1 DEF CloseReadEnd
    <3>2. CASE ret # "OK"
      BY <2>5, <3>2 DEF CloseReadEnd, ChainInv, StatusInv, Chain!Abort,
        Chain!Next
    <3> QED BY <3>1, <3>2
  <2>6. CASE FindPreview \/ Pipe \/ Fork \/ ForkFails \/ SpawnWait
    BY <2>6 DEF FindPreview, Pipe, Fork, ForkFails, SpawnWait
  <2>7. CASE CloseWriteEnd \/ DrainEnds \/ NextPreview
    BY <2>7 DEF CloseWriteEnd, DrainEnds, NextPreview
  <2>10. CASE Drain \/ DrainRest \/ ReadFails
    BY <2>10 DEF Drain, DrainRest, ReadFails, ctpvVars
  <2>8. CASE StartWrite \/ FinishWrite \/ Lingerer
    BY <2>8 DEF StartWrite, FinishWrite, Lingerer, LingererWrites,
      LingererEnds, ctpvVars
  <2>9. CASE UNCHANGED vars
    BY <2>9 DEF vars
  <2> QED
    BY <2>1, <2>2, <2>3, <2>4, <2>5, <2>6, <2>7, <2>8, <2>9, <2>10
    DEF Next, Ctpv, Script
<1> QED
  BY <1>1, <1>2, TypeStep, StatusInvariant, ChainStep, PTL
  DEF Spec, ImplementsChain, Chain!Spec

-----------------------------------------------------------------------------
\* ctpv and the script wait for each other only at a full pipe, and ctpv for a
\* process that was left behind (checked as HangsOnly in run preview_run): in
\* waitpid() there is a script, and in read() ctpv itself and the script have
\* closed the write end.
THEOREM HangsOnlyAlways == Spec => []HangsOnly
<1>1. TypeOK /\ InStep /\ StatusInv => HangsOnly
  <2> SUFFICES ASSUME TypeOK, InStep, StatusInv PROVE HangsOnly
    OBVIOUS
  <2>1. CASE pc = "wait"
    <3>1. child \in ExitKinds \cup {"running", "writing"}
      BY <2>1 DEF InStep, TypeOK
    <3>2. Len(pipe) \in Nat /\ Cap \in Nat
      BY LenProperties, PreviewRunAssumption DEF TypeOK
    <3> QED
      BY <2>1, <3>1, <3>2
      DEF HangsOnly, CtpvGoesOn, ScriptGoesOn, ScriptEnded
  <2>2. CASE pc = "drain"
    <3>1. child = "none" /\ ~wfd /\ noise \in Nat
      BY <2>2 DEF InStep, StatusInv, TypeOK
    <3> QED
      BY <2>2, <3>1 DEF HangsOnly, CtpvGoesOn, EndOfPipe
  <2>3. CASE pc \in PC \ {"wait", "drain"}
    BY <2>3 DEF HangsOnly, CtpvGoesOn, PC
  <2> QED BY <2>1, <2>2, <2>3 DEF TypeOK, PC
<1> QED BY <1>1, TypeStep, StatusInvariant, PTL

\* A script keeps to the bound on its writes.
LEMMA BoundInvariant == Spec => []BoundInv
<1> USE PreviewRunAssumption
<1>1. Init => BoundInv
  BY DEF Init, BoundInv
<1>2. TypeOK /\ InStep /\ BoundInv /\ [Next]_vars => BoundInv'
  <2> SUFFICES ASSUME TypeOK, InStep, BoundInv, [Next]_vars PROVE BoundInv'
    OBVIOUS
  <2>1. CASE FindPreview \/ FindNothing \/ Pipe \/ PipeFails
    BY <2>1 DEF FindPreview, FindNothing, Pipe, PipeFails, BoundInv
  <2>2. CASE Fork
    BY <2>2 DEF Fork, BoundInv
  <2>3. CASE ForkFails \/ SpawnWait \/ CloseWriteEnd \/ Drain \/ DrainRest
    BY <2>3 DEF ForkFails, SpawnWait, CloseWriteEnd, Drain, DrainRest,
      BoundInv
  <2>9. CASE ReadFails \/ DrainEnds \/ CloseReadEnd \/ NextPreview \/ Finish
    BY <2>9 DEF ReadFails, DrainEnds, CloseReadEnd, NextPreview, Finish,
      BoundInv
  <2>4. CASE Lingerer
    BY <2>4 DEF Lingerer, LingererWrites, LingererEnds, BoundInv
  <2>5. CASE StartWrite
    BY <2>5 DEF StartWrite, BoundInv
  <2>6. CASE FinishWrite
    BY <2>6 DEF FinishWrite, BoundInv, TypeOK
  <2>7. CASE Exit
    BY <2>7 DEF Exit, ExitKinds, BoundInv
  <2>8. CASE UNCHANGED vars
    BY <2>8 DEF vars, BoundInv
  <2> QED
    BY <2>1, <2>2, <2>3, <2>4, <2>5, <2>6, <2>7, <2>8, <2>9
    DEF Next, Ctpv, Script
<1> QED BY <1>1, <1>2, TypeStep, PTL DEF Spec

\* The measure is a sum of natural numbers.
Behind == (Last + 1 - i) * PerPreview

Sum(b, w, u, g, a, l) == b + 3 * (MaxErr - w) + u + g + a + l

LEMMA Products ==
  ASSUME NEW m \in Nat, NEW n \in Nat, m <= n, NEW w \in Nat
  PROVE  m * w \in Nat /\ m * w <= n * w /\ (m + 1) * w = m * w + w
OBVIOUS

Summed ==
  \E b \in Nat, w \in 0 .. MaxErr, u \in Nat, g \in 0 .. 10, a \in 0 .. 2,
     l \in 0 .. 1 :
    /\ b = Behind /\ w = Written /\ u = Unread /\ g = Stage
    /\ a = Alive /\ l = LeftBehind
    /\ StepsLeft = Sum(b, w, u, g, a, l)

LEMMA Summands == TypeOK /\ BoundInv => Summed
<1> SUFFICES ASSUME TypeOK, BoundInv PROVE Summed
  OBVIOUS
<1>1. MaxErr \in Nat /\ Last \in Nat
  BY PreviewRunAssumption
<1>2. Written \in 0 .. MaxErr
  BY <1>1 DEF Written, BoundInv, TypeOK
<1>3. Unread \in Nat
  BY LenProperties DEF Unread, TypeOK
<1>4. Stage \in 0 .. 10
  BY DEF Stage, TypeOK, PC
<1>5. Alive \in 0 .. 2 /\ LeftBehind \in 0 .. 1
  BY DEF Alive, LeftBehind
<1>6. PerPreview \in Nat /\ Last + 1 - i \in Nat
  BY <1>1 DEF PerPreview, TypeOK
<1>7. Behind \in Nat
  BY <1>6, Products DEF Behind
<1>8. StepsLeft = Sum(Behind, Written, Unread, Stage, Alive, LeftBehind)
  BY DEF StepsLeft, Behind, Sum
<1> QED BY <1>2, <1>3, <1>4, <1>5, <1>7, <1>8 DEF Summed

\* preview_run() ends after at most StepsLeft steps, its own and those of the
\* scripts together, and one for each write of a process left behind (checked
\* as Progress in run preview_run): i grows from one script to the next, and
\* within run() each step is one that comes once, or one of the three for a
\* write of the script, or reads a write of what it has left behind.
THEOREM ProgressAlways == Spec => Progress
<1>1. /\ TypeOK /\ InStep /\ StatusInv /\ ErrorInv /\ BoundInv
      /\ (TypeOK /\ BoundInv)' /\ [Next]_vars
      => [0 <= StepsLeft' /\ (StepsLeft' < StepsLeft \/ LingererWrote)]_vars
  <2> SUFFICES ASSUME TypeOK, InStep, StatusInv, ErrorInv, BoundInv,
                      (TypeOK /\ BoundInv)', Next
               PROVE  /\ 0 <= StepsLeft'
                      /\ StepsLeft' < StepsLeft \/ LingererWrote
    OBVIOUS
  <2>1. PICK b \in Nat, w \in 0 .. MaxErr, u \in Nat, g \in 0 .. 10,
             a \in 0 .. 2, l \in 0 .. 1 :
          /\ b = Behind /\ w = Written /\ u = Unread /\ g = Stage
          /\ a = Alive /\ l = LeftBehind
          /\ StepsLeft = Sum(b, w, u, g, a, l)
    BY Summands DEF Summed
  <2>2. PICK b2 \in Nat, w2 \in 0 .. MaxErr, u2 \in Nat, g2 \in 0 .. 10,
             a2 \in 0 .. 2, l2 \in 0 .. 1 :
          /\ b2 = Behind' /\ w2 = Written' /\ u2 = Unread' /\ g2 = Stage'
          /\ a2 = Alive' /\ l2 = LeftBehind'
          /\ StepsLeft' = Sum(b2, w2, u2, g2, a2, l2)
    <3>1. (TypeOK /\ BoundInv => Summed)'
      BY Summands, PTL
    <3> QED BY <3>1 DEF Summed
  <2>3. MaxErr \in Nat /\ PerPreview = 3 * MaxErr + 10
    BY PreviewRunAssumption DEF PerPreview
  <2> DEFINE Less == 3 * w + u2 + g2 + a2 + l2 < 3 * w2 + u + g + a + l
  <2>4. 0 <= Sum(b2, w2, u2, g2, a2, l2)
    BY <2>3 DEF Sum
  <2>5. SUFFICES \/ Sum(b2, w2, u2, g2, a2, l2) < Sum(b, w, u, g, a, l)
                 \/ LingererWrote
    BY <2>1, <2>2, <2>4
  <2>6. ASSUME b2 <= b, Less
        PROVE  Sum(b2, w2, u2, g2, a2, l2) < Sum(b, w, u, g, a, l)
    BY <2>3, <2>6 DEF Sum
  <2>7. i' = i => b2 <= b
    BY <2>1, <2>2 DEF Behind, PerPreview
  <2> HIDE DEF Less
  <2> USE DEF Goto, Return, Written, Unread, Stage, Alive, LeftBehind
  <2>8. CASE FindPreview
    <3>1. PICK j \in Positions : j >= i /\ i' = j
      BY <2>8 DEF FindPreview, FirstMatch
    <3>2. /\ Last + 1 - j \in Nat /\ Last + 1 - i \in Nat
          /\ Last + 1 - j <= Last + 1 - i
      BY <3>1, PreviewRunAssumption DEF TypeOK, Positions
    <3>3. b2 = (Last + 1 - j) * PerPreview /\ b = (Last + 1 - i) * PerPreview
      BY <2>1, <2>2, <3>1 DEF Behind, PerPreview
    <3>4. b2 <= b
      BY <2>3, <3>2, <3>3, Products
    <3>5. /\ w2 = w /\ u2 = u /\ a2 = a /\ l2 = l
          /\ g = 10 /\ g2 = 9
      BY <2>1, <2>2, <2>8 DEF FindPreview
    <3> QED BY <2>6, <3>4, <3>5 DEF Less
  <2>9. CASE FindNothing
    <3>1. Last + 1 - i' = 0 /\ Last + 1 - i \in Nat
      BY <2>9, PreviewRunAssumption DEF FindNothing, TypeOK
    <3>2. b2 = 0 * PerPreview
      BY <2>2, <3>1 DEF Behind, PerPreview
    <3>3. b2 <= b
      BY <2>3, <3>2
    <3>4. /\ w = 0 /\ u2 = u /\ a2 = a /\ l2 = l
          /\ g = 10 /\ g2 = 0
      BY <2>1, <2>2, <2>9 DEF FindNothing
    <3> QED BY <2>6, <3>3, <3>4 DEF Less
  <2>10. CASE Pipe
    <3>1. /\ w2 = w /\ u2 = u /\ a2 = a /\ l2 <= l
          /\ g = 9 /\ g2 = 8 /\ i' = i
      BY <2>1, <2>2, <2>10 DEF Pipe
    <3> QED BY <2>6, <2>7, <3>1 DEF Less
  <2>11. CASE PipeFails
    <3>1. /\ w = 0 /\ u2 = u /\ a2 = a /\ l2 = l
          /\ g = 9 /\ g2 = 0 /\ i' = i
      BY <2>1, <2>2, <2>11 DEF PipeFails
    <3> QED BY <2>6, <2>7, <3>1 DEF Less
  <2>12. CASE Fork \/ ForkFails
    <3>1. child = "none" /\ Len(pipe) = 0 /\ noise = 0
      BY <2>12 DEF Fork, ForkFails, InStep, ErrorInv
    <3>2. /\ pc = "fork" /\ pipe' = pipe /\ noise' = noise /\ bg' = bg
          /\ i' = i
      BY <2>12 DEF Fork, ForkFails
    <3>3. w = 0 /\ u = 0 /\ u2 = 0 /\ a = 0 /\ l2 = l /\ g = 8
      BY <2>1, <2>2, <3>1, <3>2
    <3>4. CASE Fork
      <4>1. g2 = 5 /\ a2 = 2
        BY <2>2, <3>4 DEF Fork
      <4> QED BY <2>6, <2>7, <3>2, <3>3, <4>1 DEF Less
    <3>5. CASE ForkFails
      <4>1. g2 = 4 /\ a2 = 0
        BY <2>2, <3>1, <3>5 DEF ForkFails
      <4> QED BY <2>6, <2>7, <3>2, <3>3, <4>1 DEF Less
    <3> QED BY <2>12, <3>4, <3>5
  <2>13. CASE SpawnWait
    <3>1. /\ w2 = w /\ u2 = u /\ a2 = 0 /\ l2 = l
          /\ g = 5 /\ g2 = 4 /\ i' = i
      BY <2>1, <2>2, <2>13 DEF SpawnWait
    <3> QED BY <2>6, <2>7, <3>1 DEF Less
  <2>14. CASE CloseWriteEnd
    <3>1. /\ w2 = w /\ u2 <= u /\ a2 = a /\ l2 = l
          /\ g = 4 /\ g2 \in {2, 3} /\ i' = i
      BY <2>1, <2>2, <2>14 DEF CloseWriteEnd
    <3> QED BY <2>6, <2>7, <3>1 DEF Less
  <2>15. CASE Drain
    <3>1. pipe \in Seq(Nat \X Nat) /\ pipe # <<>> /\ pipe' = Tail(pipe)
      BY <2>15 DEF Drain, TypeOK
    <3>2. Len(Tail(pipe)) = Len(pipe) - 1
      BY <3>1, HeadTailProperties
    <3>3. u2 = u - 1
      BY <2>1, <2>2, <2>15, <3>1, <3>2 DEF Drain, ctpvVars, TypeOK
    <3>4. /\ w2 = w /\ a2 = a /\ l2 = l /\ g2 = g /\ i' = i
      BY <2>1, <2>2, <2>15 DEF Drain, ctpvVars
    <3> QED BY <2>6, <2>7, <3>3, <3>4 DEF Less
  <2>23. CASE DrainRest
    <3>1. /\ pc = "drain" /\ pc' = "drain" /\ i' = i /\ noise' = noise - 1
          /\ pipe' = pipe /\ wrote' = wrote /\ child' = child /\ bg' = bg
      BY <2>23 DEF DrainRest, ctpvVars
    <3>2. Len(pipe) \in Nat /\ noise \in Nat
      BY LenProperties DEF TypeOK
    <3>3. u2 = u - 1
      BY <2>1, <2>2, <3>1, <3>2
    <3>4. w2 = w /\ a2 = a /\ l2 = l /\ g2 = g
      BY <2>1, <2>2, <3>1
    <3> QED BY <2>6, <2>7, <3>1, <3>3, <3>4 DEF Less
  <2>24. CASE ReadFails
    <3>1. /\ w2 = w /\ u2 = 0 /\ a2 = a /\ l2 = l
          /\ g = 3 /\ g2 = 2 /\ i' = i
      BY <2>1, <2>2, <2>24 DEF ReadFails
    <3> QED BY <2>6, <2>7, <3>1 DEF Less
  <2>16. CASE DrainEnds
    <3>1. /\ w2 = w /\ u2 = 0 /\ a2 = a /\ l2 = l
          /\ g = 3 /\ g2 = 2 /\ i' = i
      BY <2>1, <2>2, <2>16 DEF DrainEnds
    <3> QED BY <2>6, <2>7, <3>1 DEF Less
  <2>17. CASE CloseReadEnd \/ Finish
    <3>1. /\ w2 = w /\ u2 = u /\ a2 = a /\ l2 = l /\ g2 < g /\ i' = i
      BY <2>1, <2>2, <2>17 DEF CloseReadEnd, Finish
    <3> QED BY <2>6, <2>7, <3>1 DEF Less
  <2>18. CASE NextPreview
    <3>1. /\ i' = i + 1
          /\ (Last + 1 - (i + 1)) \in Nat /\ Last + 1 - i \in Nat
          /\ Last + 1 - i = (Last + 1 - (i + 1)) + 1
      <4>1. i \in 1 .. Last
        BY <2>18 DEF NextPreview, InStep, Positions, TypeOK
      <4> QED BY <2>18, <4>1, PreviewRunAssumption DEF NextPreview, NextIndex
    <3>2. /\ b2 = (Last + 1 - (i + 1)) * PerPreview
          /\ b = (Last + 1 - i) * PerPreview
      BY <2>1, <2>2, <3>1 DEF Behind, PerPreview
    <3>3. b = b2 + PerPreview
      BY <2>3, <3>1, <3>2, Products
    <3>4. /\ w2 = 0 /\ u2 = u /\ a2 = a /\ l2 = l
          /\ g = 1 /\ g2 = 10
      BY <2>1, <2>2, <2>18 DEF NextPreview
    <3> QED BY <2>3, <3>3, <3>4 DEF Sum
  <2>19. CASE StartWrite
    <3>1. /\ w2 = w /\ u2 = u /\ a = 2 /\ a2 = 1 /\ l2 = l /\ g2 = g
          /\ i' = i
      BY <2>1, <2>2, <2>19 DEF StartWrite, ctpvVars
    <3> QED BY <2>6, <2>7, <3>1 DEF Less
  <2>20. CASE FinishWrite
    <3>1. pc = "wait" /\ pc' = "wait" /\ i' = i
      BY <2>20 DEF FinishWrite, InStep, ctpvVars
    <3>2. /\ pipe' = Append(pipe, <<i, wrote + 1>>)
          /\ Len(Append(pipe, <<i, wrote + 1>>)) = Len(pipe) + 1
      BY <2>20, AppendProperties DEF FinishWrite, TypeOK
    <3>3. u2 = u + 1
      BY <2>1, <2>2, <2>20, <3>1, <3>2 DEF FinishWrite, TypeOK
    <3>4. /\ w2 = w + 1 /\ a = 1 /\ a2 = 2 /\ l2 = l /\ g2 = g
      BY <2>1, <2>2, <2>20, <3>1 DEF FinishWrite
    <3> QED BY <2>6, <2>7, <3>1, <3>3, <3>4 DEF Less
  <2>21. CASE Exit
    <3>1. /\ w2 = w /\ u2 = u /\ a = 2 /\ a2 = 0 /\ g2 = g /\ i' = i
      BY <2>1, <2>2, <2>21 DEF Exit, ExitKinds, ctpvVars
    <3> QED BY <2>6, <2>7, <3>1 DEF Less
  <2>22. CASE LingererEnds
    <3>1. /\ w2 = w /\ u2 = u /\ a2 = a /\ l = 1 /\ l2 = 0 /\ g2 = g
          /\ i' = i
      BY <2>1, <2>2, <2>22 DEF LingererEnds, ctpvVars
    <3> QED BY <2>6, <2>7, <3>1 DEF Less
  <2>25. CASE LingererWrites
    <3>1. bg /\ noise' = noise + 1
      BY <2>25 DEF LingererWrites
    <3>2. /\ w2 = w /\ u2 <= u + 1 /\ a2 = a /\ l2 = l /\ g2 = g /\ b2 = b
      <4>1. i' = i /\ pc' = pc /\ pipe' = pipe /\ wrote' = wrote
        BY <2>25 DEF LingererWrites, ctpvVars
      <4>2. child' = child /\ bg' = bg
        BY <2>25 DEF LingererWrites
      <4>3. Len(pipe) \in Nat /\ noise \in Nat
        BY LenProperties DEF TypeOK
      <4>4. b2 = b
        BY <2>1, <2>2, <4>1 DEF Behind, PerPreview
      <4>5. w2 = w /\ a2 = a /\ l2 = l /\ g2 = g
        BY <2>1, <2>2, <4>1, <4>2
      <4>6. u2 <= u + 1
        BY <2>1, <2>2, <3>1, <4>1, <4>3
      <4> QED BY <4>4, <4>5, <4>6
    <3>3. Sum(b2, w2, u2, g2, a2, l2) <= Sum(b, w, u, g, a, l) + 1
      BY <2>3, <3>2 DEF Sum
    <3>4. StepsLeft' <= StepsLeft + 1
      BY <2>1, <2>2, <3>3
    <3> QED BY <3>1, <3>4 DEF LingererWrote
  <2> QED
    BY <2>8, <2>9, <2>10, <2>11, <2>12, <2>13, <2>14, <2>15, <2>16, <2>17,
       <2>18, <2>19, <2>20, <2>21, <2>22, <2>23, <2>24, <2>25, Zenon
    DEF Next, Ctpv, Script, Lingerer
<1> QED
  BY <1>1, TypeStep, StatusInvariant, OutputStep, BoundInvariant, PTL
  DEF Spec, Progress
=============================================================================
