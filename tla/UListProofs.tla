---------------------------- MODULE UListProofs ----------------------------
(***************************************************************************)
(* Proofs about UList for every capacity, every length of appended arrays  *)
(* and any number of texts.                                                *)
(***************************************************************************)
EXTENDS UList, SequenceTheorems, TLAPS

Node == [cap : Nat \ {0}, buf : Seq(Elems)]

LEMMA TailIsNode ==
  ASSUME TypeOK
  PROVE  /\ nodes \in Seq(Node) /\ Len(nodes) \in Nat \ {0}
         /\ Tail_ \in Node /\ Tail_.buf \in Seq(Elems) /\ Tail_.cap \in Nat \ {0}
         /\ Len(Tail_.buf) \in Nat /\ Len(Tail_.buf) <= Tail_.cap
<1>1. nodes \in Seq(Node) /\ Len(nodes) \in Nat \ {0}
  BY LenProperties DEF TypeOK, Node
<1>2. Tail_ \in Node
  BY <1>1, ElementOfSeq DEF Tail_
<1>3. Tail_.buf \in Seq(Elems) /\ Tail_.cap \in Nat \ {0}
  BY <1>2 DEF Node
<1>4. Len(Tail_.buf) <= Tail_.cap
  BY <1>1 DEF TypeOK, Tail_
<1> QED BY <1>1, <1>2, <1>3, <1>4, LenProperties

\* The two parts of a sequence before and after a place.
LEMMA Parts ==
  ASSUME NEW S, NEW s \in Seq(S), NEW m \in 0 .. Len(s)
  PROVE  /\ SubSeq(s, 1, m) \in Seq(S) /\ Len(SubSeq(s, 1, m)) = m
         /\ \A k \in 1 .. m : SubSeq(s, 1, m)[k] = s[k]
         /\ SubSeq(s, m + 1, Len(s)) \in Seq(S)
         /\ Len(SubSeq(s, m + 1, Len(s))) = Len(s) - m
         /\ \A k \in 1 .. Len(s) - m : SubSeq(s, m + 1, Len(s))[k] = s[m + k]
<1>1. Len(s) \in Nat /\ \A k \in 1 .. Len(s) : s[k] \in S
  BY LenProperties, ElementOfSeq
<1>2. /\ SubSeq(s, 1, m) \in Seq(S)
      /\ Len(SubSeq(s, 1, m)) = IF 1 <= m THEN m - 1 + 1 ELSE 0
      /\ \A k \in 1 .. m - 1 + 1 : SubSeq(s, 1, m)[k] = s[1 + k - 1]
  <2>1. 1 \in Int /\ m \in Int /\ \A k \in 1 .. m : s[k] \in S
    BY <1>1
  <2> QED BY <2>1, SubSeqProperties
<1>3. /\ SubSeq(s, m + 1, Len(s)) \in Seq(S)
      /\ Len(SubSeq(s, m + 1, Len(s)))
           = IF m + 1 <= Len(s) THEN Len(s) - (m + 1) + 1 ELSE 0
      /\ \A k \in 1 .. Len(s) - (m + 1) + 1 :
           SubSeq(s, m + 1, Len(s))[k] = s[m + 1 + k - 1]
  <2>1. /\ m + 1 \in Int /\ Len(s) \in Int
        /\ \A k \in m + 1 .. Len(s) : s[k] \in S
    BY <1>1
  <2> QED BY <2>1, SubSeqProperties
<1>4. /\ Len(SubSeq(s, 1, m)) = m
      /\ \A k \in 1 .. m : SubSeq(s, 1, m)[k] = s[k]
  BY <1>1, <1>2
<1>5. /\ Len(SubSeq(s, m + 1, Len(s))) = Len(s) - m
      /\ \A k \in 1 .. Len(s) - m : SubSeq(s, m + 1, Len(s))[k] = s[m + k]
  BY <1>1, <1>3
<1> QED BY <1>2, <1>3, <1>4, <1>5

\* s ends in t, which begins after m elements.
EndsIn(s, t, m) ==
  /\ Len(s) = m + Len(t)
  /\ \A k \in 1 .. Len(t) : s[m + k] = t[k]

\* A piece that ends a sequence grows with it.
LEMMA PieceGrows ==
  ASSUME NEW S, NEW s \in Seq(S), NEW t \in Seq(S), NEW arr \in Seq(S),
         NEW m \in Nat, EndsIn(s, t, m)
  PROVE  EndsIn(s \o arr, t \o arr, m)
<1>0. Len(s) \in Nat /\ Len(t) \in Nat /\ Len(arr) \in Nat
  BY LenProperties
<1>1. /\ Len(s) \in Nat /\ Len(t) \in Nat /\ Len(arr) \in Nat
      /\ Len(s) = m + Len(t)
      /\ \A k \in 1 .. Len(t) : s[m + k] = t[k]
  BY <1>0 DEF EndsIn
<1>2. /\ Len(s \o arr) = Len(s) + Len(arr)
      /\ \A k \in 1 .. Len(s) + Len(arr) :
           (s \o arr)[k] = IF k <= Len(s) THEN s[k] ELSE arr[k - Len(s)]
  BY ConcatProperties
<1>3. /\ Len(t \o arr) = Len(t) + Len(arr)
      /\ \A k \in 1 .. Len(t) + Len(arr) :
           (t \o arr)[k] = IF k <= Len(t) THEN t[k] ELSE arr[k - Len(t)]
  BY ConcatProperties
<1>4. Len(s \o arr) = m + Len(t \o arr)
  BY <1>1, <1>2, <1>3
<1>5. ASSUME NEW k \in 1 .. Len(t) + Len(arr)
      PROVE  (s \o arr)[m + k] = (t \o arr)[k]
  <2>1. m + k \in 1 .. Len(s) + Len(arr)
    BY <1>1
  <2>2. CASE k <= Len(t)
    <3>1. k \in 1 .. Len(t) /\ m + k <= Len(s)
      BY <1>1, <2>2
    <3>2. (s \o arr)[m + k] = s[m + k]
      BY <1>2, <2>1, <3>1
    <3>3. (t \o arr)[k] = t[k]
      BY <1>3, <2>2
    <3> QED BY <1>1, <3>1, <3>2, <3>3
  <2>3. CASE k > Len(t)
    <3>1. ~(k <= Len(t)) /\ ~(m + k <= Len(s))
      BY <1>1, <2>3
    <3>2. m + k - Len(s) = k - Len(t)
      BY <1>1
    <3>3. (s \o arr)[m + k] = arr[m + k - Len(s)]
      BY <1>2, <2>1, <3>1
    <3>4. (t \o arr)[k] = arr[k - Len(t)]
      BY <1>3, <3>1
    <3> QED BY <3>2, <3>3, <3>4
  <2> QED BY <1>1, <2>2, <2>3
<1> QED BY <1>3, <1>4, <1>5 DEF EndsIn

\* What an append does to the nodes when there is room ...
LEMMA Here ==
  ASSUME TypeOK, NEW arr \in Seq(Elems), AppendHere(arr)
  PROVE  /\ nodes' \in Seq(Node) /\ Len(nodes') = Len(nodes)
         /\ \A n \in 1 .. Len(nodes) - 1 : nodes'[n] = nodes[n]
         /\ nodes'[Len(nodes)].cap = Tail_.cap
         /\ nodes'[Len(nodes)].buf = Tail_.buf \o arr
         /\ Tail_.buf \o arr \in Seq(Elems)
         /\ Len(Tail_.buf \o arr) = Len(Tail_.buf) + Len(arr)
         /\ Len(Tail_.buf) + Len(arr) <= Tail_.cap
<1> DEFINE new == [Tail_ EXCEPT !.buf = Tail_.buf \o arr]
<1>1. /\ Tail_.buf \o arr \in Seq(Elems)
      /\ Len(Tail_.buf \o arr) = Len(Tail_.buf) + Len(arr)
  BY TailIsNode, ConcatProperties
<1>2. /\ new \in Node /\ new.cap = Tail_.cap /\ new.buf = Tail_.buf \o arr
  BY <1>1, TailIsNode DEF Node
<1>3. nodes' = [nodes EXCEPT ![Len(nodes)] = new]
  BY DEF AppendHere, Tail_
<1> HIDE DEF new
<1>4. Len(nodes) \in 1 .. Len(nodes) /\ nodes \in Seq(Node)
  BY TailIsNode
<1>5. /\ [nodes EXCEPT ![Len(nodes)] = new] \in Seq(Node)
      /\ Len([nodes EXCEPT ![Len(nodes)] = new]) = Len(nodes)
      /\ \A n \in 1 .. Len(nodes) : [nodes EXCEPT ![Len(nodes)] = new][n]
                                     = IF n = Len(nodes) THEN new ELSE nodes[n]
  BY <1>2, <1>4, ExceptSeq
<1>6. /\ \A n \in 1 .. Len(nodes) - 1 : nodes'[n] = nodes[n]
      /\ nodes'[Len(nodes)] = new
  <2>1. \A n \in 1 .. Len(nodes) :
          nodes'[n] = IF n = Len(nodes) THEN new ELSE nodes[n]
    BY <1>3, <1>5
  <2>2. Len(nodes) \in Nat
    BY TailIsNode
  <2>3. \A n \in 1 .. Len(nodes) - 1 : n \in 1 .. Len(nodes) /\ n # Len(nodes)
    BY <2>2
  <2> QED BY <1>4, <2>1, <2>3
<1>7. Len(Tail_.buf) + Len(arr) <= Tail_.cap
  BY DEF AppendHere, Fits
<1> QED BY <1>1, <1>2, <1>3, <1>5, <1>6, <1>7

LEMMA Divided ==
  ASSUME TypeOK
  PROVE  /\ Remaining \in Seq(Elems) /\ Carried \in Seq(Elems)
         /\ Len(Remaining) = IF Locked THEN lock_i ELSE Len(Tail_.buf)
         /\ Len(Carried) = Len(Tail_.buf) - Len(Remaining)
         /\ \A k \in 1 .. Len(Remaining) : Remaining[k] = Tail_.buf[k]
         /\ Locked => \A k \in 1 .. Len(Carried) :
                        Carried[k] = Tail_.buf[lock_i + k]
<1>1. Tail_.buf \in Seq(Elems) /\ Len(Tail_.buf) \in Nat
  BY TailIsNode
<1>2. CASE Locked
  <2>1. lock_i \in 0 .. Len(Tail_.buf)
    BY <1>2 DEF TypeOK, Locked
  <2>2. /\ Remaining = SubSeq(Tail_.buf, 1, lock_i)
        /\ Carried = SubSeq(Tail_.buf, lock_i + 1, Len(Tail_.buf))
    BY <1>2 DEF Remaining, Carried
  <2>3. /\ Remaining \in Seq(Elems) /\ Len(Remaining) = lock_i
        /\ \A k \in 1 .. lock_i : Remaining[k] = Tail_.buf[k]
        /\ Carried \in Seq(Elems) /\ Len(Carried) = Len(Tail_.buf) - lock_i
        /\ \A k \in 1 .. Len(Tail_.buf) - lock_i :
             Carried[k] = Tail_.buf[lock_i + k]
    BY <1>1, <2>1, <2>2, Parts
  <2> QED BY <1>2, <2>3
<1>3. CASE ~Locked
  <2>1. Remaining = Tail_.buf /\ Carried = <<>>
    BY <1>3 DEF Remaining, Carried
  <2>2. Carried \in Seq(Elems) /\ Len(Carried) = 0
    BY <2>1, EmptySeq
  <2> QED BY <1>1, <1>3, <2>1, <2>2
<1> QED BY <1>2, <1>3

\* ... and when there is not.
LEMMA ToNew ==
  ASSUME TypeOK, NEW arr \in Seq(Elems), AppendToNew(arr)
  PROVE  /\ nodes' \in Seq(Node) /\ Len(nodes') = Len(nodes) + 1
         /\ \A n \in 1 .. Len(nodes) - 1 : nodes'[n] = nodes[n]
         /\ nodes'[Len(nodes)].cap = Tail_.cap
         /\ nodes'[Len(nodes)].buf = Remaining
         /\ nodes'[Len(nodes) + 1].buf = Carried \o arr
         /\ Carried \o arr \in Seq(Elems)
         /\ Len(Carried \o arr) = Len(Carried) + Len(arr)
         /\ Len(Carried \o arr) <= nodes'[Len(nodes) + 1].cap
<1> DEFINE old == [Tail_ EXCEPT !.buf = Remaining]
           most == [nodes EXCEPT ![Len(nodes)] = old]
<1>1. /\ Carried \o arr \in Seq(Elems) /\ Len(arr) \in Nat
      /\ Len(Carried \o arr) = Len(Carried) + Len(arr)
  BY Divided, ConcatProperties, LenProperties
<1>2. PICK cap \in Grown(Len(Tail_.buf) + Len(arr)) :
        nodes' = Append([nodes EXCEPT ![Len(nodes)].buf = Remaining],
                        [cap |-> cap, buf |-> Carried \o arr])
  BY DEF AppendToNew
<1> DEFINE new == [cap |-> cap, buf |-> Carried \o arr]
<1>3. Len(Tail_.buf) + Len(arr) > Tail_.cap
  BY <1>1, TailIsNode DEF AppendToNew, Fits
<1>4. cap \in Nat \ {0} /\ Len(Tail_.buf) + Len(arr) <= cap
  BY <1>1, <1>3, TailIsNode DEF Grown
<1>5. /\ old \in Node /\ old.cap = Tail_.cap /\ old.buf = Remaining
  BY TailIsNode, Divided DEF Node
<1>6. /\ new \in Node /\ new.cap = cap /\ new.buf = Carried \o arr
  BY <1>1, <1>4 DEF Node
<1>7. nodes' = Append(most, new)
  BY <1>2 DEF Tail_
<1> HIDE DEF old, new
<1>8. Len(nodes) \in 1 .. Len(nodes) /\ nodes \in Seq(Node)
  BY TailIsNode
<1>9. /\ most \in Seq(Node) /\ Len(most) = Len(nodes)
      /\ \A n \in 1 .. Len(nodes) :
           most[n] = IF n = Len(nodes) THEN old ELSE nodes[n]
  BY <1>5, <1>8, ExceptSeq
<1> HIDE DEF most
<1>10. /\ Append(most, new) \in Seq(Node)
       /\ Len(Append(most, new)) = Len(nodes) + 1
       /\ \A n \in 1 .. Len(nodes) : Append(most, new)[n] = most[n]
       /\ Append(most, new)[Len(nodes) + 1] = new
  BY <1>6, <1>9, AppendProperties
<1>11. /\ \A n \in 1 .. Len(nodes) - 1 : nodes'[n] = nodes[n]
       /\ nodes'[Len(nodes)] = old /\ nodes'[Len(nodes) + 1] = new
  BY <1>7, <1>8, <1>9, <1>10, TailIsNode
<1>12. Len(Carried \o arr) <= cap
  BY <1>1, <1>4, Divided, TailIsNode, LenProperties, SMTT(30) DEF TypeOK
<1> QED BY <1>1, <1>5, <1>6, <1>7, <1>10, <1>11, <1>12
-----------------------------------------------------------------------------
\* The variables keep their types and no node is written to beyond its
\* capacity (checked as TypeOK in run ulist_texts).
THEOREM TypeCorrect == Spec => []TypeOK
<1>1. Init => TypeOK
  <2> SUFFICES ASSUME Init PROVE TypeOK
    OBVIOUS
  <2>1. <<>> \in Seq(Elems) /\ Len(<<>>) = 0
    OBVIOUS
  <2>2. FirstCap \in Nat \ {0}
    BY UListAssumption
  <2> QED BY <2>1, <2>2 DEF Init, TypeOK, Tail_, NoLock
<1>2. TypeOK /\ [Next]_vars => TypeOK'
  <2> SUFFICES ASSUME TypeOK, [Next]_vars PROVE TypeOK'
    OBVIOUS
  <2>0. /\ nodes \in Seq(Node) /\ Len(nodes) \in Nat \ {0}
        /\ Len(Tail_.buf) \in Nat
        /\ \A n \in 1 .. Len(nodes) : Len(nodes[n].buf) <= nodes[n].cap
        /\ lock_i \in 0 .. Len(Tail_.buf) \cup {NoLock}
        /\ text \in Seq(Elems) /\ total \in Nat
        /\ given \subseteq [node : 1 .. Len(nodes), at : Nat, text : Seq(Elems)]
    BY TailIsNode DEF TypeOK
  <2>1. ASSUME NEW m \in 0 .. MaxArr, NEW arr \in [1 .. m -> Elems],
               AppendArr(arr)
        PROVE  TypeOK'
    <3>1. arr \in Seq(Elems) /\ Len(arr) \in Nat
      BY UListAssumption
    <3>2. text' \in Seq(Elems) /\ total' \in Nat /\ given' = given
      BY <2>0, <2>1, <3>1, ConcatProperties DEF AppendArr
    <3>3. CASE AppendHere(arr)
      <4>1. /\ nodes' \in Seq(Node) /\ Len(nodes') = Len(nodes)
            /\ \A n \in 1 .. Len(nodes) - 1 : nodes'[n] = nodes[n]
            /\ Tail_'.cap = Tail_.cap
            /\ Len(Tail_'.buf) = Len(Tail_.buf) + Len(arr)
            /\ Len(Tail_.buf) + Len(arr) <= Tail_.cap
        BY <3>1, <3>3, Here DEF Tail_
      <4>2. \A n \in 1 .. Len(nodes') : Len(nodes'[n].buf) <= nodes'[n].cap
        <5>1. ASSUME NEW n \in 1 .. Len(nodes) - 1
              PROVE  Len(nodes'[n].buf) <= nodes'[n].cap
          <6>1. n \in 1 .. Len(nodes) /\ nodes'[n] = nodes[n]
            BY <2>0, <4>1
          <6> QED BY <2>0, <6>1
        <5>2. Len(Tail_'.buf) <= Tail_'.cap
          BY <4>1
        <5>3. Len(nodes'[Len(nodes')].buf) <= nodes'[Len(nodes')].cap
          BY <5>2 DEF Tail_
        <5>4. ASSUME NEW n \in 1 .. Len(nodes')
              PROVE  n \in 1 .. Len(nodes) - 1 \/ n = Len(nodes')
          BY <2>0, <4>1
        <5> QED BY <5>1, <5>3, <5>4
      <4>3. lock_i' \in 0 .. Len(Tail_'.buf) \cup {NoLock}
        BY <2>0, <3>1, <3>3, <4>1 DEF AppendHere
      <4> QED BY <2>0, <3>2, <4>1, <4>2, <4>3 DEF TypeOK, Node
    <3>4. CASE AppendToNew(arr)
      <4>1. /\ nodes' \in Seq(Node) /\ Len(nodes') = Len(nodes) + 1
            /\ \A n \in 1 .. Len(nodes) - 1 : nodes'[n] = nodes[n]
            /\ nodes'[Len(nodes)].cap = Tail_.cap
            /\ nodes'[Len(nodes)].buf = Remaining
            /\ Len(Tail_'.buf) = Len(Carried) + Len(arr)
            /\ Len(Tail_'.buf) <= Tail_'.cap
        BY <3>1, <3>4, ToNew DEF Tail_
      <4>2. Len(Remaining) <= Tail_.cap /\ Len(Carried) \in Nat
        BY <2>0, Divided, TailIsNode, LenProperties DEF NoLock, Locked
      <4>3. \A n \in 1 .. Len(nodes') : Len(nodes'[n].buf) <= nodes'[n].cap
        <5>1. ASSUME NEW n \in 1 .. Len(nodes) - 1
              PROVE  Len(nodes'[n].buf) <= nodes'[n].cap
          <6>1. n \in 1 .. Len(nodes) /\ nodes'[n] = nodes[n]
            BY <2>0, <4>1
          <6> QED BY <2>0, <6>1
        <5>2. Len(nodes'[Len(nodes')].buf) <= nodes'[Len(nodes')].cap
          BY <4>1 DEF Tail_
        <5>3. Len(nodes'[Len(nodes)].buf) <= nodes'[Len(nodes)].cap
          BY <4>1, <4>2
        <5>4. ASSUME NEW n \in 1 .. Len(nodes')
              PROVE  \/ n \in 1 .. Len(nodes) - 1
                     \/ n = Len(nodes) \/ n = Len(nodes')
          BY <2>0, <4>1
        <5> QED BY <5>1, <5>2, <5>3, <5>4
      <4>4. lock_i' \in 0 .. Len(Tail_'.buf) \cup {NoLock}
        BY <3>1, <3>4, <4>1, <4>2 DEF AppendToNew, LockMoved
      <4>5. given' \subseteq [node : 1 .. Len(nodes'), at : Nat, text : Seq(Elems)]
        BY <2>0, <3>2, <4>1
      <4>6. Len(nodes') > 0
        BY <2>0, <4>1
      <4> QED BY <3>2, <4>1, <4>3, <4>4, <4>5, <4>6 DEF TypeOK, Node
    <3> QED BY <2>1, <3>3, <3>4 DEF AppendArr
  <2>2. ASSUME Lock PROVE TypeOK'
    <3>1. /\ Tail_' = Tail_ /\ nodes' = nodes /\ <<>> \in Seq(Elems)
      BY <2>2 DEF Lock, Tail_
    <3> QED BY <2>0, <2>2, <3>1 DEF Lock, TypeOK
  <2>3. ASSUME Unlock PROVE TypeOK'
    <3>1. /\ Tail_' = Tail_ /\ nodes' = nodes /\ <<>> \in Seq(Elems)
      BY <2>3 DEF Unlock, Tail_
    <3>2. [node |-> Len(nodes), at |-> lock_i, text |-> text]
            \in [node : 1 .. Len(nodes), at : Nat, text : Seq(Elems)]
      BY <2>0, <2>3 DEF Unlock, Locked
    <3> QED BY <2>0, <2>3, <3>1, <3>2 DEF Unlock, TypeOK
  <2>4. CASE UNCHANGED vars
    BY <2>4 DEF vars, TypeOK, Tail_
  <2> QED BY <2>1, <2>2, <2>3, <2>4 DEF Next
<1> QED BY <1>1, <1>2, PTL DEF Spec
\* What is behind a pointer of the new state, by place.
LEMMA StillAt ==
  ASSUME NEW t \in Seq(Elems), NEW n, NEW at \in Nat, IsAt(t, n, at),
         Len(nodes[n].buf) \in Nat, Len(nodes'[n].buf) \in Nat,
         at + Len(t) <= Len(nodes'[n].buf),
         \A k \in 1 .. at + Len(t) : nodes'[n].buf[k] = nodes[n].buf[k]
  PROVE  IsAt(t, n, at)'
<1>1. Len(t) \in Nat /\ \A k \in 1 .. Len(t) : nodes[n].buf[at + k] = t[k]
  BY LenProperties DEF IsAt
<1>2. \A k \in 1 .. Len(t) : at + k \in 1 .. at + Len(t)
  BY <1>1
<1>3. \A k \in 1 .. Len(t) : nodes'[n].buf[at + k] = t[k]
  BY <1>1, <1>2
<1> QED BY <1>3 DEF IsAt

TextInv == TextsKept /\ OneAfterAnother /\ BeforeLock

\* What was appended since the lock ends the tail, and goes on doing so.
LEMMA LockedStep ==
  ASSUME TypeOK, OneAfterAnother, NEW arr \in Seq(Elems), AppendArr(arr)
  PROVE  OneAfterAnother'
<1> SUFFICES ASSUME Locked' PROVE /\ IsAt(text, Len(nodes), lock_i)'
                                  /\ Len(Tail_'.buf) = lock_i' + Len(text')
  BY DEF OneAfterAnother
<1>0. /\ text \in Seq(Elems) /\ Len(text) \in Nat /\ Len(arr) \in Nat
      /\ Len(Tail_.buf) \in Nat /\ Len(nodes) \in Nat \ {0}
      /\ lock_i \in 0 .. Len(Tail_.buf) \cup {NoLock}
  BY TailIsNode, LenProperties DEF TypeOK
<1>1. Locked
  BY DEF AppendArr, AppendHere, AppendToNew, LockMoved, Locked
<1>2. text' = text \o arr
  BY <1>1 DEF AppendArr
<1>3. /\ lock_i \in Nat /\ Len(Tail_.buf) = lock_i + Len(text)
      /\ \A k \in 1 .. Len(text) : Tail_.buf[lock_i + k] = text[k]
  BY <1>0, <1>1 DEF OneAfterAnother, IsAt, Tail_, Locked
<1>4. CASE AppendHere(arr)
  <2>1. /\ nodes'[Len(nodes')].buf = Tail_.buf \o arr /\ lock_i' = lock_i
        /\ Tail_' = nodes'[Len(nodes')]
    BY <1>4, Here DEF Tail_, AppendHere
  <2>2. EndsIn(Tail_.buf \o arr, text \o arr, lock_i)
    <3>1. EndsIn(Tail_.buf, text, lock_i) /\ Tail_.buf \in Seq(Elems)
      BY <1>3, TailIsNode DEF EndsIn
    <3>2. lock_i \in Nat /\ text \in Seq(Elems)
      BY <1>0, <1>3
    <3> QED BY <3>1, <3>2, PieceGrows
  <2>3. Len(Tail_.buf \o arr) \in Nat
    BY TailIsNode, ConcatProperties, LenProperties
  <2>4. Len(Tail_'.buf) = lock_i' + Len(text')
    BY <1>2, <2>1, <2>2 DEF EndsIn
  <2>5. IsAt(text, Len(nodes), lock_i)'
    <3>1. lock_i + Len(text \o arr) <= Len(Tail_.buf \o arr)
      BY <2>2, <2>3 DEF EndsIn
    <3>2. \A k \in 1 .. Len(text \o arr) :
            (Tail_.buf \o arr)[lock_i + k] = (text \o arr)[k]
      BY <2>2 DEF EndsIn
    <3> QED BY <1>2, <2>1, <3>1, <3>2 DEF IsAt
  <2> QED BY <2>4, <2>5
<1>5. CASE AppendToNew(arr)
  <2>1. /\ Tail_'.buf = Carried \o arr /\ lock_i' = 0
        /\ Tail_' = nodes'[Len(nodes')]
    BY <1>1, <1>5, ToNew DEF Tail_, AppendToNew, LockMoved
  <2>2. /\ Carried \in Seq(Elems) /\ Len(Carried) = Len(text)
        /\ \A k \in 1 .. Len(text) : Carried[k] = text[k]
    BY <1>0, <1>1, <1>3, Divided
  <2>3. Carried = text
    BY <1>0, <2>2, SeqEqual
  <2>4. Len(text \o arr) \in Nat
    BY <1>0, ConcatProperties, LenProperties
  <2>5. Len(Tail_'.buf) = lock_i' + Len(text')
    BY <1>2, <2>1, <2>3, <2>4
  <2>6. IsAt(text, Len(nodes), lock_i)'
    BY <1>2, <2>1, <2>3, <2>4 DEF IsAt
  <2> QED BY <2>5, <2>6
<1> QED BY <1>4, <1>5 DEF AppendArr

\* A text that was handed out stays what it is when the list grows.
LEMMA KeptStep ==
  ASSUME TypeOK, TypeOK', TextsKept, BeforeLock,
         NEW arr \in Seq(Elems), AppendArr(arr)
  PROVE  TextsKept' /\ BeforeLock'
<1>0. /\ Len(arr) \in Nat /\ Len(nodes) \in Nat \ {0}
      /\ Len(Tail_.buf) \in Nat /\ Tail_.buf \in Seq(Elems)
      /\ given' = given
      /\ given \subseteq [node : 1 .. Len(nodes), at : Nat, text : Seq(Elems)]
  BY TailIsNode, LenProperties DEF TypeOK, AppendArr
<1>1. \A n \in 1 .. Len(nodes) : Len(nodes[n].buf) \in Nat
  BY TailIsNode, ElementOfSeq, LenProperties DEF Node
<1>2. ASSUME NEW g \in given
      PROVE  /\ IsAt(g.text, g.node, g.at)'
             /\ (Locked' /\ g.node = Len(nodes')) => g.at + Len(g.text) <= lock_i'
  <2>0. /\ g.node \in 1 .. Len(nodes) /\ g.at \in Nat /\ g.text \in Seq(Elems)
        /\ Len(g.text) \in Nat /\ IsAt(g.text, g.node, g.at)
        /\ g.at + Len(g.text) <= Len(nodes[g.node].buf)
        /\ (Locked /\ g.node = Len(nodes)) => g.at + Len(g.text) <= lock_i
    BY <1>0, LenProperties DEF TextsKept, BeforeLock, IsAt
  <2>1. CASE g.node # Len(nodes)
    <3>1. nodes'[g.node] = nodes[g.node] /\ g.node # Len(nodes')
      <4>1. g.node \in 1 .. Len(nodes) - 1
        BY <1>0, <2>0, <2>1
      <4>2. CASE AppendHere(arr)
        <5>1. /\ Len(nodes') = Len(nodes)
              /\ \A n \in 1 .. Len(nodes) - 1 : nodes'[n] = nodes[n]
          BY <4>2, Here
        <5> QED BY <2>1, <4>1, <5>1
      <4>3. CASE AppendToNew(arr)
        <5>1. /\ Len(nodes') = Len(nodes) + 1
              /\ \A n \in 1 .. Len(nodes) - 1 : nodes'[n] = nodes[n]
          BY <4>3, ToNew
        <5> QED BY <1>0, <4>1, <5>1
      <4> QED BY <4>2, <4>3 DEF AppendArr
    <3>2. IsAt(g.text, g.node, g.at)'
      BY <2>0, <3>1 DEF IsAt
    <3> QED BY <3>1, <3>2
  <2>2. CASE g.node = Len(nodes) /\ AppendHere(arr)
    <3>1. /\ nodes'[Len(nodes)].buf = Tail_.buf \o arr
          /\ Len(nodes') = Len(nodes) /\ lock_i' = lock_i
          /\ Len(Tail_.buf \o arr) = Len(Tail_.buf) + Len(arr)
      BY <2>2, Here DEF AppendHere
    <3>2. \A k \in 1 .. Len(Tail_.buf) : (Tail_.buf \o arr)[k] = Tail_.buf[k]
      BY <1>0, ConcatProperties
    <3>3. nodes[g.node].buf = Tail_.buf
      BY <2>2 DEF Tail_
    <3>4. /\ g.at + Len(g.text) <= Len(nodes'[g.node].buf)
          /\ Len(nodes'[g.node].buf) \in Nat
      BY <1>0, <2>0, <2>2, <3>1, <3>3
    <3>5. \A k \in 1 .. g.at + Len(g.text) :
            nodes'[g.node].buf[k] = nodes[g.node].buf[k]
      BY <1>0, <2>0, <2>2, <3>1, <3>2, <3>3
    <3>6. IsAt(g.text, g.node, g.at)'
      BY <1>1, <2>0, <3>4, <3>5, StillAt
    <3> QED BY <2>0, <2>2, <3>1, <3>6 DEF Locked
  <2>3. CASE g.node = Len(nodes) /\ AppendToNew(arr)
    <3>1. nodes'[Len(nodes)].buf = Remaining /\ Len(nodes') # Len(nodes)
      BY <1>0, <2>3, ToNew
    <3>2. /\ Len(Remaining) = IF Locked THEN lock_i ELSE Len(Tail_.buf)
          /\ \A k \in 1 .. Len(Remaining) : Remaining[k] = Tail_.buf[k]
          /\ Len(Remaining) \in Nat
      BY Divided, LenProperties
    <3>3. nodes[g.node].buf = Tail_.buf
      BY <2>3 DEF Tail_
    <3>4. g.at + Len(g.text) <= Len(Remaining)
      BY <2>0, <2>3, <3>2, <3>3
    <3>5. \A k \in 1 .. g.at + Len(g.text) :
            nodes'[g.node].buf[k] = nodes[g.node].buf[k]
      BY <2>0, <2>3, <3>1, <3>2, <3>3, <3>4
    <3>6. IsAt(g.text, g.node, g.at)'
      BY <1>1, <2>0, <2>3, <3>1, <3>2, <3>4, <3>5, StillAt
    <3> QED BY <2>3, <3>1, <3>6
  <2> QED BY <2>1, <2>2, <2>3 DEF AppendArr
<1> QED BY <1>0, <1>2 DEF TextsKept, BeforeLock

LEMMA TextsStep == TypeOK /\ TypeOK' /\ TextInv /\ [Next]_vars => TextInv'
<1> SUFFICES ASSUME TypeOK, TypeOK', TextInv, [Next]_vars PROVE TextInv'
  OBVIOUS
<1>1. ASSUME NEW m \in 0 .. MaxArr, NEW arr \in [1 .. m -> Elems],
             AppendArr(arr)
      PROVE  TextInv'
  <2>1. arr \in Seq(Elems)
    BY UListAssumption
  <2> QED BY <1>1, <2>1, LockedStep, KeptStep DEF TextInv
<1>2. ASSUME Lock PROVE TextInv'
  <2>1. /\ nodes' = nodes /\ given' = given /\ text' = <<>>
        /\ lock_i' = Len(Tail_.buf) /\ Tail_' = Tail_ /\ Len(<<>>) = 0
        /\ Tail_ = nodes[Len(nodes)] /\ Len(Tail_.buf) \in Nat
    BY <1>2, TailIsNode DEF Lock, Tail_
  <2>2. OneAfterAnother'
    BY <2>1 DEF OneAfterAnother, IsAt
  <2>3. TextsKept'
    BY <2>1 DEF TextInv, TextsKept, IsAt
  <2>4. BeforeLock'
    BY <2>1 DEF TextInv, TextsKept, BeforeLock, IsAt
  <2> QED BY <2>2, <2>3, <2>4 DEF TextInv
<1>3. ASSUME Unlock PROVE TextInv'
  <2>1. /\ nodes' = nodes /\ ~Locked' /\ Locked
        /\ given' = given \cup
             {[node |-> Len(nodes), at |-> lock_i, text |-> text]}
    BY <1>3 DEF Unlock, Locked
  <2>2. IsAt(text, Len(nodes), lock_i)
    BY <2>1 DEF TextInv, OneAfterAnother
  <2>3. TextsKept'
    BY <2>1, <2>2 DEF TextInv, TextsKept, IsAt
  <2> QED BY <2>1, <2>3 DEF TextInv, OneAfterAnother, BeforeLock
<1>4. CASE UNCHANGED vars
  BY <1>4 DEF vars, TextInv, TextsKept, OneAfterAnother, BeforeLock, IsAt,
    Locked, Tail_
<1> QED BY <1>1, <1>2, <1>3, <1>4 DEF Next

\* Texts that were handed out keep their place and contents for ever
\* (checked as TextsKept in run ulist_texts).
THEOREM TextsKeptAlways == Spec => []TextsKept
<1>1. Init => TextInv
  BY DEF Init, TextInv, TextsKept, OneAfterAnother, BeforeLock, Locked
<1>2. TextInv => TextsKept
  BY DEF TextInv
<1> QED BY <1>1, <1>2, TypeCorrect, TextsStep, PTL DEF Spec

\* What is appended while the list is locked is one piece of memory (checked
\* as OneAfterAnother in run ulist_texts).
THEOREM OneAfterAnotherAlways == Spec => []OneAfterAnother
<1>1. Init => TextInv
  BY DEF Init, TextInv, TextsKept, OneAfterAnother, BeforeLock, Locked
<1>2. TextInv => OneAfterAnother
  BY DEF TextInv
<1> QED BY <1>1, <1>2, TypeCorrect, TextsStep, PTL DEF Spec
=============================================================================
