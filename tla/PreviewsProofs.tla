--------------------------- MODULE PreviewsProofs ---------------------------
(***************************************************************************)
(* Proofs about Previews for every table of built-in previews, every       *)
(* configuration and, where overflow plays no part, every set of           *)
(* priorities.                                                             *)
(***************************************************************************)
EXTENDS Previews, SequenceTheorems, TLAPS

\* The fields that are compared are integers.
LEMMA FieldTypes ==
  ASSUME NEW p \in Preview
  PROVE  /\ p.order \in Int /\ p.ext \in Nat /\ p.type \in Nat
         /\ p.subtype \in Nat /\ p.priority \in Int
<1>1. /\ StringOrNull \subseteq Nat
      /\ Priorities \cup {0, 1} \subseteq Int
  BY PreviewsAssumption DEF StringOrNull, Null
<1>2. /\ p.order \in {0, 1} /\ p.ext \in StringOrNull
      /\ p.type \in StringOrNull /\ p.subtype \in StringOrNull
      /\ p.priority \in Priorities \cup {0, 1}
  BY DEF Preview
<1> QED BY <1>1, <1>2

\* Without overflow the sign of cmp_previews() is that of a lexical order.
LEMMA CmpSign ==
  ASSUME PrioritiesFit, NEW p \in Preview, NEW q \in Preview
  PROVE  CmpPreviews(p, q) =
           IF p.order # q.order THEN q.order - p.order
           ELSE IF p.ext # q.ext THEN q.ext - p.ext
           ELSE IF p.type # q.type THEN q.type - p.type
           ELSE IF p.subtype # q.subtype THEN q.subtype - p.subtype
           ELSE q.priority - p.priority
<1>1. /\ p.priority \in Priorities \cup {0, 1}
      /\ q.priority \in Priorities \cup {0, 1}
  BY DEF Preview
<1>2. q.priority - p.priority \in -IntMax - 1 .. IntMax
  BY <1>1 DEF PrioritiesFit
<1>3. LargerFirst(p, q) = q.priority - p.priority
  BY <1>2, PreviewsAssumption DEF LargerFirst, Wrap
<1>4. /\ p.ext \in Nat /\ q.ext \in Nat /\ p.type \in Nat /\ q.type \in Nat
      /\ p.subtype \in Nat /\ q.subtype \in Nat
  BY FieldTypes
<1>5. /\ NullLast(p.ext, q.ext) = q.ext - p.ext
      /\ NullLast(p.type, q.type) = q.type - p.type
      /\ NullLast(p.subtype, q.subtype) = q.subtype - p.subtype
  BY <1>4 DEF NullLast, StrCmpNull
<1> QED BY <1>3, <1>5 DEF CmpPreviews

\* Without overflow qsort() gets the comparison it asks for.
LEMMA CmpConsistent ==
  ASSUME PrioritiesFit, NEW v, Range(v) \subseteq Preview
  PROVE  Consistent(v)
<1>1. \A a, b \in Preview : CmpPreviews(a, b) > 0 <=> CmpPreviews(b, a) < 0
  <2> SUFFICES ASSUME NEW a \in Preview, NEW b \in Preview
               PROVE  CmpPreviews(a, b) > 0 <=> CmpPreviews(b, a) < 0
    OBVIOUS
  <2> QED BY CmpSign, FieldTypes
<1>2. \A a, b, c \in Preview :
        CmpPreviews(a, b) <= 0 /\ CmpPreviews(b, c) <= 0
          => CmpPreviews(a, c) <= 0
  <2> SUFFICES ASSUME NEW a \in Preview, NEW b \in Preview, NEW c \in Preview,
                      CmpPreviews(a, b) <= 0, CmpPreviews(b, c) <= 0
               PROVE  CmpPreviews(a, c) <= 0
    OBVIOUS
  <2> QED BY CmpSign, FieldTypes
<1> QED BY <1>1, <1>2 DEF Consistent

\* The elements of a sequence, by position.
LEMMA Elements ==
  \A S : \A v \in Seq(S) :
    /\ Range(v) \subseteq S
    /\ Range(v) = {v[k] : k \in 1 .. Len(v)}
BY DEF Range

\* No two previews of v are the same, and a bounds their ids.
Distinct(v, a) ==
  /\ \A k \in 1 .. Len(v) : v[k].id \in 1 .. a
  /\ \A k, l \in 1 .. Len(v) : v[k].id = v[l].id => k = l

\* What vector_remove() leaves: every element but one, each once.
LEMMA Removed ==
  ASSUME NEW v \in Seq(Preview), NEW k \in 1 .. Len(v)
  PROVE  /\ WithoutAt(v, k) \in Seq(Preview)
         /\ Len(WithoutAt(v, k)) = Len(v) - 1
         /\ \A l \in 1 .. Len(v) - 1 :
              WithoutAt(v, k)[l] = IF l = k THEN v[Len(v)] ELSE v[l]
         /\ \A a : Distinct(v, a) => Distinct(WithoutAt(v, k), a)
<1>1. Len(v) - 1 \in Nat /\ \A l \in 1 .. Len(v) : v[l] \in Preview
  BY LenProperties, ElementOfSeq
<1>2. WithoutAt(v, k) \in [1 .. Len(v) - 1 -> Preview]
  BY <1>1 DEF WithoutAt
<1>3. /\ WithoutAt(v, k) \in Seq(Preview)
      /\ Len(WithoutAt(v, k)) = Len(v) - 1
      /\ \A l \in 1 .. Len(v) - 1 :
           WithoutAt(v, k)[l] = IF l = k THEN v[Len(v)] ELSE v[l]
  BY <1>1, <1>2 DEF WithoutAt
<1>4. ASSUME NEW a, Distinct(v, a) PROVE Distinct(WithoutAt(v, k), a)
  <2> DEFINE w == WithoutAt(v, k)
  <2>1. /\ Len(w) = Len(v) - 1
        /\ \A l \in 1 .. Len(v) - 1 : w[l] = IF l = k THEN v[Len(v)] ELSE v[l]
    BY <1>3
  <2> HIDE DEF w
  <2>2. /\ \A l \in 1 .. Len(v) : v[l].id \in 1 .. a
        /\ \A l, m \in 1 .. Len(v) : v[l].id = v[m].id => l = m
    BY <1>4 DEF Distinct
  <2>3. \A l \in 1 .. Len(v) - 1 : w[l].id \in 1 .. a
    BY <1>1, <2>1, <2>2
  <2>4. \A l, m \in 1 .. Len(v) - 1 : w[l].id = w[m].id => l = m
    BY <1>1, <2>1, <2>2
  <2> QED BY <2>1, <2>3, <2>4 DEF Distinct, w
<1> QED BY <1>3, <1>4

\* What ctpv appends keeps the previews distinct.
LEMMA Appended ==
  ASSUME NEW v \in Seq(Preview), NEW w \in Seq(Preview), NEW a \in Nat,
         Distinct(v, a), \A k \in 1 .. Len(w) : w[k].id = a + k
  PROVE  /\ v \o w \in Seq(Preview)
         /\ Len(v \o w) = Len(v) + Len(w)
         /\ \A k \in 1 .. Len(v) : (v \o w)[k] = v[k]
         /\ \A k \in Len(v) + 1 .. Len(v) + Len(w) :
              (v \o w)[k] = w[k - Len(v)]
         /\ Distinct(v \o w, a + Len(w))
<1> DEFINE c == v \o w
<1>1. /\ c \in Seq(Preview) /\ Len(c) = Len(v) + Len(w)
      /\ \A k \in 1 .. Len(v) + Len(w) :
           c[k] = IF k <= Len(v) THEN v[k] ELSE w[k - Len(v)]
  BY ConcatProperties
<1>2. Len(v) \in Nat /\ Len(w) \in Nat
  BY LenProperties
<1> HIDE DEF c
<1>3. ASSUME NEW k \in 1 .. Len(c)
      PROVE  c[k].id = IF k <= Len(v) THEN v[k].id ELSE a + (k - Len(v))
  <2>1. CASE k <= Len(v)
    BY <1>1, <1>2, <2>1
  <2>2. CASE k > Len(v)
    <3>1. k - Len(v) \in 1 .. Len(w)
      BY <1>1, <1>2, <2>2
    <3>2. w[k - Len(v)].id = a + (k - Len(v))
      BY <3>1
    <3> QED BY <1>1, <1>2, <2>2, <3>2
  <2> QED BY <1>1, <1>2, <2>1, <2>2
<1>4. \A k \in 1 .. Len(v) : v[k].id \in 1 .. a
  BY DEF Distinct
<1>9. \A k, l \in 1 .. Len(v) : v[k].id = v[l].id => k = l
  BY DEF Distinct
<1>5. \A k \in 1 .. Len(c) : c[k].id \in 1 .. a + Len(w)
  BY <1>1, <1>2, <1>3, <1>4
<1>6. ASSUME NEW k \in 1 .. Len(c), NEW l \in 1 .. Len(c), c[k].id = c[l].id
      PROVE  k = l
  <2>1. /\ c[k].id = IF k <= Len(v) THEN v[k].id ELSE a + (k - Len(v))
        /\ c[l].id = IF l <= Len(v) THEN v[l].id ELSE a + (l - Len(v))
    BY <1>3
  <2>2. k \in 1 .. Len(v) + Len(w) /\ l \in 1 .. Len(v) + Len(w)
    BY <1>1
  <2>3. CASE k <= Len(v) /\ l <= Len(v)
    <3>1. k \in 1 .. Len(v) /\ l \in 1 .. Len(v)
      BY <1>2, <2>2, <2>3
    <3>2. v[k].id = v[l].id
      BY <1>6, <2>1, <2>3
    <3> QED BY <1>9, <3>1, <3>2
  <2>4. CASE k <= Len(v) /\ ~(l <= Len(v))
    <3>1. v[k].id \in 1 .. a
      BY <1>2, <1>4, <2>2, <2>4
    <3>2. v[k].id = a + (l - Len(v))
      BY <1>6, <2>1, <2>4
    <3> QED BY <1>2, <2>2, <2>4, <3>1, <3>2
  <2>5. CASE ~(k <= Len(v)) /\ l <= Len(v)
    <3>1. v[l].id \in 1 .. a
      BY <1>2, <1>4, <2>2, <2>5
    <3>2. v[l].id = a + (k - Len(v))
      BY <1>6, <2>1, <2>5
    <3> QED BY <1>2, <2>2, <2>5, <3>1, <3>2
  <2>6. CASE ~(k <= Len(v)) /\ ~(l <= Len(v))
    <3>1. a + (k - Len(v)) = a + (l - Len(v))
      BY <1>6, <2>1, <2>6
    <3> QED BY <1>2, <2>2, <3>1
  <2> QED BY <2>3, <2>4, <2>5, <2>6
<1>7. Distinct(c, a + Len(w))
  BY <1>5, <1>6 DEF Distinct
<1>8. \A k \in 1 .. Len(v) : c[k] = v[k]
  BY <1>1, <1>2
<1>10. \A k \in Len(v) + 1 .. Len(v) + Len(w) : c[k] = w[k - Len(v)]
  BY <1>1, <1>2
<1> QED BY <1>1, <1>7, <1>8, <1>10 DEF c

\* What preview appends.
LEMMA NewTypes ==
  ASSUME NEW n \in Names, NEW t \in TypeSet, NEW k \in Nat
  PROVE  NewPreview(n, t, k) \in Preview
BY DEF NewPreview, AnyTypeNull, CustomOrder, TypeSet, Preview, StringOrNull,
  Null

LEMMA NewSequence ==
  ASSUME NEW n \in Names, NEW m \in Nat, NEW types \in [1 .. m -> Types],
         NEW a \in Nat
  PROVE  /\ NewPreviews(n, types, a) \in Seq(Preview)
         /\ Len(NewPreviews(n, types, a)) = m
         /\ \A k \in 1 .. m :
              NewPreviews(n, types, a)[k] = NewPreview(n, types[k], a + k)
<1>1. ASSUME NEW k \in 1 .. m
      PROVE  NewPreview(n, types[k], a + k) \in Preview
  <2>1. types[k] \in TypeSet /\ a + k \in Nat
    BY PreviewsAssumption
  <2> QED BY <2>1, NewTypes
<1>2. Len(types) = m
  OBVIOUS
<1>3. NewPreviews(n, types, a)
        = [k \in 1 .. m |-> NewPreview(n, types[k], a + k)]
  BY <1>2 DEF NewPreviews
<1>4. NewPreviews(n, types, a) \in [1 .. m -> Preview]
  BY <1>1, <1>3
<1>5. /\ NewPreviews(n, types, a) \in Seq(Preview)
      /\ Len(NewPreviews(n, types, a)) = m
  BY <1>4
<1> QED BY <1>3, <1>5

\* What priority writes back.
LEMMA Reprioritised ==
  ASSUME NEW p \in Preview, NEW x \in Priorities \cup {1}
  PROVE  /\ [p EXCEPT !.priority = x] \in Preview
         /\ [p EXCEPT !.priority = x].id = p.id
         /\ [p EXCEPT !.priority = x].order = p.order
         /\ [p EXCEPT !.priority = x].name = p.name
BY DEF Preview

\* The variables keep their types, and the vector holds no preview twice
\* (checked as TypeOK in run previews_list).
THEOREM TypeCorrect == Spec => []TypeOK
<1>1. Init => TypeOK
  <2> SUFFICES ASSUME Init PROVE TypeOK
    OBVIOUS
  <2>1. vec \in Seq(Preview) /\ added \in Nat /\ i \in 0 .. Len(vec)
    BY PreviewsAssumption, LenProperties DEF Init
  <2>2. \A k \in 1 .. Len(vec) : vec[k].id = k
    BY PreviewsAssumption DEF Init
  <2>3. list \in Seq(Nat)
    BY EmptySeq DEF Init
  <2> QED BY <2>1, <2>2, <2>3 DEF Init, TypeOK
<1>2. TypeOK /\ [Next]_vars => TypeOK'
  <2> SUFFICES ASSUME TypeOK, [Next]_vars PROVE TypeOK'
    OBVIOUS
  <2> USE DEF TypeOK
  <2>0. Distinct(vec, added) /\ Len(vec) \in Nat
    BY LenProperties DEF Distinct
  <2>1. ASSUME NEW n \in Names, NEW m \in 0 .. MaxTypes,
               NEW types \in [1 .. m -> Types], AddPreview(n, types)
        PROVE  TypeOK'
    <3> DEFINE new == NewPreviews(n, types, added)
    <3>1. m \in Nat /\ added \in Nat
      BY PreviewsAssumption
    <3>8. Len(types) = m
      BY <3>1
    <3>7. /\ new \in Seq(Preview) /\ Len(new) = m
          /\ \A k \in 1 .. m : new[k] = NewPreview(n, types[k], added + k)
      <4> HIDE DEF TypeOK, new
      <4>1. /\ NewPreviews(n, types, added) \in Seq(Preview)
            /\ Len(NewPreviews(n, types, added)) = m
            /\ \A k \in 1 .. m : NewPreviews(n, types, added)[k]
                                   = NewPreview(n, types[k], added + k)
        BY <3>1, NewSequence
      <4> QED BY <4>1 DEF new
    <3>2. /\ new \in Seq(Preview) /\ Len(new) = m
          /\ \A k \in 1 .. m : new[k].id = added + k
      BY <3>7 DEF NewPreview
    <3>3. vec' = vec \o new /\ added' = added + m
      BY <2>1, <3>1, <3>8 DEF AddPreview
    <3> HIDE DEF new
    <3>4. /\ vec \o new \in Seq(Preview)
          /\ Len(vec \o new) = Len(vec) + m
          /\ Distinct(vec \o new, added + m)
      <4>1. \A k \in 1 .. Len(new) : new[k].id = added + k
        BY <3>2
      <4>2. /\ vec \o new \in Seq(Preview)
            /\ Len(vec \o new) = Len(vec) + Len(new)
            /\ Distinct(vec \o new, added + Len(new))
        BY <2>0, <3>1, <3>2, <4>1, Appended
      <4> QED BY <3>2, <4>2
    <3>5. /\ vec' \in Seq(Preview) /\ Len(vec') = Len(vec) + m
          /\ Distinct(vec', added')
      BY <3>3, <3>4
    <3>6. i' \in 0 .. Len(vec') /\ added' \in Nat
      BY <2>0, <2>1, <3>1, <3>3, <3>5 DEF AddPreview
    <3> QED BY <2>1, <3>5, <3>6 DEF AddPreview, Distinct
  <2>2. ASSUME NEW n \in Names, NEW x \in Priorities \cup {1},
               AddPriority(n, x)
        PROVE  TypeOK'
    <3>1. \A k \in 1 .. Len(vec) :
            vec'[k] \in Preview /\ vec'[k].id = vec[k].id
      BY <2>2, Reprioritised, ElementOfSeq DEF AddPriority
    <3>2. vec' \in Seq(Preview) /\ Len(vec') = Len(vec)
      <4>1. /\ vec' = [k \in 1 .. Len(vec) |-> vec'[k]]
            /\ Len(vec) \in Nat
        BY <2>0, <2>2 DEF AddPriority
      <4>2. vec' \in [1 .. Len(vec) -> Preview]
        BY <3>1, <4>1
      <4> HIDE DEF TypeOK
      <4> QED BY <4>1, <4>2
    <3> QED BY <2>2, <3>1, <3>2 DEF AddPriority
  <2>3. ASSUME NEW n \in Names, PriorityUnknown(n) PROVE TypeOK'
    BY <2>3 DEF PriorityUnknown
  <2>4. ASSUME NEW n \in Names, RemovePreview(n) PROVE TypeOK'
    <3>1. i' \in 0 .. Len(vec') /\ victim' \in Names
      BY <2>0, <2>4 DEF RemovePreview
    <3> QED BY <2>4, <3>1 DEF RemovePreview
  <2>5. ASSUME RemoveStep PROVE TypeOK'
    <3>1. i \in 1 .. Len(vec) /\ Len(vec) \in Nat
      BY <2>5, LenProperties DEF RemoveStep
    <3>2. CASE vec[i].name = victim
      <4>3. /\ WithoutAt(vec, i) \in Seq(Preview)
            /\ Len(WithoutAt(vec, i)) = Len(vec) - 1
            /\ Distinct(WithoutAt(vec, i), added)
        BY <2>0, <3>1, Removed
      <4>1. /\ vec' \in Seq(Preview) /\ Len(vec') = Len(vec) - 1
            /\ Distinct(vec', added)
        BY <2>5, <3>2, <4>3 DEF RemoveStep
      <4>2. i' \in 0 .. Len(vec')
        BY <2>5, <3>1, <4>1 DEF RemoveStep, Onwards
      <4> QED BY <2>5, <4>1, <4>2 DEF RemoveStep, Distinct
    <3>3. CASE vec[i].name # victim
      BY <2>5, <3>1, <3>3 DEF RemoveStep, Onwards
    <3> QED BY <3>2, <3>3
  <2>6. ASSUME RemoveEnd PROVE TypeOK'
    BY <2>6 DEF RemoveEnd
  <2>7. ASSUME PreviewsInit PROVE TypeOK'
    <3>1. list' \in [1 .. Len(vec) -> 1 .. Len(vec)]
      BY <2>7 DEF PreviewsInit, QSort, Arrangements
    <3>2. list' \in Seq(Nat)
      BY <2>0, <3>1
    <3> QED BY <2>7, <3>1, <3>2 DEF PreviewsInit
  <2>8. CASE UNCHANGED vars
    BY <2>8 DEF vars
  <2> QED
    BY <2>1, <2>2, <2>3, <2>4, <2>5, <2>6, <2>7, <2>8 DEF Next, Command
<1> QED BY <1>1, <1>2, PTL DEF Spec

-----------------------------------------------------------------------------
\* Where previews_init() left the list it is sorted, and a preview's order
\* tells whether it is a custom one.
LEMMA Sorting ==
  ASSUME PrioritiesFit
  PROVE  Spec => []SortedInv
<1>1. Init => SortedInv
  <2> SUFFICES ASSUME Init PROVE SortedInv
    OBVIOUS
  <2>1. /\ vec = BuiltIn /\ added = Len(BuiltIn) /\ pc = "config"
        /\ Len(BuiltIn) \in Nat
    BY PreviewsAssumption, LenProperties DEF Init
  <2>2. \A k \in 1 .. Len(vec) : vec[k].id = k /\ vec[k].order = 0
    BY <2>1, PreviewsAssumption
  <2>3. \A k \in 1 .. Len(vec) : ~(vec[k].id > Len(BuiltIn))
    BY <2>1, <2>2
  <2> QED BY <2>1, <2>2, <2>3 DEF SortedInv
<1>2. TypeOK /\ SortedInv /\ [Next]_vars => SortedInv'
  <2> SUFFICES ASSUME TypeOK, SortedInv, [Next]_vars PROVE SortedInv'
    OBVIOUS
  <2>0. /\ vec \in Seq(Preview) /\ Len(vec) \in Nat
        /\ added \in Nat /\ added >= Len(BuiltIn) /\ Len(BuiltIn) \in Nat
        /\ \A k \in 1 .. Len(vec) :
             vec[k].order = 1 <=> vec[k].id > Len(BuiltIn)
    BY PreviewsAssumption, LenProperties DEF TypeOK, SortedInv
  <2>1. ASSUME NEW n \in Names, NEW m \in 0 .. MaxTypes,
               NEW types \in [1 .. m -> Types], AddPreview(n, types)
        PROVE  SortedInv'
    <3> DEFINE new == NewPreviews(n, types, added)
    <3>1. m \in Nat /\ Len(types) = m
      BY PreviewsAssumption
    <3>2. /\ new \in Seq(Preview) /\ Len(new) = m
          /\ \A k \in 1 .. m : new[k] = NewPreview(n, types[k], added + k)
      <4>1. /\ NewPreviews(n, types, added) \in Seq(Preview)
            /\ Len(NewPreviews(n, types, added)) = m
            /\ \A k \in 1 .. m : NewPreviews(n, types, added)[k]
                                   = NewPreview(n, types[k], added + k)
        <5>1. added \in Nat /\ m \in Nat
          BY <2>0, <3>1
        <5> QED BY <5>1, NewSequence
      <4> QED BY <4>1
    <3> HIDE DEF new
    <3>3. \A k \in 1 .. m : new[k].order = 1 /\ new[k].id = added + k
      BY <3>2 DEF NewPreview, CustomOrder
    <3>4. \A k \in 1 .. m :
            new[k].order = 1 <=> new[k].id > Len(BuiltIn)
      BY <2>0, <3>1, <3>3
    <3>5. /\ Len(vec \o new) = Len(vec) + m
          /\ \A k \in 1 .. Len(vec) + m :
               (vec \o new)[k] = IF k <= Len(vec) THEN vec[k]
                                 ELSE new[k - Len(vec)]
      BY <2>0, <3>2, ConcatProperties
    <3>6. \A k \in 1 .. Len(vec \o new) :
            (vec \o new)[k].order = 1 <=> (vec \o new)[k].id > Len(BuiltIn)
      <4> SUFFICES ASSUME NEW k \in 1 .. Len(vec \o new)
                   PROVE  (vec \o new)[k].order = 1
                            <=> (vec \o new)[k].id > Len(BuiltIn)
        OBVIOUS
      <4>1. CASE k <= Len(vec)
        <5>1. k \in 1 .. Len(vec) /\ (vec \o new)[k] = vec[k]
          BY <2>0, <3>1, <3>5, <4>1
        <5> QED BY <2>0, <5>1
      <4>2. CASE k > Len(vec)
        <5>1. /\ k - Len(vec) \in 1 .. m
              /\ (vec \o new)[k] = new[k - Len(vec)]
          BY <2>0, <3>1, <3>5, <4>2
        <5> QED BY <3>4, <5>1
      <4> QED BY <2>0, <3>1, <3>5, <4>1, <4>2
    <3>7. vec' = vec \o new /\ added' = added + m /\ pc' = "config"
      BY <2>1, <3>1 DEF AddPreview, new
    <3>8. added' >= Len(BuiltIn)
      BY <2>0, <3>1, <3>7
    <3> QED BY <3>6, <3>7, <3>8 DEF SortedInv
  <2>2. ASSUME NEW n \in Names, NEW x \in Priorities \cup {1},
               AddPriority(n, x)
        PROVE  SortedInv'
    <3>1. \A k \in 1 .. Len(vec) :
            vec'[k].order = vec[k].order /\ vec'[k].id = vec[k].id
      BY <2>0, <2>2, Reprioritised, ElementOfSeq DEF AddPriority
    <3>2. Len(vec') = Len(vec)
      BY <2>0, <2>2 DEF AddPriority
    <3>3. added' = added /\ pc' = "config"
      BY <2>2 DEF AddPriority
    <3> QED BY <2>0, <3>1, <3>2, <3>3 DEF SortedInv
  <2>3. ASSUME NEW n \in Names, PriorityUnknown(n) PROVE SortedInv'
    BY <2>3 DEF PriorityUnknown, SortedInv
  <2>4. ASSUME NEW n \in Names, RemovePreview(n) PROVE SortedInv'
    BY <2>4 DEF RemovePreview, SortedInv
  <2>5. ASSUME RemoveStep PROVE SortedInv'
    <3>1. i \in 1 .. Len(vec) /\ pc' = "remove" /\ added' = added
      BY <2>0, <2>5 DEF RemoveStep, TypeOK
    <3>2. CASE vec[i].name = victim
      <4>1. /\ Len(WithoutAt(vec, i)) = Len(vec) - 1
            /\ \A l \in 1 .. Len(vec) - 1 :
                 WithoutAt(vec, i)[l] = IF l = i THEN vec[Len(vec)] ELSE vec[l]
        BY <2>0, <3>1, Removed
      <4>2. vec' = WithoutAt(vec, i)
        BY <2>5, <3>2 DEF RemoveStep
      <4>3. \A l \in 1 .. Len(vec') : \E k \in 1 .. Len(vec) :
              vec'[l] = vec[k]
        BY <2>0, <3>1, <4>1, <4>2
      <4> QED BY <2>0, <3>1, <4>3 DEF SortedInv
    <3>3. CASE vec[i].name # victim
      <4>1. vec' = vec
        BY <2>5, <3>3 DEF RemoveStep
      <4> QED BY <2>0, <3>1, <4>1 DEF SortedInv
    <3> QED BY <3>2, <3>3
  <2>6. ASSUME RemoveEnd PROVE SortedInv'
    BY <2>6 DEF RemoveEnd, SortedInv
  <2>7. ASSUME PreviewsInit PROVE SortedInv'
    <3>1. Range(vec) \subseteq Preview
      BY <2>0, Elements
    <3>2. Consistent(vec)
      BY <3>1, CmpConsistent
    <3>3. \A a, b \in 1 .. Len(vec) :
            a < b => CmpPreviews(vec[list'[a]], vec[list'[b]]) <= 0
      BY <2>7, <3>2 DEF PreviewsInit, QSort
    <3>4. UNCHANGED <<vec, added>>
      BY <2>7 DEF PreviewsInit
    <3> QED BY <2>0, <3>3, <3>4 DEF SortedInv
  <2>8. CASE UNCHANGED vars
    BY <2>8 DEF vars, SortedInv
  <2> QED
    BY <2>1, <2>2, <2>3, <2>4, <2>5, <2>6, <2>7, <2>8 DEF Next, Command
<1> QED BY <1>1, <1>2, TypeCorrect, PTL DEF Spec

\* What the list looks like once it is sorted.
LEMMA ListOrder ==
  ASSUME PrioritiesFit, TypeOK, SortedInv, pc = "sorted",
         NEW a \in 1 .. Len(vec), NEW b \in 1 .. Len(vec)
  PROVE  /\ Listed(a) \in Preview /\ Listed(b) \in Preview
         /\ Listed(a).order = 1 <=> Listed(a).id > Len(BuiltIn)
         /\ Listed(b).order = 1 <=> Listed(b).id > Len(BuiltIn)
         /\ a < b \/ a = b \/ CmpPreviews(Listed(b), Listed(a)) <= 0
<1>1. vec \in Seq(Preview) /\ Len(vec) \in Nat
  BY LenProperties DEF TypeOK
<1>2. list[a] \in 1 .. Len(vec) /\ list[b] \in 1 .. Len(vec)
  BY DEF TypeOK
<1>3. Listed(a) \in Preview /\ Listed(b) \in Preview
  BY <1>1, <1>2, ElementOfSeq DEF Listed
<1>4. b < a => CmpPreviews(Listed(b), Listed(a)) <= 0
  BY DEF SortedInv, Listed
<1>5. a < b \/ a = b \/ b < a
  BY <1>1
<1> QED BY <1>2, <1>3, <1>4, <1>5 DEF SortedInv, Listed

\* Of two previews, both built-in or both custom, the more specific one is
\* above the other unless the other has the higher priority, whatever qsort()
\* does with equal elements, as long as the differences of the priorities fit
\* into an int (checked as SpecificFirst in run previews_list).
THEOREM SpecificFirstAlways ==
  ASSUME PrioritiesFit
  PROVE  Spec => []SpecificFirst
<1>1. TypeOK /\ SortedInv => SpecificFirst
  <2> SUFFICES ASSUME TypeOK, SortedInv, pc = "sorted",
                      NEW a \in 1 .. Len(vec), NEW b \in 1 .. Len(vec),
                      Listed(a).order = Listed(b).order,
                      MoreSpecific(Listed(a), Listed(b)),
                      Listed(a).priority >= Listed(b).priority
               PROVE  a < b
    BY DEF SpecificFirst
  <2>1. /\ Listed(a) \in Preview /\ Listed(b) \in Preview
        /\ a < b \/ a = b \/ CmpPreviews(Listed(b), Listed(a)) <= 0
    BY ListOrder
  <2>2. a # b
    BY DEF MoreSpecific, SameFiles
  <2> DEFINE p == Listed(b)
             q == Listed(a)
  <2>3. CmpPreviews(p, q) =
           IF p.order # q.order THEN q.order - p.order
           ELSE IF p.ext # q.ext THEN q.ext - p.ext
           ELSE IF p.type # q.type THEN q.type - p.type
           ELSE IF p.subtype # q.subtype THEN q.subtype - p.subtype
           ELSE q.priority - p.priority
    BY <2>1, CmpSign
  <2>4. /\ p.ext \in Nat /\ q.ext \in Nat /\ p.type \in Nat
        /\ q.type \in Nat /\ p.subtype \in Nat /\ q.subtype \in Nat
        /\ p.order \in Int /\ q.order \in Int
        /\ p.priority \in Int /\ q.priority \in Int
    BY <2>1, FieldTypes
  <2> HIDE DEF p, q
  <2>5. ~(CmpPreviews(p, q) <= 0)
    BY <2>3, <2>4 DEF MoreSpecific, SameFiles, Null, p, q
  <2> QED BY <2>1, <2>2, <2>5 DEF p, q
<1> QED BY <1>1, TypeCorrect, Sorting, PTL

\* Custom previews are above built-in ones (checked as CustomFirst in run
\* previews_list).
THEOREM CustomFirstAlways ==
  ASSUME PrioritiesFit
  PROVE  Spec => []CustomFirst
<1>1. TypeOK /\ SortedInv => CustomFirst
  <2> SUFFICES ASSUME TypeOK, SortedInv, pc = "sorted",
                      NEW a \in 1 .. Len(vec), NEW b \in 1 .. Len(vec),
                      Listed(a).id > Len(BuiltIn), Listed(b).id <= Len(BuiltIn)
               PROVE  a < b
    BY DEF CustomFirst
  <2>1. /\ Listed(a) \in Preview /\ Listed(b) \in Preview
        /\ Listed(a).order = 1 <=> Listed(a).id > Len(BuiltIn)
        /\ Listed(b).order = 1 <=> Listed(b).id > Len(BuiltIn)
        /\ a < b \/ a = b \/ CmpPreviews(Listed(b), Listed(a)) <= 0
    BY ListOrder
  <2>2. Len(BuiltIn) \in Nat /\ Listed(a).id \in Nat /\ Listed(b).id \in Nat
    BY <2>1, PreviewsAssumption, LenProperties DEF Preview
  <2>3. Listed(a).order = 1 /\ Listed(b).order = 0
    BY <2>1, <2>2 DEF Preview
  <2>4. CmpPreviews(Listed(b), Listed(a)) = 1
    BY <2>1, <2>3, CmpSign
  <2> QED BY <2>1, <2>2, <2>3, <2>4
<1> QED BY <1>1, TypeCorrect, Sorting, PTL

\* Of two previews for the same files the one with the higher priority is
\* above the other (checked as PriorityFirst in run previews_list).
THEOREM PriorityFirstAlways ==
  ASSUME PrioritiesFit
  PROVE  Spec => []PriorityFirst
<1>1. TypeOK /\ SortedInv => PriorityFirst
  <2> SUFFICES ASSUME TypeOK, SortedInv, pc = "sorted",
                      NEW a \in 1 .. Len(vec), NEW b \in 1 .. Len(vec),
                      Listed(a).order = Listed(b).order,
                      SameFiles(Listed(a), Listed(b)),
                      Listed(a).priority > Listed(b).priority
               PROVE  a < b
    BY DEF PriorityFirst
  <2>1. /\ Listed(a) \in Preview /\ Listed(b) \in Preview
        /\ a < b \/ a = b \/ CmpPreviews(Listed(b), Listed(a)) <= 0
    BY ListOrder
  <2>2. Listed(a).priority \in Int /\ Listed(b).priority \in Int
    BY <2>1, FieldTypes
  <2>3. CmpPreviews(Listed(b), Listed(a))
          = Listed(a).priority - Listed(b).priority
    BY <2>1, CmpSign DEF SameFiles
  <2> QED BY <2>1, <2>2, <2>3
<1> QED BY <1>1, TypeCorrect, Sorting, PTL
-----------------------------------------------------------------------------
\* Behind the place remove_preview() has come to nothing has the name it
\* removes: what is put into a freed place comes from behind it.
LEMMA Removing == Spec => []RemoveInv
<1>1. Init => RemoveInv
  BY DEF Init, RemoveInv
<1>2. TypeOK /\ RemoveInv /\ [Next]_vars => RemoveInv'
  <2> SUFFICES ASSUME TypeOK, RemoveInv, [Next]_vars PROVE RemoveInv'
    OBVIOUS
  <2>0. vec \in Seq(Preview) /\ Len(vec) \in Nat
    BY LenProperties DEF TypeOK
  <2>1. ASSUME NEW n \in Names, NEW m \in 0 .. MaxTypes,
               NEW types \in [1 .. m -> Types], AddPreview(n, types)
        PROVE  RemoveInv'
    BY <2>1 DEF AddPreview, RemoveInv
  <2>2. ASSUME NEW n \in Names, NEW x \in Priorities \cup {1},
               AddPriority(n, x)
        PROVE  RemoveInv'
    BY <2>2 DEF AddPriority, RemoveInv
  <2>3. ASSUME NEW n \in Names, PriorityUnknown(n) PROVE RemoveInv'
    BY <2>3 DEF PriorityUnknown, RemoveInv
  <2>4. ASSUME NEW n \in Names, RemovePreview(n) PROVE RemoveInv'
    <3>1. \A k \in i' + 1 .. Len(vec') : FALSE
      BY <2>0, <2>4 DEF RemovePreview
    <3> QED BY <3>1 DEF RemoveInv
  <2>5. ASSUME RemoveStep PROVE RemoveInv'
    <3>1. /\ i \in 1 .. Len(vec) /\ i' = i - 1 /\ victim' = victim
          /\ \A k \in i + 1 .. Len(vec) : vec[k].name # victim
      BY <2>0, <2>5 DEF RemoveStep, TypeOK, Onwards, RemoveInv
    <3>2. CASE vec[i].name = victim
      <4>1. /\ Len(WithoutAt(vec, i)) = Len(vec) - 1
            /\ \A l \in 1 .. Len(vec) - 1 :
                 WithoutAt(vec, i)[l] = IF l = i THEN vec[Len(vec)] ELSE vec[l]
        BY <2>0, <3>1, Removed
      <4>2. vec' = WithoutAt(vec, i)
        BY <2>5, <3>2 DEF RemoveStep
      <4>3. \A l \in i .. Len(vec) - 1 :
              vec'[l] = IF l = i THEN vec[Len(vec)] ELSE vec[l]
        BY <2>0, <3>1, <4>1, <4>2
      <4>4. i < Len(vec) => vec[Len(vec)].name # victim
        BY <2>0, <3>1
      <4>5. \A l \in i .. Len(vec) - 1 : vec'[l].name # victim
        BY <2>0, <3>1, <4>3, <4>4
      <4> QED BY <2>0, <3>1, <4>1, <4>2, <4>5 DEF RemoveInv
    <3>3. CASE vec[i].name # victim
      <4>1. vec' = vec
        BY <2>5, <3>3 DEF RemoveStep
      <4>2. \A k \in i .. Len(vec) : vec[k].name # victim
        BY <2>0, <3>1, <3>3
      <4> QED BY <3>1, <4>1, <4>2 DEF RemoveInv
    <3> QED BY <3>2, <3>3
  <2>6. ASSUME RemoveEnd PROVE RemoveInv'
    BY <2>6 DEF RemoveEnd, RemoveInv
  <2>7. ASSUME PreviewsInit PROVE RemoveInv'
    BY <2>7 DEF PreviewsInit, RemoveInv
  <2>8. CASE UNCHANGED vars
    BY <2>8 DEF vars, RemoveInv
  <2> QED
    BY <2>1, <2>2, <2>3, <2>4, <2>5, <2>6, <2>7, <2>8 DEF Next, Command
<1> QED BY <1>1, <1>2, TypeCorrect, PTL DEF Spec

\* What each command does to the set of previews.
LEMMA RangeAppended ==
  ASSUME NEW v \in Seq(Preview), NEW w \in Seq(Preview)
  PROVE  /\ Range(v \o w) = Range(v) \cup Range(w)
         /\ Range(v \o w) \subseteq Preview
<1> DEFINE c == v \o w
<1>1. /\ c \in Seq(Preview) /\ Len(v) \in Nat /\ Len(w) \in Nat
      /\ Len(c) = Len(v) + Len(w)
      /\ \A k \in 1 .. Len(v) + Len(w) :
           c[k] = IF k <= Len(v) THEN v[k] ELSE w[k - Len(v)]
  BY ConcatProperties, LenProperties
<1> HIDE DEF c
<1>2. /\ Range(v) = {v[k] : k \in 1 .. Len(v)}
      /\ Range(w) = {w[k] : k \in 1 .. Len(w)}
      /\ Range(c) = {c[k] : k \in 1 .. Len(c)}
      /\ Range(c) \subseteq Preview
  BY <1>1, Elements
<1>3. \A k \in 1 .. Len(v) : k \in 1 .. Len(c) /\ v[k] = c[k]
  BY <1>1
<1>4. ASSUME NEW k \in 1 .. Len(w)
      PROVE  Len(v) + k \in 1 .. Len(c) /\ w[k] = c[Len(v) + k]
  <2> DEFINE l == Len(v) + k
  <2>1. l \in 1 .. Len(v) + Len(w) /\ ~(l <= Len(v)) /\ l - Len(v) = k
    BY <1>1
  <2> HIDE DEF l
  <2>2. c[l] = w[k]
    BY <1>1, <2>1
  <2> QED BY <1>1, <2>1, <2>2 DEF l
<1>5. ASSUME NEW k \in 1 .. Len(c)
      PROVE  \/ \E l \in 1 .. Len(v) : c[k] = v[l]
             \/ \E l \in 1 .. Len(w) : c[k] = w[l]
  <2>1. CASE k <= Len(v)
    BY <1>1, <2>1
  <2>2. CASE k > Len(v)
    <3>1. k - Len(v) \in 1 .. Len(w) /\ c[k] = w[k - Len(v)]
      BY <1>1, <2>2
    <3> QED BY <3>1
  <2> QED BY <1>1, <2>1, <2>2
<1>6. Range(v) \cup Range(w) \subseteq Range(c)
  BY <1>2, <1>3, <1>4
<1>7. Range(c) \subseteq Range(v) \cup Range(w)
  BY <1>2, <1>5
<1> QED BY <1>2, <1>6, <1>7 DEF c

\* What is new after a preview command is for its types and for no others.
LEMMA PreviewsAdded ==
  ASSUME TypeOK, NEW n \in Names, NEW m \in Nat,
         NEW types \in [1 .. m -> Types],
         vec' = vec \o NewPreviews(n, types, added)
  PROVE  LET fresh == Range(vec') \ Range(vec)
         IN  /\ Range(vec) \subseteq Range(vec')
             /\ Range(vec') \subseteq Preview
             /\ \A p \in fresh : \E k \in 1 .. m :
                  p = NewPreview(n, types[k], added + k)
             /\ \A k \in 1 .. m : NewPreview(n, types[k], added + k) \in fresh
<1> DEFINE w == NewPreviews(n, types, added)
<1>1. vec \in Seq(Preview) /\ added \in Nat
  BY DEF TypeOK
<1>2. /\ w \in Seq(Preview)
      /\ Len(w) = m
      /\ \A k \in 1 .. m : w[k] = NewPreview(n, types[k], added + k)
  BY <1>1, NewSequence, Zenon
<1> HIDE DEF w
<1>3. /\ Range(vec') = Range(vec) \cup Range(w)
      /\ Range(vec') \subseteq Preview
  BY <1>1, <1>2, RangeAppended DEF w
<1>4. /\ Range(w) = {w[k] : k \in 1 .. m}
      /\ Range(vec) = {vec[k] : k \in 1 .. Len(vec)}
  BY <1>1, <1>2, Elements
<1>5. ASSUME NEW k \in 1 .. m PROVE w[k] \notin Range(vec)
  <2>1. w[k].id = added + k
    BY <1>2 DEF NewPreview
  <2>2. \A l \in 1 .. Len(vec) : vec[l].id \in 1 .. added
    BY DEF TypeOK
  <2>3. \A l \in 1 .. Len(vec) : vec[l].id # w[k].id
    BY <1>1, <2>1, <2>2
  <2> QED BY <1>4, <2>3
<1> QED BY <1>2, <1>3, <1>4, <1>5

LEMMA RangeRemoved ==
  ASSUME NEW v \in Seq(Preview), NEW k \in 1 .. Len(v)
  PROVE  {p \in Range(WithoutAt(v, k)) : p.name # v[k].name}
           = {p \in Range(v) : p.name # v[k].name}
<1> DEFINE w == WithoutAt(v, k)
<1>1. /\ w \in Seq(Preview) /\ Len(w) = Len(v) - 1 /\ Len(v) \in Nat
      /\ \A l \in 1 .. Len(v) - 1 : w[l] = IF l = k THEN v[Len(v)] ELSE v[l]
  BY Removed, LenProperties
<1> HIDE DEF w
<1>2. /\ Range(v) = {v[l] : l \in 1 .. Len(v)}
      /\ Range(w) = {w[l] : l \in 1 .. Len(w)}
  BY <1>1, Elements
<1>3. \A l \in 1 .. Len(w) : \E m \in 1 .. Len(v) : w[l] = v[m]
  BY <1>1
<1>4. ASSUME NEW m \in 1 .. Len(v), v[m].name # v[k].name
      PROVE  \E l \in 1 .. Len(w) : w[l] = v[m]
  <2>1. m # k
    BY <1>4
  <2>2. CASE m < Len(v)
    <3>1. m \in 1 .. Len(w) /\ w[m] = v[m]
      BY <1>1, <2>1, <2>2
    <3> QED BY <3>1
  <2>3. CASE m = Len(v)
    <3>1. k \in 1 .. Len(w) /\ w[k] = v[m]
      BY <1>1, <2>1, <2>3
    <3> QED BY <3>1
  <2> QED BY <1>1, <2>2, <2>3
<1>5. Range(w) \subseteq Range(v)
  BY <1>2, <1>3
<1>6. \A p \in Range(v) : p.name # v[k].name => p \in Range(w)
  BY <1>2, <1>4
<1> QED BY <1>5, <1>6 DEF w

\* Whatever the order in which the vector keeps them, the commands of a
\* configuration add, change and remove exactly the previews they name
\* (checked as ImplementsSet in run previews_list).
THEOREM Implementation == Spec => ImplementsSet
<1>1. Init => Meaning!Init
  BY DEF Init, Meaning!Init, Mapped
<1>2. TypeOK /\ RemoveInv /\ [Next]_vars => [Meaning!Next]_Mapped
  <2> SUFFICES ASSUME TypeOK, RemoveInv, [Next]_vars
               PROVE  [Meaning!Next]_Mapped
    OBVIOUS
  <2>0. vec \in Seq(Preview) /\ Len(vec) \in Nat
    BY LenProperties DEF TypeOK
  <2>1. ASSUME NEW n \in Names, NEW m \in 0 .. MaxTypes,
               NEW types \in [1 .. m -> Types], AddPreview(n, types)
        PROVE  Meaning!Next
    <3> DEFINE fresh == Range(vec') \ Range(vec)
               ts == {types[k] : k \in 1 .. m}
    <3>1. m \in Nat /\ vec' = vec \o NewPreviews(n, types, added)
      BY <2>1, PreviewsAssumption DEF AddPreview
    <3>2. /\ Range(vec) \subseteq Range(vec')
          /\ Range(vec') \subseteq Preview
          /\ \A p \in fresh : \E k \in 1 .. m :
               p = NewPreview(n, types[k], added + k)
          /\ \A k \in 1 .. m : NewPreview(n, types[k], added + k) \in fresh
      BY <3>1, PreviewsAdded
    <3>3. Mapped = Range(vec) /\ Mapped' = Range(vec')
      BY <2>1 DEF AddPreview, Mapped
    <3> HIDE DEF fresh
    <3>4. ASSUME NEW k \in 1 .. m
          PROVE  /\ NewPreview(n, types[k], added + k).name = n
                 /\ NewPreview(n, types[k], added + k).order = 1
                 /\ NewPreview(n, types[k], added + k).priority = 0
                 /\ Meaning!For(NewPreview(n, types[k], added + k), types[k])
      BY DEF NewPreview, CustomOrder, AnyTypeNull, Meaning!For, Meaning!Open
    <3>5. \A k \in 1 .. m : types[k] \in ts
      OBVIOUS
    <3>6. \A p \in fresh :
            /\ p.name = n /\ p.order = 1 /\ p.priority = 0
            /\ \E t \in ts : Meaning!For(p, t)
      <4> SUFFICES ASSUME NEW p \in fresh
                   PROVE  /\ p.name = n /\ p.order = 1 /\ p.priority = 0
                          /\ \E t \in ts : Meaning!For(p, t)
        OBVIOUS
      <4>1. PICK k \in 1 .. m : p = NewPreview(n, types[k], added + k)
        BY <3>2
      <4> QED BY <3>4, <3>5, <4>1
    <3>7. \A t \in ts : \E p \in fresh : Meaning!For(p, t)
      BY <3>2, <3>4
    <3>8. ts \in SUBSET Types
      OBVIOUS
    <3>9. Meaning!Add(n, ts)
      BY <3>2, <3>3, <3>6, <3>7 DEF Meaning!Add, fresh
    <3> QED BY <3>8, <3>9 DEF Meaning!Next
  <2>2. ASSUME NEW n \in Names, NEW x \in Priorities \cup {1},
               AddPriority(n, x)
        PROVE  Meaning!Next
    <3>1. Mapped = Range(vec) /\ Mapped' = Range(vec')
      BY <2>2 DEF AddPriority, Mapped
    <3>2. /\ Len(vec') = Len(vec) /\ vec' \in Seq(Preview)
          /\ \A k \in 1 .. Len(vec) :
               vec'[k] = IF vec[k].name = n
                         THEN [vec[k] EXCEPT !.priority = x] ELSE vec[k]
      BY <2>0, <2>2, Reprioritised, ElementOfSeq DEF AddPriority
    <3>3. /\ Range(vec) = {vec[k] : k \in 1 .. Len(vec)}
          /\ Range(vec') = {vec'[k] : k \in 1 .. Len(vec)}
      BY <2>0, <3>2, Elements
    <3>4. Range(vec') = {p \in Range(vec) : p.name # n} \cup
            {[p EXCEPT !.priority = x] : p \in {q \in Range(vec) : q.name = n}}
      <4> DEFINE kept == {p \in Range(vec) : p.name # n}
                 old == {q \in Range(vec) : q.name = n}
                 new == {[p EXCEPT !.priority = x] : p \in old}
      <4>1. ASSUME NEW k \in 1 .. Len(vec)
            PROVE  vec'[k] \in kept \cup new
        <5>1. vec[k] \in Range(vec)
          BY <3>3
        <5> QED BY <3>2, <5>1
      <4>2. ASSUME NEW p \in kept PROVE p \in Range(vec')
        <5>1. PICK k \in 1 .. Len(vec) : p = vec[k] /\ vec[k].name # n
          BY <3>3
        <5>2. vec'[k] = p
          BY <3>2, <5>1
        <5> QED BY <3>3, <5>2
      <4>3. ASSUME NEW p \in new PROVE p \in Range(vec')
        <5>1. PICK q \in old : p = [q EXCEPT !.priority = x]
          OBVIOUS
        <5>2. PICK k \in 1 .. Len(vec) : q = vec[k] /\ vec[k].name = n
          BY <3>3
        <5>3. vec'[k] = p
          BY <3>2, <5>1, <5>2
        <5> QED BY <3>3, <5>3
      <4>4. Range(vec') \subseteq kept \cup new
        BY <3>3, <4>1
      <4>5. kept \cup new \subseteq Range(vec')
        BY <4>2, <4>3
      <4> QED BY <4>4, <4>5
    <3>5. Meaning!SetPriority(n, x)
      BY <3>1, <3>4 DEF Meaning!SetPriority, Meaning!Named
    <3> QED BY <3>5 DEF Meaning!Next
  <2>3. ASSUME NEW n \in Names, PriorityUnknown(n) PROVE UNCHANGED Mapped
    BY <2>3 DEF PriorityUnknown, Mapped
  <2>4. ASSUME NEW n \in Names, RemovePreview(n) PROVE Meaning!Next
    <3>1. /\ Mapped = Range(vec)
          /\ Mapped' = {p \in Range(vec) : p.name # n}
      BY <2>4 DEF RemovePreview, Mapped
    <3>2. Meaning!Remove(n)
      BY <3>1 DEF Meaning!Remove, Meaning!Named
    <3> QED BY <3>2 DEF Meaning!Next
  <2>5. ASSUME RemoveStep PROVE UNCHANGED Mapped
    <3>1. i \in 1 .. Len(vec)
      BY <2>0, <2>5 DEF RemoveStep, TypeOK
    <3>2. /\ Mapped = {p \in Range(vec) : p.name # victim}
          /\ Mapped' = {p \in Range(vec') : p.name # victim}
      BY <2>5 DEF RemoveStep, Mapped
    <3>3. CASE vec[i].name = victim
      <4>1. vec' = WithoutAt(vec, i)
        BY <2>5, <3>3 DEF RemoveStep
      <4> QED BY <2>0, <3>1, <3>2, <3>3, <4>1, RangeRemoved
    <3>4. CASE vec[i].name # victim
      BY <2>5, <3>2, <3>4 DEF RemoveStep
    <3> QED BY <3>3, <3>4
  <2>6. ASSUME RemoveEnd PROVE UNCHANGED Mapped
    <3>1. \A k \in 1 .. Len(vec) : vec[k].name # victim
      BY <2>6 DEF RemoveEnd, RemoveInv
    <3>2. Range(vec) = {vec[k] : k \in 1 .. Len(vec)}
      BY <2>0, Elements
    <3>3. Mapped = Range(vec)
      BY <2>6, <3>1, <3>2 DEF RemoveEnd, Mapped
    <3>4. Mapped' = Range(vec)
      BY <2>6 DEF RemoveEnd, Mapped
    <3> QED BY <3>3, <3>4
  <2>7. ASSUME PreviewsInit PROVE UNCHANGED Mapped
    BY <2>7 DEF PreviewsInit, Mapped
  <2>8. CASE UNCHANGED vars
    BY <2>8 DEF vars, Mapped
  <2> QED
    BY <2>1, <2>2, <2>3, <2>4, <2>5, <2>6, <2>7, <2>8 DEF Next, Command
<1> QED
  BY <1>1, <1>2, TypeCorrect, Removing, PTL DEF Spec, ImplementsSet, Meaning!Spec
=============================================================================
