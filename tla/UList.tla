------------------------------- MODULE UList -------------------------------
(***************************************************************************)
(* The unrolled linked list in which the lexer keeps the texts of tokens   *)
(* (src/ulist.c): nodes with a buffer each, and the texts that were handed *)
(* out as pointers into the buffers.                                       *)
(*                                                                         *)
(* A pointer is a node and the number of elements before it.               *)
(***************************************************************************)
EXTENDS Integers, Sequences

CONSTANTS
  Elems,    \* what is appended
  FirstCap, \* capacity of the first node, as given to ulist_new()
  MaxArr,   \* bound on the length of one appended array
  MaxTotal  \* bound on the elements ever appended

ASSUME UListAssumption ==
  FirstCap \in Nat \ {0} /\ MaxArr \in Nat /\ MaxTotal \in Nat

NoLock == -1

VARIABLES
  nodes,   \* from head to tail, each with its capacity and its elements
  lock_i,  \* where in the tail the locked elements begin, or NoLock
  text,    \* history: what was appended since the list was locked
  given,   \* history: the pointers handed out, with their texts
  total    \* history: how many elements were ever appended

vars == <<nodes, lock_i, text, given, total>>

Tail_ == nodes[Len(nodes)]

Locked == lock_i # NoLock

\* ulist_new()
Init ==
  /\ nodes = <<[cap |-> FirstCap, buf |-> <<>>]>>
  /\ lock_i = NoLock
  /\ text = <<>> /\ given = {} /\ total = 0

-----------------------------------------------------------------------------
\* Mutant: one element more than there is room for.
FitsAlmost(n) == Len(Tail_.buf) + n <= Tail_.cap + 1

Fits(n) == Len(Tail_.buf) + n <= Tail_.cap

\* The capacity is doubled until it is enough.
Grown(need) ==
  {c \in need .. 2 * need - 1 : \E k \in 1 .. need : c = Tail_.cap * 2 ^ k}

\* Mutant: the new node starts empty, locked or not.
CarriedNot == <<>>

\* The locked elements go along into a new node.
Carried ==
  IF Locked THEN SubSeq(Tail_.buf, lock_i + 1, Len(Tail_.buf)) ELSE <<>>

\* Mutant: the element before the lock is taken out of the old node, too.
RemainingCut == IF Locked THEN SubSeq(Tail_.buf, 1, lock_i - 1) ELSE Tail_.buf

Remaining == IF Locked THEN SubSeq(Tail_.buf, 1, lock_i) ELSE Tail_.buf

LockMoved == IF Locked THEN 0 ELSE NoLock

AppendHere(arr) ==
  /\ Fits(Len(arr))
  /\ nodes' = [nodes EXCEPT ![Len(nodes)].buf = @ \o arr]
  /\ UNCHANGED lock_i

\* A buffer that was handed out never moves: there is a new node instead.
AppendToNew(arr) ==
  /\ ~Fits(Len(arr))
  /\ \E cap \in Grown(Len(Tail_.buf) + Len(arr)) :
       nodes' = Append([nodes EXCEPT ![Len(nodes)].buf = Remaining],
                       [cap |-> cap, buf |-> Carried \o arr])
  /\ lock_i' = LockMoved

\* ulist_append_arr(), and ulist_append() for an array of one
AppendArr(arr) ==
  /\ total + Len(arr) <= MaxTotal
  /\ AppendHere(arr) \/ AppendToNew(arr)
  /\ text' = IF Locked THEN text \o arr ELSE text
  /\ total' = total + Len(arr)
  /\ UNCHANGED given

\* ulist_lock(); a list that is locked already forgets its lock.
Lock ==
  /\ lock_i' = Len(Tail_.buf)
  /\ text' = <<>>
  /\ UNCHANGED <<nodes, given, total>>

\* ulist_unlock(), which the lexer calls for a list that is locked only
Unlock ==
  /\ Locked
  /\ lock_i' = NoLock
  /\ given' = given \cup {[node |-> Len(nodes), at |-> lock_i, text |-> text]}
  /\ text' = <<>>
  /\ UNCHANGED <<nodes, total>>

Next ==
  \/ \E n \in 0 .. MaxArr : \E arr \in [1 .. n -> Elems] : AppendArr(arr)
  \/ Lock
  \/ Unlock

Spec == Init /\ [][Next]_vars

-----------------------------------------------------------------------------
\* Every variable has its type; a node holds no more than it has room for,
\* and lock_i is a place in the tail.
TypeOK ==
  /\ nodes \in Seq([cap : Nat \ {0}, buf : Seq(Elems)])
  /\ Len(nodes) > 0
  /\ \A n \in 1 .. Len(nodes) : Len(nodes[n].buf) <= nodes[n].cap
  /\ lock_i \in 0 .. Len(Tail_.buf) \cup {NoLock}
  /\ text \in Seq(Elems)
  /\ given \subseteq [node : 1 .. Len(nodes), at : Nat, text : Seq(Elems)]
  /\ total \in Nat

\* The text behind a pointer.
IsAt(t, n, at) ==
  /\ at + Len(t) <= Len(nodes[n].buf)
  /\ \A k \in 1 .. Len(t) : nodes[n].buf[at + k] = t[k]

\* A text that was handed out stays where it is and what it is, however the
\* list grows afterwards.
TextsKept == \A g \in given : IsAt(g.text, g.node, g.at)

\* "Ensure that all the elements appended will be placed in memory one after
\* another": what was appended since the lock is one piece, at its end, of
\* the tail.
OneAfterAnother ==
  Locked =>
    /\ IsAt(text, Len(nodes), lock_i)
    /\ Len(Tail_.buf) = lock_i + Len(text)

\* Why texts are kept: the elements that move were appended after the lock,
\* the texts in the tail lie before it.
BeforeLock ==
  Locked => \A g \in given :
              g.node = Len(nodes) => g.at + Len(g.text) <= lock_i
=============================================================================
