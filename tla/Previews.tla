------------------------------ MODULE Previews ------------------------------
(***************************************************************************)
(* The list of previews: how the commands of the configuration change the  *)
(* vector of previews (src/config.c, src/vector.c), how previews_init()    *)
(* sorts it and what find_preview() takes for a match (src/preview.c).     *)
(*                                                                         *)
(* A string is its place in the order of strcmp(), from 1 on; NULL is 0.   *)
(***************************************************************************)
EXTENDS Integers, Sequences, Functions

CONSTANTS
  BuiltIn,     \* b_previews of previews.h, a sequence of previews
  Names,       \* names of previews
  Strings,     \* extensions, types and subtypes of a configuration
  Star,        \* the string "*"
  Types,       \* the types that preview commands give
  Priorities,  \* the integers that a priority command gives
  IntMax,      \* INT_MAX
  MaxTypes,    \* bound on the types of one preview command
  MaxAdded     \* bound on the previews a configuration adds

Null == 0

NoName == "none"

StringOrNull == Strings \cup {Null}

\* preview_type(): an extension, or a MIME type whose parts may be left open.
TypeSet ==
  [ext : Strings, type : {Null}, subtype : {Null}] \cup
  [ext : {Null}, type : StringOrNull, subtype : StringOrNull]

\* id stands for the script: it tells previews apart.
Preview == [name : Names, ext : StringOrNull, type : StringOrNull,
            subtype : StringOrNull, order : {0, 1},
            priority : Priorities \cup {0, 1}, short : BOOLEAN, id : Nat]

ASSUME PreviewsAssumption ==
  /\ Strings \subseteq Nat \ {0}
  /\ Star \in Nat \ {0}
  /\ Types \subseteq TypeSet
  /\ Priorities \subseteq Int
  /\ IntMax \in Nat \ {0}
  /\ MaxTypes \in Nat /\ MaxAdded \in Nat
  /\ BuiltIn \in Seq(Preview)
  /\ \A k \in 1 .. Len(BuiltIn) :
       /\ BuiltIn[k].id = k /\ BuiltIn[k].order = 0
       /\ BuiltIn[k].priority = 0

VARIABLES
  vec,     \* the vector of previews
  added,   \* history: how many previews were ever put into it
  pc,      \* "config", "remove", "error" (of the configuration) or "sorted"
  i,       \* in remove_preview(): the positions up to i are still to be seen
  victim,  \* in remove_preview(): the name, NoName elsewhere
  found,   \* in remove_preview(): whether there was one
  list     \* previews.list: positions in the vector

vars == <<vec, added, pc, i, victim, found, list>>

Init ==
  /\ vec = BuiltIn
  /\ added = Len(BuiltIn)
  /\ pc = "config"
  /\ i = 0 /\ victim = NoName /\ found = FALSE
  /\ list = <<>>

-----------------------------------------------------------------------------
(***************************************************************************)
(* The commands of the configuration.                                      *)
(***************************************************************************)

\* any_type_null()
AnyTypeNull(s) == IF s = Star THEN Null ELSE s

\* Mutant: custom previews are sorted among the built-in ones.
OrderZero == 0

\* "custom previews are always prioritized"
CustomOrder == 1

NewPreview(n, t, k) ==
  [name |-> n, ext |-> t.ext, type |-> AnyTypeNull(t.type),
   subtype |-> AnyTypeNull(t.subtype), order |-> CustomOrder, priority |-> 0,
   short |-> FALSE, id |-> k]

\* The entries that one preview command adds after the a-th.
NewPreviews(n, types, a) ==
  [k \in 1 .. Len(types) |-> NewPreview(n, types[k], a + k)]

\* preview: one entry for every type of the command.
AddPreview(n, types) ==
  /\ pc = "config"
  /\ added + Len(types) <= Len(BuiltIn) + MaxAdded
  /\ vec' = vec \o NewPreviews(n, types, added)
  /\ added' = added + Len(types)
  /\ UNCHANGED <<pc, i, victim, found, list>>

\* priority: all that have the name; a command without a number gives 1.
AddPriority(n, x) ==
  /\ pc = "config"
  /\ \E k \in 1 .. Len(vec) : vec[k].name = n
  /\ vec' = [k \in 1 .. Len(vec) |->
               IF vec[k].name = n THEN [vec[k] EXCEPT !.priority = x]
               ELSE vec[k]]
  /\ UNCHANGED <<added, pc, i, victim, found, list>>

\* "preview '%s' not found"
PriorityUnknown(n) ==
  /\ pc = "config"
  /\ \A k \in 1 .. Len(vec) : vec[k].name # n
  /\ pc' = "error"
  /\ UNCHANGED <<vec, added, i, victim, found, list>>

\* remove: remove_preview() goes through the vector from its end ...
RemovePreview(n) ==
  /\ pc = "config"
  /\ pc' = "remove"
  /\ i' = Len(vec) /\ victim' = n /\ found' = FALSE
  /\ UNCHANGED <<vec, added, list>>

\* Mutant: the length goes down and nothing is moved.
DropLast(v, k) == SubSeq(v, 1, Len(v) - 1)

\* vector_remove(): the last element takes the place of the removed one.
WithoutAt(v, k) ==
  [l \in 1 .. Len(v) - 1 |-> IF l = k THEN v[Len(v)] ELSE v[l]]

\* Mutant: the vector is gone through from its start.
Upwards == i + 1

Onwards == i - 1

RemoveStep ==
  /\ pc = "remove"
  /\ i >= 1
  /\ i' = Onwards
  /\ \/ /\ vec[i].name = victim
        /\ vec' = WithoutAt(vec, i)
        /\ found' = TRUE
     \/ /\ vec[i].name # victim
        /\ UNCHANGED <<vec, found>>
  /\ UNCHANGED <<added, pc, victim, list>>

\* ... to its start; a name that nothing has is an error.
RemoveEnd ==
  /\ pc = "remove"
  /\ i = 0
  /\ pc' = IF found THEN "config" ELSE "error"
  /\ victim' = NoName /\ found' = FALSE
  /\ UNCHANGED <<vec, added, i, list>>

-----------------------------------------------------------------------------
(***************************************************************************)
(* The order of the list.                                                  *)
(***************************************************************************)

\* A difference of two ints: what does not fit wraps around (the build does
\* not ask for anything else; in C it is undefined).
Wrap(x) ==
  IF x > IntMax THEN x - 2 * (IntMax + 1)
  ELSE IF x < -IntMax - 1 THEN x + 2 * (IntMax + 1)
  ELSE x

\* strcmpnull(): NULL comes before every string.
StrCmpNull(a, b) == a - b

\* Mutant: in the order of strcmp(), NULL comes first.
NullFirst(a, b) == StrCmpNull(a, b)

\* Strings in the opposite order, so that NULL comes last.
NullLast(a, b) == -StrCmpNull(a, b)

\* Mutant: the smaller priority comes first.
SmallerFirst(p, q) == Wrap(p.priority - q.priority)

LargerFirst(p, q) == Wrap(q.priority - p.priority)

\* cmp_previews()
CmpPreviews(p, q) ==
  IF p.order # q.order THEN q.order - p.order
  ELSE IF p.ext # q.ext THEN NullLast(p.ext, q.ext)
  ELSE IF p.type # q.type THEN NullLast(p.type, q.type)
  ELSE IF p.subtype # q.subtype THEN NullLast(p.subtype, q.subtype)
  ELSE LargerFirst(p, q)

\* The differences of all priorities fit into an int.
PrioritiesFit ==
  \A x, y \in Priorities \cup {0, 1} : x - y \in -IntMax - 1 .. IntMax

\* What qsort() asks of its comparison: the signs are opposite both ways
\* round, and "not after" is transitive.
Consistent(v) ==
  \A a, b \in Range(v) :
    /\ CmpPreviews(a, b) > 0 <=> CmpPreviews(b, a) < 0
    /\ \A c \in Range(v) :
         CmpPreviews(a, b) <= 0 /\ CmpPreviews(b, c) <= 0
           => CmpPreviews(a, c) <= 0

Arrangements(n) ==
  {l \in [1 .. n -> 1 .. n] : \A a, b \in 1 .. n : l[a] = l[b] => a = b}

\* qsort() is not stable: any sorted arrangement, and without a consistent
\* comparison any arrangement at all.
QSort(v) ==
  {l \in Arrangements(Len(v)) :
     Consistent(v) => \A a, b \in 1 .. Len(v) :
                        a < b => CmpPreviews(v[l[a]], v[l[b]]) <= 0}

\* The configuration is read; previews_init() sorts pointers to the previews.
PreviewsInit ==
  /\ pc = "config"
  /\ pc' = "sorted"
  /\ list' \in QSort(vec)
  /\ UNCHANGED <<vec, added, i, victim, found>>

-----------------------------------------------------------------------------
Command ==
  \/ \E n \in Names :
       \/ \E k \in 0 .. MaxTypes : \E types \in [1 .. k -> Types] :
            AddPreview(n, types)
       \/ \E x \in Priorities \cup {1} : AddPriority(n, x)
       \/ PriorityUnknown(n)
       \/ RemovePreview(n)

Next == Command \/ RemoveStep \/ RemoveEnd \/ PreviewsInit

Spec == Init /\ [][Next]_vars

-----------------------------------------------------------------------------
(***************************************************************************)
(* find_preview().                                                         *)
(*                                                                         *)
(* A file has an extension (get_ext()), with what follows its last dot or  *)
(* NULL when there is no dot in it: "tar.gz" has "gz", "gz" has NULL.      *)
(***************************************************************************)
File == [ext : StringOrNull, afterDot : StringOrNull,
         type : StringOrNull, subtype : StringOrNull]

ComparedExt(p, f) == IF f.ext # Null /\ p.short THEN f.afterDot ELSE f.ext

Matches(p, f) ==
  /\ p.ext # Null => p.ext = ComparedExt(p, f)
  /\ p.type # Null => p.type = f.type
  /\ p.subtype # Null => p.subtype = f.subtype

-----------------------------------------------------------------------------
(***************************************************************************)
(* Properties.                                                             *)
(***************************************************************************)

\* Every variable has its type; the previews in the vector are distinct.
TypeOK ==
  /\ vec \in Seq(Preview)
  /\ added \in Nat
  /\ pc \in {"config", "remove", "error", "sorted"}
  /\ i \in 0 .. Len(vec)
  /\ victim \in Names \cup {NoName}
  /\ found \in BOOLEAN
  /\ list \in Seq(Nat)
  /\ pc = "sorted" => list \in [1 .. Len(vec) -> 1 .. Len(vec)]
  /\ \A k \in 1 .. Len(vec) : vec[k].id \in 1 .. added
  /\ \A k, l \in 1 .. Len(vec) : vec[k].id = vec[l].id => k = l

\* The commands have the effect that is documented: preview adds previews for
\* exactly its types, and removing the elements of one name while the vector
\* is gone through neither skips one of them nor takes another one away.
Mapped ==
  IF pc = "remove" THEN {p \in Range(vec) : p.name # victim} ELSE Range(vec)

Meaning == INSTANCE PreviewSet WITH
             Default <- Range(BuiltIn), All <- Preview,
             Priorities <- Priorities \cup {1}, set <- Mapped

ImplementsSet == Meaning!Spec

\* Why it does: nothing behind i has the name that is removed.
RemoveInv ==
  pc = "remove" => \A k \in i + 1 .. Len(vec) : vec[k].name # victim

\* Why the properties below hold: the list is sorted, and its order tells
\* custom previews from built-in ones.
SortedInv ==
  /\ added >= Len(BuiltIn)
  /\ \A k \in 1 .. Len(vec) : vec[k].order = 1 <=> vec[k].id > Len(BuiltIn)
  /\ pc = "sorted" =>
       \A a, b \in 1 .. Len(vec) :
         a < b => CmpPreviews(vec[list[a]], vec[list[b]]) <= 0

\* p and q apply to the same files, or p to part of those of q.
SameFiles(p, q) ==
  p.ext = q.ext /\ p.type = q.type /\ p.subtype = q.subtype

MoreSpecific(p, q) ==
  /\ ~SameFiles(p, q)
  /\ q.ext \in {Null, p.ext}
  /\ q.type \in {Null, p.type}
  /\ q.subtype \in {Null, p.subtype}

\* Previews in the order of the list.
Listed(a) == vec[list[a]]

\* The more specific of two built-in or of two custom previews is above the
\* other one (doc/ctpv.1:225-227), unless the commands have given the other one
\* the higher priority, which is meant to change the order (doc/ctpv.1:230,
\* 485-501).  The premise is the manual's: cmp_previews() looks at priorities
\* after everything else, so that a higher one does not lift a preview above
\* one that is more specific, although "priority cat" in doc/ctpv.1:500-501 is
\* to do so.
SpecificFirst ==
  pc = "sorted" =>
    \A a, b \in 1 .. Len(vec) :
      /\ Listed(a).order = Listed(b).order
      /\ MoreSpecific(Listed(a), Listed(b))
      /\ Listed(a).priority >= Listed(b).priority
      => a < b

\* Custom previews are above all built-in ones, whatever their priority.
CustomFirst ==
  pc = "sorted" =>
    \A a, b \in 1 .. Len(vec) :
      Listed(a).id > Len(BuiltIn) /\ Listed(b).id <= Len(BuiltIn) => a < b

\* Of two previews that apply to the same files the one with the higher
\* priority is above the other one (doc/ctpv.1:487-492).
PriorityFirst ==
  pc = "sorted" =>
    \A a, b \in 1 .. Len(vec) :
      /\ Listed(a).order = Listed(b).order
      /\ SameFiles(Listed(a), Listed(b))
      /\ Listed(a).priority > Listed(b).priority
      => a < b

\* A preview for files whose name ends in .gpg applies to each of them,
\* whatever else is in the name (doc/ctpv.1:381).
LastExtension(f) == IF f.afterDot # Null THEN f.afterDot ELSE f.ext

ShortApplies ==
  \A p \in Range(vec), f \in File :
    p.short /\ LastExtension(f) = p.ext => Matches(p, f)
=============================================================================
