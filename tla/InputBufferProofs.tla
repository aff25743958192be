------------------------- MODULE InputBufferProofs -------------------------
(***************************************************************************)
(* Proofs about InputBuffer for every file and every size of the buffer.   *)
(***************************************************************************)
EXTENDS InputBuffer, SequenceTheorems, TLAPS

Buffer == [pos : Nat, len : 0 .. Size, eof : BOOLEAN, read : 0 .. Len(file),
           buf : [0 .. Size - 1 -> Chars \cup {Junk}]]

\* x is the part of the file before the place read, and the next character to
\* take is at pos.
Window(x) ==
  /\ x \in Buffer
  /\ x.len <= x.read
  /\ at = x.read - x.len + x.pos
  /\ \A k \in 0 .. x.len - 1 : x.buf[k] = file[x.read - x.len + k + 1]
  /\ x.eof => x.read = Len(file)

Inv == TypeOK /\ BufferInv

\* i characters are left in the buffer.
Left(i) == b.pos + i = b.len

LEMMA FileTypes ==
  ASSUME TypeOK
  PROVE  /\ file \in Seq(Chars) /\ Len(file) \in Nat
         /\ \A k \in 1 .. Len(file) : file[k] \in Chars
<1>1. file \in Seq(Chars)
  BY InputBufferAssumption DEF TypeOK
<1> QED BY <1>1, LenProperties, ElementOfSeq

LEMMA BufferTypes ==
  ASSUME TypeOK
  PROVE  /\ b \in Buffer /\ b.pos \in Nat /\ b.len \in 0 .. Size
         /\ b.eof \in BOOLEAN /\ b.read \in 0 .. Len(file)
         /\ b.buf \in [0 .. Size - 1 -> Chars \cup {Junk}]
<1>1. b \in Buffer
  BY DEF TypeOK, Buffer
<1> QED BY <1>1 DEF Buffer

\* What memmove() and fread() leave, when i characters are left.
LEMMA RefilledWindow ==
  ASSUME Inv, NEW i \in 0 .. MaxPeek, ~b.eof, Left(i)
  PROVE  /\ Window(Refilled(i))
         /\ Refilled(i).pos = 0
         /\ Refilled(i).len \in i .. Size
         /\ ~Refilled(i).eof => Refilled(i).len = Size
         /\ Refilled(i).len > i => Refilled(i).buf[i] = file[at + i + 1]
         /\ Refilled(i).len > i => at + i < Len(file)
         /\ Refilled(i).len <= i => Len(file) <= at + i
         /\ i > 0 => Refilled(i).buf[i] \in Chars
<1> DEFINE n == Count(i)
           r == Refilled(i)
<1>0. /\ Size \in Nat /\ MaxPeek \in Nat /\ MaxPeek < Size
      /\ i \in Nat /\ i < Size /\ Len(file) \in Nat
      /\ b.pos \in Nat /\ b.len \in 0 .. Size /\ b.read \in 0 .. Len(file)
      /\ b.buf \in [0 .. Size - 1 -> Chars \cup {Junk}]
      /\ \A k \in 1 .. Len(file) : file[k] \in Chars
  BY InputBufferAssumption, BufferTypes, FileTypes DEF Inv
<1>1. /\ b.len <= b.read /\ at = b.read - i
      /\ b.len = Size \/ (b.len = 0 /\ b.read = 0 /\ i = 0)
      /\ \A k \in 0 .. b.len - 1 : b.buf[k] = file[b.read - b.len + k + 1]
  BY <1>0, SMTT(30) DEF Inv, BufferInv, Left
<1>20. /\ Size \in Int /\ i \in Int /\ Len(file) \in Int
      /\ b.len \in Int /\ b.read \in Int
      /\ 0 <= i /\ i < Size /\ 0 <= b.len /\ b.len <= Size
      /\ 0 <= b.read /\ b.read <= Len(file)
  BY <1>0
<1>2. /\ n \in Int /\ 0 <= n /\ i + n <= Size /\ b.read + n <= Len(file)
      /\ i + n # Size => b.read + n = Len(file)
  <2>1. CASE Len(file) - b.read < Size - i
    <3>1. n = Len(file) - b.read
      BY <2>1 DEF Count
    <3> HIDE DEF n
    <3> QED BY <1>20, <2>1, <3>1, SMTT(30)
  <2>2. CASE ~(Len(file) - b.read < Size - i)
    <3>1. n = Size - i
      BY <2>2 DEF Count
    <3> HIDE DEF n
    <3> QED BY <1>20, <2>2, <3>1
  <2> QED BY <2>1, <2>2
<1>3. /\ r.pos = 0 /\ r.len = i + n /\ r.eof = (i + n # Size)
      /\ r.read = b.read + n
      /\ r.buf = [k \in 0 .. Size - 1 |->
                    IF k < i THEN b.buf[b.len - i + k]
                    ELSE IF k < i + n THEN file[b.read + (k - i) + 1]
                    ELSE b.buf[k]]
  BY DEF Refilled, Moved
<1> HIDE DEF n
<1>4. ASSUME NEW k \in 0 .. Size - 1
      PROVE  /\ r.buf[k] \in Chars \cup {Junk}
             /\ k < i + n => r.buf[k] = file[b.read - i + k + 1]
             /\ i > 0 => r.buf[k] \in Chars
  <2>1. CASE k < i
    <3>1. /\ b.len = Size /\ b.len - i + k \in 0 .. b.len - 1
          /\ b.read - b.len + (b.len - i + k) + 1 = b.read - i + k + 1
          /\ b.read - i + k + 1 \in 1 .. Len(file)
      <4>1. k \in Int /\ 0 <= k /\ k < i /\ b.len = Size /\ b.len <= b.read
        BY <1>20, <1>1, <2>1
      <4>2. b.len - i + k \in 0 .. b.len - 1
        BY <1>20, <4>1
      <4>3. b.read - b.len + (b.len - i + k) + 1 = b.read - i + k + 1
        BY <1>20, <4>1
      <4>4. b.read - i + k + 1 \in 1 .. Len(file)
        BY <1>20, <4>1
      <4> QED BY <4>1, <4>2, <4>3, <4>4
    <3>2. b.buf[b.len - i + k] = file[b.read - i + k + 1]
      BY <1>1, <3>1
    <3> QED BY <1>0, <1>3, <2>1, <3>1, <3>2
  <2>2. CASE ~(k < i) /\ k < i + n
    <3>1. /\ b.read + (k - i) + 1 = b.read - i + k + 1
          /\ b.read - i + k + 1 \in 1 .. Len(file)
      BY <1>20, <1>2, <2>2, SMTT(30)
    <3> QED BY <1>0, <1>3, <2>2, <3>1
  <2>3. CASE ~(k < i) /\ ~(k < i + n)
    <3>1. r.buf[k] = b.buf[k]
      BY <1>3, <2>3
    <3>2. i > 0 => b.buf[k] \in Chars
      <4> SUFFICES ASSUME i > 0 PROVE b.buf[k] \in Chars
        OBVIOUS
      <4>1. /\ k \in 0 .. b.len - 1
            /\ b.read - b.len + k + 1 \in 1 .. Len(file)
        BY <1>20, <1>1
      <4> QED BY <1>0, <1>1, <4>1
    <3> QED BY <1>0, <2>3, <3>1, <3>2
  <2> QED BY <2>1, <2>2, <2>3
<1>5. r \in Buffer
  <2>1. r.buf \in [0 .. Size - 1 -> Chars \cup {Junk}]
    BY <1>3, <1>4
  <2>2. r = [pos |-> r.pos, len |-> r.len, eof |-> r.eof, read |-> r.read,
             buf |-> r.buf]
    BY DEF Refilled
  <2>3. r.pos \in Nat /\ r.len \in 0 .. Size /\ r.read \in 0 .. Len(file)
    BY <1>20, <1>2, <1>3
  <2>4. r.eof \in BOOLEAN
    BY <1>3
  <2> HIDE DEF r
  <2> QED BY <2>1, <2>2, <2>3, <2>4 DEF Buffer
<1> HIDE DEF r
<1>21. r.len = i + n /\ r.read = b.read + n /\ r.pos = 0 /\ at = b.read - i
  BY <1>1, <1>3
<1>22. i <= b.read
  BY <1>1, <1>20
<1>6. r.len <= r.read /\ at = r.read - r.len + r.pos
  BY <1>20, <1>21, <1>22, <1>2
<1>7. \A k \in 0 .. r.len - 1 : r.buf[k] = file[r.read - r.len + k + 1]
  <2> SUFFICES ASSUME NEW k \in 0 .. r.len - 1
               PROVE  r.buf[k] = file[r.read - r.len + k + 1]
    OBVIOUS
  <2>1. /\ k \in 0 .. Size - 1 /\ k < i + n
        /\ r.read - r.len + k + 1 = b.read - i + k + 1
    BY <1>20, <1>21, <1>2
  <2> QED BY <1>4, <2>1
<1>8. Window(r)
  BY <1>2, <1>3, <1>5, <1>6, <1>7 DEF Window
<1>9. /\ r.len > i => r.buf[i] = file[at + i + 1] /\ at + i < Len(file)
      /\ r.len <= i => Len(file) <= at + i
  <2>1. /\ r.len > i => r.buf[i] = file[b.read - i + i + 1]
    BY <1>20, <1>21, <1>2, <1>4
  <2>2. b.read - i + i + 1 = at + i + 1
    BY <1>20, <1>21
  <2>3. r.len > i => at + i < Len(file)
    BY <1>20, <1>21, <1>2
  <2>4. r.len <= i => Len(file) <= at + i
    BY <1>20, <1>21, <1>2
  <2> QED BY <2>1, <2>2, <2>3, <2>4
<1>10. i > 0 => r.buf[i] \in Chars
  BY <1>0, <1>4
<1>11. /\ r.pos = 0 /\ r.len \in i .. Size /\ (~r.eof => r.len = Size)
  <2>1. r.len \in i .. Size
    BY <1>20, <1>21, <1>2
  <2> QED BY <2>1, <1>3
<1> QED BY <1>8, <1>9, <1>10, <1>11 DEF r
\* What peekn_char() leaves and returns, called the way the lexer does.
LEMMA PeekedWindow ==
  ASSUME Inv, NEW i \in 0 .. MaxPeek, i = 0 \/ i = Len(got)
  PROVE  /\ Window(Peeked(i).b)
         /\ ~Peeked(i).b.eof => /\ Peeked(i).b.len = Size
                                /\ Peeked(i).b.pos + i + 1 <= Peeked(i).b.len
         /\ at + i < Len(file) => Peeked(i).c = file[at + i + 1]
         /\ at + i >= Len(file) => /\ Peeked(i).c \in Chars \cup {Eof}
                                   /\ i = 0 => Peeked(i).c = Eof
<1>0. /\ Size \in Int /\ MaxPeek < Size /\ i \in Int /\ 0 <= i /\ i <= MaxPeek
      /\ MaxPeek \in Int /\ Len(file) \in Int /\ Len(got) \in Nat /\ at \in Nat
      /\ b.pos \in Nat /\ b.len \in Nat /\ b.len <= Size /\ b.read \in Nat
      /\ b.read <= Len(file)
  <2>1. got \in Seq(Chars) /\ at \in Nat
    BY DEF Inv, TypeOK
  <2> QED BY <2>1, InputBufferAssumption, BufferTypes, FileTypes, LenProperties
        DEF Inv
<1>1. /\ Window(b) /\ b.len <= b.read /\ at = b.read - b.len + b.pos
      /\ \A k \in 0 .. b.len - 1 : b.buf[k] = file[b.read - b.len + k + 1]
      /\ b.eof => b.read = Len(file)
  BY BufferTypes DEF Inv, BufferInv, Window
<1>2. ~b.eof => /\ b.len = Size \/ (b.len = 0 /\ b.read = 0)
                /\ b.pos + Len(got) <= b.len
  BY DEF Inv, BufferInv
<1>3. b.pos + i <= b.len \/ b.eof
  BY <1>0, <1>2
<1>4. CASE InBuffer(i)
  <2>1. Peeked(i).b = b /\ Peeked(i).c = b.buf[b.pos + i]
    BY <1>4 DEF Peeked
  <2>2. b.pos + i < b.len
    BY <1>4 DEF InBuffer
  <2>3. /\ b.pos + i \in 0 .. b.len - 1
        /\ b.read - b.len + (b.pos + i) + 1 = at + i + 1
        /\ at + i < Len(file) /\ b.pos + i + 1 <= b.len
    <3>1. b.pos \in Int /\ 0 <= b.pos /\ b.len \in Int /\ b.read \in Int /\ at \in Int
      BY <1>0
    <3>2. b.pos + i \in 0 .. b.len - 1
      BY <1>0, <2>2, <3>1
    <3>3. b.read - b.len + (b.pos + i) + 1 = at + i + 1
      BY <1>0, <1>1, <3>1, SMTT(30)
    <3>4. at + i < Len(file)
      BY <1>0, <1>1, <2>2, <3>1, SMTT(30)
    <3>5. b.pos + i + 1 <= b.len
      BY <1>0, <2>2, <3>1
    <3> QED BY <3>2, <3>3, <3>4, <3>5
  <2>4. b.buf[b.pos + i] = file[at + i + 1]
    BY <1>1, <2>3
  <2>5. ~b.eof => b.len = Size
    BY <1>0, <1>2, <2>2
  <2> QED BY <1>0, <1>1, <2>1, <2>3, <2>4, <2>5
<1>5. CASE ~InBuffer(i) /\ NoMore(i)
  <2>1. Peeked(i).b = b /\ Peeked(i).c = Eof
    BY <1>5 DEF Peeked
  <2>2. b.pos + i >= b.len
    BY <1>0, <1>5 DEF InBuffer
  <2>3. b.eof
    <3> SUFFICES ASSUME ~b.eof PROVE FALSE
      OBVIOUS
    <3>1. i > 0 /\ i >= b.len
      BY <1>5 DEF NoMore
    <3>2. b.len = 0
      BY <1>0, <1>2, <3>1
    <3> QED BY <1>0, <1>2, <3>1, <3>2
  <2>4. at + i >= Len(file)
    BY <1>0, <1>1, <2>2, <2>3, SMTT(30)
  <2> QED BY <1>0, <1>1, <2>1, <2>3, <2>4
<1>6. CASE ~InBuffer(i) /\ ~NoMore(i)
  <2> DEFINE r == Refilled(i)
  <2>1. /\ Peeked(i).b = r
        /\ Peeked(i).c = IF r.len = 0 THEN Eof ELSE r.buf[i]
    BY <1>6 DEF Peeked
  <2>2. ~b.eof /\ Left(i)
    <3>1. ~b.eof
      BY <1>6 DEF NoMore
    <3>2. ~(b.pos + i < b.len)
      BY <1>6 DEF InBuffer
    <3> QED BY <1>0, <1>3, <3>1, <3>2 DEF Left
  <2>3. /\ Window(r) /\ r.pos = 0 /\ r.len \in i .. Size
        /\ ~r.eof => r.len = Size
        /\ r.len > i => r.buf[i] = file[at + i + 1]
        /\ r.len > i => at + i < Len(file)
        /\ r.len <= i => Len(file) <= at + i
        /\ i > 0 => r.buf[i] \in Chars
    BY <2>2, RefilledWindow
  <2> HIDE DEF r
  <2>4. r.len \in Int /\ i <= r.len /\ r.len <= Size
    BY <1>0, <2>3
  <2>5. ~r.eof => r.len = Size /\ r.pos + i + 1 <= r.len
    BY <1>0, <2>3
  <2>6. ASSUME at + i < Len(file)
        PROVE  Peeked(i).c = file[at + i + 1]
    <3>1. r.len > i /\ r.len # 0
      BY <1>0, <2>3, <2>4, <2>6
    <3> QED BY <2>1, <2>3, <3>1
  <2>7. ASSUME at + i >= Len(file)
        PROVE  Peeked(i).c \in Chars \cup {Eof} /\ (i = 0 => Peeked(i).c = Eof)
    <3>1. r.len = i
      BY <1>0, <2>3, <2>4, <2>7
    <3> QED BY <1>0, <2>1, <2>3, <3>1
  <2> QED BY <2>1, <2>3, <2>5, <2>6, <2>7
<1> QED BY <1>4, <1>5, <1>6

\* The answers are characters of the file or Eof.
LEMMA PeekedTypes ==
  ASSUME Inv, NEW i \in 0 .. MaxPeek, i = 0 \/ i = Len(got)
  PROVE  /\ Peeked(i).b \in Buffer
         /\ Peeked(i).c \in Chars \cup {Eof}
<1>1. Peeked(i).b \in Buffer
  BY PeekedWindow DEF Window
<1>2. CASE at + i < Len(file)
  <2>1. Peeked(i).c = file[at + i + 1]
    BY <1>2, PeekedWindow
  <2>2. at + i + 1 \in 1 .. Len(file)
    BY <1>2, FileTypes DEF Inv, TypeOK
  <2> QED BY <1>1, <2>1, <2>2, FileTypes DEF Inv
<1>3. CASE ~(at + i < Len(file))
  <2>1. at + i >= Len(file)
    BY <1>3, FileTypes DEF Inv, TypeOK
  <2> QED BY <1>1, <2>1, PeekedWindow
<1> QED BY <1>2, <1>3

LEMMA InvInit == Init => Inv
<1> SUFFICES ASSUME Init PROVE Inv
  OBVIOUS
<1>1. file \in Seq(Chars) /\ Len(file) \in Nat /\ file \in Files
  BY InputBufferAssumption, LenProperties DEF Init
<1>2. <<>> \in Seq(Chars) /\ Len(<<>>) = 0
  OBVIOUS
<1>3. Size \in Nat
  BY InputBufferAssumption
<1>4. TypeOK
  BY <1>1, <1>2, <1>3 DEF Init, TypeOK
<1>5. BufferInv
  BY <1>1, <1>2, <1>3 DEF Init, BufferInv
<1> QED BY <1>4, <1>5 DEF Inv

\* How each action changes the state.
LEMMA Answers ==
  ASSUME Inv, [Next]_vars
  PROVE  Inv' /\ file' = file
<1>0. /\ Len(got) \in Nat /\ got \in Seq(Chars) /\ at \in Nat /\ file \in Files
      /\ <<>> \in Seq(Chars) /\ Len(<<>>) = 0 /\ MaxPeek \in Nat
  BY InputBufferAssumption, LenProperties DEF Inv, TypeOK
<1>1. ASSUME NEW i \in 0 .. MaxPeek, i = 0 \/ i = Len(got), b' = Peeked(i).b,
             ret' = Peeked(i).c, file' = file, at' = at,
             got' \in Seq(Chars), Len(got') <= i + 1
      PROVE  Inv'
  <2>1. /\ Window(b') /\ ret' \in Chars \cup {Eof} /\ b' \in Buffer
        /\ ~b'.eof => b'.len = Size /\ b'.pos + i + 1 <= b'.len
    BY <1>1, PeekedWindow, PeekedTypes
  <2>2. TypeOK'
    BY <1>0, <1>1, <2>1 DEF TypeOK, Buffer
  <2>3. Len(got') \in Nat /\ b'.pos \in Nat /\ b'.len \in Int
    BY <1>1, <2>1, LenProperties, InputBufferAssumption DEF Buffer
  <2>4. ~b'.eof => b'.pos + Len(got') <= b'.len
    BY <1>1, <2>1, <2>3
  <2>5. BufferInv'
    BY <1>1, <2>1, <2>4 DEF BufferInv, Window
  <2> QED BY <2>2, <2>5 DEF Inv
<1>2. CASE PeekChar
  <2>1. 0 \in 0 .. MaxPeek
    BY <1>0
  <2>2. Peeked(0).c \in Chars \cup {Eof}
    BY <2>1, PeekedTypes
  <2>3. got' \in Seq(Chars) /\ Len(got') <= 0 + 1
    BY <1>0, <1>2, <2>2 DEF PeekChar
  <2> QED BY <1>1, <1>2, <2>1, <2>3 DEF PeekChar
<1>3. CASE PeekFurther
  <2>1. Len(got) \in 0 .. MaxPeek
    BY <1>0, <1>3 DEF PeekFurther
  <2>2. Peeked(Len(got)).c \in Chars \cup {Eof}
    BY <2>1, PeekedTypes
  <2>3. got' \in Seq(Chars) /\ Len(got') <= Len(got) + 1
    BY <1>0, <1>3, <2>2, AppendProperties DEF PeekFurther
  <2> QED BY <1>1, <1>3, <2>1, <2>3 DEF PeekFurther
<1>4. CASE NextChar
  <2> DEFINE x == Peeked(0).b
  <2>1. 0 \in 0 .. MaxPeek
    BY <1>0
  <2>2. /\ Window(x) /\ x \in Buffer /\ Peeked(0).c \in Chars \cup {Eof}
        /\ ~x.eof => x.len = Size /\ x.pos + 0 + 1 <= x.len
    BY <2>1, PeekedWindow, PeekedTypes
  <2>3. /\ b' = [x EXCEPT !.pos = @ + 1] /\ at' = at + 1 /\ got' = <<>>
        /\ ret' = Peeked(0).c /\ file' = file
    BY <1>4 DEF NextChar
  <2> HIDE DEF x
  <2>4. /\ x.pos \in Nat /\ x.len \in Int /\ x.read \in Int
    BY <2>2, FileTypes, InputBufferAssumption DEF Inv, Buffer
  <2>5. /\ b' \in Buffer /\ b'.pos = x.pos + 1 /\ b'.len = x.len
        /\ b'.read = x.read /\ b'.eof = x.eof /\ b'.buf = x.buf
    BY <2>2, <2>3, <2>4 DEF Buffer
  <2>6. TypeOK'
    BY <1>0, <2>2, <2>3, <2>5, SMTT(30) DEF TypeOK, Buffer
  <2>7. at' = b'.read - b'.len + b'.pos
    <3>1. at = x.read - x.len + x.pos
      BY <2>2 DEF Window
    <3> QED BY <1>0, <2>3, <2>4, <2>5, <3>1
  <2>8. ~b'.eof => b'.len = Size /\ b'.pos + Len(got') <= b'.len
    BY <1>0, <2>2, <2>3, <2>4, <2>5
  <2>9. BufferInv'
    BY <2>2, <2>3, <2>5, <2>7, <2>8 DEF BufferInv, Window
  <2> QED BY <2>3, <2>6, <2>9 DEF Inv
<1>5. CASE UNCHANGED vars
  BY <1>5 DEF vars, Inv, TypeOK, BufferInv
<1> QED BY <1>2, <1>3, <1>4, <1>5 DEF Next, PeekChar, PeekFurther, NextChar

\* The variables keep their types: fread() and memmove() stay inside the
\* buffer, and nothing malloc() left there is ever given out (checked as
\* TypeOK in run buffer_stream).
THEOREM TypeCorrect == Spec => []TypeOK
<1>1. Inv => TypeOK
  BY DEF Inv
<1>2. Inv /\ [Next]_vars => Inv'
  BY Answers
<1> QED BY <1>1, <1>2, InvInit, PTL DEF Spec

\* The lexer sees the characters of the file one after another, wherever the
\* buffer is filled again (checked as ImplementsStream in run buffer_stream).
THEOREM Implementation == Spec => ImplementsStream
<1>1. Init => Stream!Init
  BY DEF Init, Stream!Init
<1>2. Inv /\ [Next]_vars => [Stream!Next]_(Stream!vars)
  <2> SUFFICES ASSUME Inv, [Next]_vars PROVE [Stream!Next]_(Stream!vars)
    OBVIOUS
  <2>0. /\ Len(got) \in Nat /\ at \in Nat /\ Len(file) \in Nat
        /\ MaxPeek \in Nat
    BY InputBufferAssumption, LenProperties, FileTypes DEF Inv, TypeOK
  <2>1. 0 \in 0 .. MaxPeek
    BY <2>0
  <2>2. Peeked(0).c = Stream!Char(at)
    <3>1. CASE at < Len(file)
      BY <2>0, <2>1, <3>1, PeekedWindow DEF Stream!Char
    <3>2. CASE ~(at < Len(file))
      BY <2>0, <2>1, <3>2, PeekedWindow DEF Stream!Char
    <3> QED BY <3>1, <3>2
  <2>3. CASE PeekChar
    BY <2>2, <2>3 DEF PeekChar, Stream!Next, Stream!Look
  <2>4. CASE PeekFurther
    <3>1. Len(got) \in 0 .. MaxPeek /\ Len(got) \in 1 .. MaxPeek
      BY <2>0, <2>4 DEF PeekFurther
    <3>2. CASE at + Len(got) < Len(file)
      <4>1. ret' = Stream!Char(at + Len(got))
        BY <2>4, <3>1, <3>2, PeekedWindow DEF PeekFurther, Stream!Char
      <4> QED BY <2>4, <3>1, <3>2, <4>1
            DEF PeekFurther, Stream!Next, Stream!LookAhead
    <3>3. CASE at + Len(got) >= Len(file)
      <4>1. ret' \in Chars \cup {Eof}
        BY <2>4, <3>1, <3>3, PeekedWindow DEF PeekFurther
      <4> QED BY <2>4, <3>1, <3>3, <4>1
            DEF PeekFurther, Stream!Next, Stream!LookAhead
    <3> QED BY <2>0, <3>2, <3>3
  <2>5. CASE NextChar
    BY <2>2, <2>5 DEF NextChar, Stream!Next, Stream!Take
  <2>6. CASE UNCHANGED vars
    BY <2>6 DEF vars, Stream!vars
  <2> QED BY <2>3, <2>4, <2>5, <2>6 DEF Next
<1>3. Inv /\ [Next]_vars => Inv'
  BY Answers
<1> QED BY <1>1, <1>2, <1>3, InvInit, PTL DEF Spec, ImplementsStream, Stream!Spec
=============================================================================
