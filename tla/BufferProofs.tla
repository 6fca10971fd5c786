---------------------------- MODULE BufferProofs ----------------------------
(***************************************************************************)
(* Proof that the indices of a Buffer stay within its vector and that      *)
(* buffers implement ByteQueue, for any sizes, bytes and number of calls,  *)
(* and, from the same lemmas, that the protobuf layer loses no byte of its *)
(* stream and handles the frames in order, for any frames.                 *)
(***************************************************************************)
EXTENDS BufferUse, Codec, SequenceTheorems, WellFoundedInduction, TLAPS

Vectors == UNION {[0..(n - 1) -> Byte] : n \in Nat}

Record == [size : Nat, buffer_ : Vectors, read_index_ : Nat, write_index_ : Nat]

\* A buffer: its vector has size bytes, and the indices are in order.
IsBuffer(b) ==
    /\ b \in Record
    /\ b.buffer_ \in [0..(b.size - 1) -> Byte]
    /\ Sound(b)

\* Without a prepend no read index is below CHEAP_PREPEND.
BufferInv ==
    /\ bufs \in [Names -> Record]
    /\ \A x \in Names : IsBuffer(bufs[x])
    /\ overrun \in BOOLEAN /\ prepended \in BOOLEAN
    /\ ~prepended => \A x \in Names : bufs[x].read_index_ >= CHEAP_PREPEND
    /\ overrun => prepended

\* The abstract state: what the buffers hold.
Contents == [x \in Names |-> Content(bufs[x])]

-----------------------------------------------------------------------------

\* A number is not below its residue: space_left is at most the room there is
\* when the subtraction does not wrap around.
LEMMA Residue == ASSUME NEW v \in Nat, NEW k \in Nat, k > 0
                 PROVE  v % k \in Nat /\ v % k <= v
  BY Z3

\* A vector of n bytes is a vector.
LEMMA VectorsHold == ASSUME NEW n \in Nat, NEW v \in [0..(n - 1) -> Byte]
                     PROVE  v \in Vectors
  BY DEF Vectors

\* What IsBuffer says of the members.
LEMMA Members ==
  ASSUME NEW b, IsBuffer(b)
  PROVE  /\ b \in Record
         /\ b.size \in Nat /\ b.read_index_ \in Nat /\ b.write_index_ \in Nat
         /\ b.buffer_ \in [0..(b.size - 1) -> Byte]
         /\ b.read_index_ <= b.write_index_
         /\ b.write_index_ <= b.size
         /\ CHEAP_PREPEND <= b.write_index_
  BY DEF IsBuffer, Record, Sound

\* peek() shows the bytes between the indices.
LEMMA ContentSeq == ASSUME NEW b, IsBuffer(b)
                    PROVE  /\ Content(b) \in Seq(Byte)
                           /\ Len(Content(b)) = b.write_index_ - b.read_index_
                           /\ \A i \in 1..(b.write_index_ - b.read_index_) :
                                Content(b)[i] = b.buffer_[b.read_index_ + i - 1]
<1> DEFINE n == ReadableBytes(b)
<1>1. n \in Nat /\ n = b.write_index_ - b.read_index_
  BY Members DEF ReadableBytes
<1>2. \A i \in 1..n : b.buffer_[b.read_index_ + i - 1] \in Byte
  BY <1>1, Members
<1>3. QED  BY <1>1, <1>2 DEF Content

\* Two sequences of bytes with the same length and elements are the same.
LEMMA SameSeq ==
  ASSUME NEW s \in Seq(Byte), NEW t \in Seq(Byte), Len(s) = Len(t),
         \A i \in 1..Len(s) : s[i] = t[i]
  PROVE  s = t
  OBVIOUS

\* Length and elements of a concatenation.
LEMMA Concat ==
  ASSUME NEW s \in Seq(Byte), NEW t \in Seq(Byte)
  PROVE  /\ s \o t \in Seq(Byte)
         /\ Len(s \o t) = Len(s) + Len(t)
         /\ Len(s) \in Nat /\ Len(t) \in Nat
         /\ \A i \in 1..Len(s) : (s \o t)[i] = s[i]
         /\ \A i \in 1..Len(t) : (s \o t)[Len(s) + i] = t[i]
  OBVIOUS

\* The bytes between the indices are those of s and then those of t.
LEMMA ContentIsConcat ==
  ASSUME NEW c, IsBuffer(c), NEW s \in Seq(Byte), NEW t \in Seq(Byte),
         Len(s) + Len(t) = c.write_index_ - c.read_index_,
         \A i \in 1..Len(s) : c.buffer_[c.read_index_ + i - 1] = s[i],
         \A i \in 1..Len(t) : c.buffer_[c.read_index_ + (Len(s) + i) - 1] = t[i]
  PROVE  Content(c) = s \o t
<1> DEFINE C == Content(c)
<1>1. /\ C \in Seq(Byte)
      /\ Len(C) = Len(s) + Len(t)
      /\ \A i \in 1..Len(C) : C[i] = c.buffer_[c.read_index_ + i - 1]
  BY ContentSeq
<1>2. /\ s \o t \in Seq(Byte)
      /\ Len(s \o t) = Len(s) + Len(t)
      /\ Len(s) \in Nat /\ Len(t) \in Nat
      /\ \A i \in 1..Len(s) : (s \o t)[i] = s[i]
      /\ \A i \in 1..Len(t) : (s \o t)[Len(s) + i] = t[i]
  BY Concat
<1> HIDE DEF C
<1>3. ASSUME NEW i \in 1..Len(C) PROVE C[i] = (s \o t)[i]
  <2>1. CASE i <= Len(s)
    <3>1. i \in 1..Len(s)  BY <1>1, <1>2, <2>1
    <3>2. QED  BY <1>1, <1>2, <3>1
  <2>2. CASE i > Len(s)
    <3>1. PICK k \in 1..Len(t) : i = Len(s) + k
      <4>1. i - Len(s) \in 1..Len(t) /\ i = Len(s) + (i - Len(s))
        BY <1>1, <1>2, <2>2
      <4>2. QED  BY <4>1
    <3>2. C[i] = t[k]  BY <1>1, <3>1
    <3>3. (s \o t)[i] = t[k]  BY <1>2, <3>1
    <3>4. QED  BY <3>2, <3>3
  <2>3. QED  BY <1>1, <1>2, <2>1, <2>2
<1>4. C = s \o t  BY <1>1, <1>2, <1>3, SameSeq
<1>5. QED  BY <1>4 DEF C

\* beginWrite and hasWritten: the bytes are put at the back.
LEMMA WriteHereIsPut ==
  ASSUME NEW b, IsBuffer(b), NEW d \in Seq(Byte), Len(d) <= WritableBytes(b)
  PROVE  /\ IsBuffer(WriteHere(b, d))
         /\ Content(WriteHere(b, d)) = Content(b) \o d
         /\ WriteHere(b, d).read_index_ = b.read_index_
         /\ WriteHere(b, d).write_index_ = b.write_index_ + Len(d)
         /\ WriteHere(b, d).size = b.size
<1> DEFINE v == [i \in 0..(b.size - 1) |->
                   IF i >= b.write_index_ /\ i < b.write_index_ + Len(d)
                     THEN d[i - b.write_index_ + 1] ELSE b.buffer_[i]]
           w == b.write_index_ + Len(d)
           c == WriteHere(b, d)
<1>b. /\ b \in Record
      /\ b.size \in Nat /\ b.read_index_ \in Nat /\ b.write_index_ \in Nat
      /\ b.buffer_ \in [0..(b.size - 1) -> Byte]
      /\ b.read_index_ <= b.write_index_
      /\ b.write_index_ <= b.size
      /\ CHEAP_PREPEND <= b.write_index_
  BY Members
<1>0. /\ Len(d) \in Nat /\ w \in Nat
      /\ w <= b.size
  BY <1>b DEF WritableBytes
<1>1. v \in [0..(b.size - 1) -> Byte]
  <2>1. \A i \in 0..(b.size - 1) :
          (IF i >= b.write_index_ /\ i < b.write_index_ + Len(d)
             THEN d[i - b.write_index_ + 1] ELSE b.buffer_[i]) \in Byte
    BY <1>0, <1>b, SMT
  <2>2. QED  BY <2>1
<1>2. c = [b EXCEPT !.buffer_ = v, !.write_index_ = w]
  BY DEF WriteHere
<1>3. \A i \in 0..(b.size - 1) :
        v[i] = IF i >= b.write_index_ /\ i < w THEN d[i - b.write_index_ + 1] ELSE b.buffer_[i]
  OBVIOUS
<1> HIDE DEF c, v, w
<1>4. /\ c \in Record
      /\ c.size = b.size /\ c.buffer_ = v /\ c.read_index_ = b.read_index_ /\ c.write_index_ = w
  <2>1. v \in Vectors  BY <1>b, <1>1, VectorsHold
  <2>2. QED  BY <2>1, <1>0, <1>2, <1>b DEF Record
<1>5. b.read_index_ <= w /\ CHEAP_PREPEND <= w
  BY <1>0, <1>b, SizesAssumption, SMT DEF w
<1>6. IsBuffer(c)
  BY <1>0, <1>1, <1>4, <1>5, <1>b DEF IsBuffer, Sound
<1> DEFINE B == Content(b)
<1>7. /\ B \in Seq(Byte)
      /\ Len(B) = b.write_index_ - b.read_index_
      /\ \A i \in 1..Len(B) : B[i] = b.buffer_[b.read_index_ + i - 1]
  BY ContentSeq
<1> HIDE DEF B
<1>8. Len(B) + Len(d) = c.write_index_ - c.read_index_
  BY <1>0, <1>4, <1>7, <1>b DEF w
<1>9. ASSUME NEW i \in 1..Len(B) PROVE c.buffer_[c.read_index_ + i - 1] = B[i]
  <2> DEFINE k == b.read_index_ + i - 1
  <2>1. k \in 0..(b.size - 1) /\ ~(k >= b.write_index_)
    BY <1>7, <1>b, SMT
  <2>2. v[k] = b.buffer_[k]  BY <2>1, <1>3
  <2>3. QED  BY <2>2, <1>4, <1>7
<1>10. ASSUME NEW i \in 1..Len(d)
       PROVE  c.buffer_[c.read_index_ + (Len(B) + i) - 1] = d[i]
  <2> DEFINE k == b.read_index_ + (Len(B) + i) - 1
  <2>1. k = b.write_index_ + i - 1
    BY <1>0, <1>7, <1>b, SMT
  <2> HIDE DEF k
  <2>2. /\ k \in 0..(b.size - 1) /\ k >= b.write_index_ /\ k < w
        /\ k - b.write_index_ + 1 = i
    BY <2>1, <1>0, <1>b, SMT DEF w
  <2>3. v[k] = d[i]  BY <2>2, <1>3
  <2>4. QED  BY <2>3, <1>4 DEF k
<1>11. Content(c) = B \o d
  BY <1>6, <1>7, <1>8, <1>9, <1>10, ContentIsConcat
<1>12. QED  BY <1>4, <1>6, <1>11 DEF B, c, w


\* Buffers with the same number of bytes and the same bytes between the indices.
LEMMA SameContent ==
  ASSUME NEW b, IsBuffer(b), NEW c, IsBuffer(c),
         c.write_index_ - c.read_index_ = b.write_index_ - b.read_index_,
         \A i \in 1..(b.write_index_ - b.read_index_) :
            c.buffer_[c.read_index_ + i - 1] = b.buffer_[b.read_index_ + i - 1]
  PROVE  Content(c) = Content(b)
<1> DEFINE B == Content(b)
           C == Content(c)
<1>1. /\ B \in Seq(Byte) /\ Len(B) = b.write_index_ - b.read_index_
      /\ \A i \in 1..(b.write_index_ - b.read_index_) : B[i] = b.buffer_[b.read_index_ + i - 1]
  BY ContentSeq
<1>2. /\ C \in Seq(Byte) /\ Len(C) = c.write_index_ - c.read_index_
      /\ \A i \in 1..(c.write_index_ - c.read_index_) : C[i] = c.buffer_[c.read_index_ + i - 1]
  BY ContentSeq
<1> HIDE DEF B, C
<1>3. Len(C) = Len(B) /\ \A i \in 1..Len(C) : C[i] = B[i]
  BY <1>1, <1>2
<1>4. C = B  BY <1>1, <1>2, <1>3, SameSeq
<1>5. QED  BY <1>4 DEF B, C

\* makeSpace keeps the bytes, moves them or grows the vector, and makes room.
LEMMA MakeSpaceKeeps ==
  ASSUME NEW b, IsBuffer(b), NEW len \in Nat,
         WritableBytes(b) < len, ~Overruns(b, len)
  PROVE  /\ IsBuffer(MakeSpace(b, len))
         /\ Content(MakeSpace(b, len)) = Content(b)
         /\ len <= WritableBytes(MakeSpace(b, len))
         /\ b.read_index_ >= CHEAP_PREPEND => MakeSpace(b, len).read_index_ >= CHEAP_PREPEND
<1> DEFINE c == MakeSpace(b, len)
           n == b.write_index_ - b.read_index_
<1>b. /\ b \in Record
      /\ b.size \in Nat /\ b.read_index_ \in Nat /\ b.write_index_ \in Nat
      /\ b.buffer_ \in [0..(b.size - 1) -> Byte]
      /\ b.read_index_ <= b.write_index_
      /\ b.write_index_ <= b.size
      /\ CHEAP_PREPEND <= b.write_index_
  BY Members
<1>0. n \in Nat /\ ReadableBytes(b) = n /\ CHEAP_PREPEND \in Nat
  BY <1>b, SizesAssumption DEF ReadableBytes
<1>1. CASE SpaceLeft(b) >= len
  <2> DEFINE v == [i \in 0..(b.size - 1) |->
                     IF i >= CHEAP_PREPEND /\ i < CHEAP_PREPEND + n
                       THEN b.buffer_[b.read_index_ + (i - CHEAP_PREPEND)]
                       ELSE b.buffer_[i]]
             w == CHEAP_PREPEND + n
  <2>1. w \in Nat /\ w + len <= b.size
    BY <1>1, <1>0, <1>b, SMT DEF Overruns
  <2>2. v \in [0..(b.size - 1) -> Byte]
    <3>1. \A i \in 0..(b.size - 1) :
            (IF i >= CHEAP_PREPEND /\ i < CHEAP_PREPEND + n
               THEN b.buffer_[b.read_index_ + (i - CHEAP_PREPEND)]
               ELSE b.buffer_[i]) \in Byte
      <4> SUFFICES ASSUME NEW i \in 0..(b.size - 1), i >= CHEAP_PREPEND, i < CHEAP_PREPEND + n
                   PROVE  b.buffer_[b.read_index_ + (i - CHEAP_PREPEND)] \in Byte
        BY <1>b
      <4>1. b.read_index_ + (i - CHEAP_PREPEND) \in 0..(b.size - 1)
        BY <1>0, <1>b
      <4>2. QED  BY <4>1, <1>b
    <3>2. QED  BY <3>1
  <2>3. c = [size |-> b.size, buffer_ |-> v, read_index_ |-> CHEAP_PREPEND, write_index_ |-> w]
    BY <1>1, <1>0 DEF MakeSpace
  <2>4. \A i \in 0..(b.size - 1) :
          v[i] = IF i >= CHEAP_PREPEND /\ i < CHEAP_PREPEND + n
                   THEN b.buffer_[b.read_index_ + (i - CHEAP_PREPEND)]
                   ELSE b.buffer_[i]
    OBVIOUS
  <2> HIDE DEF c, v
  <2>5. /\ c \in Record
        /\ c.size = b.size /\ c.buffer_ = v /\ c.read_index_ = CHEAP_PREPEND /\ c.write_index_ = w
    <3>1. v \in Vectors  BY <1>b, <2>2, VectorsHold
    <3>2. QED  BY <3>1, <2>1, <2>3, <1>b, <1>0 DEF Record
  <2>6. IsBuffer(c)
    BY <2>1, <2>2, <2>5, <1>0, <1>b, SMT DEF IsBuffer, Sound
  <2>7. ASSUME NEW i \in 1..n
        PROVE  c.buffer_[c.read_index_ + i - 1] = b.buffer_[b.read_index_ + i - 1]
    <3> DEFINE k == CHEAP_PREPEND + i - 1
    <3>1. /\ k \in 0..(b.size - 1) /\ k >= CHEAP_PREPEND /\ k < CHEAP_PREPEND + n
          /\ b.read_index_ + (k - CHEAP_PREPEND) = b.read_index_ + i - 1
      BY <2>1, <1>0, <1>b, SMT
    <3>2. c.read_index_ + i - 1 = k  BY <2>5
    <3> HIDE DEF k, n
    <3>3. v[k] = b.buffer_[b.read_index_ + i - 1]  BY <3>1, <2>4
    <3>4. QED  BY <3>2, <3>3, <2>5
  <2>8. c.write_index_ - c.read_index_ = n
    BY <2>5, <1>0
  <2>9. Content(c) = Content(b)
    BY <2>6, <2>7, <2>8, SameContent
  <2>10. len <= WritableBytes(c) /\ c.read_index_ >= CHEAP_PREPEND
    BY <2>1, <2>5, <1>b, <1>0, SMT DEF WritableBytes
  <2>11. QED  BY <2>6, <2>9, <2>10 DEF c
<1>2. CASE ~(SpaceLeft(b) >= len)
  <2> DEFINE s == b.write_index_ + len
             v == [i \in 0..(b.write_index_ + len - 1) |-> IF i < b.size THEN b.buffer_[i] ELSE Zero]
  <2>1. s \in Nat /\ s > b.size /\ s - 1 = b.write_index_ + len - 1
    BY <1>b DEF WritableBytes
  <2>2. v \in [0..(s - 1) -> Byte]
    <3>1. \A i \in 0..(s - 1) : (IF i < b.size THEN b.buffer_[i] ELSE Zero) \in Byte
      <4>1. \A i \in 0..(s - 1) : i < b.size => b.buffer_[i] \in Byte  BY <1>b, <2>1
      <4>2. QED  BY <4>1, ByteAssumption
    <3>2. QED  BY <3>1, <2>1
  <2>3. c = [b EXCEPT !.size = s, !.buffer_ = v]
    <3>1. c = [b EXCEPT !.size = b.write_index_ + len, !.buffer_ = v]
      BY <1>2, Zenon DEF MakeSpace
    <3>2. QED  BY <3>1
  <2>4. \A i \in 0..(s - 1) : v[i] = IF i < b.size THEN b.buffer_[i] ELSE Zero
    BY <2>1
  <2> HIDE DEF c, v, s
  <2>5. /\ c \in Record
        /\ c.size = s /\ c.buffer_ = v
        /\ c.read_index_ = b.read_index_ /\ c.write_index_ = b.write_index_
    <3>1. v \in Vectors  BY <2>1, <2>2, VectorsHold
    <3>2. QED  BY <3>1, <2>1, <2>3, <1>b DEF Record
  <2>6. IsBuffer(c)
    BY <2>1, <2>2, <2>5, <1>0, <1>b, SMT DEF IsBuffer, Sound
  <2>7. ASSUME NEW i \in 1..n
        PROVE  c.buffer_[c.read_index_ + i - 1] = b.buffer_[b.read_index_ + i - 1]
    <3> DEFINE k == b.read_index_ + i - 1
    <3>1. k \in 0..(s - 1) /\ k < b.size
      BY <2>1, <1>0, <1>b, SMT
    <3> HIDE DEF k, n
    <3>2. v[k] = b.buffer_[k]  BY <3>1, <2>4
    <3>3. QED  BY <3>2, <2>5 DEF k
  <2>8. Content(c) = Content(b)
    BY <2>5, <2>6, <2>7, SameContent
  <2>9. len <= WritableBytes(c)
    BY <2>5, <1>b DEF WritableBytes, s
  <2>10. QED  BY <2>5, <2>6, <2>8, <2>9 DEF c
<1>3. QED  BY <1>1, <1>2

\* A buffer that was never prepended to has all the room that space_left
\* counts: nothing is moved past the end.
LEMMA NoOverrun ==
  ASSUME NEW b, IsBuffer(b), b.read_index_ >= CHEAP_PREPEND, NEW len \in Nat
  PROVE  ~Overruns(b, len)
<1> DEFINE room == WritableBytes(b) + (b.read_index_ - CHEAP_PREPEND)
<1>1. room \in Nat /\ room = (b.size - b.write_index_) + (b.read_index_ - CHEAP_PREPEND)
  BY Members, SizesAssumption DEF WritableBytes
<1> HIDE DEF room
<1>2. SpaceLeft(b) = room % SizeModulus
  BY DEF SpaceLeft, room
<1>3. SpaceLeft(b) \in Nat /\ SpaceLeft(b) <= room
  BY <1>1, <1>2, Residue, SizesAssumption
<1>4. SpaceLeft(b) >= len =>
        CHEAP_PREPEND + (b.write_index_ - b.read_index_) + len <= b.size
  BY <1>1, <1>3, Members, SizesAssumption, SMT
<1>5. ReadableBytes(b) = b.write_index_ - b.read_index_ /\ ReadableBytes(b) \in Nat /\ b.size \in Nat
  BY Members DEF ReadableBytes
<1>6. QED  BY <1>4, <1>5, SizesAssumption DEF Overruns

\* append puts the bytes at the back, whether or not makeSpace runs.
LEMMA AppendIsPut ==
  ASSUME NEW b, IsBuffer(b), NEW d \in Seq(Byte), ~Overruns(b, Len(d))
  PROVE  /\ IsBuffer(AppendData(b, d))
         /\ Content(AppendData(b, d)) = Content(b) \o d
         /\ b.read_index_ >= CHEAP_PREPEND => AppendData(b, d).read_index_ >= CHEAP_PREPEND
<1> DEFINE e == EnsureWritableBytes(b, Len(d))
<1>0. Len(d) \in Nat /\ WritableBytes(b) \in Nat
  BY Members DEF WritableBytes
<1>1. /\ IsBuffer(e)
      /\ Content(e) = Content(b)
      /\ Len(d) <= WritableBytes(e)
      /\ b.read_index_ >= CHEAP_PREPEND => e.read_index_ >= CHEAP_PREPEND
  <2>1. CASE WritableBytes(b) >= Len(d)
    BY <2>1, <1>0 DEF EnsureWritableBytes
  <2>2. CASE ~(WritableBytes(b) >= Len(d))
    <3>1. WritableBytes(b) < Len(d)  BY <2>2, <1>0
    <3>2. e = MakeSpace(b, Len(d))  BY <2>2 DEF EnsureWritableBytes
    <3> HIDE DEF e
    <3>3. QED  BY <3>1, <3>2, <1>0, MakeSpaceKeeps
  <2>3. QED  BY <2>1, <2>2
<1>2. AppendData(b, d) = WriteHere(e, d)
  BY DEF AppendData
<1> HIDE DEF e
<1>3. QED  BY <1>1, <1>2, WriteHereIsPut

\* readFd puts all bytes at the back, the ones read into the extra array last.
LEMMA ReadFdIsPut ==
  ASSUME NEW b, IsBuffer(b), NEW d \in Seq(Byte),
         Len(d) > WritableBytes(b) =>
           ~Overruns(WriteHere(b, SubSeq(d, 1, WritableBytes(b))), Len(d) - WritableBytes(b))
  PROVE  /\ IsBuffer(ReadFd(b, d))
         /\ Content(ReadFd(b, d)) = Content(b) \o d
         /\ b.read_index_ >= CHEAP_PREPEND => ReadFd(b, d).read_index_ >= CHEAP_PREPEND
<1> DEFINE m == WritableBytes(b)
           s == SubSeq(d, 1, m)
           t == SubSeq(d, m + 1, Len(d))
           f == WriteHere(b, s)
<1>0. Len(d) \in Nat /\ m \in Nat
  BY Members DEF WritableBytes
<1>1. CASE Len(d) <= m
  <2>1. ReadFd(b, d) = WriteHere(b, d)  BY <1>1 DEF ReadFd
  <2>2. QED  BY <1>1, <2>1, WriteHereIsPut
<1>2. CASE ~(Len(d) <= m)
  <2>1. ReadFd(b, d) = AppendData(f, t)
    BY <1>2 DEF ReadFd
  <2>2. /\ s \in Seq(Byte) /\ Len(s) = m
        /\ t \in Seq(Byte) /\ Len(t) = Len(d) - m
        /\ s \o t = d
    <3> HIDE DEF m
    <3>1. m < Len(d)  BY <1>0, <1>2
    <3>2. s \in Seq(Byte) /\ Len(s) = m  BY <3>1, <1>0
    <3>3. t \in Seq(Byte) /\ Len(t) = Len(d) - m  BY <3>1, <1>0
    <3>4. s \o t = SubSeq(d, 1, Len(d))
      <4>1. 1 \in 1..(Len(d) + 1) /\ m \in (1 - 1)..Len(d) /\ Len(d) \in m..Len(d)
        BY <3>1, <1>0
      <4>2. QED  BY <4>1, ConcatAdjacentSubSeq, Zenon
    <3>5. SubSeq(d, 1, Len(d)) = d  OBVIOUS
    <3>6. QED  BY <3>2, <3>3, <3>4, <3>5
  <2>3. ~Overruns(f, Len(t))
    <3>1. Len(d) > m  BY <1>0, <1>2
    <3>2. QED  BY <3>1, <2>2
  <2>4. m <= WritableBytes(b)  BY <1>0
  <2> HIDE DEF s, t, m
  <2>5. /\ IsBuffer(f)
        /\ Content(f) = Content(b) \o s
        /\ f.read_index_ = b.read_index_
    BY <2>2, <2>4, WriteHereIsPut
  <2> HIDE DEF f
  <2>6. /\ IsBuffer(AppendData(f, t))
        /\ Content(AppendData(f, t)) = (Content(b) \o s) \o t
        /\ b.read_index_ >= CHEAP_PREPEND => AppendData(f, t).read_index_ >= CHEAP_PREPEND
    BY <2>2, <2>3, <2>5, AppendIsPut
  <2>7. (Content(b) \o s) \o t = Content(b) \o d
    <3>1. Content(b) \in Seq(Byte)  BY ContentSeq
    <3>2. \A x, y, z \in Seq(Byte) : (x \o y) \o z = x \o (y \o z)
      BY ConcatAssociative
    <3>3. QED  BY <3>1, <3>2, <2>2
  <2>8. QED  BY <2>1, <2>6, <2>7
<1>3. QED  BY <1>1, <1>2

\* prepend puts the bytes in front of the others, or refuses them.
LEMMA PrependIsPutFront ==
  ASSUME NEW b, IsBuffer(b), NEW d \in Seq(Byte), Len(d) <= b.read_index_
  PROVE  /\ IsBuffer(Prepend(b, d))
         /\ Content(Prepend(b, d)) = d \o Content(b)
<1> DEFINE r == b.read_index_ - Len(d)
           v == [i \in 0..(b.size - 1) |->
                   IF i >= b.read_index_ - Len(d) /\ i < b.read_index_
                     THEN d[i - (b.read_index_ - Len(d)) + 1]
                     ELSE b.buffer_[i]]
           c == Prepend(b, d)
<1>b. /\ b \in Record
      /\ b.size \in Nat /\ b.read_index_ \in Nat /\ b.write_index_ \in Nat
      /\ b.buffer_ \in [0..(b.size - 1) -> Byte]
      /\ b.read_index_ <= b.write_index_
      /\ b.write_index_ <= b.size
      /\ CHEAP_PREPEND <= b.write_index_
  BY Members
<1>0. Len(d) \in Nat /\ r \in Nat /\ r + Len(d) = b.read_index_
  BY <1>b
<1>1. v \in [0..(b.size - 1) -> Byte]
  <2>1. \A i \in 0..(b.size - 1) :
          (IF i >= b.read_index_ - Len(d) /\ i < b.read_index_
             THEN d[i - (b.read_index_ - Len(d)) + 1] ELSE b.buffer_[i]) \in Byte
    <3> SUFFICES ASSUME NEW i \in 0..(b.size - 1),
                        i >= b.read_index_ - Len(d), i < b.read_index_
                 PROVE  d[i - (b.read_index_ - Len(d)) + 1] \in Byte
      BY <1>b
    <3>1. i - (b.read_index_ - Len(d)) + 1 \in 1..Len(d)
      BY <1>0, <1>b, SMT
    <3>2. QED  BY <3>1
  <2>2. QED  BY <2>1
<1>2. c = [b EXCEPT !.read_index_ = r, !.buffer_ = v]
  <2>1. ~(Len(d) > b.read_index_)  BY <1>0, <1>b
  <2>2. QED  BY <2>1, Zenon DEF Prepend
<1>3. \A i \in 0..(b.size - 1) :
        v[i] = IF i >= r /\ i < b.read_index_ THEN d[i - r + 1] ELSE b.buffer_[i]
  OBVIOUS
<1> HIDE DEF c, v
<1>4. /\ c \in Record
      /\ c.size = b.size /\ c.buffer_ = v /\ c.read_index_ = r /\ c.write_index_ = b.write_index_
  <2>1. v \in Vectors  BY <1>b, <1>1, VectorsHold
  <2> HIDE DEF r
  <2>2. QED  BY <2>1, <1>0, <1>2, <1>b DEF Record
<1>5. IsBuffer(c)
  BY <1>0, <1>1, <1>4, <1>b DEF IsBuffer, Sound
<1> DEFINE B == Content(b)
<1>6. /\ B \in Seq(Byte)
      /\ Len(B) = b.write_index_ - b.read_index_
      /\ \A i \in 1..Len(B) : B[i] = b.buffer_[b.read_index_ + i - 1]
  BY ContentSeq
<1> HIDE DEF B
<1>7. Len(d) + Len(B) = c.write_index_ - c.read_index_
  BY <1>0, <1>4, <1>6, <1>b
<1>8. ASSUME NEW i \in 1..Len(d) PROVE c.buffer_[c.read_index_ + i - 1] = d[i]
  <2> HIDE DEF r
  <2> DEFINE k == r + i - 1
  <2>1. k \in 0..(b.size - 1) /\ k >= r /\ k < b.read_index_ /\ k - r + 1 = i
    BY <1>0, <1>b
  <2> HIDE DEF k
  <2>2. v[k] = d[i]  BY <2>1, <1>3
  <2>3. QED  BY <2>2, <1>4 DEF k
<1>9. ASSUME NEW i \in 1..Len(B)
      PROVE  c.buffer_[c.read_index_ + (Len(d) + i) - 1] = B[i]
  <2> HIDE DEF r
  <2> DEFINE k == b.read_index_ + i - 1
  <2>1. k \in 0..(b.size - 1) /\ ~(k < b.read_index_) /\ r + (Len(d) + i) - 1 = k
    BY <1>0, <1>6, <1>b
  <2>2. b.buffer_[k] = B[i]  BY <1>6
  <2> HIDE DEF k
  <2>3. v[k] = b.buffer_[k]  BY <2>1, <1>3
  <2>4. QED  BY <2>1, <2>2, <2>3, <1>4
<1>10. Content(c) = d \o B
  BY <1>5, <1>6, <1>7, <1>8, <1>9, ContentIsConcat
<1>11. QED  BY <1>5, <1>10 DEF B, c

\* retrieveAll leaves an empty buffer.
LEMMA RetrieveAllEmpties ==
  ASSUME NEW b, IsBuffer(b)
  PROVE  /\ IsBuffer(RetrieveAll(b))
         /\ Content(RetrieveAll(b)) = << >>
         /\ RetrieveAll(b).read_index_ = CHEAP_PREPEND
<1> DEFINE c == RetrieveAll(b)
<1>b. /\ b \in Record
      /\ b.size \in Nat /\ b.read_index_ \in Nat /\ b.write_index_ \in Nat
      /\ b.buffer_ \in [0..(b.size - 1) -> Byte]
      /\ b.write_index_ <= b.size
      /\ CHEAP_PREPEND <= b.write_index_
      /\ CHEAP_PREPEND \in Nat
  BY Members, SizesAssumption
<1>1. c = [b EXCEPT !.read_index_ = CHEAP_PREPEND, !.write_index_ = CHEAP_PREPEND]
  BY DEF RetrieveAll
<1> HIDE DEF c
<1>2. /\ c \in Record
      /\ c.size = b.size /\ c.buffer_ = b.buffer_
      /\ c.read_index_ = CHEAP_PREPEND /\ c.write_index_ = CHEAP_PREPEND
  BY <1>1, <1>b DEF Record
<1>3. IsBuffer(c)
  BY <1>2, <1>b DEF IsBuffer, Sound
<1>4. Content(c) \in Seq(Byte) /\ Len(Content(c)) = 0
  BY <1>2, <1>3, <1>b, ContentSeq
<1>5. Content(c) = << >>  BY <1>4, EmptySeq
<1>6. QED  BY <1>2, <1>3, <1>5 DEF c

\* retrieve takes bytes from the front, all of them at most: as many as it is
\* told to, if there are as many.
LEMMA RetrieveIsTake ==
  ASSUME NEW b, IsBuffer(b), NEW n \in Nat \ {0}
  PROVE  /\ IsBuffer(Retrieve(b, n))
         /\ b.read_index_ >= CHEAP_PREPEND => Retrieve(b, n).read_index_ >= CHEAP_PREPEND
         /\ \/ Content(Retrieve(b, n)) = Content(b)
            \/ \E m \in 1..Len(Content(b)) :
                 Content(Retrieve(b, n)) = SubSeq(Content(b), m + 1, Len(Content(b)))
         /\ n <= Len(Content(b)) =>
              Content(Retrieve(b, n)) = SubSeq(Content(b), n + 1, Len(Content(b)))
<1> DEFINE c == Retrieve(b, n)
           B == Content(b)
<1>b. /\ b \in Record
      /\ b.size \in Nat /\ b.read_index_ \in Nat /\ b.write_index_ \in Nat
      /\ b.buffer_ \in [0..(b.size - 1) -> Byte]
      /\ b.read_index_ <= b.write_index_
      /\ b.write_index_ <= b.size
      /\ CHEAP_PREPEND <= b.write_index_
      /\ CHEAP_PREPEND \in Nat
  BY Members, SizesAssumption
<1>0. /\ B \in Seq(Byte) /\ Len(B) \in Nat
      /\ Len(B) = b.write_index_ - b.read_index_ /\ Len(B) = ReadableBytes(b)
      /\ \A i \in 1..Len(B) : B[i] = b.buffer_[b.read_index_ + i - 1]
  BY ContentSeq DEF ReadableBytes
<1> HIDE DEF B
<1>1. CASE n >= ReadableBytes(b)
  <2>1. c = RetrieveAll(b)  BY <1>1 DEF Retrieve
  <2> HIDE DEF c
  <2>2. /\ IsBuffer(c) /\ Content(c) = << >> /\ c.read_index_ >= CHEAP_PREPEND
    BY <2>1, <1>b, RetrieveAllEmpties
  <2>3. CASE Len(B) = 0
    <3>1. B = << >>  BY <2>3, <1>0, EmptySeq
    <3>2. ~(n <= Len(B))  BY <2>3
    <3>3. QED  BY <3>1, <3>2, <2>2 DEF B, c
  <2>4. CASE Len(B) # 0
    <3>1. Len(B) \in 1..Len(B) /\ Len(B) < Len(B) + 1 /\ Len(B) + 1 \in Int
      BY <2>4, <1>0
    <3>2. SubSeq(B, Len(B) + 1, Len(B)) = << >>
      BY <3>1, <1>0, SubSeqEmpty
    <3>3. n <= Len(B) => n = Len(B)  BY <1>0, <1>1
    <3>4. QED  BY <3>1, <3>2, <3>3, <2>2 DEF B, c
  <2>5. QED  BY <2>3, <2>4
<1>2. CASE ~(n >= ReadableBytes(b))
  <2>0. n \in 1..Len(B) /\ n < Len(B)  BY <1>2, <1>0
  <2>1. c = [b EXCEPT !.read_index_ = b.read_index_ + n]
    BY <1>2, Zenon DEF Retrieve
  <2> HIDE DEF c
  <2>2. /\ c \in Record
        /\ c.size = b.size /\ c.buffer_ = b.buffer_
        /\ c.read_index_ = b.read_index_ + n /\ c.write_index_ = b.write_index_
    BY <2>1, <1>b DEF Record
  <2>3. IsBuffer(c)
    BY <2>0, <2>2, <1>0, <1>b DEF IsBuffer, Sound
  <2> DEFINE C == Content(c)
             S == SubSeq(B, n + 1, Len(B))
  <2>4. /\ C \in Seq(Byte) /\ Len(C) = c.write_index_ - c.read_index_
        /\ \A i \in 1..(c.write_index_ - c.read_index_) :
             C[i] = c.buffer_[c.read_index_ + i - 1]
    BY <2>3, ContentSeq
  <2> HIDE DEF C
  <2>5. /\ S \in Seq(Byte) /\ Len(S) = Len(B) - n
        /\ \A i \in 1..(Len(B) - n) : S[i] = B[n + i]
    BY <2>0, <1>0
  <2> HIDE DEF S
  <2>6. Len(C) = Len(B) - n
    BY <2>0, <2>2, <2>4, <1>0, <1>b
  <2>7. ASSUME NEW i \in 1..Len(C) PROVE C[i] = S[i]
    <3> DEFINE k == b.read_index_ + n + i - 1
    <3>1. k = b.read_index_ + (n + i) - 1 /\ n + i \in 1..Len(B)
      BY <2>0, <2>6, <1>0, <1>b
    <3>2. C[i] = b.buffer_[k]
      BY <2>2, <2>4, <2>6
    <3> HIDE DEF k
    <3>3. B[n + i] = b.buffer_[k]  BY <3>1, <1>0
    <3>4. QED  BY <3>2, <3>3, <2>5, <2>6
  <2>8. C = S  BY <2>4, <2>5, <2>6, <2>7, SameSeq
  <2>9. b.read_index_ >= CHEAP_PREPEND => c.read_index_ >= CHEAP_PREPEND
    BY <2>0, <2>2, <1>b
  <2>10. Content(c) = SubSeq(B, n + 1, Len(B)) /\ n \in 1..Len(B)
    BY <2>0, <2>8 DEF C, S
  <2>11. QED  BY <2>3, <2>9, <2>10, Zenon DEF B, c
<1>3. QED  BY <1>1, <1>2

\* The constructor makes an empty buffer.
LEMMA NewBufferEmpty ==
  /\ IsBuffer(NewBuffer)
  /\ Content(NewBuffer) = << >>
  /\ NewBuffer.read_index_ = CHEAP_PREPEND
<1> DEFINE s == CHEAP_PREPEND + INITIALIZE_SIZE
           v == [i \in 0..(CHEAP_PREPEND + INITIALIZE_SIZE - 1) |-> Zero]
           c == NewBuffer
<1>1. s \in Nat /\ CHEAP_PREPEND \in Nat /\ CHEAP_PREPEND <= s
      /\ s - 1 = CHEAP_PREPEND + INITIALIZE_SIZE - 1
  BY SizesAssumption
<1>2. v \in [0..(s - 1) -> Byte]  BY <1>1, ByteAssumption
<1>3. c = [size |-> s, buffer_ |-> v, read_index_ |-> CHEAP_PREPEND, write_index_ |-> CHEAP_PREPEND]
  BY DEF NewBuffer
<1> HIDE DEF c, v, s
<1>4. /\ c \in Record
      /\ c.size = s /\ c.buffer_ = v
      /\ c.read_index_ = CHEAP_PREPEND /\ c.write_index_ = CHEAP_PREPEND
  <2>1. v \in Vectors  BY <1>1, <1>2, VectorsHold
  <2>2. QED  BY <2>1, <1>1, <1>3 DEF Record
<1>5. IsBuffer(c)
  BY <1>1, <1>2, <1>4 DEF IsBuffer, Sound
<1>6. Content(c) \in Seq(Byte) /\ Len(Content(c)) = 0
  BY <1>1, <1>4, <1>5, ContentSeq
<1>7. Content(c) = << >>  BY <1>6, EmptySeq
<1>8. QED  BY <1>4, <1>5, <1>7 DEF c

-----------------------------------------------------------------------------

\* A call on one buffer keeps the invariant and changes only its content.
LEMMA OneBufferStep ==
  ASSUME BufferInv, NEW x \in Names, NEW c, IsBuffer(c),
         bufs' = [bufs EXCEPT ![x] = c], overrun' = overrun,
         prepended' \in BOOLEAN, prepended => prepended',
         ~prepended' => c.read_index_ >= CHEAP_PREPEND
  PROVE  /\ BufferInv'
         /\ Contents' = [Contents EXCEPT ![x] = Content(c)]
         /\ Contents[x] = Content(bufs[x])
<1>1. c \in Record  BY Members
<1>2. bufs' \in [Names -> Record]  BY <1>1 DEF BufferInv
<1>3. \A y \in Names : bufs'[y] = IF y = x THEN c ELSE bufs[y]
  BY DEF BufferInv
<1>4. \A y \in Names : IsBuffer(bufs'[y])
  BY <1>3 DEF BufferInv
<1>5. ~prepended' => \A y \in Names : bufs'[y].read_index_ >= CHEAP_PREPEND
  BY <1>3 DEF BufferInv
<1>6. BufferInv'
  BY <1>2, <1>4, <1>5 DEF BufferInv
<1>7. Contents' = [Contents EXCEPT ![x] = Content(c)] /\ Contents[x] = Content(bufs[x])
  <2>1. Contents' = [z \in Names |-> Content(bufs'[z])]
    BY DEF Contents, Content, ReadableBytes
  <2>2. \A z \in Names : Content(bufs'[z]) = IF z = x THEN Content(c) ELSE Content(bufs[z])
    BY <1>3
  <2>3. Contents = [z \in Names |-> Content(bufs[z])]  BY DEF Contents
  <2>4. QED  BY <2>1, <2>2, <2>3
<1>8. QED  BY <1>6, <1>7

\* append: the bytes go to the back, or makeSpace overruns a prepended buffer.
LEMMA AppendStep ==
  ASSUME BufferInv, NEW x \in Names, NEW d \in Data, CallAppend(x, d)
  PROVE  /\ BufferInv'
         /\ \/ Contents' = [Contents EXCEPT ![x] = Contents[x] \o d]
            \/ Contents' = Contents
<1>0. d \in Seq(Byte) /\ Len(d) \in Nat /\ IsBuffer(bufs[x])
  BY DataAssumption DEF BufferInv
<1>1. CASE Overruns(bufs[x], Len(d))
  <2>1. overrun' = TRUE /\ bufs' = bufs /\ prepended' = prepended
    BY <1>1 DEF CallAppend
  <2>2. prepended
    BY <1>0, <1>1, NoOverrun DEF BufferInv
  <2>3. QED  BY <2>1, <2>2 DEF BufferInv, Contents
<1>2. CASE ~Overruns(bufs[x], Len(d))
  <2> DEFINE c == AppendData(bufs[x], d)
  <2>1. bufs' = [bufs EXCEPT ![x] = c] /\ overrun' = overrun /\ prepended' = prepended
    BY <1>2 DEF CallAppend
  <2>2. /\ IsBuffer(c) /\ Content(c) = Content(bufs[x]) \o d
        /\ bufs[x].read_index_ >= CHEAP_PREPEND => c.read_index_ >= CHEAP_PREPEND
    BY <1>0, <1>2, AppendIsPut
  <2> HIDE DEF c
  <2>3. ~prepended' => c.read_index_ >= CHEAP_PREPEND
    BY <2>1, <2>2 DEF BufferInv
  <2>4. prepended' \in BOOLEAN /\ (prepended => prepended')
    BY <2>1 DEF BufferInv
  <2>5. /\ BufferInv' /\ Contents' = [Contents EXCEPT ![x] = Content(c)]
        /\ Contents[x] = Content(bufs[x])
    BY <2>1, <2>2, <2>3, <2>4, OneBufferStep
  <2>6. QED  BY <2>2, <2>5
<1>3. QED  BY <1>1, <1>2

\* readFd: all bytes go to the back, or the append of the extra ones overruns
\* a prepended buffer.
LEMMA ReadFdStep ==
  ASSUME BufferInv, NEW x \in Names, NEW d \in Data, CallReadFd(x, d)
  PROVE  /\ BufferInv'
         /\ \/ Contents' = [Contents EXCEPT ![x] = Contents[x] \o d]
            \/ Contents' = Contents
<1> DEFINE m == WritableBytes(bufs[x])
           f == WriteHere(bufs[x], SubSeq(d, 1, m))
<1>0. d \in Seq(Byte) /\ Len(d) \in Nat /\ IsBuffer(bufs[x])
  BY DataAssumption DEF BufferInv
<1>1. m \in Nat  BY <1>0, Members DEF WritableBytes
<1>2. CASE Len(d) > m /\ Overruns(f, Len(d) - m)
  <2>1. overrun' = TRUE /\ bufs' = bufs /\ prepended' = prepended
    BY <1>2 DEF CallReadFd
  <2>2. SubSeq(d, 1, m) \in Seq(Byte) /\ Len(SubSeq(d, 1, m)) = m /\ Len(d) - m \in Nat
    <3> HIDE DEF m
    <3>1. QED  BY <1>0, <1>1, <1>2
  <2>3. IsBuffer(f) /\ f.read_index_ = bufs[x].read_index_
    <3>1. Len(SubSeq(d, 1, m)) <= WritableBytes(bufs[x])  BY <2>2, <1>1
    <3>2. QED  BY <3>1, <2>2, <1>0, WriteHereIsPut
  <2> HIDE DEF f, m
  <2>4. prepended
    BY <2>2, <2>3, <1>2, NoOverrun DEF BufferInv
  <2>5. QED  BY <2>1, <2>4 DEF BufferInv, Contents
<1>3. CASE ~(Len(d) > m /\ Overruns(f, Len(d) - m))
  <2> DEFINE c == ReadFd(bufs[x], d)
  <2>1. bufs' = [bufs EXCEPT ![x] = c] /\ overrun' = overrun /\ prepended' = prepended
    BY <1>3 DEF CallReadFd
  <2>2. /\ IsBuffer(c) /\ Content(c) = Content(bufs[x]) \o d
        /\ bufs[x].read_index_ >= CHEAP_PREPEND => c.read_index_ >= CHEAP_PREPEND
    BY <1>0, <1>3, ReadFdIsPut
  <2> HIDE DEF c
  <2>3. ~prepended' => c.read_index_ >= CHEAP_PREPEND
    BY <2>1, <2>2 DEF BufferInv
  <2>4. prepended' \in BOOLEAN /\ (prepended => prepended')
    BY <2>1 DEF BufferInv
  <2>5. /\ BufferInv' /\ Contents' = [Contents EXCEPT ![x] = Content(c)]
        /\ Contents[x] = Content(bufs[x])
    BY <2>1, <2>2, <2>3, <2>4, OneBufferStep
  <2>6. QED  BY <2>2, <2>5
<1>4. QED  BY <1>2, <1>3

\* prepend: the bytes go to the front, or are refused.
LEMMA PrependStep ==
  ASSUME BufferInv, NEW x \in Names, NEW d \in Data, CallPrepend(x, d)
  PROVE  /\ BufferInv'
         /\ \/ Contents' = [Contents EXCEPT ![x] = d \o Contents[x]]
            \/ Contents' = Contents
<1> DEFINE c == Prepend(bufs[x], d)
<1>0. d \in Seq(Byte) /\ Len(d) \in Nat /\ IsBuffer(bufs[x]) /\ bufs[x].read_index_ \in Nat
  BY DataAssumption, Members DEF BufferInv
<1>1. /\ bufs' = [bufs EXCEPT ![x] = c] /\ overrun' = overrun
      /\ prepended' = (prepended \/ Len(d) <= bufs[x].read_index_)
  BY DEF CallPrepend
<1>2. CASE Len(d) <= bufs[x].read_index_
  <2>1. IsBuffer(c) /\ Content(c) = d \o Content(bufs[x])
    BY <1>0, <1>2, PrependIsPutFront
  <2>2. prepended' = TRUE  BY <1>1, <1>2
  <2> HIDE DEF c
  <2>3. /\ BufferInv' /\ Contents' = [Contents EXCEPT ![x] = Content(c)]
        /\ Contents[x] = Content(bufs[x])
    BY <1>1, <2>1, <2>2, OneBufferStep
  <2>4. QED  BY <2>1, <2>3
<1>3. CASE ~(Len(d) <= bufs[x].read_index_)
  <2>1. c = bufs[x]
    <3>1. Len(d) > bufs[x].read_index_  BY <1>0, <1>3
    <3>2. QED  BY <3>1 DEF Prepend
  <2>2. bufs' = bufs  BY <1>1, <2>1 DEF BufferInv
  <2>3. prepended' = prepended  BY <1>1, <1>3 DEF BufferInv
  <2>4. QED  BY <1>1, <2>2, <2>3 DEF BufferInv, Contents
<1>4. QED  BY <1>2, <1>3

\* retrieve and writeFd take bytes from the front.
LEMMA RetrieveStep ==
  ASSUME BufferInv, NEW x \in Names, NEW n \in 1..(MaxLen + 1), CallRetrieve(x, n)
  PROVE  /\ BufferInv'
         /\ \/ Contents' = Contents
            \/ \E m \in 1..Len(Contents[x]) :
                 Contents' = [Contents EXCEPT ![x] = SubSeq(Contents[x], m + 1, Len(Contents[x]))]
<1> DEFINE c == Retrieve(bufs[x], n)
<1>0. IsBuffer(bufs[x]) /\ n \in Nat \ {0}
  BY MaxLenAssumption DEF BufferInv
<1>1. bufs' = [bufs EXCEPT ![x] = c] /\ overrun' = overrun /\ prepended' = prepended
  BY DEF CallRetrieve
<1>2. /\ IsBuffer(c)
      /\ bufs[x].read_index_ >= CHEAP_PREPEND => c.read_index_ >= CHEAP_PREPEND
      /\ \/ Content(c) = Content(bufs[x])
         \/ \E m \in 1..Len(Content(bufs[x])) :
              Content(c) = SubSeq(Content(bufs[x]), m + 1, Len(Content(bufs[x])))
  BY <1>0, RetrieveIsTake
<1> HIDE DEF c
<1>3. ~prepended' => c.read_index_ >= CHEAP_PREPEND
  BY <1>1, <1>2 DEF BufferInv
<1>4. prepended' \in BOOLEAN /\ (prepended => prepended')
  BY <1>1 DEF BufferInv
<1>5. /\ BufferInv' /\ Contents' = [Contents EXCEPT ![x] = Content(c)]
      /\ Contents[x] = Content(bufs[x])
  BY <1>1, <1>2, <1>3, <1>4, OneBufferStep
<1>6. CASE Content(c) = Content(bufs[x])
  <2>1. Contents' = [Contents EXCEPT ![x] = Contents[x]]  BY <1>5, <1>6
  <2>2. Contents' = Contents  BY <2>1 DEF Contents
  <2>3. QED  BY <1>5, <2>2
<1>7. QED  BY <1>2, <1>5, <1>6

\* swap exchanges two buffers.
LEMMA SwapStep ==
  ASSUME BufferInv, NEW x \in Names, NEW y \in Names, CallSwap(x, y)
  PROVE  /\ BufferInv'
         /\ Contents' = [Contents EXCEPT ![x] = Contents[y], ![y] = Contents[x]]
<1>1. /\ bufs' = [bufs EXCEPT ![x] = bufs[y], ![y] = bufs[x]]
      /\ overrun' = overrun /\ prepended' = prepended /\ x # y
  BY DEF CallSwap
<1>2. bufs' \in [Names -> Record]  BY <1>1 DEF BufferInv
<1>3. \A z \in Names : bufs'[z] = IF z = x THEN bufs[y] ELSE IF z = y THEN bufs[x] ELSE bufs[z]
  BY <1>1 DEF BufferInv
<1>4. \A z \in Names : IsBuffer(bufs'[z])
  BY <1>3 DEF BufferInv
<1>5. ~prepended' => \A z \in Names : bufs'[z].read_index_ >= CHEAP_PREPEND
  BY <1>1, <1>3 DEF BufferInv
<1>6. BufferInv'
  BY <1>1, <1>2, <1>4, <1>5 DEF BufferInv
<1>7. Contents' = [Contents EXCEPT ![x] = Contents[y], ![y] = Contents[x]]
  <2>1. Contents' = [z \in Names |-> Content(bufs'[z])]
    BY DEF Contents, Content, ReadableBytes
  <2>2. \A z \in Names : Content(bufs'[z]) =
          IF z = x THEN Content(bufs[y]) ELSE IF z = y THEN Content(bufs[x]) ELSE Content(bufs[z])
    BY <1>3
  <2>3. Contents = [z \in Names |-> Content(bufs[z])]  BY DEF Contents
  <2>4. QED  BY <1>1, <2>1, <2>2, <2>3
<1>8. QED  BY <1>6, <1>7

\* The invariant holds initially, with nothing in any buffer.
LEMMA BufferInit == UseInit => BufferInv /\ Contents = [x \in Names |-> << >>]
<1> SUFFICES ASSUME UseInit PROVE BufferInv /\ Contents = [x \in Names |-> << >>]
  OBVIOUS
<1>1. bufs = [x \in Names |-> NewBuffer] /\ overrun = FALSE /\ prepended = FALSE
  BY DEF UseInit
<1>2. NewBuffer \in Record /\ CHEAP_PREPEND \in Nat
  BY NewBufferEmpty, Members, SizesAssumption
<1>3. BufferInv
  <2>1. bufs \in [Names -> Record]  BY <1>1, <1>2
  <2>2. \A x \in Names : bufs[x] = NewBuffer  BY <1>1
  <2>3. \A x \in Names : IsBuffer(bufs[x]) /\ bufs[x].read_index_ >= CHEAP_PREPEND
    BY <1>2, <2>2, NewBufferEmpty
  <2>4. QED  BY <1>1, <2>1, <2>3 DEF BufferInv
<1>4. Contents = [x \in Names |-> << >>]
  BY <1>1, NewBufferEmpty DEF Contents
<1>5. QED  BY <1>3, <1>4

\* The operations in a step of the specification.
LEMMA Steps ==
  ASSUME UseNext
  PROVE  \/ \E x \in Names, d \in Data : CallAppend(x, d)
         \/ \E x \in Names, d \in Data : CallReadFd(x, d)
         \/ \E x \in Names, d \in Data : CallPrepend(x, d)
         \/ \E x \in Names, n \in 1..(MaxLen + 1) : CallRetrieve(x, n)
         \/ \E x \in Names, y \in Names : CallSwap(x, y)
  BY DEF UseNext

\* Every buffer is sound, and all read indices are at CHEAP_PREPEND or above
\* until a prepend is accepted, in every reachable state.
THEOREM BufferInvariant == UseSpec => []BufferInv
<1>1. UseInit => BufferInv  BY BufferInit
<1>2. BufferInv /\ [UseNext]_useVars => BufferInv'
  <2> SUFFICES ASSUME BufferInv, [UseNext]_useVars PROVE BufferInv'
    OBVIOUS
  <2>1. CASE UseNext
    BY <2>1, Steps, AppendStep, ReadFdStep, PrependStep, RetrieveStep, SwapStep
  <2>2. CASE UNCHANGED useVars
    BY <2>2 DEF useVars, BufferInv
  <2>3. QED  BY <2>1, <2>2
<1>3. QED  BY <1>1, <1>2, PTL DEF UseSpec

\* No call moves an index of a Buffer out of its vector, and makeSpace never
\* writes past the vector of a buffer unless bytes were prepended, for every
\* size, content and number of calls.
THEOREM IndicesStayWithinVector == UseSpec => []WithinVector
<1>1. BufferInv => WithinVector
  BY DEF BufferInv, IsBuffer, WithinVector
<1>2. QED  BY <1>1, BufferInvariant, PTL

\* Buffer implements ByteQueue: append, readFd and prepend add the bytes at
\* their end of the queue, retrieve takes from the front, makeSpace and refused
\* calls change nothing.
THEOREM RefinesByteQueue == UseSpec => ImplementsQueue
<1>1. UseInit => Queue!QInit
  BY BufferInit DEF Queue!QInit, Contents
<1>2. BufferInv /\ [UseNext]_useVars => [Queue!QNext]_Contents
  <2> SUFFICES ASSUME BufferInv, [UseNext]_useVars
               PROVE  Queue!QNext \/ Contents' = Contents
    OBVIOUS
  <2>1. ASSUME NEW x \in Names, NEW d \in Data, CallAppend(x, d) \/ CallReadFd(x, d)
        PROVE  Queue!QNext \/ Contents' = Contents
    <3>1. \/ Contents' = [Contents EXCEPT ![x] = Contents[x] \o d]
          \/ Contents' = Contents
      BY <2>1, AppendStep, ReadFdStep
    <3>2. QED  BY <3>1 DEF Queue!QNext, Queue!Put, Contents
  <2>2. ASSUME NEW x \in Names, NEW d \in Data, CallPrepend(x, d)
        PROVE  Queue!QNext \/ Contents' = Contents
    <3>1. \/ Contents' = [Contents EXCEPT ![x] = d \o Contents[x]]
          \/ Contents' = Contents
      BY <2>2, PrependStep
    <3>2. QED  BY <3>1 DEF Queue!QNext, Queue!PutFront, Contents
  <2>3. ASSUME NEW x \in Names, NEW n \in 1..(MaxLen + 1), CallRetrieve(x, n)
        PROVE  Queue!QNext \/ Contents' = Contents
    <3>1. \/ Contents' = Contents
          \/ \E m \in 1..Len(Contents[x]) :
               Contents' = [Contents EXCEPT ![x] = SubSeq(Contents[x], m + 1, Len(Contents[x]))]
      BY <2>3, RetrieveStep
    <3>2. QED  BY <3>1 DEF Queue!QNext, Queue!Take, Contents
  <2>4. ASSUME NEW x \in Names, NEW y \in Names, CallSwap(x, y)
        PROVE  Queue!QNext
    <3>1. Contents' = [Contents EXCEPT ![x] = Contents[y], ![y] = Contents[x]]
      BY <2>4, SwapStep
    <3>2. QED  BY <3>1 DEF Queue!QNext, Queue!Swap, Contents
  <2>5. CASE UseNext
    BY <2>5, Steps, <2>1, <2>2, <2>3, <2>4
  <2>6. CASE UNCHANGED useVars
    BY <2>6 DEF useVars, Contents
  <2>7. QED  BY <2>5, <2>6
<1>3. QED
  BY <1>1, <1>2, BufferInvariant, PTL DEF UseSpec, ImplementsQueue, Queue!QSpec, Contents

-----------------------------------------------------------------------------
(* The stream of the protobuf layer. *)

\* The least-number principle, for the inductions below.
LEMMA LeastNat ==
  ASSUME NEW T, T \subseteq Nat, T # {}
  PROVE  \E n \in T : \A m \in T : n <= m
<1>1. PICK R : R = {p \in Nat \X Nat : p[1] < p[2]}
  OBVIOUS
<1>2. IsWellFoundedOn(R, Nat)
  BY <1>1, NatLessThanWellFounded DEF OpToRel
<1>3. PICK n \in T : \A m \in T : ~(<<m, n>> \in R)
  BY <1>2, WFMin
<1>4. \A m \in T : ~(m < n)
  BY <1>1, <1>3
<1>5. QED  BY <1>4

\* The function FlattenSeq computes: at i, the first i sequences joined.
Joined(s) == CHOOSE g : g = [i \in 1..Len(s) |-> IF i = 1 THEN s[i] ELSE g[i - 1] \o s[i]]

\* g joins the first n sequences of s.
Recurs(g, s, n) == \A i \in 1..n : g[i] = IF i = 1 THEN s[i] ELSE g[i - 1] \o s[i]
Joins(g, s, n) == g \in [1..n -> Seq(Byte)] /\ Recurs(g, s, n)

\* The first sequences can be joined, as many as there are: by the least
\* number for which they could not.
LEMMA JoinExists ==
  ASSUME NEW s \in Seq(Seq(Byte))
  PROVE  \E g : Joins(g, s, Len(s))
<1> DEFINE T == {n \in Nat : n <= Len(s) /\ ~ \E g : Joins(g, s, n)}
<1>1. SUFFICES ASSUME T # {} PROVE FALSE
  <2>1. Len(s) \in Nat /\ Len(s) <= Len(s)  OBVIOUS
  <2>2. QED  BY <1>1, <2>1
<1>2. PICK n \in T : \A m \in T : n <= m
  BY <1>1, LeastNat
<1>3. n \in Nat /\ n <= Len(s) /\ ~ \E g : Joins(g, s, n)
  OBVIOUS
<1>4. CASE n = 0
  <2>1. Joins([i \in 1..0 |-> << >>], s, 0)
    BY DEF Joins, Recurs
  <2>2. QED  BY <1>3, <1>4, <2>1
<1>5. CASE n # 0
  <2>1. n - 1 \in Nat /\ n - 1 <= Len(s) /\ ~(n <= n - 1) /\ n \in 1..Len(s)
    BY <1>3, <1>5
  <2>2. n - 1 \notin T  BY <1>2, <2>1
  <2>3. PICK g : Joins(g, s, n - 1)  BY <2>1, <2>2
  <2>4. s[n] \in Seq(Byte)  BY <2>1
  <2>5. PICK x \in Seq(Byte) : x = IF n = 1 THEN s[n] ELSE g[n - 1] \o s[n]
    <3>1. n # 1 => g[n - 1] \in Seq(Byte)
      BY <2>1, <2>3 DEF Joins, Recurs
    <3>2. n # 1 => g[n - 1] \o s[n] \in Seq(Byte)
      BY <3>1, <2>4
    <3>3. QED  BY <3>2, <2>4
  <2>6. PICK h : h = [i \in 1..n |-> IF i = n THEN x ELSE g[i]]
    OBVIOUS
  <2>7. \A i \in 1..n : i # n => i \in 1..(n - 1) /\ (i # 1 => i - 1 \in 1..(n - 1) /\ i - 1 # n)
    BY <1>3
  <2>8. h \in [1..n -> Seq(Byte)]
    BY <2>3, <2>6, <2>7 DEF Joins, Recurs
  <2>9. ASSUME NEW i \in 1..n
        PROVE  h[i] = IF i = 1 THEN s[i] ELSE h[i - 1] \o s[i]
    <3>1. CASE i = n
      <4>1. n # 1 => n - 1 \in 1..n /\ n - 1 # n  BY <2>1
      <4>2. n # 1 => h[n - 1] = g[n - 1]  BY <4>1, <2>6
      <4>3. QED  BY <3>1, <4>2, <2>5, <2>6
    <3>2. CASE i # n
      <4>1. i # 1 => h[i - 1] = g[i - 1]
        <5>1. i # 1 => i - 1 \in 1..n /\ i - 1 # n  BY <3>2, <2>7, <2>1
        <5>2. QED  BY <5>1, <2>6
      <4>2. h[i] = g[i]  BY <3>2, <2>6
      <4>3. g[i] = IF i = 1 THEN s[i] ELSE g[i - 1] \o s[i]
        BY <3>2, <2>3, <2>7 DEF Joins, Recurs
      <4>4. QED  BY <4>1, <4>2, <4>3
    <3>3. QED  BY <3>1, <3>2
  <2>10. Joins(h, s, n)  BY <2>8, <2>9 DEF Joins, Recurs
  <2>11. QED  BY <1>3, <2>10
<1>6. QED  BY <1>4, <1>5

\* Two functions that join the same sequences agree: by the least index at
\* which they do not.
LEMMA JoinsAgree ==
  ASSUME NEW s, NEW t, NEW n \in Nat, \A i \in 1..n : s[i] = t[i],
         NEW g, Recurs(g, s, n), NEW h, Recurs(h, t, n)
  PROVE  \A i \in 1..n : g[i] = h[i]
<1> DEFINE T == {i \in 1..n : g[i] # h[i]}
<1>1. SUFFICES ASSUME T # {} PROVE FALSE
  BY <1>1
<1>2. PICK i \in T : \A m \in T : i <= m
  <2>1. T \subseteq Nat  OBVIOUS
  <2> HIDE DEF T
  <2>2. QED  BY <1>1, <2>1, LeastNat
<1>3. i \in 1..n /\ g[i] # h[i]
  OBVIOUS
<1>4. CASE i = 1
  BY <1>3, <1>4 DEF Recurs
<1>5. CASE i # 1
  <2>1. i - 1 \in 1..n /\ ~(i <= i - 1)  BY <1>3, <1>5
  <2>2. g[i - 1] = h[i - 1]  BY <1>2, <2>1
  <2>3. QED  BY <1>3, <1>5, <2>2 DEF Recurs
<1>6. QED  BY <1>4, <1>5

\* What FlattenSeq computes with is one of these functions.
LEMMA JoinedJoins ==
  ASSUME NEW s \in Seq(Seq(Byte))
  PROVE  Joins(Joined(s), s, Len(s))
<1>1. PICK g : Joins(g, s, Len(s))
  BY JoinExists
<1>2. g = [i \in 1..Len(s) |-> IF i = 1 THEN s[i] ELSE g[i - 1] \o s[i]]
  BY <1>1 DEF Joins, Recurs
<1>3. PICK j : j = Joined(s)
  OBVIOUS
<1>4. j = [i \in 1..Len(s) |-> IF i = 1 THEN s[i] ELSE j[i - 1] \o s[i]]
  BY <1>2, <1>3, Zenon DEF Joined
<1>5. \A i \in 1..Len(s) : j[i] = IF i = 1 THEN s[i] ELSE j[i - 1] \o s[i]
  BY <1>4
<1>6. \A i \in 1..Len(s) : j[i] = g[i]
  <2>1. Recurs(g, s, Len(s)) /\ Recurs(j, s, Len(s))
    BY <1>1, <1>5 DEF Joins, Recurs
  <2>2. Len(s) \in Nat  OBVIOUS
  <2>3. QED  BY <2>1, <2>2, JoinsAgree
<1>7. j \in [1..Len(s) -> Seq(Byte)]
  <2>1. \A i \in 1..Len(s) : g[i] \in Seq(Byte)
    BY <1>1 DEF Joins, Recurs
  <2>2. \A i \in 1..Len(s) : (IF i = 1 THEN s[i] ELSE j[i - 1] \o s[i]) \in Seq(Byte)
    BY <2>1, <1>5, <1>6
  <2>3. QED  BY <2>2, <1>4
<1>8. QED  BY <1>3, <1>5, <1>7 DEF Joins, Recurs

\* FlattenSeq of one more sequence: it comes last.
LEMMA FlattenAppend ==
  ASSUME NEW s \in Seq(Seq(Byte)), NEW x \in Seq(Byte)
  PROVE  /\ FlattenSeq(s) \in Seq(Byte)
         /\ FlattenSeq(Append(s, x)) = FlattenSeq(s) \o x
<1> DEFINE n == Len(s)
           t == Append(s, x)
           g == Joined(s)
           h == Joined(t)
<1>1. /\ n \in Nat /\ t \in Seq(Seq(Byte)) /\ Len(t) = n + 1 /\ Len(t) # 0
      /\ \A i \in 1..n : t[i] = s[i]
      /\ t[n + 1] = x
  OBVIOUS
<1>2. FlattenSeq(t) = h[n + 1]
  <2> HIDE DEF t
  <2>1. FlattenSeq(t) = h[Len(t)]
    BY <1>1, Zenon DEF FlattenSeq, Joined
  <2>2. QED  BY <1>1, <2>1
<1>3. Joins(h, t, n + 1) /\ Joins(g, s, n)
  <2> HIDE DEF t
  <2>1. QED  BY <1>1, JoinedJoins
<1> HIDE DEF g, h, t
<1>4. CASE n = 0
  <2>1. s = << >>  BY <1>4, EmptySeq
  <2>2. FlattenSeq(s) = << >>
    <3>1. FlattenSeq(s) = s  BY <1>4, Zenon DEF FlattenSeq
    <3>2. QED  BY <2>1, <3>1
  <2>3. 1 \in 1..(n + 1) /\ n + 1 = 1  BY <1>4
  <2>4. h[n + 1] = x  BY <1>1, <1>3, <2>3 DEF Joins, Recurs
  <2>5. QED  BY <1>2, <2>2, <2>4 DEF t
<1>5. CASE n # 0
  <2>1. FlattenSeq(s) = g[n]  BY <1>5, Zenon DEF FlattenSeq, Joined, g
  <2>2. n \in 1..n /\ n + 1 \in 1..(n + 1) /\ n + 1 # 1 /\ (n + 1) - 1 = n
    BY <1>1, <1>5
  <2>3. g[n] \in Seq(Byte)  BY <1>3, <2>2 DEF Joins, Recurs
  <2>4. h[n + 1] = h[n] \o x  
    <3>1. h[n + 1] = h[(n + 1) - 1] \o t[n + 1]  BY <1>3, <2>2 DEF Joins, Recurs
    <3>2. QED  BY <3>1, <1>1, <2>2
  <2>5. h[n] = g[n]
    <3>1. \A i \in 1..n : i \in 1..(n + 1)  BY <1>1
    <3>2. Recurs(h, t, n) /\ Recurs(g, s, n)
      BY <1>3, <3>1 DEF Joins, Recurs
    <3> HIDE DEF n
    <3>3. n \in Nat /\ \A i \in 1..n : t[i] = s[i]  BY <1>1
    <3>4. PICK u, v, k, p, q : k \in Nat /\ u = t /\ v = s /\ k = n /\ p = h /\ q = g
      BY <3>3
    <3>6. Recurs(p, u, k) /\ Recurs(q, v, k) /\ \A i \in 1..k : u[i] = v[i]
      BY <3>2, <3>3, <3>4
    <3>7. \A i \in 1..k : p[i] = q[i]
      BY <3>4, <3>6, JoinsAgree
    <3>8. \A i \in 1..n : h[i] = g[i]
      BY <3>4, <3>7
    <3>9. QED  BY <3>8, <2>2
  <2>6. QED  BY <1>2, <2>1, <2>3, <2>4, <2>5 DEF t
<1>6. QED  BY <1>4, <1>5

\* What is left of a sequence without its first k elements.
Rest(s, k) == SubSeq(s, k + 1, Len(s))

LEMMA RestSeq ==
  ASSUME NEW s \in Seq(Byte), NEW k \in Nat, k <= Len(s)
  PROVE  /\ Rest(s, k) \in Seq(Byte)
         /\ Len(Rest(s, k)) = Len(s) - k
         /\ Len(s) \in Nat /\ Len(s) - k \in Nat
         /\ \A i \in 1..(Len(s) - k) : Rest(s, k)[i] = s[k + i]
  BY DEF Rest

\* What is put at the back of the whole is put at the back of the rest.
LEMMA RestConcat ==
  ASSUME NEW s \in Seq(Byte), NEW x \in Seq(Byte), NEW k \in Nat, k <= Len(s)
  PROVE  Rest(s \o x, k) = Rest(s, k) \o x
<1>1. PICK y \in Seq(Byte) : /\ y = s \o x /\ Len(y) = Len(s) + Len(x)
                             /\ \A i \in 1..Len(s) : y[i] = s[i]
                             /\ \A i \in 1..Len(x) : y[Len(s) + i] = x[i]
  BY Concat
<1>2. Len(s) \in Nat /\ Len(x) \in Nat /\ k <= Len(y)
  BY <1>1
<1>3. PICK r \in Seq(Byte) : /\ r = Rest(s, k) /\ Len(r) = Len(s) - k
                             /\ \A i \in 1..(Len(s) - k) : r[i] = s[k + i]
  BY RestSeq
<1>4. PICK z \in Seq(Byte) : /\ z = Rest(y, k) /\ Len(z) = Len(y) - k
                             /\ \A i \in 1..(Len(y) - k) : z[i] = y[k + i]
  BY <1>2, RestSeq
<1>5. PICK w \in Seq(Byte) : /\ w = r \o x /\ Len(w) = Len(r) + Len(x)
                             /\ \A i \in 1..Len(r) : w[i] = r[i]
                             /\ \A i \in 1..Len(x) : w[Len(r) + i] = x[i]
  <2>1. /\ r \o x \in Seq(Byte) /\ Len(r \o x) = Len(r) + Len(x)
        /\ \A i \in 1..Len(r) : (r \o x)[i] = r[i]
        /\ \A i \in 1..Len(x) : (r \o x)[Len(r) + i] = x[i]
    BY Concat
  <2>2. QED  BY <2>1, Zenon
<1>6. Len(z) = Len(w)  BY <1>1, <1>2, <1>3, <1>4, <1>5
<1>7. ASSUME NEW i \in 1..Len(z) PROVE z[i] = w[i]
  <2>1. z[i] = y[k + i]  BY <1>4
  <2>2. CASE i <= Len(r)
    <3>1. i \in 1..Len(r) /\ i \in 1..(Len(s) - k) /\ k + i \in 1..Len(s)
      BY <2>2, <1>2, <1>3
    <3>2. QED  BY <2>1, <3>1, <1>1, <1>3, <1>5
  <2>3. CASE i > Len(r)
    <3>1. PICK j \in 1..Len(x) : i = Len(r) + j /\ k + i = Len(s) + j
      <4>1. i - Len(r) \in 1..Len(x) /\ i = Len(r) + (i - Len(r))
            /\ k + i = Len(s) + (i - Len(r))
        BY <2>3, <1>1, <1>2, <1>3, <1>4
      <4>2. QED  BY <4>1
    <3>2. QED  BY <2>1, <3>1, <1>1, <1>5
  <2>4. QED  BY <2>2, <2>3, <1>2, <1>3
<1>8. z = w  BY <1>6, <1>7, SameSeq
<1>9. QED  BY <1>1, <1>3, <1>4, <1>5, <1>8

\* Taking k and then j elements is taking k + j.
LEMMA RestRest ==
  ASSUME NEW s \in Seq(Byte), NEW k \in Nat, NEW j \in Nat, k + j <= Len(s)
  PROVE  Rest(Rest(s, k), j) = Rest(s, k + j)
<1>1. k <= Len(s) /\ k + j \in Nat /\ Len(s) \in Nat  OBVIOUS
<1>2. PICK r \in Seq(Byte) : /\ r = Rest(s, k) /\ Len(r) = Len(s) - k
                             /\ \A i \in 1..(Len(s) - k) : r[i] = s[k + i]
  BY <1>1, RestSeq
<1>3. j <= Len(r)  BY <1>1, <1>2
<1>4. PICK z \in Seq(Byte) : /\ z = Rest(r, j) /\ Len(z) = Len(r) - j
                             /\ \A i \in 1..(Len(r) - j) : z[i] = r[j + i]
  BY <1>3, RestSeq
<1>5. PICK w \in Seq(Byte) : /\ w = Rest(s, k + j) /\ Len(w) = Len(s) - (k + j)
                             /\ \A i \in 1..(Len(s) - (k + j)) : w[i] = s[(k + j) + i]
  BY <1>1, RestSeq
<1>6. Len(z) = Len(w)
  <2>1. Len(z) = Len(r) - j /\ Len(r) = Len(s) - k /\ Len(w) = Len(s) - (k + j)
    BY <1>2, <1>4, <1>5
  <2>2. QED  BY <2>1, <1>1
<1>7. ASSUME NEW i \in 1..Len(z) PROVE z[i] = w[i]
  <2>1. /\ i \in 1..(Len(r) - j) /\ j + i \in 1..(Len(s) - k) /\ i \in 1..(Len(s) - (k + j))
        /\ k + (j + i) = (k + j) + i
    BY <1>1, <1>2, <1>4, <1>5
  <2>2. QED  BY <2>1, <1>2, <1>4, <1>5
<1>8. z = w  BY <1>6, <1>7, SameSeq
<1>9. QED  BY <1>2, <1>4, <1>5, <1>8

\* Concatenation is associative.
LEMMA Assoc == \A x, y, z \in Seq(Byte) : (x \o y) \o z = x \o (y \o z)
  BY ConcatAssociative

\* A piece that moves from the front of one sequence to the back of another
\* leaves their concatenation as it was.
LEMMA Moved ==
  ASSUME NEW s \in Seq(Byte), NEW t \in Seq(Byte), NEW n \in 1..Len(t)
  PROVE  /\ SubSeq(t, 1, n) \in Seq(Byte)
         /\ (s \o SubSeq(t, 1, n)) \o Rest(t, n) = s \o t
<1>1. Len(t) \in Nat /\ n \in Nat /\ n <= Len(t)  OBVIOUS
<1>2. SubSeq(t, 1, n) \in Seq(Byte)  BY <1>1
<1>3. SubSeq(t, 1, n) \o Rest(t, n) = t
  <2>1. SubSeq(t, 1, n) \o SubSeq(t, n + 1, Len(t)) = SubSeq(t, 1, Len(t))
    <3>1. 1 \in 1..(Len(t) + 1) /\ n \in (1 - 1)..Len(t) /\ Len(t) \in n..Len(t)
      BY <1>1
    <3>2. QED  BY <3>1, ConcatAdjacentSubSeq, Zenon
  <2>2. SubSeq(t, 1, Len(t)) = t  OBVIOUS
  <2>3. QED  BY <2>1, <2>2, Zenon DEF Rest
<1>4. Rest(t, n) \in Seq(Byte)  BY <1>1, RestSeq
<1>6. PICK p \in Seq(Byte), q \in Seq(Byte) : p = SubSeq(t, 1, n) /\ q = Rest(t, n)
  BY <1>2, <1>4
<1>7. (s \o p) \o q = s \o (p \o q)
  BY <1>6, Assoc
<1>8. QED  BY <1>2, <1>3, <1>6, <1>7

-----------------------------------------------------------------------------
(* The invariant of the protobuf layer. *)

\* What a frame may lead to.
Outcomes == {"callback", "default_cb_", "CHECKSUM_ERROR", "INVALID_NAME", "DECODE_ERROR"}

\* A buffer that was never prepended to.
Plain(b) == IsBuffer(b) /\ b.read_index_ >= CHEAP_PREPEND

CodecTypes ==
    /\ frames \in Seq(FrameTypes) /\ Len(frames) <= MaxFrames
    /\ Plain(in) /\ Plain(out)
    /\ inmsg \in BOOLEAN /\ erred \in BOOLEAN /\ lost \in BOOLEAN
    /\ handled \in Seq(Outcomes)
    /\ consumed \in Nat

\* The bytes of the two buffers are what is left of the stream.
Unbroken ==
    /\ Stream \in Seq(Byte)
    /\ consumed <= Len(Stream)
    /\ Content(in) \o Content(out) = Rest(Stream, consumed)

\* The bytes of s are those of the frames fr; st[f] of them come before frame f.
Layout(st, fr, s) ==
    /\ st \in [1..(Len(fr) + 1) -> Nat]
    /\ st[1] = 0 /\ st[Len(fr) + 1] = Len(s)
    /\ \A f \in 1..Len(fr) :
         /\ st[f + 1] = st[f] + (HEADER_LEN + fr[f].total_len)
         /\ st[f + 1] <= Len(s)
         /\ \A i \in 1..(HEADER_LEN + fr[f].total_len) : s[st[f] + i] = <<f, i>>

\* c is the number of bytes of the first n frames.
AtFrame(n, fr, c, s) == \E st : Layout(st, fr, s) /\ c = st[n + 1]

\* The next frame is not complete.
NothingLeft ==
    ~inmsg /\ ~erred /\ ~lost /\ ReadableBytes(in) >= HEADER_LEN =>
      /\ Len(handled) < Len(frames)
      /\ ReadableBytes(in) < HEADER_LEN + frames[Len(handled) + 1].total_len

CodecInv ==
    /\ CodecTypes
    /\ Unbroken
    /\ FramesInOrder
    /\ ~lost => AtFrame(Len(handled), frames, consumed, Stream)
    /\ NothingLeft

\* The bytes of the frames.
Pieces(fr) == [f \in 1..Len(fr) |-> Bytes(f, fr[f].total_len)]

LEMMA StreamIs == Stream = FlattenSeq(Pieces(frames)) /\ Stream' = FlattenSeq(Pieces(frames'))
  BY DEF Stream, Pieces

\* The bytes of a frame are as many as its header and its length say.
LEMMA FrameBytes ==
  ASSUME NEW f \in 1..MaxFrames, NEW t \in FrameTypes
  PROVE  /\ Bytes(f, t.total_len) \in Seq(Byte)
         /\ t.total_len \in Nat /\ HEADER_LEN \in Nat /\ HEADER_LEN > 0
         /\ Len(Bytes(f, t.total_len)) = HEADER_LEN + t.total_len
         /\ \A i \in 1..(HEADER_LEN + t.total_len) : Bytes(f, t.total_len)[i] = <<f, i>>
<1>1. t.total_len \in Nat /\ HEADER_LEN \in Nat /\ HEADER_LEN > 0
  BY FramesAssumption, LengthsAssumption
<1>2. Bytes(f, t.total_len) \in Seq(Byte)
  BY FrameBytesAssumption
<1>3. PICK n \in Nat : n = HEADER_LEN + t.total_len
  BY <1>1
<1>4. PICK x : x = Bytes(f, t.total_len) /\ x = [i \in 1..n |-> <<f, i>>]
  BY <1>3 DEF Bytes
<1>5. Len(x) = n /\ \A i \in 1..n : x[i] = <<f, i>>
  BY <1>4
<1>6. QED  BY <1>1, <1>2, <1>3, <1>4, <1>5

\* One more frame: its bytes come last.
LEMMA StreamGrows ==
  ASSUME NEW fr \in Seq(FrameTypes), Len(fr) < MaxFrames, NEW t \in FrameTypes
  PROVE  /\ FlattenSeq(Pieces(fr)) \in Seq(Byte)
         /\ FlattenSeq(Pieces(Append(fr, t))) =
              FlattenSeq(Pieces(fr)) \o Bytes(Len(fr) + 1, t.total_len)
<1>1. PICK n \in Nat : n = Len(fr) /\ n + 1 \in 1..MaxFrames
  BY FramesAssumption
<1>2. PICK x \in Seq(Byte) : x = Bytes(n + 1, t.total_len)
  BY <1>1, FrameBytes
<1>3. PICK p : p = Pieces(fr)  OBVIOUS
<1>4. p \in Seq(Seq(Byte)) /\ Len(p) = n
  <2>1. \A f \in 1..n : Bytes(f, fr[f].total_len) \in Seq(Byte)
    <3> SUFFICES ASSUME NEW f \in 1..n PROVE Bytes(f, fr[f].total_len) \in Seq(Byte)
      OBVIOUS
    <3>1. f \in 1..MaxFrames  BY <1>1, FramesAssumption
    <3>2. fr[f] \in FrameTypes  BY <1>1
    <3>3. QED  BY <3>1, <3>2, FrameBytes
  <2>2. p = [f \in 1..n |-> Bytes(f, fr[f].total_len)]  BY <1>1, <1>3 DEF Pieces
  <2>3. QED  BY <2>1, <2>2
<1>5. Pieces(Append(fr, t)) = Append(p, x)
  <2>1. PICK ft : ft = Append(fr, t)  OBVIOUS
  <2>2. Len(ft) = n + 1 /\ ft[n + 1] = t /\ \A f \in 1..n : ft[f] = fr[f]
    BY <2>1, <1>1
  <2>3. Pieces(ft) = [f \in 1..(n + 1) |-> Bytes(f, ft[f].total_len)]
    BY <2>2 DEF Pieces
  <2>4. p = [f \in 1..n |-> Bytes(f, fr[f].total_len)]  BY <1>1, <1>3 DEF Pieces
  <2>5. PICK a \in Seq(Seq(Byte)) : /\ a = Append(p, x) /\ Len(a) = n + 1 /\ a[n + 1] = x
                                    /\ \A f \in 1..n : a[f] = p[f]
    <3>1. /\ Append(p, x) \in Seq(Seq(Byte)) /\ Len(Append(p, x)) = n + 1
          /\ Append(p, x)[n + 1] = x /\ \A f \in 1..n : Append(p, x)[f] = p[f]
      BY <1>4, AppendProperties
    <3>2. QED  BY <3>1, Zenon
  <2>6. ASSUME NEW f \in 1..(n + 1)
        PROVE  Bytes(f, ft[f].total_len) = a[f]
    <3>1. CASE f = n + 1
      BY <3>1, <2>2, <2>5, <1>2
    <3>2. CASE f # n + 1
      <4>1. f \in 1..n  BY <3>2
      <4>2. QED  BY <4>1, <2>2, <2>4, <2>5
    <3>3. QED  BY <3>1, <3>2
  <2>7. a = [f \in 1..(n + 1) |-> a[f]]
    <3>1. a \in [1..(n + 1) -> Seq(Byte)]  BY <2>5, LenProperties
    <3>2. QED  BY <3>1
  <2>8. Pieces(ft) = a  BY <2>3, <2>6, <2>7
  <2>9. QED  BY <2>1, <2>5, <2>8
<1>6. QED  BY <1>1, <1>2, <1>3, <1>4, <1>5, FlattenAppend

\* The layout of one more frame.
LEMMA LayoutGrows ==
  ASSUME NEW fr \in Seq(FrameTypes), Len(fr) < MaxFrames, NEW t \in FrameTypes,
         NEW s \in Seq(Byte), NEW st, Layout(st, fr, s)
  PROVE  \E su : /\ Layout(su, Append(fr, t), s \o Bytes(Len(fr) + 1, t.total_len))
                 /\ \A f \in 1..(Len(fr) + 1) : su[f] = st[f]
<1>1. PICK n \in Nat : n = Len(fr) /\ n + 1 \in 1..MaxFrames
  BY FramesAssumption
<1>2. PICK x \in Seq(Byte), m \in Nat : /\ x = Bytes(n + 1, t.total_len)
                              /\ m = HEADER_LEN + t.total_len
                              /\ Len(x) = m /\ \A i \in 1..m : x[i] = <<n + 1, i>>
  <2>1. HEADER_LEN + t.total_len \in Nat  BY <1>1, FrameBytes
  <2>2. QED  BY <2>1, <1>1, FrameBytes
<1>3. PICK ft \in Seq(FrameTypes) : /\ ft = Append(fr, t) /\ Len(ft) = n + 1 /\ ft[n + 1] = t
                                    /\ \A f \in 1..n : ft[f] = fr[f]
  <2>1. /\ Append(fr, t) \in Seq(FrameTypes) /\ Len(Append(fr, t)) = n + 1
        /\ Append(fr, t)[n + 1] = t /\ \A f \in 1..n : Append(fr, t)[f] = fr[f]
    BY <1>1, AppendProperties
  <2>2. QED  BY <2>1, Zenon
<1>4. PICK y \in Seq(Byte) : /\ y = s \o x /\ Len(y) = Len(s) + m
                             /\ \A i \in 1..Len(s) : y[i] = s[i]
                             /\ \A i \in 1..m : y[Len(s) + i] = x[i]
  <2>1. /\ s \o x \in Seq(Byte) /\ Len(s \o x) = Len(s) + m
        /\ \A i \in 1..Len(s) : (s \o x)[i] = s[i]
        /\ \A i \in 1..m : (s \o x)[Len(s) + i] = x[i]
    BY <1>2, Concat
  <2>2. QED  BY <2>1, Zenon
<1>5. PICK su : su = [f \in 1..(n + 2) |-> IF f <= n + 1 THEN st[f] ELSE Len(s) + m]
  OBVIOUS
<1>6. /\ st \in [1..(n + 1) -> Nat] /\ st[1] = 0 /\ st[n + 1] = Len(s)
      /\ \A f \in 1..n :
           /\ st[f + 1] = st[f] + (HEADER_LEN + fr[f].total_len)
           /\ st[f + 1] <= Len(s)
           /\ \A i \in 1..(HEADER_LEN + fr[f].total_len) : s[st[f] + i] = <<f, i>>
  BY <1>1 DEF Layout
<1>7. Len(s) \in Nat  OBVIOUS
<1>8. /\ su \in [1..((n + 1) + 1) -> Nat]
      /\ \A f \in 1..(n + 1) : su[f] = st[f]
      /\ su[(n + 1) + 1] = Len(s) + m
  BY <1>5, <1>6, <1>7, SMT
<1>9. 1 \in 1..(n + 1) /\ su[1] = 0  BY <1>6, <1>8
<1>10. ASSUME NEW f \in 1..(n + 1)
       PROVE  /\ su[f + 1] = su[f] + (HEADER_LEN + ft[f].total_len)
              /\ su[f + 1] <= Len(y)
              /\ \A i \in 1..(HEADER_LEN + ft[f].total_len) : y[su[f] + i] = <<f, i>>
  <2>1. CASE f = n + 1
    <3>1. HEADER_LEN + ft[f].total_len = m  BY <2>1, <1>2, <1>3
    <3>2. su[f] = Len(s) /\ su[f + 1] = Len(s) + m  BY <2>1, <1>6, <1>8
    <3>3. Len(s) + m <= Len(y)  BY <1>4, <1>7
    <3>4. \A i \in 1..m : y[Len(s) + i] = <<f, i>>  BY <2>1, <1>2, <1>4
    <3>5. QED  BY <3>1, <3>2, <3>3, <3>4
  <2>2. CASE f # n + 1
    <3>1. f \in 1..n /\ f + 1 \in 1..(n + 1)  BY <2>2
    <3>2. ft[f] = fr[f] /\ su[f] = st[f] /\ su[f + 1] = st[f + 1]  BY <3>1, <1>3, <1>8
    <3>3. /\ st[f] \in Nat
          /\ st[f + 1] = st[f] + (HEADER_LEN + fr[f].total_len) /\ st[f + 1] <= Len(s)
          /\ \A i \in 1..(HEADER_LEN + fr[f].total_len) : s[st[f] + i] = <<f, i>>
      BY <3>1, <1>6
    <3>4. fr[f].total_len \in Nat /\ HEADER_LEN \in Nat
      <4>1. fr[f] \in FrameTypes  BY <3>1, <1>1
      <4>2. QED  BY <4>1, FramesAssumption, LengthsAssumption
    <3>5. PICK k \in Nat : k = HEADER_LEN + fr[f].total_len
      BY <3>4, SMT
    <3>6. st[f] + k <= Len(s) /\ Len(s) <= Len(y)  BY <3>3, <3>5, <1>4, <1>7
    <3>7. ASSUME NEW i \in 1..k PROVE y[st[f] + i] = <<f, i>>
      <4>1. st[f] + i \in 1..Len(s)  BY <3>3, <3>6, <1>7, SMT
      <4>2. s[st[f] + i] = <<f, i>>  BY <3>3, <3>5
      <4>3. QED  BY <4>1, <4>2, <1>4
    <3>8. st[f + 1] <= Len(y)  BY <3>3, <3>5, <3>6, <1>4, <1>7
    <3>9. QED  BY <3>2, <3>3, <3>5, <3>7, <3>8
  <2>3. QED  BY <2>1, <2>2
<1>11. Layout(su, ft, y)
  BY <1>3, <1>4, <1>8, <1>9, <1>10 DEF Layout
<1>12. QED  BY <1>1, <1>2, <1>3, <1>4, <1>8, <1>11

\* The outcomes of the checks and of Dispatch.
LEMMA Outcome ==
  ASSUME NEW kind
  PROVE  /\ Verdict(kind) \in {"SUCCESS", "CHECKSUM_ERROR", "INVALID_NAME", "DECODE_ERROR"}
         /\ Dispatch(kind) \in {"callback", "default_cb_"}
  BY DEF Verdict, Dispatch

\* The readable bytes are the content.
LEMMA Readable ==
  ASSUME NEW b, IsBuffer(b)
  PROVE  /\ Content(b) \in Seq(Byte)
         /\ ReadableBytes(b) \in Nat
         /\ Len(Content(b)) = ReadableBytes(b)
<1>1. Content(b) \in Seq(Byte) /\ Len(Content(b)) = b.write_index_ - b.read_index_
  BY ContentSeq
<1>2. QED  BY <1>1, Members DEF ReadableBytes

\* What Decode does to the buffer: nothing, or it takes some bytes away, those
\* of the frame if the length is good.
LEMMA DecodeTakes ==
  ASSUME NEW b, Plain(b), NEW kind, NEW tl
  PROVE  LET r == Decode(b, kind, tl) IN
         \E k \in Nat :
           /\ k <= Len(Content(b))
           /\ Plain(r.buffer)
           /\ Content(r.buffer) = Rest(Content(b), k)
           /\ ReadableBytes(b) - ReadableBytes(r.buffer) = k
           /\ \/ tl \notin MIN_LEN..MAX_LEN /\ r.state = "DECODE_ERROR"
              \/ /\ tl \in MIN_LEN..MAX_LEN
                 /\ ReadableBytes(b) < HEADER_LEN + tl
                 /\ r.state = "INCOMPLETE" /\ k = 0 /\ r.buffer = b
              \/ /\ tl \in MIN_LEN..MAX_LEN
                 /\ r.state = Verdict(kind) /\ k = HEADER_LEN + tl
<1> DEFINE r == Decode(b, kind, tl)
           B == Content(b)
<1>1. B \in Seq(Byte) /\ Len(B) \in Nat /\ Len(B) = ReadableBytes(b) /\ IsBuffer(b)
  BY Readable DEF Plain
<1>2. ASSUME NEW c, IsBuffer(c), NEW k \in Nat, k <= Len(B), Content(c) = Rest(B, k)
      PROVE  ReadableBytes(b) - ReadableBytes(c) = k
  <2>1. Len(Rest(B, k)) = Len(B) - k  BY <1>1, <1>2, RestSeq
  <2>2. Len(Content(c)) = ReadableBytes(c)  BY <1>2, Readable
  <2> HIDE DEF B
  <2>3. QED  BY <2>1, <2>2, <1>1, <1>2
<1>3. Rest(B, 0) = B
  <2> HIDE DEF B
  <2>1. QED  BY <1>1 DEF Rest
<1>4. Rest(B, Len(B)) = << >>
  <2> HIDE DEF B
  <2>1. QED  BY <1>1, SubSeqEmpty DEF Rest
<1>5. CASE tl \notin MIN_LEN..MAX_LEN
  <2>1. r.state = "DECODE_ERROR" /\ r.buffer = RetrieveAll(b)
    BY <1>5 DEF Decode
  <2> HIDE DEF r, B
  <2>2. /\ IsBuffer(r.buffer) /\ Content(r.buffer) = << >>
        /\ r.buffer.read_index_ >= CHEAP_PREPEND
    BY <2>1, <1>1, RetrieveAllEmpties, SizesAssumption
  <2>3. Len(B) <= Len(B) /\ Content(r.buffer) = Rest(B, Len(B))
    BY <2>2, <1>1, <1>4
  <2>4. ReadableBytes(b) - ReadableBytes(r.buffer) = Len(B)
    BY <2>2, <2>3, <1>1, <1>2
  <2>5. QED  BY <2>1, <2>2, <2>3, <2>4, <1>1, <1>5 DEF r, B, Plain
<1>6. CASE tl \in MIN_LEN..MAX_LEN /\ ReadableBytes(b) < HEADER_LEN + tl
  <2>1. r.state = "INCOMPLETE" /\ r.buffer = b
    BY <1>6 DEF Decode
  <2> HIDE DEF r, B
  <2>2. ReadableBytes(b) - ReadableBytes(r.buffer) = 0  BY <2>1, <1>1
  <2>3. 0 \in Nat /\ 0 <= Len(B)  BY <1>1
  <2>4. QED  BY <2>1, <2>2, <2>3, <1>1, <1>3, <1>6 DEF r, B
<1>7. CASE tl \in MIN_LEN..MAX_LEN /\ ~(ReadableBytes(b) < HEADER_LEN + tl)
  <2>1. r.state = Verdict(kind) /\ r.buffer = Retrieve(b, HEADER_LEN + tl)
    BY <1>7 DEF Decode
  <2> HIDE DEF r, B
  <2>2. PICK k \in Nat \ {0} : k = HEADER_LEN + tl
    BY <1>7, LengthsAssumption
  <2>3. k <= Len(B)  BY <2>2, <1>1, <1>7
  <2>4. /\ IsBuffer(r.buffer) /\ r.buffer.read_index_ >= CHEAP_PREPEND
        /\ Content(r.buffer) = Rest(B, k)
    BY <2>1, <2>2, <2>3, <1>1, RetrieveIsTake DEF B, Plain, Rest
  <2>5. ReadableBytes(b) - ReadableBytes(r.buffer) = k
    BY <2>3, <2>4, <1>2
  <2>6. QED  BY <2>1, <2>2, <2>3, <2>4, <2>5, <1>7 DEF r, B, Plain
<1>8. QED  BY <1>5, <1>6, <1>7

\* Until a bad length, the bytes of the receiver's buffer begin with the header
\* of the next frame, as soon as there are enough of them.
LEMMA FrameAtFront ==
  CodecInv /\ ~lost /\ ReadableBytes(in) >= HEADER_LEN =>
    /\ Len(handled) < Len(frames)
    /\ Found = {frames[Len(handled) + 1]}
<1> SUFFICES ASSUME CodecInv, ~lost, ReadableBytes(in) >= HEADER_LEN
             PROVE  /\ Len(handled) < Len(frames)
                    /\ Found = {frames[Len(handled) + 1]}
  OBVIOUS
<1>1. PICK I \in Seq(Byte), O \in Seq(Byte) : I = Content(in) /\ O = Content(out)
  BY Readable DEF CodecInv, CodecTypes, Plain
<1>2. HEADER_LEN \in Nat \ {0} /\ HEADER_LEN <= Len(I) /\ Len(I) \in Nat
  BY <1>1, Readable, LengthsAssumption DEF CodecInv, CodecTypes, Plain
<1>3. PICK S \in Seq(Byte) : S = Stream /\ consumed <= Len(S) /\ I \o O = Rest(S, consumed)
  BY <1>1 DEF CodecInv, Unbroken
<1>4. consumed \in Nat /\ Len(S) \in Nat
  BY DEF CodecInv, CodecTypes
<1>5. /\ Len(I \o O) = Len(S) - consumed
      /\ \A i \in 1..(Len(S) - consumed) : (I \o O)[i] = S[consumed + i]
  BY <1>3, <1>4, RestSeq
<1>6. /\ Len(I \o O) = Len(I) + Len(O) /\ Len(O) \in Nat
      /\ \A i \in 1..Len(I) : (I \o O)[i] = I[i]
  BY Concat
<1>7. \A i \in 1..HEADER_LEN : I[i] = S[consumed + i]
  <2> SUFFICES ASSUME NEW i \in 1..HEADER_LEN PROVE I[i] = S[consumed + i]
    OBVIOUS
  <2>1. i \in 1..Len(I) /\ i \in 1..(Len(S) - consumed)
    BY <1>2, <1>4, <1>5, <1>6
  <2>2. QED  BY <2>1, <1>5, <1>6
<1>8. PICK h \in Nat, n \in Nat : /\ h = Len(handled) /\ n = Len(frames) /\ h <= n
  BY DEF CodecInv, CodecTypes, FramesInOrder
<1>9. PICK st : Layout(st, frames, S) /\ consumed = st[h + 1]
  BY <1>3, <1>8 DEF CodecInv, AtFrame
<1>10. h # n
  <2>1. st[n + 1] = Len(S)  BY <1>8, <1>9 DEF Layout
  <2>2. consumed # Len(S)  BY <1>2, <1>4, <1>5, <1>6
  <2>3. QED  BY <2>1, <2>2, <1>9
<1>11. PICK f \in 1..n : f = h + 1  BY <1>8, <1>10
<1>12. frames[f].total_len \in Nat
  <2>1. frames[f] \in FrameTypes  BY <1>8 DEF CodecInv, CodecTypes
  <2>2. QED  BY <2>1, FramesAssumption
<1>13. \A i \in 1..HEADER_LEN : I[i] = <<f, i>>
  <2> SUFFICES ASSUME NEW i \in 1..HEADER_LEN PROVE I[i] = <<f, i>>
    OBVIOUS
  <2>1. i \in 1..(HEADER_LEN + frames[f].total_len)  BY <1>2, <1>12, SMT
  <2>2. S[st[f] + i] = <<f, i>>  BY <2>1, <1>8, <1>9 DEF Layout
  <2>3. QED  BY <2>2, <1>7, <1>9, <1>11
<1>14. 1 \in 1..HEADER_LEN /\ I[1] = <<f, 1>>  BY <1>2, <1>13
<1>15. I[1][1] = f  BY <1>14
<1>16. Aligned  BY <1>1, <1>13, <1>15 DEF Aligned
<1>17. Found = {frames[f]}  BY <1>1, <1>15, <1>16 DEF Found
<1>18. QED  BY <1>8, <1>10, <1>11, <1>17

-----------------------------------------------------------------------------
(* Its steps. *)

\* No frames, no bytes.
LEMMA CodecInit == Init => CodecInv
<1> SUFFICES ASSUME Init PROVE CodecInv
  OBVIOUS
<1>1. /\ frames = << >> /\ handled = << >> /\ consumed = 0 /\ Len(frames) = 0 /\ Len(handled) = 0
      /\ in = NewBuffer /\ out = NewBuffer
      /\ inmsg = FALSE /\ erred = FALSE /\ lost = FALSE
  BY DEF Init
<1>2. Plain(NewBuffer) /\ Content(NewBuffer) = << >>
  BY NewBufferEmpty, SizesAssumption DEF Plain
<1>3. CodecTypes
  <2>1. frames \in Seq(FrameTypes) /\ handled \in Seq(Outcomes)  BY <1>1
  <2>2. Len(frames) <= MaxFrames  BY <1>1, FramesAssumption
  <2>3. QED  BY <1>1, <1>2, <2>1, <2>2 DEF CodecTypes
<1>4. Stream = << >>
  <2>1. Pieces(frames) = << >>  BY <1>1 DEF Pieces
  <2>2. FlattenSeq(<< >>) = << >>
    <3>1. Len(<< >>) = 0  OBVIOUS
    <3>2. QED  BY <3>1, Zenon DEF FlattenSeq
  <2>3. QED  BY <2>1, <2>2, StreamIs
<1>5. Unbroken
  <2>1. << >> \in Seq(Byte) /\ Len(<< >>) = 0 /\ << >> \o << >> = << >>
    OBVIOUS
  <2>2. Rest(<< >>, 0) = << >>  BY <2>1, SubSeqEmpty DEF Rest
  <2>3. QED  BY <2>1, <2>2, <1>1, <1>2, <1>4 DEF Unbroken
<1>6. AtFrame(Len(handled), frames, consumed, Stream)
  <2>1. PICK st : st = [f \in 1..1 |-> 0]  OBVIOUS
  <2>2. st \in [1..1 -> Nat] /\ st[1] = 0  BY <2>1
  <2>3. Len(Stream) = 0 /\ Len(frames) + 1 = 1 /\ Len(handled) + 1 = 1  BY <1>1, <1>4
  <2>4. \A f \in 1..Len(frames) : FALSE  BY <1>1
  <2>5. Layout(st, frames, Stream)  BY <2>2, <2>3, <2>4 DEF Layout
  <2>6. consumed = st[Len(handled) + 1]  BY <2>2, <2>3, <1>1
  <2>7. QED  BY <2>5, <2>6 DEF AtFrame
<1>7. FramesInOrder  BY <1>1 DEF FramesInOrder
<1>8. NothingLeft
  <2>1. ReadableBytes(in) = 0
    <3>1. Len(Content(in)) = 0  BY <1>1, <1>2
    <3>2. QED  BY <3>1, <1>1, <1>2, Readable DEF Plain
  <2>2. QED  BY <2>1, LengthsAssumption DEF NothingLeft
<1>9. QED  BY <1>3, <1>5, <1>6, <1>7, <1>8 DEF CodecInv

\* Encode puts the bytes of the frame at the back.
LEMMA EncodeIsPut ==
  ASSUME NEW b, Plain(b), NEW f \in 1..MaxFrames, NEW t \in FrameTypes
  PROVE  /\ Plain(Encode(b, f, t.total_len))
         /\ Content(Encode(b, f, t.total_len)) = Content(b) \o Bytes(f, t.total_len)
<1>1. PICK x \in Seq(Byte) : x = Bytes(f, t.total_len) /\ Len(x) = HEADER_LEN + t.total_len
  BY FrameBytes
<1>2. Encode(b, f, t.total_len) = AppendData(b, x)
  BY <1>1 DEF Encode, AppendData
<1>3. ~Overruns(b, Len(x))
  <2>1. Len(x) \in Nat  BY <1>1
  <2>2. QED  BY <2>1, NoOverrun DEF Plain
<1>4. /\ IsBuffer(AppendData(b, x)) /\ Content(AppendData(b, x)) = Content(b) \o x
      /\ AppendData(b, x).read_index_ >= CHEAP_PREPEND
  BY <1>1, <1>3, AppendIsPut DEF Plain
<1>5. QED  BY <1>1, <1>2, <1>4 DEF Plain

\* A frame that is sent goes to the end of the stream and of the sender's buffer.
LEMMA SendStep == CodecInv /\ Send => CodecInv'
<1> SUFFICES ASSUME CodecInv, Send PROVE CodecInv'
  OBVIOUS
<1>1. PICK t \in FrameTypes : /\ frames' = Append(frames, t)
                              /\ out' = Encode(out, Len(frames) + 1, t.total_len)
  BY DEF Send
<1>2. /\ Len(frames) < MaxFrames /\ in' = in /\ inmsg' = inmsg /\ handled' = handled
      /\ consumed' = consumed /\ erred' = erred /\ lost' = lost
  BY DEF Send
<1>3. PICK n \in Nat : n = Len(frames) /\ n + 1 \in 1..MaxFrames
  BY <1>2, FramesAssumption DEF CodecInv, CodecTypes
<1>4. /\ frames' \in Seq(FrameTypes) /\ Len(frames') = n + 1
      /\ \A f \in 1..n : frames'[f] = frames[f]
  BY <1>1, <1>3, AppendProperties DEF CodecInv, CodecTypes
<1>5. PICK x \in Seq(Byte) : x = Bytes(n + 1, t.total_len)
  BY <1>3, FrameBytes
<1>6. Plain(out') /\ Content(out') = Content(out) \o x
  BY <1>1, <1>3, <1>5, EncodeIsPut DEF CodecInv, CodecTypes
<1>7. PICK S \in Seq(Byte) : S = Stream /\ Stream' = S \o x
  BY <1>1, <1>2, <1>3, <1>5, StreamIs, StreamGrows DEF CodecInv, CodecTypes
<1>8. CodecTypes'
  BY <1>2, <1>3, <1>4, <1>6, FramesAssumption DEF CodecInv, CodecTypes
<1>9. Unbroken'
  <2>1. PICK I \in Seq(Byte), O \in Seq(Byte) : I = Content(in) /\ O = Content(out)
    BY Readable DEF CodecInv, CodecTypes, Plain
  <2>2. /\ consumed \in Nat /\ consumed <= Len(S) /\ I \o O = Rest(S, consumed)
        /\ Len(S) \in Nat /\ Len(x) \in Nat
    BY <1>5, <1>7, <2>1, SMT DEF CodecInv, CodecTypes, Unbroken
  <2>3. I \o (O \o x) = (I \o O) \o x  BY <1>5, <2>1, Assoc
  <2>4. Rest(S \o x, consumed) = Rest(S, consumed) \o x  BY <1>5, <1>7, <2>2, RestConcat
  <2>5. S \o x \in Seq(Byte) /\ Len(S \o x) = Len(S) + Len(x)  BY <1>5, <1>7, Concat
  <2>6. consumed <= Len(S \o x)  BY <2>2, <2>5
  <2>7. Content(in') \o Content(out') = Rest(Stream', consumed')
    BY <1>2, <1>6, <1>7, <2>1, <2>2, <2>3, <2>4
  <2>8. QED  BY <1>2, <1>7, <2>5, <2>6, <2>7 DEF Unbroken
<1>10. PICK h \in Nat : h = Len(handled) /\ h <= n
  BY <1>3 DEF CodecInv, CodecTypes, FramesInOrder
<1>11. FramesInOrder'
  <2>1. \A f \in 1..h : frames'[f] = frames[f]
    <3>1. \A f \in 1..h : f \in 1..n  BY <1>10
    <3>2. QED  BY <1>4, <3>1
  <2>2. h <= n + 1  BY <1>10
  <2>3. /\ \A f \in 1..h : handled[f] = Due(frames[f])
        /\ lost <=> \E f \in 1..h : BadLength(frames[f])
    BY <1>10 DEF CodecInv, FramesInOrder
  <2>4. /\ \A f \in 1..h : handled[f] = Due(frames'[f])
        /\ lost <=> \E f \in 1..h : BadLength(frames'[f])
    BY <2>1, <2>3, Zenon
  <2>5. QED  BY <1>2, <1>4, <1>10, <2>2, <2>4 DEF FramesInOrder
<1>12. ~lost' => AtFrame(Len(handled)', frames', consumed', Stream')
  <2> SUFFICES ASSUME ~lost PROVE AtFrame(h, frames', consumed, Stream')
    BY <1>2, <1>10
  <2>1. PICK st : Layout(st, frames, S) /\ consumed = st[h + 1]
    BY <1>7, <1>10 DEF CodecInv, AtFrame
  <2>2. PICK su : Layout(su, frames', Stream') /\ \A f \in 1..(n + 1) : su[f] = st[f]
    BY <1>1, <1>2, <1>3, <1>5, <1>7, <2>1, LayoutGrows DEF CodecInv, CodecTypes
  <2>3. h + 1 \in 1..(n + 1)  BY <1>10
  <2>4. QED  BY <2>1, <2>2, <2>3 DEF AtFrame
<1>13. NothingLeft'
  <2> SUFFICES ASSUME ~inmsg, ~erred, ~lost, ReadableBytes(in) >= HEADER_LEN
               PROVE  /\ Len(handled) < Len(frames')
                      /\ ReadableBytes(in) < HEADER_LEN + frames'[Len(handled) + 1].total_len
    BY <1>2 DEF NothingLeft
  <2>1. h < n /\ ReadableBytes(in) < HEADER_LEN + frames[h + 1].total_len
    BY <1>3, <1>10 DEF CodecInv, NothingLeft
  <2>2. h + 1 \in 1..n /\ h < n + 1  BY <1>10, <2>1
  <2>3. QED  BY <1>4, <1>10, <2>1, <2>2
<1>14. QED  BY <1>8, <1>9, <1>11, <1>12, <1>13 DEF CodecInv

\* A piece moves from the sender's buffer to the receiver's; the stream does not
\* see it, wherever it is cut.
LEMMA TransferStep == CodecInv /\ Transfer => CodecInv'
<1> SUFFICES ASSUME CodecInv, Transfer PROVE CodecInv'
  OBVIOUS
<1>1. PICK n \in 1..ReadableBytes(out) :
        in' = ReadFd(in, SubSeq(Content(out), 1, n)) /\ out' = WriteFd(out, n)
  BY DEF Transfer
<1>2. /\ frames' = frames /\ handled' = handled /\ consumed' = consumed /\ lost' = lost
      /\ inmsg' = TRUE /\ erred' = FALSE
  BY DEF Transfer
<1>3. PICK I \in Seq(Byte), O \in Seq(Byte) :
        I = Content(in) /\ O = Content(out) /\ Len(O) = ReadableBytes(out)
  BY Readable DEF CodecInv, CodecTypes, Plain
<1>4. n \in 1..Len(O) /\ n \in Nat \ {0} /\ n <= Len(O)
  BY <1>1, <1>3
<1>5. PICK d \in Seq(Byte) : d = SubSeq(O, 1, n) /\ (I \o d) \o Rest(O, n) = I \o O
  BY <1>3, <1>4, Moved
<1>6. Plain(in') /\ Content(in') = I \o d
  <2>1. IsBuffer(in) /\ in.read_index_ >= CHEAP_PREPEND
    BY DEF CodecInv, CodecTypes, Plain
  <2>2. in' = ReadFd(in, d)  BY <1>1, <1>3, <1>5
  <2>3. Len(d) > WritableBytes(in) =>
          ~Overruns(WriteHere(in, SubSeq(d, 1, WritableBytes(in))), Len(d) - WritableBytes(in))
    <3> SUFFICES ASSUME Len(d) > WritableBytes(in)
                 PROVE  ~Overruns(WriteHere(in, SubSeq(d, 1, WritableBytes(in))),
                                  Len(d) - WritableBytes(in))
      OBVIOUS
    <3>1. PICK m \in Nat : m = WritableBytes(in)
      BY <2>1, Members DEF WritableBytes
    <3>2. PICK e \in Seq(Byte) : e = SubSeq(d, 1, m) /\ Len(e) = m
      <4>1. SubSeq(d, 1, m) \in Seq(Byte) /\ Len(SubSeq(d, 1, m)) = m  BY <3>1
      <4>2. QED  BY <4>1
    <3>3. Len(d) - m \in Nat  BY <1>5, <3>1
    <3>4. IsBuffer(WriteHere(in, e)) /\ WriteHere(in, e).read_index_ = in.read_index_
      <4>1. Len(e) <= WritableBytes(in)  BY <3>1, <3>2
      <4>2. QED  BY <2>1, <4>1, WriteHereIsPut
    <3>5. ~Overruns(WriteHere(in, e), Len(d) - m)
      BY <2>1, <3>3, <3>4, NoOverrun
    <3>6. QED  BY <3>1, <3>2, <3>5
  <2>4. QED  BY <1>3, <1>5, <2>1, <2>2, <2>3, ReadFdIsPut DEF Plain
<1>7. Plain(out') /\ Content(out') = Rest(O, n)
  BY <1>1, <1>3, <1>4, RetrieveIsTake DEF CodecInv, CodecTypes, Plain, WriteFd, Rest
<1>8. Stream' = Stream  BY <1>2, StreamIs
<1>9. CodecTypes'  BY <1>2, <1>6, <1>7 DEF CodecInv, CodecTypes
<1>10. Unbroken'  BY <1>2, <1>3, <1>5, <1>6, <1>7, <1>8 DEF CodecInv, Unbroken
<1>11. ~lost' => AtFrame(Len(handled)', frames', consumed', Stream')
  BY <1>2, <1>8 DEF CodecInv
<1>12. NothingLeft'  BY <1>2 DEF NothingLeft
<1>13. FramesInOrder'  BY <1>2 DEF CodecInv, FramesInOrder
<1>14. QED  BY <1>9, <1>10, <1>11, <1>12, <1>13 DEF CodecInv

\* What is taken from the front of the receiver's buffer is consumed.
LEMMA TakenFromStream ==
  ASSUME CodecInv, NEW k \in Nat, k <= Len(Content(in)), Plain(in'),
         Content(in') = Rest(Content(in), k), consumed' = consumed + k,
         out' = out, frames' = frames
  PROVE  Unbroken' /\ consumed' \in Nat
<1>1. PICK I \in Seq(Byte), O \in Seq(Byte) : I = Content(in) /\ O = Content(out)
  BY Readable DEF CodecInv, CodecTypes, Plain
<1>2. PICK S \in Seq(Byte) : S = Stream /\ consumed <= Len(S) /\ I \o O = Rest(S, consumed)
  BY <1>1 DEF CodecInv, Unbroken
<1>3. /\ consumed \in Nat /\ Len(S) \in Nat /\ Len(I) \in Nat /\ Len(O) \in Nat
      /\ k <= Len(I)
  BY <1>1, <1>2 DEF CodecInv, CodecTypes
<1>4. Len(I) + Len(O) = Len(S) - consumed
  <2>1. Len(I \o O) = Len(I) + Len(O)  BY Concat
  <2>2. Len(Rest(S, consumed)) = Len(S) - consumed  BY <1>2, <1>3, RestSeq
  <2>3. QED  BY <1>2, <2>1, <2>2
<1>5. consumed + k <= Len(S)  BY <1>3, <1>4
<1>6. Rest(I \o O, k) = Rest(I, k) \o O  BY <1>3, RestConcat
<1>7. Rest(Rest(S, consumed), k) = Rest(S, consumed + k)  BY <1>3, <1>5, RestRest
<1>8. Content(in') \o Content(out') = Rest(S, consumed + k)
  BY <1>1, <1>2, <1>6, <1>7
<1>9. Stream' = S  BY <1>2, StreamIs
<1>10. QED  BY <1>2, <1>3, <1>5, <1>8, <1>9 DEF Unbroken

\* The receiver handles the next frame, waits for the rest of it, or loses track.
LEMMA TurnStep == CodecInv /\ OnMessageTurn => CodecInv'
<1> SUFFICES ASSUME CodecInv, OnMessageTurn PROVE CodecInv'
  OBVIOUS
<1>1. PICK t \in Found :
        LET r == Decode(in, t.kind, t.total_len) IN
        /\ in' = r.buffer
        /\ consumed' = consumed + (ReadableBytes(in) - ReadableBytes(r.buffer))
        /\ inmsg' = (r.state = "SUCCESS")
        /\ erred' = (r.state \notin {"SUCCESS", "INCOMPLETE"})
        /\ lost' = (lost \/ t.total_len \notin MIN_LEN..MAX_LEN)
        /\ handled' = IF r.state = "INCOMPLETE" \/ lost THEN handled
                      ELSE Append(handled, IF r.state = "SUCCESS" THEN Dispatch(t.kind)
                                                                  ELSE r.state)
  BY DEF OnMessageTurn
<1>2. frames' = frames /\ out' = out /\ ReadableBytes(in) >= HEADER_LEN
  BY DEF OnMessageTurn
<1>3. PICK r : r = Decode(in, t.kind, t.total_len)  OBVIOUS
<1>4. PICK tl : tl = t.total_len  OBVIOUS
<1>5. PICK k \in Nat :
        /\ k <= Len(Content(in)) /\ Plain(r.buffer) /\ Content(r.buffer) = Rest(Content(in), k)
        /\ ReadableBytes(in) - ReadableBytes(r.buffer) = k
        /\ \/ tl \notin MIN_LEN..MAX_LEN /\ r.state = "DECODE_ERROR"
           \/ /\ tl \in MIN_LEN..MAX_LEN /\ ReadableBytes(in) < HEADER_LEN + tl
              /\ r.state = "INCOMPLETE" /\ k = 0 /\ r.buffer = in
           \/ /\ tl \in MIN_LEN..MAX_LEN
              /\ r.state = Verdict(t.kind) /\ k = HEADER_LEN + tl
  BY <1>3, <1>4, DecodeTakes DEF CodecInv, CodecTypes
<1>6. /\ in' = r.buffer /\ consumed' = consumed + k
      /\ inmsg' = (r.state = "SUCCESS")
      /\ erred' = (r.state \notin {"SUCCESS", "INCOMPLETE"})
      /\ lost' = (lost \/ tl \notin MIN_LEN..MAX_LEN)
      /\ handled' = IF r.state = "INCOMPLETE" \/ lost THEN handled
                    ELSE Append(handled, IF r.state = "SUCCESS" THEN Dispatch(t.kind)
                                                                ELSE r.state)
  BY <1>1, <1>3, <1>4, <1>5
<1>7. Unbroken' /\ consumed' \in Nat
  BY <1>2, <1>5, <1>6, TakenFromStream
<1>8. handled' \in Seq(Outcomes)
  <2>1. handled \in Seq(Outcomes)  BY DEF CodecInv, CodecTypes
  <2>2. r.state # "INCOMPLETE" =>
          (IF r.state = "SUCCESS" THEN Dispatch(t.kind) ELSE r.state) \in Outcomes
    BY <1>5, Outcome DEF Outcomes
  <2>3. \A o \in Outcomes : Append(handled, o) \in Seq(Outcomes)
    BY <2>1, AppendProperties
  <2>4. QED  BY <1>6, <2>1, <2>2, <2>3
<1>9. CodecTypes'
  BY <1>2, <1>5, <1>6, <1>7, <1>8 DEF CodecInv, CodecTypes
<1>10. CASE lost
  <2>1. lost' = TRUE /\ handled' = handled  BY <1>6, <1>10
  <2>2. lost = TRUE  BY <1>10 DEF CodecInv, CodecTypes
  <2>3. FramesInOrder'  BY <1>2, <2>1, <2>2 DEF CodecInv, FramesInOrder
  <2>4. NothingLeft'  BY <2>1 DEF NothingLeft
  <2>5. QED  BY <1>7, <1>9, <2>1, <2>3, <2>4 DEF CodecInv
<1>11. CASE ~lost
  <2>1. PICK h \in Nat, n \in Nat : h = Len(handled) /\ n = Len(frames) /\ h + 1 \in 1..n
    BY <1>2, <1>11, FrameAtFront DEF CodecTypes, CodecInv
  <2>2. t = frames[h + 1]
    BY <1>1, <1>2, <1>11, <2>1, FrameAtFront
  <2>3. Stream' = Stream  BY <1>2, StreamIs
  <2>4. /\ \A f \in 1..h : handled[f] = Due(frames[f])
        /\ \A f \in 1..h : ~BadLength(frames[f])
    BY <1>11, <2>1 DEF CodecInv, FramesInOrder
  <2>5. CASE r.state = "INCOMPLETE"
    <3>1. /\ k = 0 /\ in' = in /\ ReadableBytes(in) < HEADER_LEN + tl
          /\ tl \in MIN_LEN..MAX_LEN
      BY <1>5, <1>6, <2>5, Outcome
    <3>2. consumed' = consumed /\ handled' = handled /\ lost' = lost
      <4>1. consumed + 0 = consumed  BY DEF CodecInv, CodecTypes
      <4>2. lost' = (lost \/ FALSE)  BY <1>6, <3>1
      <4>3. QED  BY <1>6, <1>11, <2>5, <3>1, <4>1, <4>2 DEF CodecInv, CodecTypes
    <3>3. FramesInOrder'  BY <1>2, <3>2 DEF CodecInv, FramesInOrder
    <3>4. ~lost' => AtFrame(Len(handled)', frames', consumed', Stream')
      BY <1>2, <2>3, <3>2 DEF CodecInv
    <3>5. h < n  BY <2>1
    <3>6. NothingLeft'
      BY <1>2, <1>4, <2>1, <2>2, <3>1, <3>2, <3>5 DEF NothingLeft
    <3>7. QED  BY <1>7, <1>9, <3>3, <3>4, <3>6 DEF CodecInv
  <2>6. CASE r.state # "INCOMPLETE"
    <3>1. PICK o \in Outcomes : o = Due(t) /\ handled' = Append(handled, o)
      <4>1. Due(t) \in Outcomes  BY Outcome DEF Due, Outcomes
      <4>2. (IF r.state = "SUCCESS" THEN Dispatch(t.kind) ELSE r.state) = Due(t)
        BY <1>4, <1>5, <2>6 DEF Due, BadLength
      <4>3. handled' = Append(handled, Due(t))
        BY <1>6, <1>11, <2>6, <4>2
      <4>4. QED  BY <4>1, <4>3
    <3>2. /\ Len(handled') = h + 1 /\ handled'[h + 1] = o
          /\ \A f \in 1..h : handled'[f] = handled[f]
      BY <2>1, <3>1, AppendProperties DEF CodecInv, CodecTypes
    <3>3. \A f \in 1..(h + 1) : f = h + 1 \/ f \in 1..h  OBVIOUS
    <3>4. FramesInOrder'
      <4>1. \A f \in 1..(h + 1) : handled'[f] = Due(frames[f])
        BY <2>2, <2>4, <3>1, <3>2, <3>3
      <4>2. lost' <=> BadLength(frames[h + 1])
        BY <1>4, <1>6, <1>11, <2>2 DEF BadLength
      <4>3. h + 1 \in 1..(h + 1)  OBVIOUS
      <4>4. lost' <=> \E f \in 1..(h + 1) : BadLength(frames[f])
        BY <2>4, <3>3, <4>2, <4>3, Zenon
      <4>5. Len(handled') <= Len(frames)  BY <2>1, <3>2
      <4>6. QED  BY <1>2, <3>2, <4>1, <4>4, <4>5 DEF FramesInOrder
    <3>5. ~lost' => AtFrame(Len(handled)', frames', consumed', Stream')
      <4> SUFFICES ASSUME ~lost' PROVE AtFrame(h + 1, frames, consumed', Stream)
        BY <1>2, <2>3, <3>2
      <4>1. k = HEADER_LEN + tl  BY <1>5, <1>6, <2>6
      <4>2. PICK st : Layout(st, frames, Stream) /\ consumed = st[h + 1]
        BY <1>11, <2>1 DEF CodecInv, AtFrame
      <4>3. st[(h + 1) + 1] = st[h + 1] + (HEADER_LEN + frames[h + 1].total_len)
        BY <2>1, <4>2 DEF Layout
      <4>4. consumed' = st[(h + 1) + 1]
        BY <1>4, <1>6, <2>2, <4>1, <4>2, <4>3
      <4>5. QED  BY <4>2, <4>4 DEF AtFrame
    <3>6. inmsg' \/ erred'  BY <1>6, <2>6
    <3>7. NothingLeft'  BY <3>6 DEF NothingLeft
    <3>8. QED  BY <1>7, <1>9, <3>4, <3>5, <3>7 DEF CodecInv
  <2>7. QED  BY <2>5, <2>6
<1>12. QED  BY <1>10, <1>11

\* OnMessage returns when not even a header is left.
LEMMA ReturnStep == CodecInv /\ OnMessageReturns => CodecInv'
<1> SUFFICES ASSUME CodecInv, OnMessageReturns PROVE CodecInv'
  OBVIOUS
<1>1. /\ frames' = frames /\ out' = out /\ in' = in /\ handled' = handled
      /\ consumed' = consumed /\ erred' = erred /\ lost' = lost /\ inmsg' = FALSE
      /\ ReadableBytes(in) < HEADER_LEN
  BY DEF OnMessageReturns
<1>2. Stream' = Stream  BY <1>1, StreamIs
<1>3. CodecTypes' /\ Unbroken'  BY <1>1, <1>2 DEF CodecInv, CodecTypes, Unbroken
<1>4. ReadableBytes(in) \in Nat /\ HEADER_LEN \in Nat
  BY Readable, LengthsAssumption DEF CodecInv, CodecTypes, Plain
<1>5. NothingLeft'  BY <1>1, <1>4 DEF NothingLeft
<1>6. ~lost' => AtFrame(Len(handled)', frames', consumed', Stream')
  BY <1>1, <1>2 DEF CodecInv
<1>7. FramesInOrder'  BY <1>1 DEF CodecInv, FramesInOrder
<1>8. QED  BY <1>3, <1>5, <1>6, <1>7 DEF CodecInv

\* The bytes of the stream are accounted for and the frames of its consumed
\* part are the ones handled, in every reachable state of the protobuf layer.
THEOREM CodecInvariant == Spec => []CodecInv
<1>1. CodecInv /\ [Next]_vars => CodecInv'
  <2> SUFFICES ASSUME CodecInv, [Next]_vars PROVE CodecInv'
    OBVIOUS
  <2>1. CASE Next
    BY <2>1, SendStep, TransferStep, TurnStep, ReturnStep DEF Next
  <2>2. CASE UNCHANGED vars
    <3>1. /\ frames' = frames /\ out' = out /\ in' = in /\ handled' = handled
          /\ consumed' = consumed /\ erred' = erred /\ lost' = lost /\ inmsg' = inmsg
      BY <2>2 DEF vars
    <3>2. Stream' = Stream  BY <3>1, StreamIs
    <3>3. CodecTypes' /\ Unbroken' /\ NothingLeft' /\ FramesInOrder'
      BY <3>1, <3>2 DEF CodecInv, CodecTypes, Unbroken, NothingLeft, FramesInOrder
    <3>4. QED  BY <3>1, <3>2, <3>3 DEF CodecInv
  <2>3. QED  BY <2>1, <2>2
<1>2. QED  BY <1>1, CodecInit, PTL DEF Spec

\* No byte of the stream is lost, doubled or moved, wherever the pieces are cut
\* and however the two buffers move their bytes and grow, for every frame size,
\* buffer size and number of frames.
THEOREM StreamStaysWhole == Spec => []StreamIntact
<1>1. CodecInv => StreamIntact
  BY DEF CodecInv, Unbroken, StreamIntact, Rest
<1>2. QED  BY <1>1, CodecInvariant, PTL

\* OnMessage decodes and dispatches every frame once, in the order sent and as
\* its content deserves, whatever the pieces it came in and whatever was wrong
\* with the frames before it, until a frame sent with a bad length is reached;
\* nothing else makes Decode lose the boundaries of the frames.
THEOREM FramesHandledInOrder == Spec => []FramesInOrder
<1>1. CodecInv => FramesInOrder
  BY DEF CodecInv
<1>2. QED  BY <1>1, CodecInvariant, PTL

\* OnMessage returns without an error only when no complete frame is left in
\* the receiver's buffer.
THEOREM NoCompleteFrameLeft == Spec => []NoFrameLeft
<1>1. CodecInv => NoFrameLeft
  <2> SUFFICES ASSUME CodecInv, ~inmsg, ~erred, ~lost, Complete PROVE FALSE
    BY DEF NoFrameLeft
  <2>1. PICK t \in Found : ReadableBytes(in) >= HEADER_LEN + t.total_len
    BY DEF Complete
  <2>2. ReadableBytes(in) >= HEADER_LEN  BY DEF Complete
  <2>3. t = frames[Len(handled) + 1] /\ Len(handled) < Len(frames)
    BY <2>2, <2>1, FrameAtFront
  <2>4. ReadableBytes(in) < HEADER_LEN + t.total_len
    BY <2>2, <2>3 DEF CodecInv, NothingLeft
  <2>5. ReadableBytes(in) \in Nat /\ HEADER_LEN \in Nat /\ t.total_len \in Nat
    <3>1. t \in FrameTypes  BY <2>3 DEF CodecInv, CodecTypes
    <3>2. QED
      BY <3>1, Readable, LengthsAssumption, FramesAssumption DEF CodecInv, CodecTypes, Plain
  <2>6. QED  BY <2>1, <2>4, <2>5
<1>2. QED  BY <1>1, CodecInvariant, PTL
=============================================================================
