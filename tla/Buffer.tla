------------------------------- MODULE Buffer -------------------------------
(***************************************************************************)
(* net/Buffer: a vector of bytes with a read and a write index.  A buffer  *)
(* is a record, its operations are operators on it.                        *)
(***************************************************************************)
EXTENDS Integers, Sequences

CONSTANTS
    CHEAP_PREPEND, INITIALIZE_SIZE,
    Byte,          \* the values a byte may have
    Zero,          \* what resize() and the constructor fill the vector with
    ExtraSize,     \* size of the second array readFd reads into
    SizeModulus    \* size_t arithmetic is modulo this number

ASSUME SizesAssumption ==
    /\ CHEAP_PREPEND \in Nat /\ INITIALIZE_SIZE \in Nat /\ ExtraSize \in Nat
    /\ SizeModulus \in Nat /\ SizeModulus > CHEAP_PREPEND + INITIALIZE_SIZE
ASSUME ByteAssumption == Zero \in Byte

NewBuffer ==
    [size |-> CHEAP_PREPEND + INITIALIZE_SIZE,
     buffer_ |-> [i \in 0..(CHEAP_PREPEND + INITIALIZE_SIZE - 1) |-> Zero],
     read_index_ |-> CHEAP_PREPEND,
     write_index_ |-> CHEAP_PREPEND]

ReadableBytes(b) == b.write_index_ - b.read_index_
WritableBytes(b) == b.size - b.write_index_

\* What peek() shows: the bytes between the indices.
Content(b) == [i \in 1..ReadableBytes(b) |-> b.buffer_[b.read_index_ + i - 1]]

RetrieveAll(b) == [b EXCEPT !.read_index_ = CHEAP_PREPEND, !.write_index_ = CHEAP_PREPEND]

\* retrieve, and with what it copies first retrieveAsString.
Retrieve(b, len) ==
    IF len >= ReadableBytes(b)
      THEN RetrieveAll(b)
      ELSE [b EXCEPT !.read_index_ = b.read_index_ + len]

\* Mutant: the bytes below CHEAP_PREPEND count as room.
SpaceLeftWhole(b) == WritableBytes(b) + b.read_index_

\* space_left of makeSpace: a read index below CHEAP_PREPEND, which prepend
\* leaves, makes the difference wrap around.
SpaceLeft(b) == (WritableBytes(b) + (b.read_index_ - CHEAP_PREPEND)) % SizeModulus

\* Mutant: the data is moved to the front of the vector.
MakeSpaceToFront(b, len) ==
    IF SpaceLeft(b) >= len
      THEN [size |-> b.size,
            buffer_ |-> [i \in 0..(b.size - 1) |->
                           IF i < ReadableBytes(b)
                             THEN b.buffer_[b.read_index_ + i] ELSE b.buffer_[i]],
            read_index_ |-> CHEAP_PREPEND,
            write_index_ |-> CHEAP_PREPEND + ReadableBytes(b)]
      ELSE [b EXCEPT !.size = b.write_index_ + len,
                     !.buffer_ = [i \in 0..(b.write_index_ + len - 1) |->
                                    IF i < b.size THEN b.buffer_[i] ELSE Zero]]

\* The bytes move down to CHEAP_PREPEND if that makes enough room, otherwise the
\* vector grows.
MakeSpace(b, len) ==
    IF SpaceLeft(b) >= len
      THEN [size |-> b.size,
            buffer_ |-> [i \in 0..(b.size - 1) |->
                           IF i >= CHEAP_PREPEND /\ i < CHEAP_PREPEND + ReadableBytes(b)
                             THEN b.buffer_[b.read_index_ + (i - CHEAP_PREPEND)]
                             ELSE b.buffer_[i]],
            read_index_ |-> CHEAP_PREPEND,
            write_index_ |-> CHEAP_PREPEND + ReadableBytes(b)]
      ELSE [b EXCEPT !.size = b.write_index_ + len,
                     !.buffer_ = [i \in 0..(b.write_index_ + len - 1) |->
                                    IF i < b.size THEN b.buffer_[i] ELSE Zero]]

EnsureWritableBytes(b, len) == IF WritableBytes(b) >= len THEN b ELSE MakeSpace(b, len)

\* makeSpace moves bytes past the end of the vector.
Overruns(b, len) ==
    /\ WritableBytes(b) < len
    /\ SpaceLeft(b) >= len
    /\ CHEAP_PREPEND + ReadableBytes(b) + len > b.size

\* data is copied to beginWrite(), where there is room for it; hasWritten.
WriteHere(b, data) ==
    [b EXCEPT !.buffer_ = [i \in 0..(b.size - 1) |->
                             IF i >= b.write_index_ /\ i < b.write_index_ + Len(data)
                               THEN data[i - b.write_index_ + 1] ELSE b.buffer_[i]],
              !.write_index_ = b.write_index_ + Len(data)]

\* append
AppendData(b, data) == WriteHere(EnsureWritableBytes(b, Len(data)), data)

\* Too much data is refused.
Prepend(b, data) ==
    IF Len(data) > b.read_index_
      THEN b
      ELSE [b EXCEPT !.read_index_ = b.read_index_ - Len(data),
                     !.buffer_ = [i \in 0..(b.size - 1) |->
                                    IF i >= b.read_index_ - Len(data) /\ i < b.read_index_
                                      THEN data[i - (b.read_index_ - Len(data)) + 1]
                                      ELSE b.buffer_[i]]]

\* readFd when readv has read data: into the room that is left, and from the
\* extra array by append.
ReadFd(b, data) ==
    IF Len(data) <= WritableBytes(b)
      THEN WriteHere(b, data)
      ELSE AppendData(WriteHere(b, SubSeq(data, 1, WritableBytes(b))),
                      SubSeq(data, WritableBytes(b) + 1, Len(data)))

\* writeFd when write() has taken n bytes.
WriteFd(b, n) == Retrieve(b, n)
=============================================================================
