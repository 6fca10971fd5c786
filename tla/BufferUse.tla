----------------------------- MODULE BufferUse ------------------------------
(***************************************************************************)
(* Buffers under every sequence of calls: append, prepend, retrieve,       *)
(* readFd, writeFd, in-place writes and swap.  One thread uses them.       *)
(***************************************************************************)
EXTENDS Buffer

CONSTANTS
    Names,     \* the buffers
    Data,      \* what one call puts in
    MaxLen     \* bound on the length of a content

ASSUME DataAssumption == Data \subseteq Seq(Byte)
ASSUME MaxLenAssumption == MaxLen \in Nat

VARIABLES
    bufs,        \* the buffers
    overrun,     \* a write went past the end of a vector
    prepended    \* history: has any prepend been accepted?

useVars == <<bufs, overrun, prepended>>

UseInit ==
    /\ bufs = [x \in Names |-> NewBuffer]
    /\ overrun = FALSE
    /\ prepended = FALSE

Fits(x, d) == ~overrun /\ ReadableBytes(bufs[x]) + Len(d) <= MaxLen

\* append, or ensureWritableBytes and a write in place as in Codec::Encode.
CallAppend(x, d) ==
    /\ Fits(x, d)
    /\ IF Overruns(bufs[x], Len(d))
         THEN overrun' = TRUE /\ UNCHANGED bufs
         ELSE bufs' = [bufs EXCEPT ![x] = AppendData(@, d)] /\ UNCHANGED overrun
    /\ UNCHANGED prepended

\* readv reads at most the room left and the extra array.
CallReadFd(x, d) ==
    /\ Fits(x, d)
    /\ Len(d) <= WritableBytes(bufs[x]) + ExtraSize
    /\ LET full == WriteHere(bufs[x], SubSeq(d, 1, WritableBytes(bufs[x]))) IN
         IF /\ Len(d) > WritableBytes(bufs[x])
            /\ Overruns(full, Len(d) - WritableBytes(bufs[x]))
           THEN overrun' = TRUE /\ UNCHANGED bufs
           ELSE bufs' = [bufs EXCEPT ![x] = ReadFd(@, d)] /\ UNCHANGED overrun
    /\ UNCHANGED prepended

CallPrepend(x, d) ==
    /\ Fits(x, d)
    /\ bufs' = [bufs EXCEPT ![x] = Prepend(@, d)]
    /\ prepended' = (prepended \/ Len(d) <= bufs[x].read_index_)
    /\ UNCHANGED overrun

\* retrieve, retrieveAsString, writeFd; retrieveAll with any n above the length.
\* retrieveAsString is called with at most readableBytes(): it copies n bytes first
\* and tests nothing.
CallRetrieve(x, n) ==
    /\ ~overrun
    /\ n <= ReadableBytes(bufs[x]) + 1
    /\ bufs' = [bufs EXCEPT ![x] = Retrieve(@, n)]
    /\ UNCHANGED <<overrun, prepended>>

CallSwap(x, y) ==
    /\ ~overrun
    /\ x # y
    /\ bufs' = [bufs EXCEPT ![x] = bufs[y], ![y] = bufs[x]]
    /\ UNCHANGED <<overrun, prepended>>

UseNext ==
    \E x \in Names :
      \/ \E d \in Data : CallAppend(x, d) \/ CallReadFd(x, d) \/ CallPrepend(x, d)
      \/ \E n \in 1..(MaxLen + 1) : CallRetrieve(x, n)
      \/ \E y \in Names : CallSwap(x, y)

UseSpec == UseInit /\ [][UseNext]_useVars

-----------------------------------------------------------------------------
(* Properties. *)

\* The indices of a buffer are in order and within its vector.
Sound(b) ==
    /\ 0 <= b.read_index_
    /\ b.read_index_ <= b.write_index_
    /\ b.write_index_ <= b.size
    /\ CHEAP_PREPEND <= b.write_index_

\* The indices of every buffer stay within its vector, through moves, growth,
\* reads into the extra array and swaps, and makeSpace writes past the vector
\* only when bytes were prepended: a read index below CHEAP_PREPEND makes
\* space_left wrap around (Buffer.cpp:81).
WithinVector ==
    /\ \A x \in Names : Sound(bufs[x])
    /\ overrun => prepended

Queue == INSTANCE ByteQueue WITH content <- [x \in Names |-> Content(bufs[x])]

\* Buffer implements ByteQueue: no call changes or reorders bytes that it
\* does not put in or take out.
ImplementsQueue == Queue!QSpec
=============================================================================
