------------------------------- MODULE Codec --------------------------------
(***************************************************************************)
(* net/protobuf: Codec, ProtobufHandler and Dispatcher.  A sender encodes  *)
(* messages into a Buffer, the bytes reach the receiver's Buffer in pieces *)
(* of any size, and OnMessage decodes and dispatches what is complete.     *)
(*                                                                         *)
(* A byte of a frame is the pair of the frame's number and its position.   *)
(* What the checks of Decode find in a frame is its kind.  A peer may send *)
(* frames that Encode never makes.                                         *)
(***************************************************************************)
EXTENDS Buffer, SequencesExt

CONSTANTS
    HEADER_LEN, MIN_LEN, MAX_LEN,
    FrameTypes,   \* the frames a sender may send, records [kind, total_len]
    MaxFrames     \* bound on the number of frames

Kinds == {"registered", "unregistered", "badChecksum", "badName", "badPayload"}

ASSUME LengthsAssumption ==
    HEADER_LEN \in Nat \ {0} /\ MIN_LEN \in Nat \ {0} /\ MAX_LEN \in Nat
ASSUME FramesAssumption ==
    MaxFrames \in Nat /\ FrameTypes \subseteq [kind : Kinds, total_len : Nat]

VARIABLES
    frames,     \* the frames encoded
    out, in,    \* the buffers of the sender and of the receiver
    inmsg,      \* is the receiver in OnMessage?
    handled,    \* history: what each frame led to, until lost
    consumed,   \* history: the number of bytes taken out of in
    erred,      \* history: the last OnMessage ended with an error
    lost        \* history: a bad length has discarded the buffer

vars == <<frames, out, in, inmsg, handled, consumed, erred, lost>>

Init ==
    /\ frames = << >>
    /\ out = NewBuffer /\ in = NewBuffer
    /\ inmsg = FALSE
    /\ handled = << >>
    /\ consumed = 0
    /\ erred = FALSE /\ lost = FALSE

\* The bytes of frame f.
Bytes(f, total_len) == [i \in 1..(HEADER_LEN + total_len) |-> <<f, i>>]

\* The pairs of frame and position are values a byte may have.
ASSUME FrameBytesAssumption ==
    \A f \in 1..MaxFrames : \A t \in FrameTypes : Bytes(f, t.total_len) \in Seq(Byte)

-----------------------------------------------------------------------------
(* The sender. *)

\* Codec::Encode: room, a write in place, hasWritten.  The length is not
\* compared with MAX_LEN; a message that fails to serialize adds nothing.
Encode(b, f, total_len) ==
    WriteHere(EnsureWritableBytes(b, HEADER_LEN + total_len), Bytes(f, total_len))

Send ==
    /\ Len(frames) < MaxFrames
    /\ \E t \in FrameTypes :
         /\ frames' = Append(frames, t)
         /\ out' = Encode(out, Len(frames) + 1, t.total_len)
    /\ UNCHANGED <<in, inmsg, handled, consumed, erred, lost>>

-----------------------------------------------------------------------------
(* The receiver. *)

\* The sender's writeFd passes on some of its bytes, the receiver's readFd finds
\* them, at most as many as it has room for, and the message callback begins.
\* The pieces of the two need not be the same; the buffers do not see that.
Transfer ==
    /\ ~inmsg
    /\ \E n \in 1..ReadableBytes(out) :
         /\ n <= WritableBytes(in) + ExtraSize
         /\ in' = ReadFd(in, SubSeq(Content(out), 1, n))
         /\ out' = WriteFd(out, n)
    /\ inmsg' = TRUE
    /\ erred' = FALSE
    /\ UNCHANGED <<frames, handled, consumed, lost>>

\* What the checks after the length find.
Verdict(kind) ==
    CASE kind \in {"registered", "unregistered"} -> "SUCCESS"
      [] kind = "badChecksum" -> "CHECKSUM_ERROR"
      [] kind = "badName" -> "INVALID_NAME"
      [] OTHER -> "DECODE_ERROR"

\* Mutant: a frame with an error stays in the buffer.
DecodeStuck(b, kind, total_len) ==
    IF total_len \notin MIN_LEN..MAX_LEN
      THEN [state |-> "DECODE_ERROR", buffer |-> RetrieveAll(b)]
    ELSE IF ReadableBytes(b) < HEADER_LEN + total_len
      THEN [state |-> "INCOMPLETE", buffer |-> b]
    ELSE [state |-> Verdict(kind),
          buffer |-> IF Verdict(kind) = "SUCCESS"
                       THEN Retrieve(b, HEADER_LEN + total_len) ELSE b]

\* Mutant: a frame that has just arrived completely counts as incomplete.
DecodeLate(b, kind, total_len) ==
    IF total_len \notin MIN_LEN..MAX_LEN
      THEN [state |-> "DECODE_ERROR", buffer |-> RetrieveAll(b)]
    ELSE IF ReadableBytes(b) <= HEADER_LEN + total_len
      THEN [state |-> "INCOMPLETE", buffer |-> b]
    ELSE [state |-> Verdict(kind), buffer |-> Retrieve(b, HEADER_LEN + total_len)]

\* Codec::Decode of a buffer that begins with this header and kind of frame.
Decode(b, kind, total_len) ==
    IF total_len \notin MIN_LEN..MAX_LEN
      THEN [state |-> "DECODE_ERROR", buffer |-> RetrieveAll(b)]
    ELSE IF ReadableBytes(b) < HEADER_LEN + total_len
      THEN [state |-> "INCOMPLETE", buffer |-> b]
    ELSE [state |-> Verdict(kind), buffer |-> Retrieve(b, HEADER_LEN + total_len)]

\* Does the buffer begin with a frame?  If not, Decode reads any length and any
\* kind of frame out of the bytes.
Aligned == \A i \in 1..HEADER_LEN : Content(in)[i] = <<Content(in)[1][1], i>>

Found == IF Aligned THEN {frames[Content(in)[1][1]]}
                    ELSE [kind : Kinds, total_len : 0..(MAX_LEN + 1)]

\* Dispatcher::Dispatch: the callback of the message's type, or default_cb_, which
\* is set: an empty one would throw.
Dispatch(kind) == IF kind = "registered" THEN "callback" ELSE "default_cb_"

\* One turn of the loop in OnMessage.
OnMessageTurn ==
    /\ inmsg
    /\ ReadableBytes(in) >= HEADER_LEN
    /\ \E t \in Found :
         LET r == Decode(in, t.kind, t.total_len) IN
         /\ in' = r.buffer
         /\ consumed' = consumed + (ReadableBytes(in) - ReadableBytes(r.buffer))
         /\ inmsg' = (r.state = "SUCCESS")
         /\ erred' = (r.state \notin {"SUCCESS", "INCOMPLETE"})
         /\ lost' = (lost \/ t.total_len \notin MIN_LEN..MAX_LEN)
         /\ handled' = IF r.state = "INCOMPLETE" \/ lost THEN handled
                       ELSE Append(handled, IF r.state = "SUCCESS" THEN Dispatch(t.kind)
                                                                   ELSE r.state)
    /\ UNCHANGED <<frames, out>>

OnMessageReturns ==
    /\ inmsg
    /\ ReadableBytes(in) < HEADER_LEN
    /\ inmsg' = FALSE
    /\ UNCHANGED <<frames, out, in, handled, consumed, erred, lost>>

Next == Send \/ Transfer \/ OnMessageTurn \/ OnMessageReturns

Spec == Init /\ [][Next]_vars

-----------------------------------------------------------------------------
(* Properties. *)

\* All bytes encoded so far.
Stream == FlattenSeq([f \in 1..Len(frames) |-> Bytes(f, frames[f].total_len)])

\* Every byte is in one place, in order, whatever the pieces in which it is
\* written and read and however the buffers move and grow: what was consumed,
\* the receiver's buffer and the sender's buffer make up the stream.
StreamIntact ==
    Content(in) \o Content(out) = SubSeq(Stream, consumed + 1, Len(Stream))

BadLength(t) == t.total_len \notin MIN_LEN..MAX_LEN

\* What a frame must lead to.
Due(t) == IF BadLength(t) THEN "DECODE_ERROR"
          ELSE IF Verdict(t.kind) = "SUCCESS" THEN Dispatch(t.kind) ELSE Verdict(t.kind)

\* The frames are handled in order, each once and as its content deserves: an
\* error in one frame spoils no other (ProtobufHandler.cpp:20).  Only a frame
\* sent with a bad length ends this: until then no other bytes are taken for a
\* header.
FramesInOrder ==
    /\ Len(handled) <= Len(frames)
    /\ \A f \in 1..Len(handled) : handled[f] = Due(frames[f])
    /\ lost <=> \E f \in 1..Len(handled) : BadLength(frames[f])

\* Is there a complete frame in the receiver's buffer?
Complete ==
    /\ ReadableBytes(in) >= HEADER_LEN
    /\ \E t \in Found : ReadableBytes(in) >= HEADER_LEN + t.total_len

\* OnMessage leaves no complete frame behind, unless it stopped at an error: the
\* frames after the bad one wait for more input.
NoFrameLeft == ~inmsg /\ ~erred /\ ~lost => ~Complete
=============================================================================
