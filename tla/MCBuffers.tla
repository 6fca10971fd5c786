----------------------------- MODULE MCBuffers ------------------------------
(***************************************************************************)
(* BufferUse and Codec on small instances for TLC.  A behaviour is one of  *)
(* BufferUse or one of Codec: the other system stays in its initial state. *)
(***************************************************************************)
EXTENDS BufferUse, Codec

Symmetry == Permutations(Names)

MCZero == <<0, 0>>
MCByte == (0..3) \X (0..5)

MCData == {<< <<1, 1>> >>, << <<2, 1>>, <<1, 1>> >>}

\* The last frame is longer than MAX_LEN.
MCFrameTypes ==
    {[kind |-> "registered", total_len |-> 1],
     [kind |-> "unregistered", total_len |-> 2],
     [kind |-> "badChecksum", total_len |-> 2],
     [kind |-> "registered", total_len |-> 3]}

UseStep == frames = << >> /\ UseNext /\ UNCHANGED vars

CodecStep ==
    /\ bufs = [x \in Names |-> NewBuffer] /\ ~overrun /\ ~prepended
    /\ Next
    /\ UNCHANGED useVars

BuffersInit == UseInit /\ Init

BuffersNext == UseStep \/ CodecStep

BuffersSpec == BuffersInit /\ [][BuffersNext]_<<useVars, vars>>
=============================================================================
