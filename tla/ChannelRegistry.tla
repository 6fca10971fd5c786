-------------------------- MODULE ChannelRegistry ---------------------------
(***************************************************************************)
(* What net/PollerBase promises to a loop: updateChannel sets the events   *)
(* its channel is watched for, removeChannel ends the watch of its         *)
(* channel, and neither touches another channel.                           *)
(***************************************************************************)
CONSTANT Channels

VARIABLE watched   \* watched[c]: the events channel c is watched for

RInit == watched = [c \in Channels |-> {}]

UpdateChannel(c, E) == watched' = [watched EXCEPT ![c] = E]

RemoveChannel(c) == watched' = [watched EXCEPT ![c] = {}]
=============================================================================
