--------------------------- MODULE TcpConnection ----------------------------
(***************************************************************************)
(* net/TcpConnection: one connection, the loop it belongs to, threads that *)
(* call send and shutdown on it, the peer, and the owner (TcpServer) whose *)
(* close callback leads to connectionDestroyed.                            *)
(*                                                                         *)
(* The loop runs queued functors in the order in which they were queued,   *)
(* which is what EventLoop is proved to do (TasksInOrder).  A message is   *)
(* the ordinal of its send call and MsgLen units long.  handleWritable is  *)
(* not an action: the constructor binds no write callback to the channel.  *)
(***************************************************************************)
EXTENDS Naturals, Sequences

CONSTANTS
    Threads,         \* threads other than the loop thread
    MsgLen,          \* length of every message
    HighWaterMark,   \* high_water_mark_, in units
    MaxSends         \* bound on the number of send calls

ASSUME MsgLenAssumption == MsgLen \in Nat \ {0}
ASSUME HighWaterMarkAssumption == HighWaterMark \in Nat \ {0}
ASSUME MaxSendsAssumption == MaxSends \in Nat

VARIABLES
    state_,
    reading, writing,   \* the bits of the channel's events_
    registered,         \* is the channel in the poller's map?
    send_buffer_,
    queue,              \* functors queued in the loop and not yet run
    incall,             \* is the loop thread inside a callback of the user?
    aborted,            \* has the program called std::abort?
    owner,              \* "holds" the connection, "closing": close_callback_ was
                        \* called, "removed": connectionDestroyed is queued
    tpc, tmsg,          \* what each thread is doing, and the message it sends
    rx,                 \* what read() on the socket would find
    shut,               \* has shutdownWrite been called on the socket?
    sends,              \* history: number of send calls accepted
    out,                \* history: units the socket has taken
    stream,             \* history: units of the sendInLoop calls, in their order
    ups, downs,         \* history: connection callbacks from connectionEstablished
                        \* and from connectionDestroyed
    highWaterSeen       \* history: has high_water_callback_ been called?

chanVars  == <<reading, writing, registered>>
histVars  == <<ups, downs, highWaterSeen>>
bufVars   == <<send_buffer_, out, stream>>
vars == <<state_, chanVars, bufVars, queue, incall, aborted, owner, tpc, tmsg,
          rx, shut, sends, histVars>>

States == {"Connecting", "Connected", "Disconnecting", "Disconnected"}
Ops == {"established", "destroyed", "shutdown", "send", "writeComplete", "highWater"}

Functor(op) == [op |-> op, msg |-> 0]
SendFunctor(m) == [op |-> "send", msg |-> m]

Messages == 1..MaxSends

\* The constructor, and TcpServer's runInLoop of connectionEstablished.
Init ==
    /\ state_ = "Connecting"
    /\ reading = FALSE /\ writing = FALSE /\ registered = FALSE
    /\ send_buffer_ = << >>
    /\ queue = <<Functor("established")>>
    /\ incall = FALSE
    /\ aborted = FALSE
    /\ owner = "holds"
    /\ tpc = [t \in Threads |-> "idle"]
    /\ tmsg = [t \in Threads |-> 0]
    /\ rx = "nothing"
    /\ shut = FALSE
    /\ sends = 0
    /\ out = << >>
    /\ stream = << >>
    /\ ups = 0 /\ downs = 0
    /\ highWaterSeen = FALSE

-----------------------------------------------------------------------------
(* sendInLoop and shutdownInLoop; q is the queue they find. *)

Units(m) == [i \in 1..MsgLen |-> m]

\* Mutant: the direct write is tried even if earlier data waits in the buffer.
SendInLoopOvertaking(m, q) ==
    \E n \in 0..MsgLen :
      /\ out' = out \o SubSeq(Units(m), 1, n)
      /\ send_buffer_' = send_buffer_ \o SubSeq(Units(m), n + 1, MsgLen)
      /\ stream' = stream \o Units(m)
      /\ writing' = (writing \/ n < MsgLen)
      /\ registered' = (registered \/ n < MsgLen)
      /\ queue' = q

\* Mutant: the high water callback is queued only above the mark.
SendInLoopStrictMark(m, q) ==
    \E n \in IF ~writing /\ send_buffer_ = << >> THEN 0..MsgLen ELSE {0} :
      /\ out' = out \o SubSeq(Units(m), 1, n)
      /\ send_buffer_' = send_buffer_ \o SubSeq(Units(m), n + 1, MsgLen)
      /\ stream' = stream \o Units(m)
      /\ writing' = (writing \/ n < MsgLen)
      /\ registered' = (registered \/ n < MsgLen)
      /\ queue' = IF Len(send_buffer_') > HighWaterMark
                    THEN Append(q, Functor("highWater")) ELSE q

\* The socket takes n units of a direct write (0 for EWOULDBLOCK or an error,
\* as after shutdownWrite); the rest is buffered and the channel listens for
\* POLLOUT, which registers it.  Only the overloads with a pointer queue
\* write_complete_callback_.
SendInLoop(m, q) ==
    \E n \in IF ~writing /\ send_buffer_ = << >> /\ ~shut THEN 0..MsgLen ELSE {0} :
      /\ out' = out \o SubSeq(Units(m), 1, n)
      /\ stream' = stream \o Units(m)
      /\ \/ /\ n = MsgLen
            /\ \E complete \in {<< >>, <<Functor("writeComplete")>>} :
                 queue' = q \o complete
            /\ UNCHANGED <<send_buffer_, writing, registered>>
         \/ /\ n < MsgLen
            /\ send_buffer_' = send_buffer_ \o SubSeq(Units(m), n + 1, MsgLen)
            /\ writing' = TRUE
            /\ registered' = TRUE
            /\ queue' = IF Len(send_buffer_') >= HighWaterMark
                          THEN Append(q, Functor("highWater")) ELSE q

\* shutdownWrite is ::shutdown(SHUT_RDWR): read() finds the end of the stream,
\* after what has been received.
ShutdownInLoop ==
    LET effective == state_ = "Connected" /\ ~writing IN
    /\ state_' = IF state_ = "Connected" THEN "Disconnecting" ELSE state_
    /\ shut' = (shut \/ effective)
    /\ rx' = IF effective /\ rx = "nothing" THEN "eof" ELSE rx

-----------------------------------------------------------------------------
(* Queued functors, run by the loop thread outside callbacks. *)

Pop(op) ==
    /\ ~aborted
    /\ ~incall
    /\ queue # << >>
    /\ Head(queue).op = op

\* Mutant: the channel does not listen for POLLIN.
ConnectionEstablishedDeaf ==
    /\ Pop("established")
    /\ queue' = Tail(queue)
    /\ state_' = "Connected"
    /\ registered' = TRUE
    /\ ups' = ups + 1
    /\ incall' = TRUE
    /\ UNCHANGED <<aborted, reading, writing, bufVars, owner, tpc, tmsg, rx, shut,
                   sends, downs, highWaterSeen>>

ConnectionEstablished ==
    /\ Pop("established")
    /\ queue' = Tail(queue)
    /\ IF state_ = "Connecting"
         THEN /\ state_' = "Connected"
              /\ reading' = TRUE
              /\ registered' = TRUE
              /\ ups' = ups + 1
              /\ incall' = TRUE
              /\ UNCHANGED aborted
         ELSE /\ aborted' = TRUE
              /\ UNCHANGED <<state_, reading, registered, ups, incall>>
    /\ UNCHANGED <<writing, bufVars, owner, tpc, tmsg, rx, shut, sends,
                   downs, highWaterSeen>>

\* ignoreAll, the connection callback, removeChannel.  In the callback send
\* and shutdown do nothing: state_ is not Connected.
ConnectionDestroyed ==
    /\ Pop("destroyed")
    /\ queue' = Tail(queue)
    /\ state_' = "Disconnected"
    /\ reading' = FALSE /\ writing' = FALSE /\ registered' = FALSE
    /\ downs' = downs + 1
    /\ UNCHANGED <<bufVars, incall, aborted, owner, tpc, tmsg, rx, shut, sends,
                   ups, highWaterSeen>>

RunSend ==
    /\ Pop("send")
    /\ SendInLoop(Head(queue).msg, Tail(queue))
    /\ UNCHANGED <<state_, reading, incall, aborted, owner, tpc, tmsg, rx, shut,
                   sends, histVars>>

RunShutdown ==
    /\ Pop("shutdown")
    /\ queue' = Tail(queue)
    /\ ShutdownInLoop
    /\ UNCHANGED <<chanVars, bufVars, incall, aborted, owner, tpc, tmsg, sends,
                   histVars>>

\* write_complete_callback_ or high_water_callback_.
RunUserCallback ==
    /\ \/ Pop("writeComplete") /\ UNCHANGED highWaterSeen
       \/ Pop("highWater") /\ highWaterSeen' = TRUE
    /\ queue' = Tail(queue)
    /\ incall' = TRUE
    /\ UNCHANGED <<state_, chanVars, bufVars, aborted, owner, tpc, tmsg, rx, shut,
                   sends, ups, downs>>

-----------------------------------------------------------------------------
(* The channel is readable. *)

Readable ==
    /\ ~aborted
    /\ ~incall
    /\ registered /\ reading
    /\ rx # "nothing"

\* handleReadable with n_read > 0: the message callback begins.
ReadMessage ==
    /\ Readable
    /\ rx = "data"
    /\ rx' = IF shut THEN "eof" ELSE "nothing"
    /\ incall' = TRUE
    /\ UNCHANGED <<state_, chanVars, bufVars, queue, aborted, owner, tpc, tmsg, shut,
                   sends, histVars>>

\* handleReadable with n_read < 0: handleError logs.  The error is reported
\* once; the next read finds the end of the stream.
ReadError ==
    /\ Readable
    /\ rx = "reset"
    /\ rx' = "eof"
    /\ UNCHANGED <<state_, chanVars, bufVars, queue, incall, aborted, owner, tpc, tmsg,
                   shut, sends, histVars>>

\* Mutant: the channel goes on listening after the end of the stream.
HandleCloseListening ==
    /\ Readable
    /\ rx = "eof"
    /\ IF state_ \in {"Connected", "Disconnecting"}
         THEN /\ state_' = "Disconnected"
              /\ owner' = "closing"
              /\ UNCHANGED <<chanVars, aborted>>
         ELSE /\ aborted' = TRUE
              /\ UNCHANGED <<state_, chanVars, owner>>
    /\ UNCHANGED <<bufVars, queue, incall, tpc, tmsg, rx, shut, sends, histVars>>

\* Mutant: close_callback_ is not called.
HandleCloseSilent ==
    /\ Readable
    /\ rx = "eof"
    /\ state_' = "Disconnected"
    /\ reading' = FALSE /\ writing' = FALSE
    /\ UNCHANGED <<owner, aborted, registered, bufVars, queue, incall, tpc, tmsg, rx,
                   shut, sends, histVars>>

\* handleReadable with n_read = 0.
HandleClose ==
    /\ Readable
    /\ rx = "eof"
    /\ IF state_ \in {"Connected", "Disconnecting"}
         THEN /\ state_' = "Disconnected"
              /\ reading' = FALSE /\ writing' = FALSE
              /\ owner' = "closing"
              /\ UNCHANGED aborted
         ELSE /\ aborted' = TRUE
              /\ UNCHANGED <<state_, reading, writing, owner>>
    /\ UNCHANGED <<registered, bufVars, queue, incall, tpc, tmsg, rx, shut, sends,
                   histVars>>

\* removeConnection through the server's loop to the connection's loop.
RemoveConnection ==
    /\ owner = "closing"
    /\ owner' = "removed"
    /\ queue' = Append(queue, Functor("destroyed"))
    /\ UNCHANGED <<state_, chanVars, bufVars, incall, aborted, tpc, tmsg, rx, shut,
                   sends, histVars>>

-----------------------------------------------------------------------------
(* Calls of the user inside a callback, in the loop thread. *)

CallSend ==
    /\ incall
    /\ state_ = "Connected"
    /\ sends < MaxSends
    /\ sends' = sends + 1
    /\ SendInLoop(sends + 1, queue)
    /\ UNCHANGED <<state_, reading, incall, aborted, owner, tpc, tmsg, rx, shut,
                   histVars>>

\* state_ is Disconnecting when shutdownInLoop tests it.
CallShutdown ==
    /\ incall
    /\ state_ = "Connected"
    /\ state_' = "Disconnecting"
    /\ UNCHANGED <<chanVars, bufVars, queue, incall, aborted, owner, tpc, tmsg, rx,
                   shut, sends, histVars>>

\* shutdownInLoop is public.
CallShutdownInLoop ==
    /\ incall
    /\ ShutdownInLoop
    /\ UNCHANGED <<chanVars, bufVars, queue, incall, aborted, owner, tpc, tmsg, sends,
                   histVars>>

CallbackReturns ==
    /\ incall
    /\ incall' = FALSE
    /\ UNCHANGED <<state_, chanVars, bufVars, queue, aborted, owner, tpc, tmsg, rx,
                   shut, sends, histVars>>

-----------------------------------------------------------------------------
(* Calls of other threads. *)

threadFrame == <<chanVars, bufVars, incall, aborted, owner, rx, shut, histVars>>

\* send tests state_, then queues.
ThreadSend(t) ==
    /\ tpc[t] = "idle"
    /\ state_ = "Connected"
    /\ sends < MaxSends
    /\ sends' = sends + 1
    /\ tmsg' = [tmsg EXCEPT ![t] = sends + 1]
    /\ tpc' = [tpc EXCEPT ![t] = "send"]
    /\ UNCHANGED <<state_, queue, threadFrame>>

ThreadQueueSend(t) ==
    /\ tpc[t] = "send"
    /\ queue' = Append(queue, SendFunctor(tmsg[t]))
    /\ tpc' = [tpc EXCEPT ![t] = "idle"]
    /\ UNCHANGED <<state_, tmsg, sends, threadFrame>>

\* shutdown tests state_, sets it, then queues.
ThreadShutdown(t) ==
    /\ tpc[t] = "idle"
    /\ state_ = "Connected"
    /\ tpc' = [tpc EXCEPT ![t] = "shutdown"]
    /\ UNCHANGED <<state_, tmsg, sends, queue, threadFrame>>

ThreadSetDisconnecting(t) ==
    /\ tpc[t] = "shutdown"
    /\ state_' = "Disconnecting"
    /\ tpc' = [tpc EXCEPT ![t] = "queueShutdown"]
    /\ UNCHANGED <<tmsg, sends, queue, threadFrame>>

ThreadQueueShutdown(t) ==
    /\ tpc[t] = "queueShutdown"
    /\ queue' = Append(queue, Functor("shutdown"))
    /\ tpc' = [tpc EXCEPT ![t] = "idle"]
    /\ UNCHANGED <<state_, tmsg, sends, threadFrame>>

-----------------------------------------------------------------------------
(* The peer and the network. *)

PeerActs(found) ==
    /\ ups = 1
    /\ rx' = found
    /\ UNCHANGED <<state_, chanVars, bufVars, queue, incall, aborted, owner, tpc, tmsg,
                   shut, sends, histVars>>

PeerSends  == rx = "nothing" /\ PeerActs("data")
PeerCloses == rx = "nothing" /\ PeerActs("eof")
PeerResets == rx \in {"nothing", "data"} /\ PeerActs("reset")

-----------------------------------------------------------------------------
LoopStep ==
    \/ ConnectionEstablished
    \/ ConnectionDestroyed
    \/ RunSend
    \/ RunShutdown
    \/ RunUserCallback
    \/ ReadMessage
    \/ ReadError
    \/ HandleClose
    \/ CallbackReturns

ThreadStep(t) ==
    ThreadQueueSend(t) \/ ThreadSetDisconnecting(t) \/ ThreadQueueShutdown(t)

Next ==
    \/ LoopStep
    \/ RemoveConnection
    \/ CallSend \/ CallShutdown \/ CallShutdownInLoop
    \/ \E t \in Threads : ThreadSend(t) \/ ThreadShutdown(t) \/ ThreadStep(t)
    \/ PeerSends \/ PeerCloses \/ PeerResets

(***************************************************************************)
(* The loop dispatches what is ready and runs what is queued, callbacks    *)
(* return, the owner's loop runs its task and a call that has begun goes   *)
(* on.  Queued functors are not starved by a readable channel: each turn   *)
(* of loop() does both, hence a fairness condition for each.               *)
(***************************************************************************)
RunQueued == ConnectionEstablished \/ ConnectionDestroyed \/ RunSend
             \/ RunShutdown \/ RunUserCallback

HandleReadable == ReadMessage \/ ReadError \/ HandleClose

Fairness ==
    /\ SF_vars(RunQueued)
    /\ SF_vars(HandleReadable)
    /\ WF_vars(CallbackReturns)
    /\ WF_vars(RemoveConnection)
    /\ \A t \in Threads : WF_vars(ThreadStep(t))

Spec == Init /\ [][Next]_vars /\ Fairness

-----------------------------------------------------------------------------
(* Properties. *)

\* What the socket has taken and what waits in send_buffer_ are, together and
\* in order, the messages handed to sendInLoop: direct writes, partial writes
\* and buffering by any thread and callback neither reorder nor lose a unit.
StreamIntegrity == out \o send_buffer_ = stream

\* The state checks of connectionEstablished and handleClose never abort.
NoAbort == ~aborted

\* After close_callback_ the channel listens for no input, so no message
\* callback follows it; the connection callback is called once for up and then
\* once for down, and for down only after close_callback_.
CallbackOrder ==
    /\ owner # "holds" => ~reading
    /\ downs > 0 => ups = 1 /\ owner = "removed"
    /\ downs <= 1

\* The end of the peer's stream leads to connectionDestroyed and the down
\* callback, whatever send and shutdown are doing.
CloseIsReported == (rx = "eof" /\ ups = 1) ~> (downs = 1)

\* A send buffer at or above the mark is reported to high_water_callback_.
HighWaterReported == (Len(send_buffer_) >= HighWaterMark) ~> highWaterSeen

\* Bytes left in send_buffer_ are written while the connection stays up
\* (README.md:690 says the channel's write callback is bound).
BufferIsFlushed ==
    (send_buffer_ # << >> /\ state_ = "Connected")
        ~> (send_buffer_ = << >> \/ state_ # "Connected")

\* shutdown() leads to the shutdown of the socket, unless the peer closes first
\* (README.md:689).
ShutdownReachesSocket ==
    (state_ = "Disconnecting" /\ owner = "holds") ~> (shut \/ owner # "holds")
=============================================================================
