----------------------------- MODULE TcpClient ------------------------------
(***************************************************************************)
(* net/TcpClient: a Connector and the connections it makes.  The user      *)
(* thread and code in the loop thread (callbacks, tasks) call connect,     *)
(* stop, disconnect and the destructor.  A connection is its state_ and    *)
(* the connection callbacks it has made; the rest of it is in              *)
(* TcpConnection.                                                          *)
(***************************************************************************)
EXTENDS Connector

VARIABLES
    client_connect_,   \* connect_ of TcpClient
    retry_,
    connection_,       \* the number of the connection, or 0
    conns,             \* the connections made, by their number
    client,            \* "alive", "dtor": a thread is in ~TcpClient, "gone"
    taken,             \* conn of ~TcpClient in another thread, or 0
    crash,             \* "no", or the destroyed object that was used
    overlap,           \* history: connect() was called with a connection up
    unsafe             \* history: ~TcpClient found something under way, see Quiet

clientVars == <<client_connect_, retry_, connection_, conns, client, taken, crash,
                overlap, unsafe>>
allVars == <<vars, clientVars>>

ClientInit ==
    /\ Init
    /\ client_connect_ = FALSE
    /\ retry_ \in BOOLEAN
    /\ connection_ = 0
    /\ conns = << >>
    /\ client = "alive"
    /\ taken = 0
    /\ crash = "no"
    /\ overlap = FALSE /\ unsafe = FALSE

Open == {c \in DOMAIN conns : conns[c].state_ # "Disconnected"}

\* connectionDestroyed of connection c.
Destroyed(c) == [conns EXCEPT ![c] = [state_ |-> "Disconnected", calls |-> Append(@.calls, "down")]]

ConnectorTasks == \E i \in DOMAIN tasks : tasks[i].op \in {"start", "stop"}

-----------------------------------------------------------------------------
(* Calls of the user. *)

ClientConnect ==
    /\ client = "alive"
    /\ UserStart \/ LoopStart
    /\ client_connect_' = TRUE
    /\ overlap' = (overlap \/ Open # {})
    /\ UNCHANGED <<retry_, connection_, conns, client, taken, crash, unsafe>>

ClientStop ==
    /\ client = "alive"
    /\ UserStop \/ LoopStop
    /\ client_connect_' = FALSE
    /\ UNCHANGED <<retry_, connection_, conns, client, taken, crash, overlap, unsafe>>

\* disconnect(), by any thread.  shutdown() sets Disconnecting, and the
\* shutdownInLoop that follows does nothing in that state.  One step: whatever the
\* loop does between its parts could come before or after it, except a close whose
\* Disconnected is overwritten; that race is in TcpConnection, and TcpClient never
\* reads state_.
Disconnect ==
    /\ client = "alive"
    /\ client_connect_ \/ connection_ # 0
    /\ client_connect_' = FALSE
    /\ conns' = IF connection_ # 0 /\ conns[connection_].state_ = "Connected"
                  THEN [conns EXCEPT ![connection_].state_ = "Disconnecting"] ELSE conns
    /\ UNCHANGED <<vars, retry_, connection_, client, taken, crash, overlap, unsafe>>

UserGoesOn == UserQueues /\ UNCHANGED clientVars

-----------------------------------------------------------------------------
(* The loop thread. *)

\* Mutant: the callback enters nothing into connection_.
OnConnectionForgotten ==
    /\ ConnectSucceeds
    /\ IF client = "gone"
         THEN crash' = "client" /\ UNCHANGED <<conns, connection_>>
         ELSE /\ conns' = Append(conns, [state_ |-> "Connected", calls |-> <<"up">>])
              /\ UNCHANGED <<crash, connection_>>
    /\ UNCHANGED <<client_connect_, retry_, client, taken, overlap, unsafe>>

\* handleWritable up to the connection callback: onConnection makes the
\* connection and runs connectionEstablished.
OnConnection ==
    /\ ConnectSucceeds
    /\ IF client = "gone"
         THEN crash' = "client" /\ UNCHANGED <<conns, connection_>>
         ELSE /\ conns' = Append(conns, [state_ |-> "Connected", calls |-> <<"up">>])
              /\ connection_' = Len(conns) + 1
              /\ UNCHANGED crash
    /\ UNCHANGED <<client_connect_, retry_, client, taken, overlap, unsafe>>

\* The callback returns into handleWritable, which goes on to use the Connector:
\* its channel's closure is gone, so only the client, functors, timers and the
\* channel of a new attempt keep it.
OnConnectionReturns ==
    /\ IF client = "gone" /\ timers = 0 /\ ~ConnectorTasks /\ ~channel_
         THEN incall /\ crash' = "connector" /\ UNCHANGED vars
         ELSE CallbackReturns /\ UNCHANGED crash
    /\ UNCHANGED <<client_connect_, retry_, connection_, conns, client, taken, overlap, unsafe>>

\* Mutant: connectionDestroyed is called at once and queued.
HandleCloseEager(c) ==
    /\ Idle
    /\ c \in Open
    /\ client # "gone"
    /\ conns' = Destroyed(c)
    /\ connection_' = 0
    /\ tasks' = Append(tasks, [op |-> "destroyed", conn |-> c])
    /\ UNCHANGED <<connect_, state_, socket_, channel_, retry_delay_, timers, gaveUp, aborted,
                   haltVars, calls, last, stale, incall, closing, upc, crash, client_connect_,
                   retry_, client, taken, overlap, unsafe>>

\* The peer has closed: handleClose and the close callback, up to its test of
\* retry_ and connect_.
HandleClose(c) ==
    /\ Idle
    /\ c \in Open
    /\ IF client = "gone"
         THEN crash' = "client" /\ UNCHANGED <<conns, connection_, tasks, calls, closing>>
         ELSE /\ conns' = [conns EXCEPT ![c].state_ = "Disconnected"]
              /\ connection_' = 0
              /\ tasks' = Append(tasks, [op |-> "destroyed", conn |-> c])
              /\ IF retry_ /\ client_connect_
                   THEN calls < MaxCalls /\ calls' = calls + 1 /\ closing' = TRUE
                   ELSE UNCHANGED <<calls, closing>>
              /\ UNCHANGED crash
    /\ UNCHANGED <<connect_, state_, socket_, channel_, retry_delay_, timers, incall, aborted,
                   upc, last, haltVars, gaveUp, stale, client_connect_, retry_, client, taken,
                   overlap, unsafe>>

\* The close callback goes on to restart the connector, whatever another thread
\* has done to connect_ since the test.
CloseRestarts ==
    /\ closing
    /\ IF client = "gone"
         THEN crash' = "client" /\ UNCHANGED vars
         ELSE /\ closing' = FALSE
              /\ last' = "restart"
              /\ stale' = (stale \/ Leftover)
              /\ RestartInLoop
              /\ UNCHANGED <<tasks, incall, upc, calls, crash>>
    /\ UNCHANGED <<client_connect_, retry_, connection_, conns, client, taken, overlap, unsafe>>

\* connectionDestroyed, queued by the close callback or by ~TcpClient.
RunDestroyed ==
    /\ Idle
    /\ tasks # << >> /\ Head(tasks).op = "destroyed"
    /\ tasks' = Tail(tasks)
    /\ conns' = Destroyed(Head(tasks).conn)
    /\ UNCHANGED <<connect_, state_, socket_, channel_, retry_delay_, timers, incall,
                   closing, aborted, userVars, haltVars, gaveUp, stale, client_connect_, retry_,
                   connection_, client, taken, crash, overlap, unsafe>>

RunConnectorTask == (RunStart \/ RunStop) /\ UNCHANGED clientVars
FireRetryTimer == RetryTimerFires /\ UNCHANGED clientVars
AttemptFails == ConnectFails /\ UNCHANGED clientVars

-----------------------------------------------------------------------------
(* ~TcpClient. *)

\* What the destructor in the loop thread must find: no callback of an attempt or
\* of a close is under way, connection_ is the only open connection, and the
\* connector has nothing to do that stop() does not undo.
Quiet ==
    /\ ~incall /\ ~closing
    /\ Open \subseteq {connection_}
    /\ timers = 0
    /\ \A i \in DOMAIN tasks : tasks[i].op # "start"
    /\ connection_ # 0 => ~channel_

\* Mutant: the connector is not stopped.
DestroyInLoopNoStop ==
    /\ client = "alive" /\ upc = "idle"
    /\ incall \/ Idle
    /\ client' = "gone"
    /\ connection_' = 0
    /\ unsafe' = ~Quiet
    /\ conns' = IF connection_ # 0 THEN Destroyed(connection_) ELSE conns
    /\ UNCHANGED <<vars, client_connect_, retry_, taken, crash, overlap>>

\* In the loop thread runInLoop runs the functor at once.
DestroyInLoop ==
    /\ client = "alive" /\ upc = "idle"
    /\ incall \/ Idle
    /\ client' = "gone"
    /\ connection_' = 0
    /\ unsafe' = ~Quiet
    /\ IF connection_ # 0
         THEN conns' = Destroyed(connection_) /\ UNCHANGED vars
         ELSE /\ connect_' = FALSE
              /\ StopInLoop
              /\ last' = "stop"
              /\ UNCHANGED <<retry_delay_, timers, tasks, incall, closing, aborted, upc, calls,
                             gaveUp, stale, conns>>
    /\ UNCHANGED <<client_connect_, retry_, taken, crash, overlap>>

\* In another thread: connection_ is read under the mutex.  Only a client with
\* nothing open and nothing to do is safe.
DestroyBegins ==
    /\ client = "alive" /\ upc = "idle" /\ ~aborted
    /\ client' = "dtor"
    /\ upc' = "dtor"
    /\ taken' = connection_
    /\ unsafe' = ~(Quiet /\ Open = {} /\ ~channel_)
    /\ UNCHANGED <<connect_, state_, socket_, channel_, retry_delay_, timers, tasks, incall,
                   closing, aborted, calls, last, haltVars, gaveUp, stale, client_connect_, retry_,
                   connection_, conns, crash, overlap>>

\* The functor is queued, or the connector stopped, and the members go.
DestroyEnds ==
    /\ upc = "dtor"
    /\ upc' = "idle"
    /\ client' = "gone"
    /\ connection_' = 0
    /\ IF taken # 0
         THEN /\ tasks' = Append(tasks, [op |-> "destroyed", conn |-> taken])
              /\ UNCHANGED <<connect_, last>>
         ELSE /\ tasks' = Append(tasks, Functor("stop"))
              /\ connect_' = FALSE
              /\ last' = "stop"
    /\ UNCHANGED <<state_, socket_, channel_, retry_delay_, timers, incall, closing, aborted,
                   calls, haltVars, gaveUp, stale, client_connect_, retry_, conns, taken, crash,
                   overlap, unsafe>>

-----------------------------------------------------------------------------
LoopStep == RunConnectorTask \/ RunDestroyed

Next ==
    /\ crash = "no"
    /\ \/ ClientConnect \/ ClientStop \/ Disconnect \/ UserGoesOn
       \/ LoopStep \/ FireRetryTimer \/ AttemptFails
       \/ OnConnection \/ OnConnectionReturns
       \/ (\E c \in 1..MaxCalls : HandleClose(c)) \/ CloseRestarts
       \/ DestroyInLoop \/ DestroyBegins \/ DestroyEnds

(***************************************************************************)
(* The loop runs functors and expired timers, callbacks return, a call     *)
(* that has begun goes on.  Infinitely many attempts do not all fail: the  *)
(* server comes up some day.                                               *)
(***************************************************************************)
Fairness ==
    /\ WF_allVars(crash = "no" /\ LoopStep)
    /\ WF_allVars(crash = "no" /\ FireRetryTimer)
    /\ WF_allVars(crash = "no" /\ (OnConnectionReturns \/ CloseRestarts))
    /\ WF_allVars(crash = "no" /\ (UserGoesOn \/ DestroyEnds))
    /\ SF_allVars(crash = "no" /\ OnConnection)
    /\ SF_allVars(crash = "no" /\ FireRetryTimer /\ channel_')

Spec == ClientInit /\ [][Next]_allVars /\ Fairness

-----------------------------------------------------------------------------
(* Properties. *)

\* Two down callbacks come only to a connection that ~TcpClient in another
\* thread took while it closed.
LifeOf(c) ==
    CASE conns[c].calls = <<"up">> -> IF c \in Open THEN "up" ELSE "closed"
      [] conns[c].calls = <<"up", "down">> -> "down"
      [] conns[c].calls = <<"up", "down", "down">> /\ c = taken -> "down"
      [] OTHER -> "broken"

Life == INSTANCE ConnectionLife
    WITH Conns <- 1..MaxCalls,
         life <- [c \in 1..MaxCalls |-> IF c \in DOMAIN conns THEN LifeOf(c) ELSE "none"]

\* TcpClient implements ConnectionLife: through reconnection, disconnect, stop
\* and destruction each connection is reported up once and then down once, but
\* for the connection that LifeOf excepts.
ImplementsLife == Life!LSpec

\* connection_, which disconnect() and ~TcpClient use, is the open connection: a
\* close never resets it while another connection is open, unless connect() was
\* called with a connection up or the connector was started over something else
\* that was left, see StartsOver.
TracksConnection ==
    overlap \/ stale \/ (client = "alive" => Open \subseteq {connection_})

\* The program never crashes, with two exceptions.  A client destroyed when nothing
\* is under way is never used again, nor is its Connector, by no queued functor,
\* close callback or attempt; one destroyed inside a callback of its own, with a
\* retry pending or with an attempt or connection that another thread works on may
\* be (unsafe; DestructionIsSafe is the case that a test makes).  startInLoop finds
\* the state Disconnected and does not abort, whenever the connector is stopped,
\* started and restarted, unless it is started over a connection, open or closed
\* since, a retry timer, or a call that is not over yet.
NoCrash == (crash = "no" \/ unsafe) /\ (aborted => stale)

\* Destroying the client at any time, in its connection callback too
\* (test_tcpclient.cpp:143), leaves no use of the destroyed Connector behind.
\* handleWritable uses it when the callback returns: a violation.
DestructionIsSafe == crash # "connector"

\* A client with retry that is asked to connect, or to reconnect a connection it
\* has lost, gets a connection in the end, unless connect() meets an error it does
\* not retry or is called at the wrong time.  A client without retry is promised
\* nothing: test_tcpclient.cpp:427 expects one attempt, Connector::retry makes more.
WishFulfilled ==
    (client_connect_ /\ connection_ = 0 /\ client = "alive" /\ retry_)
        ~> (connection_ # 0 \/ ~client_connect_ \/ client # "alive" \/ gaveUp \/ stale)
=============================================================================
