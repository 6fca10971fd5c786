----------------------------- MODULE TcpServer ------------------------------
(***************************************************************************)
(* net/TcpServer with net/Acceptor and net/EventLoopThreadPool: start() by *)
(* several threads, the connections handed out to the worker loops, their  *)
(* close and removal through two loops, and the destructor.                *)
(*                                                                         *)
(* Loop 0 is the base loop, loop i the i-th worker's.  A loop runs queued  *)
(* functors in their order, which is what EventLoop is proved to do; a     *)
(* connection is its state_ and the connection callbacks it has made, the  *)
(* rest of it is in TcpConnection.                                         *)
(***************************************************************************)
EXTENDS Naturals, Sequences

CONSTANTS
    Base,       \* the thread of the base loop
    Starters,   \* threads that call start(), once each
    Workers,    \* threads_num_
    MaxConns    \* bound on the number of accepted connections

ASSUME WorkersAssumption == Workers \in Nat
ASSUME MaxConnsAssumption == MaxConns \in Nat

VARIABLES
    started_,        \* of TcpServer
    pool_started_,   \* of EventLoopThreadPool
    listening,       \* does the accept channel listen for POLLIN?
    loops_,          \* the number of entries of loops_
    next_,
    connections_,    \* the connections in the map
    conns,           \* the connections accepted, by their number
    eof,             \* connections whose peer has closed
    queue,           \* queued functors of each loop
    spc,             \* the progress of each starter in start()
    base,            \* is the base loop in loop()?
    worker,          \* the threads of the pool: "none", "running", "quit", "ended"
    server,          \* "alive", "joining" in ~EventLoopThreadPool, "gone"
    crash,           \* "no", or what has gone wrong
    raced            \* history: a start() of another thread was not over when
                     \* the base loop made a connection

startVars == <<started_, pool_started_, loops_, spc>>
connVars == <<next_, connections_, conns, raced>>
lifeVars == <<base, worker, server>>
vars == <<startVars, connVars, lifeVars, listening, eof, queue, crash>>

Conns == 1..MaxConns
Loops == 0..Workers

Functor(op, c) == [op |-> op, conn |-> c]

Init ==
    /\ started_ = FALSE /\ pool_started_ = FALSE
    /\ listening = FALSE
    /\ loops_ = 0 /\ next_ = 0
    /\ connections_ = {}
    /\ conns = << >>
    /\ eof = {}
    /\ queue = [l \in Loops |-> << >>]
    /\ spc = [t \in Starters |-> "idle"]
    /\ base = TRUE
    /\ worker = [w \in 1..Workers |-> "none"]
    /\ server = "alive"
    /\ crash = "no"
    /\ raced = FALSE

-----------------------------------------------------------------------------
(* start(), by the thread of the base loop or by another one.               *)

\* No step of start() follows a crash; a starter calls it while the server lives.
Starting(t, at) == spc[t] = at /\ server = "alive" /\ crash = "no"

Goto(t, to) == spc' = [spc EXCEPT ![t] = to]

\* started_ is a plain bool: two starters may both find it false.
TestStarted(t) ==
    /\ Starting(t, "idle")
    /\ base
    /\ Goto(t, IF started_ THEN "done" ELSE "listen")
    /\ UNCHANGED <<started_, pool_started_, loops_, connVars, lifeVars, listening,
                   eof, queue, crash>>

\* runInLoop(Acceptor::listen): at once in the base loop's thread, else queued.
StartListening(t) ==
    /\ Starting(t, "listen")
    /\ started_' = TRUE
    /\ Goto(t, "pool")
    /\ IF t = Base
         THEN listening' = TRUE /\ UNCHANGED queue
         ELSE /\ queue' = [queue EXCEPT ![0] = Append(@, Functor("listen", 0))]
              /\ UNCHANGED listening
    /\ UNCHANGED <<pool_started_, loops_, connVars, lifeVars, eof, crash>>

\* EventLoopThreadPool::start, its compare and exchange.
PoolStart(t) ==
    /\ Starting(t, "pool")
    /\ pool_started_' = TRUE
    /\ Goto(t, IF pool_started_ \/ Workers = 0 THEN "done" ELSE "fill")
    /\ UNCHANGED <<started_, loops_, connVars, lifeVars, listening, eof, queue, crash>>

\* startLoop of the next worker, whose loop is entered into loops_.
StartWorker(t) ==
    /\ Starting(t, "fill")
    /\ loops_' = loops_ + 1
    /\ worker' = [worker EXCEPT ![loops_ + 1] = "running"]
    /\ Goto(t, IF loops_ + 1 = Workers THEN "done" ELSE "fill")
    /\ UNCHANGED <<started_, pool_started_, connVars, base, server, listening, eof,
                   queue, crash>>

StartStep(t) == TestStarted(t) \/ StartListening(t) \/ PoolStart(t) \/ StartWorker(t)

-----------------------------------------------------------------------------
(* The loops. *)

\* The base loop runs nothing while its thread is in start() or in ~TcpServer.
Running(l) ==
    /\ crash = "no"
    /\ IF l = 0
         THEN base /\ server # "joining"
              /\ (Base \in Starters => spc[Base] \in {"idle", "done"})
         ELSE worker[l] \in {"running", "quit"}

\* The loop entries of which getNextLoop may see: while another thread
\* fills the vector, any number up to the present one.
Views ==
    IF \E t \in Starters \ {Base} : spc[t] = "fill" THEN 0..loops_ ELSE {loops_}

\* getNextLoop, when it sees n entries.
GetNextLoop(n) == IF n = 0 THEN 0 ELSE (next_ % n) + 1

\* connectionEstablished and connectionDestroyed, as far as the server goes.
Established(conn) == [conn EXCEPT !.state_ = "Connected", !.calls = Append(@, "up")]
Destroyed(conn) == [conn EXCEPT !.state_ = "Disconnected", !.calls = Append(@, "down")]

NewConn(l) == [loop |-> l, state_ |-> "Connecting", calls |-> << >>]

\* The accept channel is readable and accept() succeeds; a failing accept()
\* changes nothing.
Accepts == Running(0) /\ server = "alive" /\ listening /\ Len(conns) < MaxConns

Racing == \E t \in Starters \ {Base} : spc[t] \in {"listen", "pool", "fill"}

\* Mutant: connectionEstablished is called in the thread of the base loop.
NewConnectionInline ==
    /\ Accepts
    /\ \E n \in Views :
         LET l == GetNextLoop(n) IN
         /\ next_' = next_ + (IF n = 0 THEN 0 ELSE 1)
         /\ conns' = Append(conns, IF l = 0 THEN Established(NewConn(l)) ELSE NewConn(l))
         /\ crash' = IF l = 0 THEN "no" ELSE "thread"
    /\ connections_' = connections_ \union {Len(conns) + 1}
    /\ raced' = (raced \/ Racing)
    /\ UNCHANGED <<queue, startVars, lifeVars, listening, eof>>

\* Mutant: getNextLoop hands out the base loop, too.
NewConnectionOnBase ==
    /\ Accepts
    /\ LET l == next_ % (loops_ + 1) IN
         /\ conns' = Append(conns, IF l = 0 THEN Established(NewConn(l)) ELSE NewConn(l))
         /\ queue' = IF l = 0 THEN queue
                     ELSE [queue EXCEPT ![l] = Append(@, Functor("established", Len(conns) + 1))]
    /\ next_' = next_ + 1
    /\ connections_' = connections_ \union {Len(conns) + 1}
    /\ raced' = (raced \/ Racing)
    /\ UNCHANGED <<startVars, lifeVars, listening, eof, crash>>

\* One connection is made, entered into connections_ and established in its loop.
NewConnection ==
    /\ Accepts
    /\ \E n \in Views :
         LET l == GetNextLoop(n) IN
         /\ next_' = next_ + (IF n = 0 THEN 0 ELSE 1)
         /\ IF l = 0
              THEN conns' = Append(conns, Established(NewConn(l))) /\ UNCHANGED queue
              ELSE /\ conns' = Append(conns, NewConn(l))
                   /\ queue' = [queue EXCEPT ![l] =
                                  Append(@, Functor("established", Len(conns) + 1))]
    /\ connections_' = connections_ \union {Len(conns) + 1}
    /\ raced' = (raced \/ Racing)
    /\ UNCHANGED <<startVars, lifeVars, listening, eof, crash>>

\* The read of loops_ while reserve() replaces its storage: the pointers it
\* gets may not belong together.
TornRead ==
    /\ Accepts
    /\ loops_ = 0 /\ \E t \in Starters \ {Base} : spc[t] = "fill"
    /\ crash' = "torn"
    /\ raced' = TRUE
    /\ UNCHANGED <<startVars, next_, connections_, conns, lifeVars, listening, eof, queue>>

\* The functor at the head of a loop's queue.
Pop(l, op) ==
    /\ Running(l)
    /\ queue[l] # << >>
    /\ Head(queue[l]).op = op

RunListen ==
    /\ Pop(0, "listen")
    /\ queue' = [queue EXCEPT ![0] = Tail(@)]
    /\ IF server = "alive"
         THEN listening' = TRUE /\ UNCHANGED crash
         ELSE crash' = "dangling" /\ UNCHANGED listening
    /\ UNCHANGED <<startVars, connVars, lifeVars, eof>>

\* connectionEstablished aborts in another thread or another state.
RunEstablished(l) ==
    /\ Pop(l, "established")
    /\ queue' = [queue EXCEPT ![l] = Tail(@)]
    /\ LET c == Head(queue[l]).conn IN
         IF conns[c].loop = l /\ conns[c].state_ = "Connecting"
           THEN conns' = [conns EXCEPT ![c] = Established(@)] /\ UNCHANGED crash
           ELSE crash' = "abort" /\ UNCHANGED conns
    /\ UNCHANGED <<startVars, next_, connections_, raced, lifeVars, listening, eof>>

\* Mutant: the connection is destroyed and stays in connections_.
RemoveConnectionInLoopKeeping(c, q) ==
    /\ connections_' = connections_
    /\ queue' = [q EXCEPT ![conns[c].loop] = Append(@, Functor("destroyed", c))]

\* Mutant: connectionDestroyed is not queued.
RemoveConnectionInLoopForgetting(c, q) ==
    /\ connections_' = connections_ \ {c}
    /\ queue' = q

\* q are the queues it finds.
RemoveConnectionInLoop(c, q) ==
    /\ connections_' = connections_ \ {c}
    /\ queue' = [q EXCEPT ![conns[c].loop] = Append(@, Functor("destroyed", c))]

\* Mutant: removeConnection is called twice for one close.
HandleCloseTwice(c) ==
    /\ c \in eof /\ c <= Len(conns)
    /\ conns[c].state_ = "Connected"
    /\ Running(conns[c].loop)
    /\ conns' = [conns EXCEPT ![c].state_ = "Disconnected"]
    /\ queue' = [queue EXCEPT ![0] = @ \o <<Functor("remove", c), Functor("remove", c)>>]
    /\ UNCHANGED <<startVars, next_, connections_, raced, lifeVars, listening, eof, crash>>

\* handleClose of a connection in its loop, close_callback_ and removeConnection,
\* which runs removeConnectionInLoop at once in the base loop's thread.
HandleClose(c) ==
    /\ c \in eof /\ c <= Len(conns)
    /\ conns[c].state_ = "Connected"
    /\ Running(conns[c].loop)
    /\ IF server = "gone"
         THEN crash' = "dangling" /\ UNCHANGED <<conns, connections_, queue>>
         ELSE /\ conns' = [conns EXCEPT ![c].state_ = "Disconnected"]
              /\ IF conns[c].loop = 0
                   THEN RemoveConnectionInLoop(c, queue)
                   ELSE /\ queue' = [queue EXCEPT ![0] = Append(@, Functor("remove", c))]
                        /\ UNCHANGED connections_
              /\ UNCHANGED crash
    /\ UNCHANGED <<startVars, next_, raced, lifeVars, listening, eof>>

RunRemove ==
    /\ Pop(0, "remove")
    /\ LET c == Head(queue[0]).conn
           rest == [queue EXCEPT ![0] = Tail(@)] IN
         IF server = "gone"
           THEN crash' = "dangling" /\ queue' = rest /\ UNCHANGED connections_
           ELSE RemoveConnectionInLoop(c, rest) /\ UNCHANGED crash
    /\ UNCHANGED <<startVars, next_, conns, raced, lifeVars, listening, eof>>

RunDestroyed(l) ==
    /\ Pop(l, "destroyed")
    /\ queue' = [queue EXCEPT ![l] = Tail(@)]
    /\ LET c == Head(queue[l]).conn IN
         IF conns[c].loop = l
           THEN conns' = [conns EXCEPT ![c] = Destroyed(@)] /\ UNCHANGED crash
           ELSE crash' = "abort" /\ UNCHANGED conns
    /\ UNCHANGED <<startVars, next_, connections_, raced, lifeVars, listening, eof>>

LoopStep(l) == RunEstablished(l) \/ RunDestroyed(l) \/ (l = 0 /\ (RunListen \/ RunRemove))

PeerCloses(c) ==
    /\ c <= Len(conns)
    /\ c \notin eof
    /\ eof' = eof \union {c}
    /\ UNCHANGED <<startVars, connVars, lifeVars, listening, queue, crash>>

-----------------------------------------------------------------------------
(* The end: loop() of the base loop returns, ~TcpServer in its thread.      *)

BaseQuits ==
    /\ Running(0)
    /\ base' = FALSE
    /\ UNCHANGED <<startVars, connVars, worker, server, listening, eof, queue, crash>>

\* Mutant: the workers' threads are not joined.
DestroyServerUnjoined ==
    /\ server = "alive" /\ crash = "no"
    /\ ~base \/ Running(0)
    /\ \A t \in Starters : spc[t] \in {"idle", "done"}
    /\ server' = "gone"
    /\ connections_' = {}
    /\ UNCHANGED <<startVars, next_, conns, raced, base, worker, listening, eof, queue,
                   crash>>

\* ~TcpServer after loop() has returned or in a callback of the base loop,
\* and not during start().
DestroyServer ==
    /\ server = "alive" /\ crash = "no"
    /\ ~base \/ Running(0)
    /\ \A t \in Starters : spc[t] \in {"idle", "done"}
    /\ server' = "joining"
    /\ started_' = FALSE
    /\ UNCHANGED <<pool_started_, loops_, spc, connVars, base, worker, listening, eof,
                   queue, crash>>

\* The threads of the pool are told to quit and joined one after the other.
QuitWorker(w) ==
    /\ server = "joining"
    /\ worker[w] = "running"
    /\ \A v \in 1..(w - 1) : worker[v] = "ended"
    /\ worker' = [worker EXCEPT ![w] = "quit"]
    /\ UNCHANGED <<startVars, connVars, base, server, listening, eof, queue, crash>>

\* loop() returns; the functors that are left go with the EventLoop.
WorkerEnds(w) ==
    /\ worker[w] = "quit"
    /\ worker' = [worker EXCEPT ![w] = "ended"]
    /\ queue' = [queue EXCEPT ![w] = << >>]
    /\ UNCHANGED <<startVars, connVars, base, server, listening, eof, crash>>

\* The other members go after the pool.
ServerGone ==
    /\ server = "joining"
    /\ \A w \in 1..Workers : worker[w] \in {"none", "ended"}
    /\ server' = "gone"
    /\ connections_' = {}
    /\ UNCHANGED <<startVars, next_, conns, raced, base, worker, listening, eof, queue,
                   crash>>

JoinStep ==
    ServerGone \/ \E w \in 1..Workers : QuitWorker(w) \/ WorkerEnds(w)

-----------------------------------------------------------------------------
Next ==
    \/ \E t \in Starters : StartStep(t)
    \/ NewConnection \/ TornRead
    \/ \E l \in Loops : LoopStep(l)
    \/ \E c \in Conns : HandleClose(c) \/ PeerCloses(c)
    \/ BaseQuits \/ DestroyServer \/ JoinStep

(***************************************************************************)
(* Every loop runs its functors and dispatches its channels, a start() and *)
(* a destructor that have begun go on.                                     *)
(***************************************************************************)
Fairness ==
    /\ \A t \in Starters : WF_vars(StartListening(t) \/ PoolStart(t) \/ StartWorker(t))
    /\ \A l \in Loops : WF_vars(LoopStep(l))
    /\ \A c \in Conns : WF_vars(HandleClose(c))
    /\ WF_vars(JoinStep)

Spec == Init /\ [][Next]_vars /\ Fairness

-----------------------------------------------------------------------------
(* Properties. *)

\* The life of a connection as its user sees it; "broken" is any other sequence
\* of connection callbacks.
LifeOf(conn) ==
    CASE conn.calls = << >> -> "new"
      [] conn.calls = <<"up">> -> IF conn.state_ = "Connected" THEN "up" ELSE "closed"
      [] conn.calls = <<"up", "down">> -> "down"
      [] OTHER -> "broken"

Life == INSTANCE ConnectionLife
    WITH life <- [c \in Conns |-> IF c <= Len(conns) THEN LifeOf(conns[c]) ELSE "none"]

\* TcpServer implements ConnectionLife: whatever loop a connection is given to
\* and however its close travels between the loops, it is reported up once and
\* then down at most once (TcpServer.cpp:41, 63, 76).
ImplementsLife == Life!LSpec

\* The program does not abort on a wrong thread or state, and uses neither a
\* half-built pool nor a destroyed server, but for two uses that the code
\* does not survive: start() in another thread than the base loop's (the torn
\* read of loops_), and a server destroyed while its base loop goes on.
NoCrash ==
    \/ crash = "no"
    \/ crash = "torn" /\ raced
    \/ crash = "dangling" /\ server = "gone" /\ base

\* connections_ keeps every connection that is not closed alive, and none that
\* has been reported down.
MapTracksConnections ==
    server = "alive" =>
        \A c \in 1..Len(conns) :
            /\ conns[c].state_ # "Disconnected" => c \in connections_
            /\ conns[c].calls = <<"up", "down">> => c \notin connections_

\* A server with workers gives them all its connections, although it listens
\* before it starts them (test_tcpserver_multithread.cpp:309), unless
\* another thread is in start().
WorkersOnly ==
    raced \/ (Workers > 0 => \A c \in 1..Len(conns) : conns[c].loop # 0)

\* When ~TcpServer has returned no worker runs a callback of a connection, and
\* after the end of the base loop nobody does: the pool, the last member, is
\* joined first.
NothingAfterDestroy ==
    [][server = "gone" =>
         \A c \in 1..Len(conns) : conns'[c] # conns[c] => base /\ conns[c].loop = 0]_vars

Down == {c \in 1..Len(conns) : conns[c].calls = <<"up", "down">>}

\* The end of a peer's stream leads, through the connection's loop, the base
\* loop and the connection's loop again, to its removal and the down callback.
CloseIsRemoved ==
    \A c \in Conns :
        c \in eof ~> \/ c \in Down /\ c \notin connections_
                     \/ ~base \/ server # "alive" \/ crash # "no"
=============================================================================
