-------------------------- MODULE TcpServerProofs ---------------------------
(***************************************************************************)
(* TcpServer for any number of starters, workers and connections: what the *)
(* queues of the loops hold between the steps of a connection's life, and  *)
(* from it the freedom from crashes, the map, and ConnectionLife.          *)
(***************************************************************************)
EXTENDS TcpServer, SequenceTheorems, TLAPS

ServerOps == {"listen", "established", "remove", "destroyed"}

Functors == [op : ServerOps, conn : Nat]

\* The connection callbacks a connection may have made.
Calls == {<< >>, <<"up">>, <<"up", "down">>}

ConnRecords ==
    [loop : Loops, state_ : {"Connecting", "Connected", "Disconnected"}, calls : Calls]

ConnTypeOK ==
    /\ conns \in Seq(ConnRecords) /\ Len(conns) <= MaxConns
    /\ queue \in [Loops -> Seq(Functors)]
    /\ connections_ \subseteq 1..Len(conns)

StartTypeOK ==
    /\ server \in {"alive", "joining", "gone"}
    /\ loops_ \in 0..Workers /\ next_ \in Nat
    /\ spc \in [Starters -> {"idle", "listen", "pool", "fill", "done"}]
    /\ worker \in [1..Workers -> {"none", "running", "quit", "ended"}]
    /\ base \in BOOLEAN /\ listening \in BOOLEAN /\ pool_started_ \in BOOLEAN

\* The connection callbacks that a connection has made in each state_; a
\* connection of the base loop is established at once.
ConnOK(conn) ==
    /\ conn.state_ = "Connecting" <=> conn.calls = << >>
    /\ conn.state_ = "Connected" => conn.calls = <<"up">>
    /\ conn.state_ = "Connecting" => conn.loop # 0

ConnsOK == \A c \in 1..Len(conns) : ConnOK(conns[c])

\* connections_ and the callbacks.
MapOK ==
    \A c \in 1..Len(conns) :
        /\ conns[c].state_ # "Disconnected" /\ server # "gone" => c \in connections_
        /\ conns[c].calls = <<"up", "down">> => c \notin connections_

\* What a functor in the queue of loop l finds when it runs.
Due(l, f) ==
    /\ f.op = "listen" => l = 0
    /\ f.op # "listen" => f.conn \in 1..Len(conns)
    /\ f.op = "established" =>
         conns[f.conn].loop = l /\ conns[f.conn].state_ = "Connecting"
    /\ f.op = "destroyed" =>
         /\ conns[f.conn].loop = l
         /\ conns[f.conn].state_ = "Disconnected" /\ conns[f.conn].calls = <<"up">>
         /\ f.conn \notin connections_
    /\ f.op = "remove" =>
         /\ l = 0
         /\ \/ server = "gone"
            \/ /\ conns[f.conn].loop # 0
               /\ conns[f.conn].state_ = "Disconnected" /\ conns[f.conn].calls = <<"up">>
               /\ f.conn \in connections_

\* No functor of a connection is queued twice in a loop.
Distinct(q) ==
    \A i, j \in 1..Len(q) : q[i] = q[j] /\ q[i].op # "listen" => i = j

QueuesOK ==
    \A l \in Loops : Distinct(queue[l]) /\ \A f \in Range(queue[l]) : Due(l, f)

\* The pool is joined before the server's other members go.
WorkersJoined ==
    server = "gone" => \A w \in 1..Workers : worker[w] \in {"none", "ended"}

ListenQueued == \E f \in Range(queue[0]) : f.op = "listen"

\* The one starter that won the exchange of EventLoopThreadPool::start fills
\* loops_, and who listens is at or past that exchange.
PoolOK ==
    /\ \A t \in Starters : spc[t] = "fill" => pool_started_ /\ loops_ < Workers
    /\ \A t, u \in Starters : spc[t] = "fill" /\ spc[u] = "fill" => t = u
    /\ pool_started_ => loops_ = Workers \/ \E t \in Starters : spc[t] = "fill"
    /\ ~pool_started_ => loops_ = 0
    /\ listening \/ ListenQueued
         => pool_started_ \/ \E t \in Starters : spc[t] = "pool"

\* The life of the connections between the loops.
ConnInv == ConnTypeOK /\ ConnsOK /\ MapOK /\ QueuesOK

\* start(), the pool and the destructor.
StartInv == StartTypeOK /\ WorkersJoined /\ PoolOK

-----------------------------------------------------------------------------
(* Queues. *)

\* Queueing a functor that is not in the queue.
LEMMA AppendFunctor ==
  ASSUME NEW q \in Seq(Functors), NEW f \in Functors
  PROVE  /\ Append(q, f) \in Seq(Functors)
         /\ Range(Append(q, f)) = Range(q) \union {f}
         /\ Distinct(q) /\ (f.op = "listen" \/ f \notin Range(q)) => Distinct(Append(q, f))
<1>1. /\ Append(q, f) \in Seq(Functors) /\ Len(Append(q, f)) = Len(q) + 1 /\ Len(q) \in Nat
      /\ \A i \in 1..(Len(q) + 1) : Append(q, f)[i] = IF i <= Len(q) THEN q[i] ELSE f
  OBVIOUS
<1>2. /\ \A g : g \in Range(q) <=> \E i \in 1..Len(q) : q[i] = g
      /\ \A g : g \in Range(Append(q, f)) <=> \E i \in 1..(Len(q) + 1) : Append(q, f)[i] = g
  BY <1>1 DEF Range
<1>3. Range(Append(q, f)) = Range(q) \union {f}
  <2>1. ASSUME NEW i \in 1..(Len(q) + 1) PROVE Append(q, f)[i] \in Range(q) \union {f}
    BY <1>1, <1>2
  <2>2. ASSUME NEW i \in 1..Len(q) PROVE q[i] \in Range(Append(q, f))
    BY <1>1, <1>2
  <2>3. f \in Range(Append(q, f))
    <3>1. Len(q) + 1 \in 1..(Len(q) + 1) /\ Append(q, f)[Len(q) + 1] = f
      BY <1>1
    <3> QED  BY <1>2, <3>1
  <2> QED  BY <1>2, <2>1, <2>2, <2>3
<1>4. ASSUME Distinct(q), f.op = "listen" \/ f \notin Range(q) PROVE Distinct(Append(q, f))
  <2>1. f.op = "listen" \/ \A i \in 1..Len(q) : q[i] # f
    BY <1>2, <1>4
  <2> QED  BY <1>1, <1>4, <2>1 DEF Distinct
<1> QED  BY <1>1, <1>3, <1>4

\* A loop takes the first functor of its queue.
LEMMA TailFunctor ==
  ASSUME NEW q \in Seq(Functors), q # << >>
  PROVE  /\ Tail(q) \in Seq(Functors)
         /\ Head(q) \in Functors /\ Head(q) \in Range(q)
         /\ Range(Tail(q)) \subseteq Range(q)
         /\ Distinct(q) =>
              /\ Distinct(Tail(q))
              /\ Head(q).op # "listen" => Head(q) \notin Range(Tail(q))
<1>1. /\ Tail(q) \in Seq(Functors) /\ Len(Tail(q)) = Len(q) - 1 /\ Len(q) \in Nat
      /\ Head(q) = q[1] /\ Head(q) \in Functors /\ 1 \in 1..Len(q)
      /\ \A i \in 1..(Len(q) - 1) : i \in Nat /\ i + 1 \in 1..Len(q) /\ Tail(q)[i] = q[i + 1]
  OBVIOUS
<1>2. /\ \A g : g \in Range(q) <=> \E i \in 1..Len(q) : q[i] = g
      /\ \A g : g \in Range(Tail(q)) <=> \E i \in 1..(Len(q) - 1) : Tail(q)[i] = g
  <2>1. \A s \in Seq(Functors) : DOMAIN s = 1..Len(s)
    OBVIOUS
  <2>2. DOMAIN q = 1..Len(q) /\ DOMAIN Tail(q) = 1..(Len(q) - 1)
    BY <1>1, <2>1
  <2> QED  BY <2>2, Zenon DEF Range
<1>3. Head(q) \in Range(q) /\ Range(Tail(q)) \subseteq Range(q)
  <2>1. ASSUME NEW i \in 1..(Len(q) - 1) PROVE Tail(q)[i] \in Range(q)
    BY <1>1, <1>2
  <2> QED  BY <1>1, <1>2, <2>1
<1>4. ASSUME Distinct(q) PROVE Distinct(Tail(q))
  <2>1. ASSUME NEW i \in 1..(Len(q) - 1), NEW j \in 1..(Len(q) - 1),
               Tail(q)[i] = Tail(q)[j], Tail(q)[i].op # "listen"
        PROVE  i = j
    <3>1. /\ i + 1 \in 1..Len(q) /\ j + 1 \in 1..Len(q)
          /\ Tail(q)[i] = q[i + 1] /\ Tail(q)[j] = q[j + 1]
      BY <1>1
    <3>2. i + 1 = j + 1
      BY <1>4, <2>1, <3>1 DEF Distinct
    <3> QED  BY <3>2
  <2> QED  BY <1>1, <2>1 DEF Distinct
<1>5. ASSUME Distinct(q), Head(q).op # "listen" PROVE Head(q) \notin Range(Tail(q))
  <2>1. ASSUME NEW i \in 1..(Len(q) - 1) PROVE Tail(q)[i] # Head(q)
    <3>1. i + 1 \in 1..Len(q) /\ i + 1 # 1 /\ Tail(q)[i] = q[i + 1]
      BY <1>1
    <3> QED  BY <1>1, <1>5, <3>1 DEF Distinct
  <2> QED  BY <1>2, <2>1
<1> QED  BY <1>1, <1>3, <1>4, <1>5

\* The queue of a loop that ended.
LEMMA EmptyQueue == << >> \in Seq(Functors) /\ Range(<< >>) = {} /\ Distinct(<< >>)
  BY DEF Range, Distinct

\* Two functors of one kind for one connection are the same.
LEMMA SameFunctor ==
  ASSUME NEW f \in Functors, NEW g \in Functors, f.op = g.op, f.conn = g.conn
  PROVE  f = g
  BY DEF Functors

\* A functor's fields.
LEMMA FunctorType ==
  ASSUME NEW op \in ServerOps, NEW c \in Nat
  PROVE  Functor(op, c) \in Functors /\ Functor(op, c).op = op /\ Functor(op, c).conn = c
  BY DEF Functor, Functors

\* The functors of a queue are functors.
LEMMA RangeType ==
  ASSUME ConnTypeOK, NEW l \in Loops, NEW f \in Range(queue[l])
  PROVE  f \in Functors
<1>1. queue[l] \in Seq(Functors)  BY DEF ConnTypeOK
<1> QED  BY <1>1 DEF Range

-----------------------------------------------------------------------------
(* Connections. *)

\* The callbacks of a connection, as sequences.
LEMMA CallSequences ==
  /\ Append(<< >>, "up") = <<"up">> /\ Append(<<"up">>, "down") = <<"up", "down">>
  /\ <<"up">> # << >> /\ <<"up", "down">> # << >> /\ <<"up">> # <<"up", "down">>
  /\ << >> \in Calls /\ <<"up">> \in Calls /\ <<"up", "down">> \in Calls
<1>1. ASSUME NEW S, NEW a \in S, NEW b \in S PROVE Append(<<a>>, b) = <<a, b>>
  <2>1. Append(<<a>>, b) \in Seq(S) /\ <<a, b>> \in Seq(S)
    OBVIOUS
  <2>2. Len(Append(<<a>>, b)) = 2 /\ Len(<<a, b>>) = 2
    OBVIOUS
  <2>3. <<a>> \in Seq(S) /\ Len(<<a>>) = 1 /\ <<a>>[1] = a
    OBVIOUS
  <2>4. Append(<<a>>, b)[1] = a
    BY <2>3
  <2>5. Append(<<a>>, b)[Len(<<a>>) + 1] = b
    BY <2>3, AppendProperties
  <2>6. \A i \in 1..2 : Append(<<a>>, b)[i] = <<a, b>>[i]
    BY <2>3, <2>4, <2>5
  <2>7. \A s, t \in Seq(S) : Len(s) = Len(t) /\ (\A i \in 1..Len(s) : s[i] = t[i]) => s = t
    BY SeqEqual
  <2> QED  BY <2>1, <2>2, <2>6, <2>7
<1>2. \A a, b \in {"up", "down"} : Append(<<a>>, b) = <<a, b>>
  BY <1>1
<1>3. Append(<<"up">>, "down") = <<"up", "down">>
  BY <1>2, Zenon
<1>4. Append(<< >>, "up") = <<"up">>
  OBVIOUS
<1>5. <<"up">> # << >> /\ <<"up", "down">> # << >> /\ <<"up">> # <<"up", "down">>
  OBVIOUS
<1>6. << >> \in Calls /\ <<"up">> \in Calls /\ <<"up", "down">> \in Calls
  BY Zenon DEF Calls
<1> QED  BY <1>3, <1>4, <1>5, <1>6

\* What connectionEstablished does to a connection record.
LEMMA EstablishedRecord ==
  ASSUME NEW r \in ConnRecords, r.calls = << >>
  PROVE  /\ Established(r) \in ConnRecords /\ ConnOK(Established(r))
         /\ Established(r).loop = r.loop /\ Established(r).state_ = "Connected"
         /\ Established(r).calls = <<"up">>
<1>1. /\ Established(r) \in ConnRecords /\ Established(r).loop = r.loop
      /\ Established(r).state_ = "Connected" /\ Established(r).calls = <<"up">>
  <2>1. Append(r.calls, "up") = <<"up">>  BY CallSequences
  <2> QED  BY <2>1, CallSequences DEF Established, ConnRecords
<1> QED  BY <1>1, CallSequences DEF ConnOK

\* What handleClose does to it.
LEMMA ClosedRecord ==
  ASSUME NEW r \in ConnRecords, r.calls = <<"up">>
  PROVE  LET s == [r EXCEPT !.state_ = "Disconnected"] IN
         /\ s \in ConnRecords /\ ConnOK(s)
         /\ s.loop = r.loop /\ s.state_ = "Disconnected" /\ s.calls = <<"up">>
<1> DEFINE s == [r EXCEPT !.state_ = "Disconnected"]
<1>1. s \in ConnRecords /\ s.loop = r.loop /\ s.state_ = "Disconnected" /\ s.calls = <<"up">>
  BY DEF ConnRecords
<1> QED  BY <1>1, CallSequences DEF ConnOK

\* What connectionDestroyed does to it.
LEMMA DestroyedRecord ==
  ASSUME NEW r \in ConnRecords, r.calls = <<"up">>
  PROVE  /\ Destroyed(r) \in ConnRecords /\ ConnOK(Destroyed(r))
         /\ Destroyed(r).loop = r.loop /\ Destroyed(r).state_ = "Disconnected"
         /\ Destroyed(r).calls = <<"up", "down">>
<1>1. /\ Destroyed(r) \in ConnRecords /\ Destroyed(r).loop = r.loop
      /\ Destroyed(r).state_ = "Disconnected" /\ Destroyed(r).calls = <<"up", "down">>
  <2>1. Append(r.calls, "down") = <<"up", "down">>  BY CallSequences
  <2> QED  BY <2>1, CallSequences DEF Destroyed, ConnRecords
<1> QED  BY <1>1, CallSequences DEF ConnOK

\* A new connection.
LEMMA NewRecord ==
  ASSUME NEW l \in Loops
  PROVE  /\ NewConn(l) \in ConnRecords /\ (l # 0 => ConnOK(NewConn(l)))
         /\ NewConn(l).loop = l /\ NewConn(l).state_ = "Connecting" /\ NewConn(l).calls = << >>
  BY CallSequences DEF NewConn, ConnRecords, ConnOK

-----------------------------------------------------------------------------
(* The life of the connections. *)

\* A functor still finds what it expects after a step that changes other
\* connections than its own.
LEMMA DueKept ==
  ASSUME ConnTypeOK, NEW l \in Loops, NEW f \in Functors, Due(l, f),
         server' = server \/ (server # "gone" /\ server' # "gone"),
         Len(conns') \in Nat, Len(conns) <= Len(conns'),
         f.conn \in 1..Len(conns) =>
           /\ conns'[f.conn] = conns[f.conn]
           /\ f.conn \in connections_' <=> f.conn \in connections_
  PROVE  Due(l, f)'
<1>1. Len(conns) \in Nat  BY DEF ConnTypeOK
<1>2. f.conn \in 1..Len(conns) => f.conn \in 1..Len(conns')  BY <1>1
<1> QED  BY <1>2 DEF Due

\* Steps that leave the connections, the map and the queues alone.
LEMMA ConnFrame ==
  ASSUME ConnInv, UNCHANGED <<conns, connections_, queue>>,
         server' = server \/ (server # "gone" /\ server' # "gone")
  PROVE  ConnInv'
<1> USE DEF ConnInv
<1>1. ConnTypeOK' /\ ConnsOK'
  BY DEF ConnTypeOK, ConnsOK
<1>2. MapOK'
  BY DEF MapOK
<1>3. Len(conns) \in Nat
  BY DEF ConnTypeOK
<1>4. ASSUME NEW l \in Loops, NEW f \in Range(queue[l]) PROVE Due(l, f)'
  <2>1. f \in Functors /\ Due(l, f)
    BY RangeType DEF QueuesOK
  <2> QED  BY <1>3, <2>1, DueKept
<1>5. QueuesOK'
  BY <1>4 DEF QueuesOK
<1> QED  BY <1>1, <1>2, <1>5

\* What holds when a functor at the head of a loop's queue runs.
LEMMA HeadDue ==
  ASSUME ConnInv, NEW l \in Loops, queue[l] # << >>
  PROVE  /\ Head(queue[l]) \in Functors /\ Due(l, Head(queue[l]))
         /\ Tail(queue[l]) \in Seq(Functors) /\ Distinct(Tail(queue[l]))
         /\ \A f \in Range(Tail(queue[l])) :
              f \in Functors /\ Due(l, f) /\ (f = Head(queue[l]) => f.op = "listen")
<1>1. queue[l] \in Seq(Functors) /\ Distinct(queue[l]) /\ \A f \in Range(queue[l]) : Due(l, f)
  BY DEF ConnInv, ConnTypeOK, QueuesOK
<1>2. \A f \in Range(queue[l]) : f \in Functors
  BY RangeType DEF ConnInv
<1> QED  BY <1>1, <1>2, TailFunctor

\* The other queues.
LEMMA OthersDue ==
  ASSUME ConnInv, NEW l \in Loops
  PROVE  /\ queue[l] \in Seq(Functors) /\ Distinct(queue[l])
         /\ \A f \in Range(queue[l]) : f \in Functors /\ Due(l, f)
  BY RangeType DEF ConnInv, ConnTypeOK, QueuesOK

\* A functor leaves its queue and touches no connection.
LEMMA TakeFunctor ==
  ASSUME ConnInv, NEW l \in Loops, queue[l] # << >>,
         queue' = [queue EXCEPT ![l] = Tail(@)],
         UNCHANGED <<conns, connections_, server>>
  PROVE  ConnInv'
<1>0. queue \in [Loops -> Seq(Functors)]  BY DEF ConnInv, ConnTypeOK
<1>1. queue'[l] = Tail(queue[l]) /\ \A k \in Loops \ {l} : queue'[k] = queue[k]
  BY <1>0
<1>2. queue' \in [Loops -> Seq(Functors)]
  BY <1>0, HeadDue
<1>3. ConnTypeOK' /\ ConnsOK' /\ MapOK'
  BY <1>2 DEF ConnInv, ConnTypeOK, ConnsOK, MapOK
<1>4. ASSUME NEW k \in Loops PROVE Distinct(queue'[k]) /\ \A f \in Range(queue'[k]) : Due(k, f)'
  <2>1. Distinct(queue'[k]) /\ \A f \in Range(queue'[k]) : f \in Functors /\ Due(k, f)
    BY <1>1, HeadDue, OthersDue
  <2>2. Len(conns) \in Nat  BY DEF ConnInv, ConnTypeOK
  <2>3. \A f \in Range(queue'[k]) : Due(k, f)'
    BY <2>1, <2>2, DueKept DEF ConnInv
  <2> QED  BY <2>1, <2>3
<1> QED  BY <1>3, <1>4 DEF ConnInv, QueuesOK

\* The loops that getNextLoop hands out.
LEMMA NextLoop ==
  ASSUME StartTypeOK, NEW n \in Views
  PROVE  /\ n \in 0..Workers
         /\ GetNextLoop(n) \in Loops
         /\ n # 0 => GetNextLoop(n) # 0
<1>1. Workers \in Nat  BY WorkersAssumption
<1>2. loops_ \in 0..Workers /\ next_ \in Nat  BY DEF StartTypeOK
<1>3. n \in 0..Workers  BY <1>1, <1>2 DEF Views
<1>4. n # 0 => (next_ % n) \in 0..(n - 1)
  BY <1>1, <1>2, <1>3
<1>5. n # 0 => (next_ % n) + 1 \in 1..Workers
  BY <1>1, <1>3, <1>4
<1> QED  BY <1>1, <1>3, <1>5 DEF GetNextLoop, Loops

\* The record that newConnection adds.
Made(l) == IF l = 0 THEN Established(NewConn(l)) ELSE NewConn(l)

\* newConnection keeps the invariant on connections.
LEMMA NewConnectionStep ==
  ASSUME ConnInv, StartTypeOK, NewConnection
  PROVE  ConnInv'
<1>0. PICK c \in Nat : c = Len(conns) + 1
  BY DEF ConnInv, ConnTypeOK
<1> DEFINE f == Functor("established", c)
<1>1. PICK n \in Views :
        IF GetNextLoop(n) = 0
          THEN conns' = Append(conns, Established(NewConn(GetNextLoop(n)))) /\ UNCHANGED queue
          ELSE /\ conns' = Append(conns, NewConn(GetNextLoop(n)))
               /\ queue' = [queue EXCEPT ![GetNextLoop(n)] = Append(@, f)]
  BY <1>0 DEF NewConnection
<1>2. PICK l \in Loops :
        /\ conns' = Append(conns, Made(l))
        /\ queue' = IF l = 0 THEN queue ELSE [queue EXCEPT ![l] = Append(@, f)]
  BY <1>1, NextLoop DEF Made
<1>3. /\ connections_' = connections_ \union {c} /\ server' = server /\ server = "alive"
      /\ Len(conns) < MaxConns
  BY <1>0 DEF NewConnection, Accepts, lifeVars
<1>4. /\ Made(l) \in ConnRecords /\ ConnOK(Made(l)) /\ Made(l).loop = l
      /\ Made(l).state_ # "Disconnected" /\ Made(l).calls # <<"up", "down">>
      /\ l # 0 => Made(l).state_ = "Connecting"
  BY NewRecord, EstablishedRecord, CallSequences DEF Made
<1>5. /\ conns \in Seq(ConnRecords) /\ Len(conns) \in Nat /\ connections_ \subseteq 1..Len(conns)
      /\ queue \in [Loops -> Seq(Functors)]
  BY DEF ConnInv, ConnTypeOK
<1> HIDE DEF f
<1>6. /\ conns' \in Seq(ConnRecords) /\ Len(conns') = c
      /\ \A i \in 1..Len(conns) : conns'[i] = conns[i]
      /\ conns'[c] = Made(l)
  BY <1>0, <1>2, <1>4, <1>5
<1>7. f \in Functors /\ f.op = "established" /\ f.conn = c
  BY <1>5, FunctorType DEF f, ServerOps
<1>8. c \notin 1..Len(conns) /\ 1..c = 1..Len(conns) \union {c} /\ c \in Nat /\ MaxConns \in Nat
      /\ Len(conns) <= c /\ (Len(conns) < MaxConns => c <= MaxConns)
  BY <1>0, <1>5, MaxConnsAssumption
<1>9. ConnsOK' /\ MapOK'
  BY <1>3, <1>4, <1>5, <1>6, <1>8 DEF ConnInv, ConnsOK, MapOK
<1>10. ASSUME NEW k \in Loops, NEW g \in Range(queue[k]) PROVE Due(k, g)' /\ g # f
  <2>1. g \in Functors /\ Due(k, g)
    BY OthersDue
  <2>2. g # f
    BY <1>7, <1>8, <2>1 DEF Due
  <2>3. g.conn \in 1..Len(conns) => g.conn \in connections_' <=> g.conn \in connections_
    BY <1>3, <1>8
  <2> QED  BY <1>3, <1>6, <1>8, <2>1, <2>2, <2>3, DueKept DEF ConnInv
<1>11. l # 0 => Due(l, f)'
  <2>1. l # 0 => f.conn \in 1..Len(conns') /\ conns'[f.conn].loop = l
                 /\ conns'[f.conn].state_ = "Connecting"
    BY <1>4, <1>6, <1>7, <1>8
  <2> QED  BY <1>7, <2>1 DEF Due
<1>12. ASSUME NEW k \in Loops
       PROVE  /\ queue'[k] \in Seq(Functors) /\ Distinct(queue'[k])
              /\ \A g \in Range(queue'[k]) : Due(k, g)'
  <2>1. CASE l = 0 \/ k # l
    <3>1. queue'[k] = queue[k]  BY <1>2, <1>5, <2>1
    <3> QED  BY <3>1, <1>10, OthersDue
  <2>2. CASE l # 0 /\ k = l
    <3>1. queue'[k] = Append(queue[k], f)  BY <1>2, <1>5, <2>2
    <3>2. queue[k] \in Seq(Functors) /\ Distinct(queue[k]) /\ f \notin Range(queue[k])
      BY <1>10, OthersDue
    <3>3. /\ Append(queue[k], f) \in Seq(Functors) /\ Distinct(Append(queue[k], f))
          /\ Range(Append(queue[k], f)) = Range(queue[k]) \union {f}
      BY <1>7, <3>2, AppendFunctor
    <3> QED  BY <1>10, <1>11, <2>2, <3>1, <3>3
  <2> QED  BY <2>1, <2>2
<1>13. queue' \in [Loops -> Seq(Functors)]
  <2>1. queue' = [k \in Loops |-> queue'[k]]
    BY <1>2, <1>5
  <2> QED  BY <1>12, <2>1
<1> QED
  BY <1>3, <1>6, <1>5, <1>8, <1>9, <1>12, <1>13 DEF ConnInv, ConnTypeOK, QueuesOK

\* One record of the connections is replaced.
LEMMA ExceptRecord ==
  ASSUME NEW s \in Seq(ConnRecords), NEW c \in 1..Len(s), NEW r \in ConnRecords
  PROVE  /\ [s EXCEPT ![c] = r] \in Seq(ConnRecords) /\ Len([s EXCEPT ![c] = r]) = Len(s)
         /\ [s EXCEPT ![c] = r][c] = r
         /\ \A i \in 1..Len(s) \ {c} : [s EXCEPT ![c] = r][i] = s[i]
  BY ExceptSeq

\* A step of one connection, which may leave the map.
LEMMA OneConnection ==
  ASSUME ConnInv, NEW c \in 1..Len(conns),
         Len(conns') = Len(conns), conns' \in Seq(ConnRecords),
         \A i \in 1..Len(conns) \ {c} : conns'[i] = conns[i],
         ConnOK(conns'[c]),
         connections_' = connections_ \/ connections_' = connections_ \ {c},
         server' = server,
         conns'[c].state_ # "Disconnected" /\ server # "gone" => c \in connections_',
         conns'[c].calls = <<"up", "down">> => c \notin connections_'
  PROVE  /\ ConnsOK' /\ MapOK' /\ connections_' \subseteq 1..Len(conns')
         /\ \A k \in Loops : \A g \in Functors :
              /\ Due(k, g)
              /\ g.op = "listen" \/ g.conn # c \/ (g.op = "remove" /\ server = "gone")
              => Due(k, g)'
<1>1. Len(conns) \in Nat /\ connections_ \subseteq 1..Len(conns)  BY DEF ConnInv, ConnTypeOK
<1>2. ConnsOK' /\ MapOK' /\ connections_' \subseteq 1..Len(conns')
  BY <1>1 DEF ConnInv, ConnsOK, MapOK
<1>3. ASSUME NEW k \in Loops, NEW g \in Functors, Due(k, g),
             g.op = "listen" \/ g.conn # c \/ (g.op = "remove" /\ server = "gone")
      PROVE  Due(k, g)'
  <2>1. CASE g.conn # c
    BY <1>1, <1>3, <2>1, DueKept DEF ConnInv
  <2>2. CASE g.op = "listen"
    BY <1>3, <2>2 DEF Due
  <2>3. CASE g.op = "remove" /\ server = "gone"
    BY <1>1, <1>3, <2>3 DEF Due
  <2> QED  BY <1>3, <2>1, <2>2, <2>3
<1> QED  BY <1>2, <1>3

\* The functor of a connection's callback leaves its queue with the step.
LEMMA CallbackStep ==
  ASSUME ConnInv, NEW l \in Loops, queue[l] # << >>,
         Head(queue[l]).op \in {"established", "destroyed"},
         queue' = [queue EXCEPT ![l] = Tail(@)],
         NEW c \in 1..Len(conns), c = Head(queue[l]).conn,
         Len(conns') = Len(conns), conns' \in Seq(ConnRecords),
         \A i \in 1..Len(conns) \ {c} : conns'[i] = conns[i],
         ConnOK(conns'[c]),
         UNCHANGED <<connections_, server>>,
         conns'[c].state_ # "Disconnected" /\ server # "gone" => c \in connections_,
         conns'[c].calls = <<"up", "down">> => c \notin connections_,
         \* no other functor of c expects it as it was
         \A k \in Loops : \A g \in Functors :
            /\ Due(k, g) /\ g.conn = c /\ g.op # "listen"
            /\ ~(g.op = "remove" /\ server = "gone")
            => k = l /\ g.op = Head(queue[l]).op
  PROVE  ConnInv'
<1>0. queue \in [Loops -> Seq(Functors)] /\ conns \in Seq(ConnRecords) /\ Len(conns) <= MaxConns
  BY DEF ConnInv, ConnTypeOK
<1>2. queue'[l] = Tail(queue[l]) /\ \A k \in Loops \ {l} : queue'[k] = queue[k]
  BY <1>0
<1>3. queue' \in [Loops -> Seq(Functors)]
  BY <1>0, HeadDue
<1>4. /\ ConnsOK' /\ MapOK' /\ connections_' \subseteq 1..Len(conns')
      /\ \A k \in Loops : \A g \in Functors :
           /\ Due(k, g)
           /\ g.op = "listen" \/ g.conn # c \/ (g.op = "remove" /\ server = "gone")
           => Due(k, g)'
  BY OneConnection
<1>5. ASSUME NEW k \in Loops
      PROVE  Distinct(queue'[k]) /\ \A g \in Range(queue'[k]) : Due(k, g)'
  <2>1. Distinct(queue'[k]) /\ \A g \in Range(queue'[k]) : g \in Functors /\ Due(k, g)
    BY <1>2, HeadDue, OthersDue
  <2>2. ASSUME NEW g \in Range(queue'[k])
        PROVE  g.op = "listen" \/ g.conn # c \/ (g.op = "remove" /\ server = "gone")
    <3> SUFFICES ASSUME g.op # "listen", g.conn = c, ~(g.op = "remove" /\ server = "gone")
                 PROVE  FALSE
      OBVIOUS
    <3>1. k = l /\ g.op = Head(queue[l]).op
      BY <2>1
    <3>2. g \in Functors /\ Head(queue[l]) \in Functors
      BY <2>1, HeadDue
    <3>3. g = Head(queue[l])
      BY <3>1, <3>2, SameFunctor
    <3>4. g \in Range(Tail(queue[l]))
      BY <1>2, <3>1
    <3> QED  BY <3>3, <3>4, HeadDue
  <2> QED  BY <1>4, <2>1, <2>2
<1> QED  BY <1>0, <1>3, <1>4, <1>5 DEF ConnInv, ConnTypeOK, QueuesOK

\* connectionEstablished finds the state it checks, and keeps the invariant.
LEMMA EstablishedStep ==
  ASSUME ConnInv, NEW l \in Loops, RunEstablished(l)
  PROVE  /\ ConnInv' /\ crash' = crash
         /\ \E c \in 1..Len(conns) : /\ conns[c].loop = l /\ conns[c].state_ = "Connecting"
                                     /\ conns' = [conns EXCEPT ![c] = Established(@)]
<1>0. queue[l] # << >> /\ Head(queue[l]).op = "established"
      /\ queue' = [queue EXCEPT ![l] = Tail(@)] /\ UNCHANGED <<connections_, server>>
  BY DEF RunEstablished, Pop, lifeVars
<1>1. Head(queue[l]) \in Functors /\ Due(l, Head(queue[l]))
  BY <1>0, HeadDue
<1>2. PICK c \in 1..Len(conns) : c = Head(queue[l]).conn
  BY <1>0, <1>1 DEF Due
<1>3. conns[c].loop = l /\ conns[c].state_ = "Connecting"
  BY <1>0, <1>1, <1>2 DEF Due
<1>4. conns' = [conns EXCEPT ![c] = Established(@)] /\ crash' = crash
  BY <1>2, <1>3 DEF RunEstablished
<1>5. conns \in Seq(ConnRecords) /\ conns[c] \in ConnRecords /\ ConnOK(conns[c])
  BY DEF ConnInv, ConnTypeOK, ConnsOK
<1>6. conns[c].calls = << >>
  BY <1>3, <1>5 DEF ConnOK
<1>7. /\ Established(conns[c]) \in ConnRecords /\ ConnOK(Established(conns[c]))
      /\ Established(conns[c]).state_ = "Connected" /\ Established(conns[c]).calls = <<"up">>
  BY <1>5, <1>6, EstablishedRecord
<1>8. /\ conns' \in Seq(ConnRecords) /\ Len(conns') = Len(conns)
      /\ conns'[c] = Established(conns[c])
      /\ \A i \in 1..Len(conns) \ {c} : conns'[i] = conns[i]
  BY <1>4, <1>5, <1>7, ExceptRecord
<1>9. server # "gone" => c \in connections_
  BY <1>3 DEF ConnInv, MapOK
<1>10. \A k \in Loops : \A g \in Functors :
         /\ Due(k, g) /\ g.conn = c /\ g.op # "listen"
         /\ ~(g.op = "remove" /\ server = "gone")
         => k = l /\ g.op = Head(queue[l]).op
  BY <1>0, <1>3 DEF Due, Functors, ServerOps
<1>11. /\ Head(queue[l]).op \in {"established", "destroyed"}
       /\ ConnOK(conns'[c])
       /\ conns'[c].state_ # "Disconnected" /\ server # "gone" => c \in connections_
       /\ conns'[c].calls = <<"up", "down">> => c \notin connections_
  BY <1>0, <1>7, <1>8, <1>9, CallSequences
<1>12. ConnInv'
  BY <1>0, <1>2, <1>8, <1>10, <1>11, CallbackStep
<1> QED  BY <1>3, <1>4, <1>12

\* connectionDestroyed runs in the connection's loop, and keeps the invariant.
LEMMA DestroyedStep ==
  ASSUME ConnInv, NEW l \in Loops, RunDestroyed(l)
  PROVE  /\ ConnInv' /\ crash' = crash
         /\ \E c \in 1..Len(conns) : /\ conns[c].loop = l /\ conns[c].state_ = "Disconnected"
                                     /\ conns[c].calls = <<"up">>
                                     /\ conns' = [conns EXCEPT ![c] = Destroyed(@)]
<1>0. queue[l] # << >> /\ Head(queue[l]).op = "destroyed"
      /\ queue' = [queue EXCEPT ![l] = Tail(@)] /\ UNCHANGED <<connections_, server>>
  BY DEF RunDestroyed, Pop, lifeVars
<1>1. Head(queue[l]) \in Functors /\ Due(l, Head(queue[l]))
  BY <1>0, HeadDue
<1>2. PICK c \in 1..Len(conns) : c = Head(queue[l]).conn
  BY <1>0, <1>1 DEF Due
<1>3. conns[c].loop = l /\ conns[c].state_ = "Disconnected" /\ conns[c].calls = <<"up">>
      /\ c \notin connections_
  BY <1>0, <1>1, <1>2 DEF Due
<1>4. conns' = [conns EXCEPT ![c] = Destroyed(@)] /\ crash' = crash
  BY <1>2, <1>3 DEF RunDestroyed
<1>5. conns \in Seq(ConnRecords) /\ conns[c] \in ConnRecords
  BY DEF ConnInv, ConnTypeOK
<1>7. /\ Destroyed(conns[c]) \in ConnRecords /\ ConnOK(Destroyed(conns[c]))
      /\ Destroyed(conns[c]).state_ = "Disconnected"
  BY <1>3, <1>5, DestroyedRecord
<1>8. /\ conns' \in Seq(ConnRecords) /\ Len(conns') = Len(conns)
      /\ conns'[c] = Destroyed(conns[c])
      /\ \A i \in 1..Len(conns) \ {c} : conns'[i] = conns[i]
  BY <1>4, <1>5, <1>7, ExceptRecord
<1>10. \A k \in Loops : \A g \in Functors :
         /\ Due(k, g) /\ g.conn = c /\ g.op # "listen"
         /\ ~(g.op = "remove" /\ server = "gone")
         => k = l /\ g.op = Head(queue[l]).op
  BY <1>0, <1>3 DEF Due, Functors, ServerOps
<1>11. /\ Head(queue[l]).op \in {"established", "destroyed"}
       /\ ConnOK(conns'[c])
       /\ conns'[c].state_ # "Disconnected" /\ server # "gone" => c \in connections_
       /\ conns'[c].calls = <<"up", "down">> => c \notin connections_
  BY <1>0, <1>3, <1>7, <1>8
<1>12. ConnInv'
  BY <1>0, <1>2, <1>8, <1>10, <1>11, CallbackStep
<1> QED  BY <1>3, <1>4, <1>12

\* A functor that is not yet there is queued in a loop.
LEMMA QueueFunctor ==
  ASSUME ConnTypeOK', NEW l \in Loops, NEW f \in Functors,
         queue \in [Loops -> Seq(Functors)],
         queue' = [queue EXCEPT ![l] = Append(@, f)],
         \A k \in Loops : Distinct(queue[k]) /\ \A g \in Range(queue[k]) : Due(k, g)',
         f.op = "listen" \/ f \notin Range(queue[l]), Due(l, f)'
  PROVE  QueuesOK'
<1>1. ASSUME NEW k \in Loops
      PROVE  Distinct(queue'[k]) /\ \A g \in Range(queue'[k]) : Due(k, g)'
  <2>1. CASE k # l
    <3>1. queue'[k] = queue[k]  BY <2>1
    <3> QED  BY <3>1
  <2>2. CASE k = l
    <3>1. queue'[k] = Append(queue[k], f)  BY <2>2
    <3>2. queue[k] \in Seq(Functors)  OBVIOUS
    <3>3. /\ Distinct(Append(queue[k], f))
          /\ Range(Append(queue[k], f)) = Range(queue[k]) \union {f}
      BY <2>2, <3>2, AppendFunctor
    <3> QED  BY <2>2, <3>1, <3>3
  <2> QED  BY <2>1, <2>2
<1> QED  BY <1>1 DEF QueuesOK

\* Queueing keeps the type of the queues.
LEMMA QueueType ==
  ASSUME NEW q \in [Loops -> Seq(Functors)], NEW l \in Loops, NEW f \in Functors
  PROVE  [q EXCEPT ![l] = Append(@, f)] \in [Loops -> Seq(Functors)]
<1>1. Append(q[l], f) \in Seq(Functors)  BY AppendFunctor
<1> QED  BY <1>1

\* handleClose and removeConnection while the server exists: the connection is
\* removed at once in the base loop, else its removal is queued there.
LEMMA HandleCloseStep ==
  ASSUME ConnInv, NEW c \in Conns, HandleClose(c), server # "gone"
  PROVE  /\ ConnInv' /\ crash' = crash
         /\ c \in 1..Len(conns) /\ conns[c].state_ = "Connected"
         /\ conns' = [conns EXCEPT ![c].state_ = "Disconnected"]
<1>0. Len(conns) \in Nat /\ queue \in [Loops -> Seq(Functors)] /\ 0 \in Loops
      /\ Len(conns) <= MaxConns /\ connections_ \subseteq 1..Len(conns)
  BY WorkersAssumption DEF ConnInv, ConnTypeOK, Loops
<1>1. c \in 1..Len(conns)
  BY <1>0 DEF HandleClose, Conns
<1>2. conns[c].state_ = "Connected" /\ conns' = [conns EXCEPT ![c].state_ = "Disconnected"]
      /\ crash' = crash /\ server' = server
  BY DEF HandleClose, lifeVars
<1>3. conns \in Seq(ConnRecords) /\ conns[c] \in ConnRecords /\ ConnOK(conns[c])
  BY <1>1 DEF ConnInv, ConnTypeOK, ConnsOK
<1>4. conns[c].calls = <<"up">>
  BY <1>2, <1>3 DEF ConnOK
<1> DEFINE r == [conns[c] EXCEPT !.state_ = "Disconnected"]
<1>5. /\ r \in ConnRecords /\ ConnOK(r)
      /\ r.loop = conns[c].loop /\ r.state_ = "Disconnected" /\ r.calls = <<"up">>
  BY <1>3, <1>4, ClosedRecord
<1>6. conns' = [conns EXCEPT ![c] = r]
  BY <1>2
<1> HIDE DEF r
<1>7. /\ conns' \in Seq(ConnRecords) /\ Len(conns') = Len(conns) /\ conns'[c] = r
      /\ \A i \in 1..Len(conns) \ {c} : conns'[i] = conns[i]
  BY <1>1, <1>3, <1>5, <1>6, ExceptRecord
<1>8. PICK op \in {"destroyed", "remove"} :
        /\ queue' = [queue EXCEPT ![0] = Append(@, Functor(op, c))]
        /\ op = "destroyed" => conns[c].loop = 0 /\ connections_' = connections_ \ {c}
        /\ op = "remove" => conns[c].loop # 0 /\ connections_' = connections_
  <2>1. CASE conns[c].loop = 0
    <3>1. connections_' = connections_ \ {c}
          /\ queue' = [queue EXCEPT ![0] = Append(@, Functor("destroyed", c))]
      BY <2>1 DEF HandleClose, RemoveConnectionInLoop
    <3> QED  BY <2>1, <3>1
  <2>2. CASE conns[c].loop # 0
    <3>1. connections_' = connections_
          /\ queue' = [queue EXCEPT ![0] = Append(@, Functor("remove", c))]
      BY <2>2 DEF HandleClose
    <3> QED  BY <2>2, <3>1
  <2> QED  BY <2>1, <2>2
<1>9. /\ ConnsOK' /\ MapOK' /\ connections_' \subseteq 1..Len(conns')
      /\ \A k \in Loops : \A g \in Functors :
           /\ Due(k, g)
           /\ g.op = "listen" \/ g.conn # c \/ (g.op = "remove" /\ server = "gone")
           => Due(k, g)'
  <2>1. /\ ConnOK(conns'[c]) /\ conns'[c].state_ = "Disconnected"
        /\ conns'[c].calls # <<"up", "down">>
    BY <1>5, <1>7, CallSequences
  <2>2. connections_' = connections_ \/ connections_' = connections_ \ {c}
    BY <1>8
  <2> QED  BY <1>1, <1>2, <1>7, <2>1, <2>2, OneConnection
<1>10. ASSUME NEW k \in Loops, NEW g \in Functors, Due(k, g)
       PROVE  g.op = "listen" \/ g.conn # c
  BY <1>2, <1>10 DEF Due, Functors, ServerOps
<1>11. Functor(op, c) \in Functors /\ Functor(op, c).op = op /\ Functor(op, c).conn = c
  <2>1. op \in ServerOps /\ c \in Nat  BY <1>0, <1>1 DEF ServerOps
  <2> QED  BY <2>1, FunctorType
<1>12. ConnTypeOK'
  <2>1. queue' \in [Loops -> Seq(Functors)]
    BY <1>0, <1>8, <1>11, QueueType
  <2> QED  BY <1>0, <1>7, <1>9, <2>1 DEF ConnTypeOK
<1>13. ASSUME NEW k \in Loops
       PROVE  Distinct(queue[k]) /\ \A g \in Range(queue[k]) : Due(k, g)' /\ g # Functor(op, c)
  <2>1. Distinct(queue[k]) /\ \A g \in Range(queue[k]) : g \in Functors /\ Due(k, g)
    BY OthersDue
  <2>2. ASSUME NEW g \in Range(queue[k]) PROVE g.op = "listen" \/ g.conn # c
    BY <1>10, <2>1
  <2> QED  BY <1>9, <1>11, <2>1, <2>2
<1>14. Due(0, Functor(op, c))'
  <2>1. /\ c \in 1..Len(conns') /\ conns'[c].loop = conns[c].loop
        /\ conns'[c].state_ = "Disconnected" /\ conns'[c].calls = <<"up">>
    BY <1>1, <1>5, <1>7
  <2>2. op = "remove" => c \in connections_'
    BY <1>1, <1>2, <1>8 DEF ConnInv, MapOK
  <2>3. op = "destroyed" => c \notin connections_'
    BY <1>8
  <2> QED  BY <1>8, <1>11, <2>1, <2>2, <2>3 DEF Due
<1>15. QueuesOK'
  BY <1>0, <1>8, <1>11, <1>12, <1>13, <1>14, QueueFunctor
<1> QED  BY <1>1, <1>2, <1>9, <1>12, <1>15 DEF ConnInv

\* removeConnectionInLoop in the base loop while the server exists: the
\* connection leaves the map and its connectionDestroyed is queued in its loop.
LEMMA RemoveStep ==
  ASSUME ConnInv, RunRemove, server # "gone"
  PROVE  ConnInv' /\ UNCHANGED <<conns, crash>>
<1>0. Len(conns) \in Nat /\ queue \in [Loops -> Seq(Functors)] /\ 0 \in Loops
      /\ connections_ \subseteq 1..Len(conns) /\ conns \in Seq(ConnRecords)
  BY WorkersAssumption DEF ConnInv, ConnTypeOK, Loops
<1>1. queue[0] # << >> /\ Head(queue[0]).op = "remove" /\ UNCHANGED <<conns, server, crash>>
  BY DEF RunRemove, Pop, lifeVars
<1>2. Head(queue[0]) \in Functors /\ Due(0, Head(queue[0]))
  BY <1>0, <1>1, HeadDue
<1>3. PICK c \in 1..Len(conns) : c = Head(queue[0]).conn
  BY <1>1, <1>2 DEF Due
<1>4. /\ conns[c].loop # 0 /\ conns[c].state_ = "Disconnected" /\ conns[c].calls = <<"up">>
      /\ c \in connections_
  BY <1>1, <1>2, <1>3 DEF Due
<1>5. PICK l \in Loops : l = conns[c].loop
  <2>1. conns[c] \in ConnRecords  BY <1>0
  <2> QED  BY <2>1 DEF ConnRecords
<1> DEFINE rest == [queue EXCEPT ![0] = Tail(@)]
           f == Functor("destroyed", c)
<1>6. /\ connections_' = connections_ \ {c}
      /\ queue' = [rest EXCEPT ![l] = Append(@, f)]
  <2>1. RemoveConnectionInLoop(Head(queue[0]).conn, rest)
    BY DEF RunRemove
  <2>2. RemoveConnectionInLoop(c, rest)
    BY <1>3, <2>1
  <2> QED  BY <1>5, <2>2 DEF RemoveConnectionInLoop
<1>7. /\ rest \in [Loops -> Seq(Functors)] /\ rest[0] = Tail(queue[0])
      /\ \A k \in Loops \ {0} : rest[k] = queue[k]
  BY <1>0, <1>1, HeadDue
<1>8. f \in Functors /\ f.op = "destroyed" /\ f.conn = c
  BY <1>0, FunctorType DEF ServerOps
<1> HIDE DEF rest, f
<1>9. queue' \in [Loops -> Seq(Functors)]
  BY <1>6, <1>7, <1>8, QueueType
<1>10. ConnTypeOK' /\ ConnsOK' /\ MapOK'
  <2>1. ConnTypeOK' /\ ConnsOK'
    BY <1>1, <1>6, <1>9 DEF ConnInv, ConnTypeOK, ConnsOK
  <2>2. MapOK'
    BY <1>1, <1>4, <1>6 DEF ConnInv, MapOK
  <2> QED  BY <2>1, <2>2
<1>11. ASSUME NEW k \in Loops
       PROVE  /\ Distinct(rest[k])
              /\ \A g \in Range(rest[k]) : g \in Functors /\ Due(k, g)' /\ g # f
  <2>1. Distinct(rest[k])
    BY <1>1, <1>7, HeadDue, OthersDue
  <2>2. ASSUME NEW g \in Range(rest[k])
        PROVE  g \in Functors /\ Due(k, g) /\ (k = 0 /\ g = Head(queue[0]) => g.op = "listen")
    BY <1>1, <1>7, <2>2, HeadDue, OthersDue
  <2>3. ASSUME NEW g \in Range(rest[k]) PROVE g.op = "listen" \/ g.conn # c
    <3> SUFFICES ASSUME g.op # "listen", g.conn = c PROVE FALSE
      OBVIOUS
    <3>1. g \in Functors /\ Due(k, g)
      BY <2>2
    <3>2. g.op = "remove" /\ k = 0
      BY <1>4, <3>1 DEF Due, Functors, ServerOps
    <3>3. g = Head(queue[0])
      BY <1>1, <1>2, <1>3, <3>1, <3>2, SameFunctor
    <3> QED  BY <2>2, <3>2, <3>3
  <2>4. ASSUME NEW g \in Range(rest[k]) PROVE Due(k, g)'
    <3>1. g \in Functors /\ Due(k, g) /\ (g.op = "listen" \/ g.conn # c)
      BY <2>2, <2>3
    <3>2. CASE g.op = "listen"
      BY <3>1, <3>2 DEF Due
    <3>3. CASE g.conn # c
      BY <1>0, <1>1, <1>6, <3>1, <3>3, DueKept DEF ConnInv
    <3> QED  BY <3>1, <3>2, <3>3
  <2>5. ASSUME NEW g \in Range(rest[k]) PROVE g # f
    BY <1>8, <2>3
  <2> QED  BY <2>1, <2>2, <2>4, <2>5
<1>12. Due(l, f)'
  BY <1>1, <1>4, <1>5, <1>6, <1>8 DEF Due
<1>13. QueuesOK'
  <2>1. ASSUME NEW k \in Loops
        PROVE  Distinct(queue'[k]) /\ \A g \in Range(queue'[k]) : Due(k, g)'
    <3>1. CASE k # l
      <4>1. queue'[k] = rest[k]  BY <1>6, <1>7, <3>1
      <4> QED  BY <1>11, <4>1
    <3>2. CASE k = l
      <4>1. queue'[k] = Append(rest[k], f)  BY <1>6, <1>7, <3>2
      <4>2. rest[k] \in Seq(Functors) /\ Distinct(rest[k]) /\ f \notin Range(rest[k])
        BY <1>7, <1>11
      <4>3. /\ Distinct(Append(rest[k], f))
            /\ Range(Append(rest[k], f)) = Range(rest[k]) \union {f}
        BY <1>8, <4>2, AppendFunctor
      <4> QED  BY <1>11, <1>12, <3>2, <4>1, <4>3
    <3> QED  BY <3>1, <3>2
  <2> QED  BY <2>1 DEF QueuesOK
<1> QED  BY <1>1, <1>10, <1>13 DEF ConnInv

\* runInLoop(Acceptor::listen) of a starter.
LEMMA StartListeningStep ==
  ASSUME ConnInv, NEW t \in Starters, StartListening(t)
  PROVE  ConnInv'
<1>0. Len(conns) \in Nat /\ queue \in [Loops -> Seq(Functors)] /\ 0 \in Loops
  BY WorkersAssumption DEF ConnInv, ConnTypeOK, Loops
<1>1. UNCHANGED <<conns, connections_, server>>
  BY DEF StartListening, connVars, lifeVars
<1>2. CASE t = Base
  BY <1>1, <1>2, ConnFrame DEF StartListening
<1>3. CASE t # Base
  <2> DEFINE f == Functor("listen", 0)
  <2>1. f \in Functors /\ f.op = "listen"
    BY FunctorType DEF ServerOps
  <2>2. queue' = [queue EXCEPT ![0] = Append(@, f)]
    BY <1>3 DEF StartListening
  <2> HIDE DEF f
  <2>3. queue' \in [Loops -> Seq(Functors)]
    BY <1>0, <2>1, <2>2, QueueType
  <2>4. ConnTypeOK' /\ ConnsOK' /\ MapOK'
    BY <1>1, <2>3 DEF ConnInv, ConnTypeOK, ConnsOK, MapOK
  <2>5. ASSUME NEW k \in Loops
        PROVE  Distinct(queue[k]) /\ \A g \in Range(queue[k]) : Due(k, g)'
    <3>1. Distinct(queue[k]) /\ \A g \in Range(queue[k]) : g \in Functors /\ Due(k, g)
      BY OthersDue
    <3>2. \A g \in Range(queue[k]) : Due(k, g)'
      BY <1>0, <1>1, <3>1, DueKept DEF ConnInv
    <3> QED  BY <3>1, <3>2
  <2>6. Due(0, f)'
    BY <2>1 DEF Due
  <2>7. QueuesOK'
    BY <1>0, <2>1, <2>2, <2>4, <2>5, <2>6, QueueFunctor
  <2> QED  BY <2>4, <2>7 DEF ConnInv
<1> QED  BY <1>2, <1>3

\* The functors of a loop that ends go with it.
LEMMA WorkerEndsStep ==
  ASSUME ConnInv, NEW w \in 1..Workers, WorkerEnds(w)
  PROVE  ConnInv'
<1>0. Len(conns) \in Nat /\ queue \in [Loops -> Seq(Functors)] /\ w \in Loops
  BY WorkersAssumption DEF ConnInv, ConnTypeOK, Loops
<1>1. UNCHANGED <<conns, connections_, server>> /\ queue' = [queue EXCEPT ![w] = << >>]
  BY DEF WorkerEnds, connVars
<1>2. queue' \in [Loops -> Seq(Functors)]
  BY <1>0, <1>1, EmptyQueue
<1>3. ConnTypeOK' /\ ConnsOK' /\ MapOK'
  BY <1>1, <1>2 DEF ConnInv, ConnTypeOK, ConnsOK, MapOK
<1>4. ASSUME NEW k \in Loops
      PROVE  Distinct(queue'[k]) /\ \A g \in Range(queue'[k]) : Due(k, g)'
  <2>1. CASE k = w
    <3>1. queue'[k] = << >>  BY <1>0, <1>1, <2>1
    <3> QED  BY <3>1, EmptyQueue
  <2>2. CASE k # w
    <3>1. queue'[k] = queue[k]  BY <1>0, <1>1, <2>2
    <3>2. Distinct(queue[k]) /\ \A g \in Range(queue[k]) : g \in Functors /\ Due(k, g)
      BY OthersDue
    <3>3. \A g \in Range(queue[k]) : Due(k, g)'
      BY <1>0, <1>1, <3>2, DueKept DEF ConnInv
    <3> QED  BY <3>1, <3>2, <3>3
  <2> QED  BY <2>1, <2>2
<1> QED  BY <1>3, <1>4 DEF ConnInv, QueuesOK

\* The map goes with the server.
LEMMA ServerGoneStep ==
  ASSUME ConnInv, ServerGone
  PROVE  ConnInv'
<1>1. UNCHANGED <<conns, queue>> /\ server' = "gone" /\ connections_' = {}
  BY DEF ServerGone
<1>2. ConnTypeOK' /\ ConnsOK' /\ MapOK'
  BY <1>1 DEF ConnInv, ConnTypeOK, ConnsOK, MapOK
<1>3. ASSUME NEW k \in Loops
      PROVE  Distinct(queue[k]) /\ \A g \in Range(queue[k]) : Due(k, g)'
  <2>1. Distinct(queue[k]) /\ \A g \in Range(queue[k]) : g \in Functors /\ Due(k, g)
    BY OthersDue
  <2> QED  BY <1>1, <2>1 DEF Due
<1> QED  BY <1>1, <1>2, <1>3 DEF ConnInv, QueuesOK

\* Every step keeps the invariant on connections.
LEMMA ConnInvStep ==
  ASSUME ConnInv, StartInv, [Next]_vars
  PROVE  ConnInv'
<1> USE DEF startVars, connVars, lifeVars
<1>0. 0 \in Loops  BY WorkersAssumption DEF Loops
<1>1. ASSUME NEW t \in Starters, StartStep(t) PROVE ConnInv'
  <2>1. CASE StartListening(t)
    BY <2>1, StartListeningStep
  <2>2. CASE TestStarted(t) \/ PoolStart(t) \/ StartWorker(t)
    BY <2>2, ConnFrame DEF TestStarted, PoolStart, StartWorker
  <2> QED  BY <1>1, <2>1, <2>2 DEF StartStep
<1>2. CASE NewConnection
  BY <1>2, NewConnectionStep DEF StartInv
<1>3. CASE TornRead \/ BaseQuits \/ DestroyServer
  BY <1>3, ConnFrame DEF TornRead, BaseQuits, DestroyServer
<1>4. ASSUME NEW l \in Loops, LoopStep(l) PROVE ConnInv'
  <2>1. CASE RunEstablished(l) \/ RunDestroyed(l)
    BY <2>1, EstablishedStep, DestroyedStep
  <2>2. CASE RunListen
    BY <1>0, <2>2, TakeFunctor DEF RunListen, Pop
  <2>3. CASE RunRemove /\ server = "gone"
    BY <1>0, <2>3, TakeFunctor DEF RunRemove, Pop
  <2>4. CASE RunRemove /\ server # "gone"
    BY <2>4, RemoveStep
  <2> QED  BY <1>4, <2>1, <2>2, <2>3, <2>4 DEF LoopStep
<1>5. ASSUME NEW c \in Conns, HandleClose(c) \/ PeerCloses(c) PROVE ConnInv'
  <2>1. CASE HandleClose(c) /\ server # "gone"
    BY <2>1, HandleCloseStep
  <2>2. CASE HandleClose(c) /\ server = "gone"
    BY <2>2, ConnFrame DEF HandleClose
  <2>3. CASE PeerCloses(c)
    BY <2>3, ConnFrame DEF PeerCloses
  <2> QED  BY <1>5, <2>1, <2>2, <2>3
<1>6. CASE JoinStep
  <2>1. CASE ServerGone
    BY <2>1, ServerGoneStep
  <2>2. ASSUME NEW w \in 1..Workers, QuitWorker(w) PROVE ConnInv'
    BY <2>2, ConnFrame DEF QuitWorker
  <2>3. ASSUME NEW w \in 1..Workers, WorkerEnds(w) PROVE ConnInv'
    BY <2>3, WorkerEndsStep
  <2> QED  BY <1>6, <2>1, <2>2, <2>3 DEF JoinStep
<1>7. CASE UNCHANGED vars
  BY <1>7, ConnFrame DEF vars
<1> QED
  BY <1>1, <1>2, <1>3, <1>4, <1>5, <1>6, <1>7 DEF Next

-----------------------------------------------------------------------------
(* start(), the pool and the destructor. *)

\* Only StartListening queues Acceptor::listen.
LEMMA ListenNotQueued ==
  ASSUME ConnInv, StartInv, [Next]_vars, ListenQueued'
  PROVE  ListenQueued \/ \E t \in Starters : StartListening(t)
<1> USE DEF startVars, connVars, lifeVars
<1>0. queue \in [Loops -> Seq(Functors)] /\ 0 \in Loops
  BY WorkersAssumption DEF ConnInv, ConnTypeOK, Loops
<1>q. \A l \in Loops : queue[l] \in Seq(Functors)
  BY <1>0
<1>1. ASSUME queue'[0] = queue[0] PROVE ListenQueued
  BY <1>1 DEF ListenQueued
<1>2. ASSUME queue[0] # << >>, queue'[0] = Tail(queue[0]) PROVE ListenQueued
  <2>1. Range(Tail(queue[0])) \subseteq Range(queue[0])
    BY <1>0, <1>q, <1>2, TailFunctor
  <2> QED  BY <1>2, <2>1 DEF ListenQueued
<1>3. ASSUME NEW f \in Functors, f.op # "listen", queue'[0] = Append(queue[0], f)
      PROVE  ListenQueued
  <2>1. Range(queue'[0]) = Range(queue[0]) \union {f}
    BY <1>0, <1>q, <1>3, AppendFunctor
  <2> QED  BY <1>3, <2>1 DEF ListenQueued
<1>4. ASSUME NEW t \in Starters, StartStep(t)
      PROVE  ListenQueued \/ StartListening(t)
  BY <1>1, <1>4 DEF StartStep, TestStarted, PoolStart, StartWorker
<1>5. CASE NewConnection
  <2>1. queue' = queue \/ \E n \in Views : GetNextLoop(n) # 0 /\ \E f :
          queue' = [queue EXCEPT ![GetNextLoop(n)] = Append(@, f)]
    BY <1>5 DEF NewConnection
  <2>2. queue'[0] = queue[0]
    BY <1>0, <2>1
  <2> QED  BY <1>1, <2>2
<1>6. CASE TornRead \/ BaseQuits \/ DestroyServer \/ ServerGone
  BY <1>1, <1>6 DEF TornRead, BaseQuits, DestroyServer, ServerGone
<1>7. ASSUME NEW l \in Loops, LoopStep(l) PROVE ListenQueued
  <2>1. CASE RunEstablished(l) \/ RunDestroyed(l)
    <3>1. queue[l] # << >> /\ queue' = [queue EXCEPT ![l] = Tail(@)]
      BY <2>1 DEF RunEstablished, RunDestroyed, Pop
    <3>2. queue'[0] = IF l = 0 THEN Tail(queue[0]) ELSE queue[0]
      BY <1>0, <3>1
    <3> QED  BY <1>1, <1>2, <3>1, <3>2 DEF StartListening, Goto
  <2>2. CASE RunListen
    BY <1>0, <1>2, <2>2 DEF RunListen, Pop
  <2>3. CASE RunRemove /\ server = "gone"
    BY <1>0, <1>2, <2>3 DEF RunRemove, Pop
  <2>4. CASE RunRemove /\ server # "gone"
    <3>1. queue[0] # << >> /\ Head(queue[0]).op = "remove"
      BY <2>4 DEF RunRemove, Pop
    <3>2. Due(0, Head(queue[0])) /\ Head(queue[0]) \in Functors
      BY <1>0, <3>1, HeadDue
    <3>3. conns[Head(queue[0]).conn].loop # 0
      BY <2>4, <3>1, <3>2 DEF Due
    <3>4. RemoveConnectionInLoop(Head(queue[0]).conn, [queue EXCEPT ![0] = Tail(@)])
      BY <2>4 DEF RunRemove
    <3>5. queue'[0] = Tail(queue[0])
      BY <1>0, <3>3, <3>4 DEF RemoveConnectionInLoop
    <3> QED  BY <1>2, <3>1, <3>5
  <2> QED  BY <1>7, <2>1, <2>2, <2>3, <2>4 DEF LoopStep
<1>8. ASSUME NEW c \in Conns, HandleClose(c) \/ PeerCloses(c) PROVE ListenQueued
  <2>1. CASE queue' = queue
    BY <1>1, <2>1
  <2>2. CASE \E op \in {"destroyed", "remove"} :
               queue' = [queue EXCEPT ![0] = Append(@, Functor(op, c))]
    <3>1. PICK op \in {"destroyed", "remove"} :
            queue' = [queue EXCEPT ![0] = Append(@, Functor(op, c))]
      BY <2>2
    <3>2. op \in ServerOps /\ c \in Nat
      BY DEF ServerOps, Conns
    <3>3. Functor(op, c) \in Functors /\ Functor(op, c).op # "listen"
      BY <3>2, FunctorType
    <3>4. queue'[0] = Append(queue[0], Functor(op, c))
      BY <1>0, <3>1
    <3> QED  BY <1>3, <3>3, <3>4
  <2> QED  BY <1>8, <2>1, <2>2 DEF HandleClose, PeerCloses, RemoveConnectionInLoop
<1>9. ASSUME NEW w \in 1..Workers, QuitWorker(w) \/ WorkerEnds(w) PROVE ListenQueued
  <2>1. w # 0 /\ w \in Loops
    BY WorkersAssumption DEF Loops
  <2>2. queue'[0] = queue[0]
    BY <1>0, <1>9, <2>1 DEF QuitWorker, WorkerEnds
  <2> QED  BY <1>1, <2>2
<1>10. CASE UNCHANGED vars
  BY <1>1, <1>10 DEF vars
<1> QED
  BY <1>4, <1>5, <1>6, <1>7, <1>8, <1>9, <1>10 DEF Next, JoinStep

\* A step that leaves start() and the pool alone.
LEMMA StartFrame ==
  ASSUME StartInv, UNCHANGED <<pool_started_, loops_, spc>>,
         listening' = listening \/ (ListenQueued /\ listening' = TRUE),
         ListenQueued' => ListenQueued
  PROVE  PoolOK'
  BY DEF StartInv, PoolOK

\* Every step keeps the invariant on start(), the pool and the destructor.
LEMMA StartInvStep ==
  ASSUME ConnInv, StartInv, [Next]_vars
  PROVE  StartInv'
<1> USE DEF startVars, connVars, lifeVars
<1>0. Workers \in Nat  BY WorkersAssumption
<1>l. (\A t \in Starters : ~StartListening(t)) => (ListenQueued' => ListenQueued)
  BY ListenNotQueued
<1>1. ASSUME NEW t \in Starters, TestStarted(t) PROVE StartInv'
  <2>1. UNCHANGED queue /\ spc[t] = "idle" /\ (spc' = [spc EXCEPT ![t] = "done"]
                                              \/ spc' = [spc EXCEPT ![t] = "listen"])
    BY <1>1 DEF TestStarted, Starting, Goto
  <2>2. UNCHANGED ListenQueued
    BY <2>1 DEF ListenQueued
  <2> QED  BY <1>1, <2>1, <2>2 DEF TestStarted, StartInv, StartTypeOK, WorkersJoined, PoolOK
<1>2. ASSUME NEW t \in Starters, StartListening(t) PROVE StartInv'
  <2>1. spc[t] = "listen" /\ spc' = [spc EXCEPT ![t] = "pool"] /\ listening' \in BOOLEAN
        /\ UNCHANGED <<pool_started_, loops_, next_, base, worker, server>>
    BY <1>2 DEF StartListening, Starting, Goto, StartInv, StartTypeOK
  <2>2. spc'[t] = "pool"
    BY <2>1 DEF StartInv, StartTypeOK
  <2> QED  BY <2>1, <2>2 DEF StartInv, StartTypeOK, WorkersJoined, PoolOK
<1>3. ASSUME NEW t \in Starters, PoolStart(t) PROVE StartInv'
  <2>1. UNCHANGED <<queue, listening, loops_, next_, base, worker, server>>
        /\ spc[t] = "pool" /\ pool_started_' = TRUE
        /\ spc' = [spc EXCEPT ![t] = IF pool_started_ \/ Workers = 0 THEN "done" ELSE "fill"]
    BY <1>3 DEF PoolStart, Starting, Goto
  <2>2. StartTypeOK' /\ WorkersJoined'
    BY <2>1 DEF StartInv, StartTypeOK, WorkersJoined
  <2>3. CASE pool_started_ \/ Workers = 0
    <3>1. loops_ \in 0..Workers  BY DEF StartInv, StartTypeOK
    <3> QED  BY <1>0, <2>1, <2>2, <2>3, <3>1 DEF StartInv, StartTypeOK, PoolOK
  <2>4. CASE ~pool_started_ /\ Workers # 0
    <3>1. loops_ = 0 /\ \A u \in Starters : spc[u] # "fill"
      BY <2>4 DEF StartInv, PoolOK
    <3>2. spc'[t] = "fill" /\ \A u \in Starters : spc'[u] = "fill" => u = t
      BY <2>1, <2>4, <3>1 DEF StartInv, StartTypeOK
    <3> QED  BY <1>0, <2>1, <2>2, <2>4, <3>1, <3>2 DEF StartInv, PoolOK
  <2> QED  BY <2>3, <2>4
<1>4. ASSUME NEW t \in Starters, StartWorker(t) PROVE StartInv'
  <2>1. UNCHANGED <<queue, listening, pool_started_, next_, base, server>>
        /\ spc[t] = "fill" /\ loops_' = loops_ + 1 /\ server = "alive"
        /\ worker' = [worker EXCEPT ![loops_ + 1] = "running"]
        /\ spc' = [spc EXCEPT ![t] = IF loops_ + 1 = Workers THEN "done" ELSE "fill"]
    BY <1>4 DEF StartWorker, Starting, Goto
  <2>2. pool_started_ /\ loops_ < Workers /\ loops_ \in 0..Workers
        /\ \A u \in Starters : spc[u] = "fill" => u = t
    BY <2>1 DEF StartInv, StartTypeOK, PoolOK
  <2>3. loops_' \in 0..Workers /\ (loops_ + 1 # Workers => loops_' < Workers)
    BY <1>0, <2>1, <2>2
  <2>4. StartTypeOK' /\ WorkersJoined'
    BY <2>1, <2>3 DEF StartInv, StartTypeOK, WorkersJoined
  <2>5. \A u \in Starters : spc'[u] = "fill" => u = t /\ loops_ + 1 # Workers
    BY <2>1, <2>2 DEF StartInv, StartTypeOK
  <2>6. loops_ + 1 # Workers => spc'[t] = "fill"
    BY <2>1 DEF StartInv, StartTypeOK
  <2>7. PoolOK'
    BY <2>1, <2>2, <2>3, <2>5, <2>6 DEF PoolOK
  <2> QED  BY <2>4, <2>7 DEF StartInv
<1>5. CASE NewConnection
  <2>1. next_' \in Nat /\ UNCHANGED <<startVars, lifeVars, listening>>
    <3>1. next_' = next_ + 0 \/ next_' = next_ + 1
      BY <1>5 DEF NewConnection
    <3> QED  BY <1>5, <3>1 DEF NewConnection, StartInv, StartTypeOK
  <2>2. \A t \in Starters : ~StartListening(t)
    BY <1>5, <2>1 DEF StartListening, Starting, Goto, StartInv, StartTypeOK
  <2> QED
    BY <1>l, <2>1, <2>2, StartFrame DEF StartInv, StartTypeOK, WorkersJoined
<1>6. CASE \/ TornRead \/ BaseQuits \/ DestroyServer \/ (\E l \in Loops : LoopStep(l))
           \/ (\E c \in Conns : HandleClose(c) \/ PeerCloses(c)) \/ JoinStep \/ UNCHANGED vars
  <2>1. UNCHANGED <<pool_started_, loops_, spc, next_>>
    BY <1>6 DEF TornRead, BaseQuits, DestroyServer, LoopStep, RunEstablished, RunDestroyed,
       RunListen, RunRemove, HandleClose, PeerCloses, JoinStep, ServerGone, QuitWorker,
       WorkerEnds, vars
  <2>2. ListenQueued' => ListenQueued
    <3>1. \A t \in Starters : ~StartListening(t)
      BY <2>1 DEF StartListening, Starting, Goto, StartInv, StartTypeOK
    <3> QED  BY <1>l, <3>1
  <2>3. listening' = listening \/ (ListenQueued /\ listening' = TRUE)
    <3>1. CASE RunListen
      <4>1. 0 \in Loops /\ queue[0] # << >> /\ Head(queue[0]).op = "listen"
        BY <1>0, <3>1 DEF RunListen, Pop, Loops
      <4>2. queue[0] \in Seq(Functors)
        BY <4>1 DEF ConnInv, ConnTypeOK
      <4>3. ListenQueued
        BY <4>1, <4>2, TailFunctor DEF ListenQueued
      <4> QED  BY <3>1, <4>3 DEF RunListen
    <3>2. CASE ~RunListen
      BY <1>6, <3>2 DEF TornRead, BaseQuits, DestroyServer, LoopStep, RunEstablished,
         RunDestroyed, RunRemove, HandleClose, PeerCloses, JoinStep, ServerGone,
         QuitWorker, WorkerEnds, vars
    <3> QED  BY <3>1, <3>2
  <2>4. PoolOK'
    BY <2>1, <2>2, <2>3, StartFrame
  <2>5. StartTypeOK'
    <3>1. listening' \in BOOLEAN
      BY <2>3 DEF StartInv, StartTypeOK
    <3>2. CASE UNCHANGED <<server, worker>> /\ base' \in {base, FALSE}
      BY <2>1, <3>1, <3>2 DEF StartInv, StartTypeOK
    <3>3. CASE ServerGone \/ DestroyServer
      BY <2>1, <3>1, <3>3 DEF ServerGone, DestroyServer, StartInv, StartTypeOK
    <3>4. CASE \E w \in 1..Workers : QuitWorker(w) \/ WorkerEnds(w)
      BY <2>1, <3>1, <3>4 DEF QuitWorker, WorkerEnds, StartInv, StartTypeOK
    <3> QED
      BY <1>6, <3>2, <3>3, <3>4 DEF TornRead, BaseQuits, LoopStep, RunEstablished,
         RunDestroyed, RunListen, RunRemove, HandleClose, PeerCloses, JoinStep, vars
  <2>6. WorkersJoined'
    <3>1. CASE UNCHANGED <<server, worker>>
      BY <3>1 DEF StartInv, WorkersJoined
    <3>2. CASE ServerGone \/ DestroyServer
      BY <3>2 DEF ServerGone, DestroyServer, WorkersJoined
    <3>3. CASE \E w \in 1..Workers : QuitWorker(w) \/ WorkerEnds(w)
      BY <3>3 DEF QuitWorker, WorkerEnds, StartInv, StartTypeOK, WorkersJoined
    <3> QED
      BY <1>6, <3>1, <3>2, <3>3 DEF TornRead, BaseQuits, LoopStep, RunEstablished,
         RunDestroyed, RunListen, RunRemove, HandleClose, PeerCloses, JoinStep, vars
  <2> QED  BY <2>4, <2>5, <2>6 DEF StartInv
<1> QED
  BY <1>1, <1>2, <1>3, <1>4, <1>5, <1>6 DEF Next, StartStep

-----------------------------------------------------------------------------

\* Every step keeps NoCrash: no wrong thread, no wrong state, no use of the
\* server by a worker after the join.
LEMMA NoCrashStep ==
  ASSUME ConnInv, StartInv, NoCrash, [Next]_vars
  PROVE  NoCrash'
<1> USE DEF startVars, connVars, lifeVars
<1>1. CASE UNCHANGED <<crash, server, base>> /\ (raced => raced')
  BY <1>1 DEF NoCrash
<1>2. ASSUME NEW t \in Starters, StartStep(t) PROVE NoCrash'
  BY <1>1, <1>2 DEF StartStep, TestStarted, StartListening, PoolStart, StartWorker
<1>3. CASE NewConnection
  BY <1>1, <1>3 DEF NewConnection
<1>4. CASE TornRead
  BY <1>4 DEF TornRead, NoCrash
<1>5. CASE BaseQuits \/ DestroyServer
  BY <1>5 DEF BaseQuits, DestroyServer, Running, NoCrash
<1>6. ASSUME NEW l \in Loops, LoopStep(l) PROVE NoCrash'
  <2>1. CASE RunEstablished(l) \/ RunDestroyed(l)
    BY <1>1, <2>1, EstablishedStep, DestroyedStep DEF RunEstablished, RunDestroyed
  <2>2. CASE RunListen \/ RunRemove
    <3>1. base /\ server # "joining" /\ crash = "no" /\ UNCHANGED <<base, server, raced>>
      BY <2>2 DEF RunListen, RunRemove, Pop, Running
    <3>2. crash' = "no" \/ (crash' = "dangling" /\ server = "gone")
      BY <2>2, <3>1 DEF RunListen, RunRemove, StartInv, StartTypeOK
    <3> QED  BY <3>1, <3>2 DEF NoCrash
  <2> QED  BY <1>6, <2>1, <2>2 DEF LoopStep
<1>7. ASSUME NEW c \in Conns, HandleClose(c) \/ PeerCloses(c) PROVE NoCrash'
  <2>1. CASE UNCHANGED crash
    BY <1>1, <1>7, <2>1 DEF HandleClose, PeerCloses
  <2>2. CASE HandleClose(c) /\ server = "gone"
    <3>1. Len(conns) \in Nat /\ conns \in Seq(ConnRecords)
      BY DEF ConnInv, ConnTypeOK
    <3>2. c \in 1..Len(conns)
      BY <2>2, <3>1 DEF HandleClose, Conns
    <3>3. conns[c].loop \in Loops
      <4>1. conns[c] \in ConnRecords  BY <3>1, <3>2
      <4> QED  BY <4>1 DEF ConnRecords
    <3>4. conns[c].loop = 0
      BY <2>2, <3>3, WorkersAssumption DEF HandleClose, Running, StartInv, WorkersJoined, Loops
    <3>5. base /\ crash' = "dangling" /\ UNCHANGED <<base, server>>
      BY <2>2, <3>4 DEF HandleClose, Running
    <3> QED  BY <2>2, <3>5 DEF NoCrash
  <2> QED  BY <1>7, <2>1, <2>2 DEF HandleClose, PeerCloses
<1>8. CASE JoinStep
  BY <1>8 DEF JoinStep, ServerGone, QuitWorker, WorkerEnds, NoCrash
<1>9. CASE UNCHANGED vars
  BY <1>1, <1>9 DEF vars
<1> QED
  BY <1>2, <1>3, <1>4, <1>5, <1>6, <1>7, <1>8, <1>9 DEF Next

\* newConnection goes to a worker unless another thread is in start() or there
\* is none: whoever listens has filled the pool.
LEMMA NewConnectionLoop ==
  ASSUME ConnInv, StartInv, NewConnection
  PROVE  \E l \in Loops : conns' = Append(conns, Made(l)) /\ (l = 0 => raced' \/ Workers = 0)
<1>1. PICK n \in Views :
        conns' = Append(conns, IF GetNextLoop(n) = 0
                                 THEN Established(NewConn(GetNextLoop(n)))
                                 ELSE NewConn(GetNextLoop(n)))
  BY DEF NewConnection
<1>2. GetNextLoop(n) \in Loops /\ (n # 0 => GetNextLoop(n) # 0)
  BY NextLoop DEF StartInv
<1>3. ASSUME ~raced', Workers # 0 PROVE n # 0
  <2>1. \A t \in Starters \ {Base} : spc[t] \notin {"listen", "pool", "fill"}
    BY <1>3 DEF NewConnection, Racing
  <2>2. \A t \in Starters : spc[t] \notin {"pool", "fill"}
    BY <2>1 DEF NewConnection, Accepts, Running
  <2>3. listening
    BY DEF NewConnection, Accepts
  <2>4. loops_ = Workers
    BY <2>2, <2>3 DEF StartInv, PoolOK
  <2> QED  BY <1>3, <2>1, <2>4 DEF Views
<1> QED  BY <1>1, <1>2, <1>3 DEF Made

\* What a step may do to the connections: nothing, make one, or take one of
\* them, whose loop is running, to the next stage of its life.
LEMMA ConnMoves ==
  ASSUME ConnInv, StartInv, [Next]_vars
  PROVE  /\ raced => raced'
         /\ \/ UNCHANGED conns
            \/ /\ server = "alive" /\ Len(conns) < MaxConns
               /\ \E l \in Loops : /\ conns' = Append(conns, Made(l))
                                   /\ l = 0 => raced' \/ Workers = 0
            \/ \E c \in 1..Len(conns) :
                 /\ Running(conns[c].loop)
                 /\ \/ /\ conns[c].state_ = "Connecting"
                       /\ conns' = [conns EXCEPT ![c] = Established(@)]
                    \/ /\ conns[c].state_ = "Connected"
                       /\ conns' = [conns EXCEPT ![c].state_ = "Disconnected"]
                    \/ /\ conns[c].state_ = "Disconnected" /\ conns[c].calls = <<"up">>
                       /\ conns' = [conns EXCEPT ![c] = Destroyed(@)]
<1> USE DEF startVars, connVars, lifeVars
<1>1. ASSUME NEW t \in Starters, StartStep(t) PROVE UNCHANGED <<conns, raced>>
  BY <1>1 DEF StartStep, TestStarted, StartListening, PoolStart, StartWorker
<1>2. CASE NewConnection
  <2>1. (raced => raced') /\ server = "alive" /\ Len(conns) < MaxConns
    BY <1>2 DEF NewConnection, Accepts
  <2> QED  BY <1>2, <2>1, NewConnectionLoop
<1>3. CASE TornRead \/ BaseQuits \/ DestroyServer \/ JoinStep \/ UNCHANGED vars
  BY <1>3 DEF TornRead, BaseQuits, DestroyServer, JoinStep, ServerGone, QuitWorker,
     WorkerEnds, vars
<1>4. ASSUME NEW l \in Loops, RunEstablished(l)
      PROVE  /\ UNCHANGED raced
             /\ \E c \in 1..Len(conns) :
                  /\ Running(conns[c].loop) /\ conns[c].state_ = "Connecting"
                  /\ conns' = [conns EXCEPT ![c] = Established(@)]
  <2>1. PICK c \in 1..Len(conns) : /\ conns[c].loop = l /\ conns[c].state_ = "Connecting"
                                   /\ conns' = [conns EXCEPT ![c] = Established(@)]
    BY <1>4, EstablishedStep
  <2>2. Running(l) /\ UNCHANGED raced
    BY <1>4 DEF RunEstablished, Pop
  <2> QED  BY <2>1, <2>2
<1>5. ASSUME NEW l \in Loops, RunDestroyed(l)
      PROVE  /\ UNCHANGED raced
             /\ \E c \in 1..Len(conns) :
                  /\ Running(conns[c].loop)
                  /\ conns[c].state_ = "Disconnected" /\ conns[c].calls = <<"up">>
                  /\ conns' = [conns EXCEPT ![c] = Destroyed(@)]
  <2>1. PICK c \in 1..Len(conns) : /\ conns[c].loop = l /\ conns[c].state_ = "Disconnected"
                                   /\ conns[c].calls = <<"up">>
                                   /\ conns' = [conns EXCEPT ![c] = Destroyed(@)]
    BY <1>5, DestroyedStep
  <2>2. Running(l) /\ UNCHANGED raced
    BY <1>5 DEF RunDestroyed, Pop
  <2> QED  BY <2>1, <2>2
<1>6. CASE RunListen \/ RunRemove
  BY <1>6 DEF RunListen, RunRemove
<1>7. ASSUME NEW c \in Conns, HandleClose(c), server # "gone"
      PROVE  /\ UNCHANGED raced
             /\ \E d \in 1..Len(conns) :
                  /\ Running(conns[d].loop) /\ conns[d].state_ = "Connected"
                  /\ conns' = [conns EXCEPT ![d].state_ = "Disconnected"]
  BY <1>7, HandleCloseStep DEF HandleClose
<1>8. ASSUME NEW c \in Conns, PeerCloses(c) \/ (HandleClose(c) /\ server = "gone")
      PROVE  UNCHANGED <<conns, raced>>
  BY <1>8 DEF HandleClose, PeerCloses
<1>9. CASE \E l \in Loops : LoopStep(l)
  <2>1. PICK l \in Loops : LoopStep(l)  BY <1>9
  <2>2. CASE RunEstablished(l)
    BY <1>4, <2>2
  <2>3. CASE RunDestroyed(l)
    BY <1>5, <2>3
  <2> QED  BY <1>6, <2>1, <2>2, <2>3 DEF LoopStep
<1>10. CASE \E c \in Conns : HandleClose(c) \/ PeerCloses(c)
  <2>1. PICK c \in Conns : HandleClose(c) \/ PeerCloses(c)  BY <1>10
  <2>2. CASE HandleClose(c) /\ server # "gone"
    BY <1>7, <2>2
  <2> QED  BY <1>8, <2>1, <2>2
<1> QED
  BY <1>1, <1>2, <1>3, <1>9, <1>10 DEF Next

\* A record that a step replaces, and the other ones.
LEMMA ReplacedRecord ==
  ASSUME ConnInv, NEW c \in 1..Len(conns),
         \/ /\ conns[c].state_ = "Connecting"
            /\ conns' = [conns EXCEPT ![c] = Established(@)]
         \/ /\ conns[c].state_ = "Connected"
            /\ conns' = [conns EXCEPT ![c].state_ = "Disconnected"]
         \/ /\ conns[c].state_ = "Disconnected" /\ conns[c].calls = <<"up">>
            /\ conns' = [conns EXCEPT ![c] = Destroyed(@)]
  PROVE  /\ Len(conns') = Len(conns) /\ conns'[c].loop = conns[c].loop
         /\ \A i \in 1..Len(conns) \ {c} : conns'[i] = conns[i]
         /\ \/ conns[c].calls = << >> /\ conns'[c].calls = <<"up">>
               /\ conns'[c].state_ = "Connected"
            \/ conns[c].calls = <<"up">> /\ conns[c].state_ = "Connected"
               /\ conns'[c].calls = <<"up">> /\ conns'[c].state_ = "Disconnected"
            \/ conns[c].calls = <<"up">> /\ conns[c].state_ = "Disconnected"
               /\ conns'[c].calls = <<"up", "down">>
<1>1. conns \in Seq(ConnRecords) /\ conns[c] \in ConnRecords /\ ConnOK(conns[c])
  BY DEF ConnInv, ConnTypeOK, ConnsOK
<1>2. CASE conns[c].state_ = "Connecting" /\ conns' = [conns EXCEPT ![c] = Established(@)]
  <2>1. conns[c].calls = << >>  BY <1>1, <1>2 DEF ConnOK
  <2>2. /\ Established(conns[c]) \in ConnRecords /\ Established(conns[c]).loop = conns[c].loop
        /\ Established(conns[c]).calls = <<"up">> /\ Established(conns[c]).state_ = "Connected"
    BY <1>1, <2>1, EstablishedRecord
  <2>3. /\ Len(conns') = Len(conns) /\ conns'[c] = Established(conns[c])
        /\ \A i \in 1..Len(conns) \ {c} : conns'[i] = conns[i]
    BY <1>1, <1>2, <2>2, ExceptRecord
  <2> QED  BY <2>1, <2>2, <2>3
<1>3. CASE conns[c].state_ = "Connected" /\ conns' = [conns EXCEPT ![c].state_ = "Disconnected"]
  <2> DEFINE r == [conns[c] EXCEPT !.state_ = "Disconnected"]
  <2>1. conns[c].calls = <<"up">>  BY <1>1, <1>3 DEF ConnOK
  <2>2. /\ r \in ConnRecords /\ r.loop = conns[c].loop
        /\ r.calls = <<"up">> /\ r.state_ = "Disconnected"
    BY <1>1, <2>1, ClosedRecord
  <2>3. conns' = [conns EXCEPT ![c] = r]
    BY <1>3
  <2> HIDE DEF r
  <2>4. /\ Len(conns') = Len(conns) /\ conns'[c] = r
        /\ \A i \in 1..Len(conns) \ {c} : conns'[i] = conns[i]
    BY <1>1, <2>2, <2>3, ExceptRecord
  <2> QED  BY <1>3, <2>1, <2>2, <2>4
<1>4. CASE /\ conns[c].state_ = "Disconnected" /\ conns[c].calls = <<"up">>
           /\ conns' = [conns EXCEPT ![c] = Destroyed(@)]
  <2>2. /\ Destroyed(conns[c]) \in ConnRecords /\ Destroyed(conns[c]).loop = conns[c].loop
        /\ Destroyed(conns[c]).calls = <<"up", "down">>
    BY <1>1, <1>4, DestroyedRecord
  <2>3. /\ Len(conns') = Len(conns) /\ conns'[c] = Destroyed(conns[c])
        /\ \A i \in 1..Len(conns) \ {c} : conns'[i] = conns[i]
    BY <1>1, <1>4, <2>2, ExceptRecord
  <2> QED  BY <1>4, <2>2, <2>3
<1> QED  BY <1>2, <1>3, <1>4

\* A record that newConnection appends, and the other ones.
LEMMA AppendedRecord ==
  ASSUME ConnInv, NEW l \in Loops, conns' = Append(conns, Made(l))
  PROVE  /\ Len(conns) \in Nat /\ Len(conns') = Len(conns) + 1
         /\ \A i \in 1..Len(conns) : conns'[i] = conns[i]
         /\ conns'[Len(conns) + 1].loop = l
         /\ \/ conns'[Len(conns) + 1].calls = << >>
            \/ conns'[Len(conns) + 1].calls = <<"up">>
               /\ conns'[Len(conns) + 1].state_ = "Connected"
<1>1. /\ Made(l) \in ConnRecords /\ Made(l).loop = l
      /\ Made(l).calls = << >> \/ (Made(l).calls = <<"up">> /\ Made(l).state_ = "Connected")
  BY NewRecord, EstablishedRecord DEF Made
<1>2. conns \in Seq(ConnRecords)  BY DEF ConnInv, ConnTypeOK
<1>3. /\ Len(conns) \in Nat /\ Len(conns') = Len(conns) + 1
      /\ \A i \in 1..Len(conns) : conns'[i] = conns[i]
      /\ conns'[Len(conns) + 1] = Made(l)
  BY <1>1, <1>2, AppendProperties
<1> QED  BY <1>1, <1>3

\* Every step keeps WorkersOnly.
LEMMA WorkersOnlyStep ==
  ASSUME ConnInv, StartInv, WorkersOnly, [Next]_vars
  PROVE  WorkersOnly'
<1>1. CASE UNCHANGED conns
  BY <1>1, ConnMoves DEF WorkersOnly
<1>2. ASSUME NEW l \in Loops, conns' = Append(conns, Made(l)), l = 0 => raced' \/ Workers = 0
      PROVE  WorkersOnly'
  <2>1. /\ Len(conns) \in Nat /\ Len(conns') = Len(conns) + 1
        /\ \A i \in 1..Len(conns) : conns'[i] = conns[i]
        /\ conns'[Len(conns) + 1].loop = l
    BY <1>2, AppendedRecord
  <2>2. \A i \in 1..Len(conns') : i \in 1..Len(conns) \/ i = Len(conns) + 1
    BY <2>1
  <2>3. Workers > 0 => Workers # 0
    BY WorkersAssumption
  <2> QED  BY <1>2, <2>1, <2>2, <2>3, ConnMoves DEF WorkersOnly
<1>3. ASSUME NEW c \in 1..Len(conns),
             Len(conns') = Len(conns) /\ conns'[c].loop = conns[c].loop,
             \A i \in 1..Len(conns) \ {c} : conns'[i] = conns[i]
      PROVE  WorkersOnly'
  BY <1>3, ConnMoves DEF WorkersOnly
<1> QED
  BY <1>1, <1>2, <1>3, ConnMoves, ReplacedRecord

\* The server's inductive invariant.
ServerInv == ConnInv /\ StartInv /\ NoCrash /\ WorkersOnly

\* ServerInv is an invariant of the server.
LEMMA ServerInvariant == Spec => []ServerInv
<1>1. Init => ServerInv
  <2> SUFFICES ASSUME Init PROVE ServerInv
    OBVIOUS
  <2>0. 0 \in Loops /\ Workers \in Nat /\ MaxConns \in Nat
    BY WorkersAssumption, MaxConnsAssumption DEF Loops
  <2>1. conns \in Seq(ConnRecords) /\ Len(conns) = 0
    BY DEF Init
  <2>2. queue \in [Loops -> Seq(Functors)] /\ \A l \in Loops : queue[l] = << >>
    BY EmptyQueue DEF Init
  <2>3. ConnInv
    BY <2>0, <2>1, <2>2, EmptyQueue DEF Init, ConnInv, ConnTypeOK, ConnsOK, MapOK, QueuesOK
  <2>4. ~ListenQueued
    BY <2>0, <2>2, EmptyQueue DEF ListenQueued
  <2>5. StartInv
    BY <2>0, <2>4 DEF Init, StartInv, StartTypeOK, WorkersJoined, PoolOK
  <2> QED  BY <2>1, <2>3, <2>5 DEF Init, ServerInv, NoCrash, WorkersOnly
<1>2. ServerInv /\ [Next]_vars => ServerInv'
  BY ConnInvStep, StartInvStep, NoCrashStep, WorkersOnlyStep DEF ServerInv
<1> QED  BY <1>1, <1>2, PTL DEF Spec

\* No connection aborts on a wrong thread or state, however closes, removals and
\* starts interleave; what can crash is a start() of another thread and a server
\* that goes before its base loop.
THEOREM ServerNeverCrashes == Spec => []NoCrash
<1>1. ServerInv => NoCrash  BY DEF ServerInv
<1> QED  BY <1>1, ServerInvariant, PTL

\* connections_ holds every connection that is not closed and none reported down.
THEOREM MapIsExact == Spec => []MapTracksConnections
<1>1. ServerInv => MapTracksConnections
  BY DEF ServerInv, ConnInv, MapOK, MapTracksConnections
<1> QED  BY <1>1, ServerInvariant, PTL

\* A server that listens before its pool is filled still gives every connection
\* to a worker, unless another thread is in start().
THEOREM WorkersGetConnections == Spec => []WorkersOnly
<1>1. ServerInv => WorkersOnly  BY DEF ServerInv
<1> QED  BY <1>1, ServerInvariant, PTL

\* After ~TcpServer only connections of a base loop that goes on still change.
THEOREM QuietAfterDestroy == Spec => NothingAfterDestroy
<1>1. ASSUME ServerInv, [Next]_vars, server = "gone", NEW c \in 1..Len(conns),
             conns'[c] # conns[c]
      PROVE  base /\ conns[c].loop = 0
  <2>0. ConnInv /\ StartInv  BY <1>1 DEF ServerInv
  <2>1. PICK d \in 1..Len(conns) :
          /\ Running(conns[d].loop)
          /\ \A i \in 1..Len(conns) \ {d} : conns'[i] = conns[i]
    BY <1>1, <2>0, ConnMoves, ReplacedRecord
  <2>2. c = d
    BY <1>1, <2>1
  <2>3. conns[c].loop \in Loops
    <3>1. conns[c] \in ConnRecords  BY <2>0 DEF ConnInv, ConnTypeOK
    <3> QED  BY <3>1 DEF ConnRecords
  <2>4. conns[c].loop = 0
    BY <1>1, <2>0, <2>1, <2>2, <2>3, WorkersAssumption DEF Running, StartInv, WorkersJoined, Loops
  <2> QED  BY <2>1, <2>2, <2>4 DEF Running
<1>2. ServerInv /\ [Next]_vars =>
        [server = "gone" =>
           \A c \in 1..Len(conns) : conns'[c] # conns[c] => base /\ conns[c].loop = 0]_vars
  BY <1>1
<1> QED  BY <1>2, ServerInvariant, PTL DEF Spec, NothingAfterDestroy

-----------------------------------------------------------------------------
(* ConnectionLife. *)

\* The stages of life of the records.
LEMMA LifeOfRecord ==
  ASSUME NEW r
  PROVE  /\ r.calls = << >> => LifeOf(r) = "new"
         /\ r.calls = <<"up">> /\ r.state_ = "Connected" => LifeOf(r) = "up"
         /\ r.calls = <<"up">> /\ r.state_ # "Connected" => LifeOf(r) = "closed"
         /\ r.calls = <<"up", "down">> => LifeOf(r) = "down"
  BY CallSequences DEF LifeOf

\* The refinement mapping.
LifeMap == [c \in Conns |-> IF c <= Len(conns) THEN LifeOf(conns[c]) ELSE "none"]

\* A step that takes one connection along one of the moves is a step of
\* ConnectionLife.
LEMMA LifeMove ==
  ASSUME NEW c \in Conns, <<LifeMap[c], LifeMap'[c]>> \in Life!Moves,
         \A i \in Conns \ {c} : LifeMap'[i] = LifeMap[i]
  PROVE  Life!LNext
<1>1. LifeMap' = [LifeMap EXCEPT ![c] = LifeMap'[c]]
  BY DEF LifeMap
<1>2. \E m \in Life!Moves : LifeMap[c] = m[1] /\ LifeMap' = [LifeMap EXCEPT ![c] = m[2]]
  <2> WITNESS <<LifeMap[c], LifeMap'[c]>> \in Life!Moves
  <2> QED  BY <1>1
<1> QED  BY <1>2 DEF Life!LNext, Life!Move, LifeMap

\* Whatever loop a connection is given to, however its close travels, and
\* whenever the server is destroyed: up once, then down at most once.
THEOREM ServerImplementsLife == Spec => ImplementsLife
<1>1. Init => Life!LInit
  BY DEF Init, Life!LInit, Conns
<1>2. ASSUME ServerInv, [Next]_vars
      PROVE  [Life!LNext]_LifeMap
  <2>0. ConnInv /\ StartInv /\ Len(conns) \in Nat /\ Len(conns) <= MaxConns /\ MaxConns \in Nat
    BY <1>2, MaxConnsAssumption DEF ServerInv, ConnInv, ConnTypeOK
  <2>1. CASE UNCHANGED conns
    BY <2>1 DEF LifeMap
  <2>2. ASSUME NEW l \in Loops, conns' = Append(conns, Made(l)), Len(conns) < MaxConns
        PROVE  Life!LNext
    <3>1. PICK c \in Conns : c = Len(conns) + 1
      BY <2>0, <2>2 DEF Conns
    <3>2. /\ Len(conns') = c
          /\ \A i \in 1..Len(conns) : conns'[i] = conns[i]
          /\ \/ conns'[c].calls = << >>
             \/ conns'[c].calls = <<"up">> /\ conns'[c].state_ = "Connected"
      BY <2>0, <2>2, <3>1, AppendedRecord
    <3>3. LifeMap[c] = "none" /\ LifeMap'[c] \in {"new", "up"}
      BY <2>0, <3>1, <3>2, LifeOfRecord DEF LifeMap, Conns
    <3>4. \A i \in Conns \ {c} : LifeMap'[i] = LifeMap[i]
      BY <2>0, <3>1, <3>2 DEF LifeMap, Conns
    <3>5. <<LifeMap[c], LifeMap'[c]>> \in Life!Moves
      BY <3>3 DEF Life!Moves
    <3> QED  BY <3>4, <3>5, LifeMove
  <2>3. ASSUME NEW c \in 1..Len(conns),
               /\ Len(conns') = Len(conns)
               /\ \A i \in 1..Len(conns) \ {c} : conns'[i] = conns[i]
               /\ \/ conns[c].calls = << >> /\ conns'[c].calls = <<"up">>
                     /\ conns'[c].state_ = "Connected"
                  \/ conns[c].calls = <<"up">> /\ conns[c].state_ = "Connected"
                     /\ conns'[c].calls = <<"up">> /\ conns'[c].state_ = "Disconnected"
                  \/ conns[c].calls = <<"up">> /\ conns[c].state_ = "Disconnected"
                     /\ conns'[c].calls = <<"up", "down">>
        PROVE  Life!LNext
    <3>1. c \in Conns /\ c <= Len(conns) /\ \A i \in Conns : i <= Len(conns) => i \in 1..Len(conns)
      BY <2>0 DEF Conns
    <3>2. LifeMap[c] = LifeOf(conns[c]) /\ LifeMap'[c] = LifeOf(conns'[c])
      BY <2>3, <3>1 DEF LifeMap
    <3>3. \/ LifeMap[c] = "new" /\ LifeMap'[c] = "up"
          \/ LifeMap[c] = "up" /\ LifeMap'[c] = "closed"
          \/ LifeMap[c] = "closed" /\ LifeMap'[c] = "down"
      BY <2>3, <3>2, LifeOfRecord
    <3>4. \A i \in Conns \ {c} : LifeMap'[i] = LifeMap[i]
      BY <2>3, <3>1 DEF LifeMap
    <3>5. <<LifeMap[c], LifeMap'[c]>> \in Life!Moves
      BY <3>3 DEF Life!Moves
    <3> QED  BY <3>1, <3>4, <3>5, LifeMove
  <2>4. \/ UNCHANGED conns
        \/ \E l \in Loops : conns' = Append(conns, Made(l)) /\ Len(conns) < MaxConns
        \/ \E c \in 1..Len(conns) :
               /\ Len(conns') = Len(conns)
               /\ \A i \in 1..Len(conns) \ {c} : conns'[i] = conns[i]
               /\ \/ conns[c].calls = << >> /\ conns'[c].calls = <<"up">>
                     /\ conns'[c].state_ = "Connected"
                  \/ conns[c].calls = <<"up">> /\ conns[c].state_ = "Connected"
                     /\ conns'[c].calls = <<"up">> /\ conns'[c].state_ = "Disconnected"
                  \/ conns[c].calls = <<"up">> /\ conns[c].state_ = "Disconnected"
                     /\ conns'[c].calls = <<"up", "down">>
    BY <1>2, <2>0, ConnMoves, ReplacedRecord
  <2> QED  BY <2>1, <2>2, <2>3, <2>4
<1> QED
  BY <1>1, <1>2, ServerInvariant, PTL DEF Spec, ImplementsLife, Life!LSpec, LifeMap
=============================================================================
