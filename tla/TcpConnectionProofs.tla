------------------------ MODULE TcpConnectionProofs -------------------------
(***************************************************************************)
(* TcpConnection for any number of threads and sends and any message       *)
(* length: the order of the bytes, the state checks that never abort, and  *)
(* the order of the callbacks.                                             *)
(***************************************************************************)
EXTENDS TcpConnection, SequenceTheorems, TLAPS

Functors == [op : Ops, msg : Nat]

ConnTypeOK ==
    /\ state_ \in States
    /\ queue \in Seq(Functors)
    /\ incall \in BOOLEAN
    /\ owner \in {"holds", "closing", "removed"}
    /\ tpc \in [Threads -> {"idle", "send", "shutdown", "queueShutdown"}]
    /\ tmsg \in [Threads -> Nat]
    /\ sends \in Nat
    /\ ups \in {0, 1} /\ downs \in {0, 1}

BytesTypeOK ==
    /\ send_buffer_ \in Seq(Nat)
    /\ out \in Seq(Nat)
    /\ stream \in Seq(Nat)

\* Before connectionEstablished its functor is all there is to run, and nobody
\* acts on the connection.
BeforeEstablished ==
    ups = 0 =>
        /\ queue = <<Functor("established")>>
        /\ state_ = "Connecting" /\ owner = "holds" /\ downs = 0
        /\ ~incall /\ ~reading
        /\ \A t \in Threads : tpc[t] = "idle"

\* It is not queued a second time, and state_ never is Connecting again.
AfterEstablished ==
    ups = 1 =>
        /\ state_ # "Connecting"
        /\ \A i \in 1..Len(queue) : queue[i].op # "established"

\* The channel listens for input only while handleClose may find the end of the
\* stream: its state check holds although other threads set Disconnecting.
ReadingMeansOpen ==
    reading => state_ \in {"Connected", "Disconnecting"} /\ owner = "holds"

\* connectionDestroyed is queued once, by removeConnection, and runs once.
DestroyedOnce ==
    /\ owner # "removed" => downs = 0 /\ \A i \in 1..Len(queue) : queue[i].op # "destroyed"
    /\ downs = 1 => \A i \in 1..Len(queue) : queue[i].op # "destroyed"
    /\ \A i, j \in 1..Len(queue) :
         queue[i].op = "destroyed" /\ queue[j].op = "destroyed" => i = j

LifeInv ==
    /\ ConnTypeOK /\ ~aborted
    /\ BeforeEstablished /\ AfterEstablished /\ ReadingMeansOpen /\ DestroyedOnce

-----------------------------------------------------------------------------
(* Sequences. *)

\* Appending a functor that is neither established nor destroyed, as most are.
LEMMA AppendFunctor ==
  ASSUME NEW q \in Seq(Functors), NEW f \in Functors
  PROVE  /\ Append(q, f) \in Seq(Functors)
         /\ Len(Append(q, f)) = Len(q) + 1
         /\ \A i \in 1..(Len(q) + 1) : Append(q, f)[i] = IF i <= Len(q) THEN q[i] ELSE f
  OBVIOUS

\* What is left of the queue when the loop takes its first functor.
LEMMA TailFunctor ==
  ASSUME NEW q \in Seq(Functors), q # << >>
  PROVE  /\ Tail(q) \in Seq(Functors)
         /\ Head(q) = q[1] /\ Head(q) \in Functors
         /\ 1 \in 1..Len(q)
         /\ Len(Tail(q)) = Len(q) - 1
         /\ \A i \in 1..(Len(q) - 1) : i + 1 \in 1..Len(q) /\ Tail(q)[i] = q[i + 1]
  OBVIOUS

\* The functors a queue gains at its back, in the terms of the invariant: q is
\* extended by functors that are not of the two kinds the invariant counts.
Extends(r, q) ==
    /\ r \in Seq(Functors)
    /\ Len(r) \in Nat /\ Len(q) <= Len(r)
    /\ \A i \in 1..Len(q) : r[i] = q[i]
    /\ \A i \in 1..Len(r) : i \notin 1..Len(q) => r[i].op \notin {"established", "destroyed"}

\* A queue extends itself.
LEMMA ExtendsSelf == ASSUME NEW q \in Seq(Functors) PROVE Extends(q, q)
  BY DEF Extends

\* A queue with one more ordinary functor extends the queue.
LEMMA ExtendsAppend ==
  ASSUME NEW q \in Seq(Functors), NEW f \in Functors,
         f.op \notin {"established", "destroyed"}
  PROVE  Extends(Append(q, f), q)
<1>1. Len(q) \in Nat  OBVIOUS
<1> QED  BY <1>1, AppendFunctor DEF Extends

\* The functors of the callbacks and calls are functors.
LEMMA FunctorType ==
  /\ \A op \in Ops : Functor(op) \in Functors /\ Functor(op).op = op
  /\ \A m \in Nat : SendFunctor(m) \in Functors /\ SendFunctor(m).op = "send"
  BY DEF Functor, SendFunctor, Functors, Ops

\* sendInLoop queues at most one functor, of write_complete_callback_ or
\* high_water_callback_.
LEMMA SendInLoopQueue ==
  ASSUME NEW m, NEW q \in Seq(Functors), SendInLoop(m, q)
  PROVE  Extends(queue', q)
<1>1. q \o << >> = q /\ \A f \in Functors : q \o <<f>> = Append(q, f)
  OBVIOUS
<1>2. Functor("writeComplete") \in Functors /\ Functor("highWater") \in Functors
      /\ Functor("writeComplete").op = "writeComplete" /\ Functor("highWater").op = "highWater"
  BY FunctorType DEF Ops
<1>3. queue' \in {q, Append(q, Functor("writeComplete")), Append(q, Functor("highWater"))}
  BY <1>1, <1>2 DEF SendInLoop
<1> QED
  BY <1>2, <1>3, ExtendsSelf, ExtendsAppend

-----------------------------------------------------------------------------
(* The life of the connection. *)

\* A step that keeps the fields of the invariant and lets the queue grow by
\* ordinary functors keeps it.
LEMMA QueueGrows ==
  ASSUME LifeInv, ups = 1, Extends(queue', queue),
         UNCHANGED <<state_, incall, aborted, owner, ups, downs, reading>>,
         tpc' \in [Threads -> {"idle", "send", "shutdown", "queueShutdown"}],
         tmsg' \in [Threads -> Nat], sends' \in Nat
  PROVE  LifeInv'
<1>1. Len(queue) \in Nat  BY DEF LifeInv, ConnTypeOK
<1> QED
  BY <1>1 DEF LifeInv, ConnTypeOK, BeforeEstablished, AfterEstablished, ReadingMeansOpen,
         DestroyedOnce, Extends

\* A step that leaves the queue and the callbacks alone keeps it if the state_ it
\* sets is not Connecting, or Disconnected with the channel listening.
LEMMA StateMoves ==
  ASSUME LifeInv, ups = 1,
         state_' = state_ \/ state_' = "Disconnecting",
         incall' \in BOOLEAN,
         UNCHANGED <<queue, aborted, owner, ups, downs, reading, sends, tmsg>>,
         tpc' \in [Threads -> {"idle", "send", "shutdown", "queueShutdown"}]
  PROVE  LifeInv'
  BY DEF LifeInv, ConnTypeOK, BeforeEstablished, AfterEstablished, ReadingMeansOpen,
         DestroyedOnce, States

\* The loop takes the first functor of the queue: what holds of the whole queue
\* holds of the rest, and a queued connectionDestroyed is not there any more.
LEMMA QueueShrinks ==
  ASSUME LifeInv, queue # << >>
  PROVE  /\ Tail(queue) \in Seq(Functors)
         /\ Head(queue) \in Functors /\ Head(queue) = queue[1] /\ 1 \in 1..Len(queue)
         /\ \A i \in 1..Len(Tail(queue)) :
              i + 1 \in 1..Len(queue) /\ Tail(queue)[i] = queue[i + 1]
         /\ Head(queue).op = "destroyed"
              => \A i \in 1..Len(Tail(queue)) : Tail(queue)[i].op # "destroyed"
<1>1. queue \in Seq(Functors)  BY DEF LifeInv, ConnTypeOK
<1>2. /\ Len(Tail(queue)) = Len(queue) - 1
      /\ \A i \in 1..(Len(queue) - 1) : i + 1 \in 1..Len(queue) /\ Tail(queue)[i] = queue[i + 1]
      /\ Head(queue) = queue[1] /\ 1 \in 1..Len(queue)
      /\ Tail(queue) \in Seq(Functors) /\ Head(queue) \in Functors
  BY <1>1, TailFunctor
<1>3. ASSUME Head(queue).op = "destroyed", NEW i \in 1..Len(Tail(queue))
      PROVE  Tail(queue)[i].op # "destroyed"
  <2>1. i + 1 \in 1..Len(queue) /\ Tail(queue)[i] = queue[i + 1] /\ i + 1 # 1
    BY <1>2
  <2> QED  BY <1>2, <1>3, <2>1 DEF LifeInv, DestroyedOnce
<1> QED  BY <1>2, <1>3

\* The state with the first functor taken off satisfies what LifeInv says of
\* the queue.
LEMMA TailFacts ==
  ASSUME LifeInv, queue # << >>, ups = 1
  PROVE  /\ \A i \in 1..Len(Tail(queue)) : Tail(queue)[i].op # "established"
         /\ owner # "removed" \/ downs = 1
              => \A i \in 1..Len(Tail(queue)) : Tail(queue)[i].op # "destroyed"
         /\ \A i, j \in 1..Len(Tail(queue)) :
              Tail(queue)[i].op = "destroyed" /\ Tail(queue)[j].op = "destroyed" => i = j
<1>1. \A i \in 1..Len(Tail(queue)) :
              i \in Nat /\ i + 1 \in 1..Len(queue) /\ Tail(queue)[i] = queue[i + 1]
  BY QueueShrinks
<1> QED  BY <1>1 DEF LifeInv, AfterEstablished, DestroyedOnce, ConnTypeOK

\* The loop runs an ordinary functor, which may queue ordinary functors.
LEMMA RunsOrdinary ==
  ASSUME LifeInv, ups = 1, queue # << >>, Extends(queue', Tail(queue)),
         state_' = state_ \/ state_' = "Disconnecting",
         incall' \in BOOLEAN,
         UNCHANGED <<aborted, owner, ups, downs, reading, sends, tmsg, tpc>>
  PROVE  LifeInv'
<1>1. Tail(queue) \in Seq(Functors) /\ Len(Tail(queue)) \in Nat
  BY QueueShrinks
<1>2. /\ \A i \in 1..Len(queue') : queue'[i].op # "established"
      /\ owner # "removed" \/ downs = 1
           => \A i \in 1..Len(queue') : queue'[i].op # "destroyed"
      /\ \A i, j \in 1..Len(queue') :
           queue'[i].op = "destroyed" /\ queue'[j].op = "destroyed" => i = j
  BY <1>1, TailFacts DEF Extends
<1>3. queue' \in Seq(Functors)
  BY DEF Extends
<1> QED
  BY <1>2, <1>3 DEF LifeInv, ConnTypeOK, BeforeEstablished, AfterEstablished,
     ReadingMeansOpen, DestroyedOnce, States

\* Each step keeps LifeInv.
LEMMA LifeInvStep == ASSUME LifeInv, [Next]_vars PROVE LifeInv'
<1> USE DEF chanVars, bufVars, histVars, threadFrame
<1>q. queue \in Seq(Functors)
  BY DEF LifeInv, ConnTypeOK
<1>up. ASSUME NEW op, Pop(op), op # "established"
       PROVE  ups = 1 /\ queue # << >>
  <2>1. CASE ups = 0
    <3>1. Head(queue).op = "established"
      BY <2>1 DEF LifeInv, BeforeEstablished, Functor
    <3> QED  BY <1>up, <3>1 DEF Pop
  <2> QED  BY <2>1, <1>up DEF LifeInv, ConnTypeOK, Pop
<1>1. CASE ConnectionEstablished
  <2>1. ups = 0
    <3> SUFFICES ASSUME ups = 1 PROVE FALSE
      BY DEF LifeInv, ConnTypeOK
    <3>1. queue # << >> /\ Head(queue).op = "established"
      BY <1>1 DEF ConnectionEstablished, Pop
    <3> QED  BY <3>1, QueueShrinks DEF LifeInv, AfterEstablished
  <2>2. queue = <<Functor("established")>>
    BY <2>1 DEF LifeInv, BeforeEstablished
  <2>3. Tail(queue) = << >> /\ Len(Tail(queue)) = 0 /\ Tail(queue) \in Seq(Functors)
    BY <2>2, <1>q
  <2>4. state_ = "Connecting" /\ owner = "holds" /\ downs = 0
    BY <2>1 DEF LifeInv, BeforeEstablished
  <2>5. /\ queue' = Tail(queue) /\ state_' = "Connected" /\ reading' = TRUE /\ ups' = 1
        /\ incall' = TRUE
        /\ UNCHANGED <<aborted, owner, tpc, tmsg, sends, downs>>
    BY <1>1, <2>1, <2>4 DEF ConnectionEstablished
  <2> QED
    BY <2>3, <2>4, <2>5 DEF LifeInv, ConnTypeOK, BeforeEstablished, AfterEstablished,
       ReadingMeansOpen, DestroyedOnce, States
<1>2. CASE ConnectionDestroyed
  <2>1. ups = 1 /\ queue # << >>
    BY <1>2, <1>up DEF ConnectionDestroyed
  <2>2. Head(queue).op = "destroyed" /\ queue' = Tail(queue)
    BY <1>2 DEF ConnectionDestroyed, Pop
  <2>3. owner = "removed" /\ downs = 0
    BY <2>1, <2>2, QueueShrinks DEF LifeInv, DestroyedOnce, ConnTypeOK
  <2>4. \A i \in 1..Len(queue') : queue'[i].op \notin {"established", "destroyed"}
    BY <2>1, <2>2, QueueShrinks, TailFacts
  <2>5. queue' \in Seq(Functors)
    BY <2>1, <2>2, QueueShrinks
  <2>6. /\ state_' = "Disconnected" /\ reading' = FALSE /\ downs' = 1
        /\ UNCHANGED <<incall, aborted, owner, tpc, tmsg, sends, ups>>
    BY <1>2, <2>3 DEF ConnectionDestroyed
  <2> QED
    BY <2>1, <2>3, <2>4, <2>5, <2>6 DEF LifeInv, ConnTypeOK, BeforeEstablished,
       AfterEstablished, ReadingMeansOpen, DestroyedOnce, States
<1>3. CASE RunSend
  <2>1. ups = 1 /\ queue # << >>
    BY <1>3, <1>up DEF RunSend
  <2>2. Extends(queue', Tail(queue))
    BY <1>3, <2>1, QueueShrinks, SendInLoopQueue DEF RunSend
  <2> QED  BY <1>3, <2>1, <2>2, RunsOrdinary DEF RunSend, LifeInv, ConnTypeOK
<1>4. CASE RunShutdown
  <2>1. ups = 1 /\ queue # << >>
    BY <1>4, <1>up DEF RunShutdown
  <2>2. Extends(queue', Tail(queue))
    BY <1>4, <2>1, QueueShrinks, ExtendsSelf DEF RunShutdown
  <2> QED
    BY <1>4, <2>1, <2>2, RunsOrdinary DEF RunShutdown, ShutdownInLoop, LifeInv, ConnTypeOK
<1>5. CASE RunUserCallback
  <2>1. ups = 1 /\ queue # << >>
    BY <1>5, <1>up DEF RunUserCallback
  <2>2. Extends(queue', Tail(queue))
    BY <1>5, <2>1, QueueShrinks, ExtendsSelf DEF RunUserCallback
  <2> QED  BY <1>5, <2>1, <2>2, RunsOrdinary DEF RunUserCallback
<1>6. CASE ReadMessage \/ ReadError
  <2>1. ups = 1
    BY <1>6 DEF ReadMessage, ReadError, Readable, LifeInv, BeforeEstablished, ConnTypeOK
  <2> QED  BY <1>6, <2>1, StateMoves DEF ReadMessage, ReadError, LifeInv, ConnTypeOK
<1>7. CASE HandleClose
  <2>1. ups = 1
    BY <1>7 DEF HandleClose, Readable, LifeInv, BeforeEstablished, ConnTypeOK
  <2>2. state_ \in {"Connected", "Disconnecting"} /\ owner = "holds"
    BY <1>7 DEF HandleClose, Readable, LifeInv, ReadingMeansOpen
  <2>3. /\ state_' = "Disconnected" /\ reading' = FALSE /\ owner' = "closing"
        /\ UNCHANGED <<aborted, queue, incall, tpc, tmsg, sends, ups, downs>>
    BY <1>7, <2>2 DEF HandleClose
  <2> QED
    BY <2>1, <2>2, <2>3 DEF LifeInv, ConnTypeOK, BeforeEstablished, AfterEstablished,
       ReadingMeansOpen, DestroyedOnce, States
<1>8. CASE CallbackReturns \/ CallShutdown \/ CallShutdownInLoop
  <2>1. ups = 1
    BY <1>8 DEF CallbackReturns, CallShutdown, CallShutdownInLoop, LifeInv,
       BeforeEstablished, ConnTypeOK
  <2> QED
    BY <1>8, <2>1, StateMoves DEF CallbackReturns, CallShutdown, CallShutdownInLoop,
       ShutdownInLoop, LifeInv, ConnTypeOK
<1>9. CASE RemoveConnection
  <2>1. ups = 1
    BY <1>9 DEF RemoveConnection, LifeInv, BeforeEstablished, ConnTypeOK
  <2>2. owner = "closing" /\ owner' = "removed" /\ queue' = Append(queue, Functor("destroyed"))
        /\ UNCHANGED <<state_, reading, incall, aborted, tpc, tmsg, sends, ups, downs>>
    BY <1>9 DEF RemoveConnection
  <2>3. Functor("destroyed") \in Functors /\ Functor("destroyed").op = "destroyed"
    BY FunctorType DEF Ops
  <2>4. /\ queue' \in Seq(Functors) /\ Len(queue') = Len(queue) + 1 /\ Len(queue) \in Nat
        /\ \A i \in 1..(Len(queue) + 1) :
             queue'[i] = IF i <= Len(queue) THEN queue[i] ELSE Functor("destroyed")
    BY <1>q, <2>2, <2>3, AppendFunctor
  <2>5. \A i \in 1..Len(queue) : queue[i].op \notin {"destroyed", "established"}
    BY <2>1, <2>2 DEF LifeInv, DestroyedOnce, AfterEstablished
  <2>6. /\ \A i \in 1..Len(queue') : queue'[i].op # "established"
        /\ \A i \in 1..Len(queue') : queue'[i].op = "destroyed" => i = Len(queue) + 1
    BY <2>3, <2>4, <2>5
  <2>7. downs = 0 /\ ~reading
    BY <2>2 DEF LifeInv, DestroyedOnce, ReadingMeansOpen
  <2> QED
    BY <2>1, <2>2, <2>4, <2>6, <2>7 DEF LifeInv, ConnTypeOK, BeforeEstablished, AfterEstablished,
       ReadingMeansOpen, DestroyedOnce
<1>10. CASE CallSend
  <2>1. ups = 1
    BY <1>10 DEF CallSend, LifeInv, BeforeEstablished, ConnTypeOK
  <2>2. Extends(queue', queue)
    BY <1>10, <1>q, SendInLoopQueue DEF CallSend
  <2> QED  BY <1>10, <2>1, <2>2, QueueGrows DEF CallSend, LifeInv, ConnTypeOK
<1>11. ASSUME NEW t \in Threads, ThreadSend(t) \/ ThreadShutdown(t) \/ ThreadStep(t)
       PROVE  LifeInv'
  <2>1. ups = 1
    BY <1>11 DEF ThreadSend, ThreadShutdown, ThreadStep, ThreadQueueSend,
       ThreadSetDisconnecting, ThreadQueueShutdown, LifeInv, BeforeEstablished, ConnTypeOK
  <2>2. CASE ThreadSend(t)
    BY <1>q, <2>1, <2>2, ExtendsSelf, QueueGrows DEF ThreadSend, LifeInv, ConnTypeOK
  <2>3. CASE ThreadShutdown(t) \/ ThreadSetDisconnecting(t)
    BY <2>1, <2>3, StateMoves DEF ThreadShutdown, ThreadSetDisconnecting, LifeInv, ConnTypeOK
  <2>4. CASE ThreadQueueSend(t)
    <3>1. SendFunctor(tmsg[t]) \in Functors /\ SendFunctor(tmsg[t]).op = "send"
      BY FunctorType DEF LifeInv, ConnTypeOK
    <3> QED
      BY <1>q, <2>1, <2>4, <3>1, ExtendsAppend, QueueGrows
         DEF ThreadQueueSend, LifeInv, ConnTypeOK
  <2>5. CASE ThreadQueueShutdown(t)
    <3>1. Functor("shutdown") \in Functors /\ Functor("shutdown").op = "shutdown"
      BY FunctorType DEF Ops
    <3> QED
      BY <1>q, <2>1, <2>5, <3>1, ExtendsAppend, QueueGrows
         DEF ThreadQueueShutdown, LifeInv, ConnTypeOK
  <2> QED  BY <1>11, <2>2, <2>3, <2>4, <2>5 DEF ThreadStep
<1>12. CASE PeerSends \/ PeerCloses \/ PeerResets
  <2>1. ups = 1 /\ UNCHANGED <<state_, reading, queue, incall, aborted, owner, tpc, tmsg,
                               sends, ups, downs>>
    BY <1>12 DEF PeerSends, PeerCloses, PeerResets, PeerActs
  <2> QED  BY <2>1, StateMoves DEF LifeInv, ConnTypeOK
<1>13. CASE UNCHANGED vars
  BY <1>13 DEF vars, LifeInv, ConnTypeOK, BeforeEstablished, AfterEstablished,
     ReadingMeansOpen, DestroyedOnce
<1> QED
  BY <1>1, <1>2, <1>3, <1>4, <1>5, <1>6, <1>7, <1>8, <1>9, <1>10, <1>11, <1>12, <1>13
     DEF Next, LoopStep

\* LifeInv is an invariant of the connection.
LEMMA LifeInvariant == Spec => []LifeInv
<1>1. Init => LifeInv
  <2> SUFFICES ASSUME Init PROVE LifeInv
    OBVIOUS
  <2>1. Functor("established") \in Functors /\ Functor("established").op = "established"
    BY FunctorType DEF Ops
  <2>2. queue \in Seq(Functors) /\ Len(queue) = 1 /\ queue[1] = Functor("established")
    BY <2>1 DEF Init
  <2>3. DestroyedOnce
    BY <2>1, <2>2 DEF Init, DestroyedOnce
  <2>4. ConnTypeOK
    BY <2>2 DEF Init, ConnTypeOK, States
  <2> QED
    BY <2>3, <2>4 DEF Init, LifeInv, BeforeEstablished, AfterEstablished, ReadingMeansOpen
<1>2. LifeInv /\ [Next]_vars => LifeInv'
  BY LifeInvStep
<1> QED  BY <1>1, <1>2, PTL DEF Spec

\* The CHECKs of connectionEstablished and handleClose never abort, whatever
\* other threads do to state_ in between.
THEOREM NeverAborts == Spec => []NoAbort
<1>1. LifeInv => NoAbort
  BY DEF LifeInv, NoAbort
<1> QED  BY <1>1, LifeInvariant, PTL

\* The channel is deaf after close_callback_; up is reported before down, and
\* each once.
THEOREM CallbacksInOrder == Spec => []CallbackOrder
<1>1. LifeInv => CallbackOrder
  BY DEF LifeInv, ConnTypeOK, BeforeEstablished, ReadingMeansOpen, DestroyedOnce, CallbackOrder
<1> QED  BY <1>1, LifeInvariant, PTL

-----------------------------------------------------------------------------
(* The bytes. *)

\* A direct write of n units and the buffering of the rest are the message.
LEMMA UnitsSplit ==
  ASSUME NEW m \in Nat, NEW n \in 0..MsgLen
  PROVE  /\ Units(m) \in Seq(Nat)
         /\ SubSeq(Units(m), 1, n) \in Seq(Nat)
         /\ SubSeq(Units(m), n + 1, MsgLen) \in Seq(Nat)
         /\ SubSeq(Units(m), 1, n) \o SubSeq(Units(m), n + 1, MsgLen) = Units(m)
         /\ n = 0 => SubSeq(Units(m), 1, n) = << >>
         /\ n = MsgLen => SubSeq(Units(m), 1, n) = Units(m)
<1>1. MsgLen \in Nat  BY MsgLenAssumption
<1>2. Units(m) \in Seq(Nat) /\ Len(Units(m)) = MsgLen
  BY <1>1 DEF Units
<1>3. \A i \in 1..MsgLen : Units(m)[i] \in Nat
  BY DEF Units
<1>4. SubSeq(Units(m), 1, n) \in Seq(Nat) /\ SubSeq(Units(m), n + 1, MsgLen) \in Seq(Nat)
  <2>1. \A k, l \in Int : (\A i \in k..l : Units(m)[i] \in Nat)
                            => SubSeq(Units(m), k, l) \in Seq(Nat)
    BY SubSeqProperties
  <2>2. /\ 1 \in Int /\ n \in Int /\ n + 1 \in Int /\ MsgLen \in Int
        /\ \A i \in 1..n : i \in 1..MsgLen
        /\ \A i \in (n + 1)..MsgLen : i \in 1..MsgLen
    BY <1>1
  <2> QED  BY <1>3, <2>1, <2>2
<1>5. SubSeq(Units(m), 1, MsgLen) = Units(m)
  BY <1>2, SubSeqFull
<1>6. SubSeq(Units(m), 1, n) \o SubSeq(Units(m), n + 1, MsgLen) = SubSeq(Units(m), 1, MsgLen)
  <2>1. \A s \in Seq(Nat) : \A a \in 1..(Len(s) + 1) : \A k \in (a - 1)..Len(s) :
          \A l \in k..Len(s) : SubSeq(s, a, k) \o SubSeq(s, k + 1, l) = SubSeq(s, a, l)
    BY ConcatAdjacentSubSeq
  <2>2. 1 \in 1..(MsgLen + 1) /\ n \in (1 - 1)..MsgLen /\ MsgLen \in n..MsgLen
    BY <1>1
  <2> QED  BY <1>2, <2>1, <2>2
<1>7. n = 0 => SubSeq(Units(m), 1, n) = << >>
  BY SubSeqEmpty
<1> QED  BY <1>2, <1>4, <1>5, <1>6, <1>7

\* Concatenation is associative.
LEMMA ConcatSeqNat ==
  \A a, b, c \in Seq(Nat) : (a \o b) \o c = a \o (b \o c)
  BY ConcatAssociative

BytesInv == BytesTypeOK /\ StreamIntegrity

\* sendInLoop adds its message at the end of the stream: it writes to the socket
\* directly only when nothing is left of earlier messages.
LEMMA SendInLoopBytes ==
  ASSUME BytesInv, NEW m \in Nat, NEW q, SendInLoop(m, q)
  PROVE  BytesInv'
<1>0. MsgLen \in Nat /\ MsgLen # 0  BY MsgLenAssumption
<1>1. PICK n \in IF ~writing /\ send_buffer_ = << >> /\ ~shut THEN 0..MsgLen ELSE {0} :
        /\ out' = out \o SubSeq(Units(m), 1, n)
        /\ stream' = stream \o Units(m)
        /\ \/ n = MsgLen /\ UNCHANGED send_buffer_
           \/ n < MsgLen /\ send_buffer_' = send_buffer_ \o SubSeq(Units(m), n + 1, MsgLen)
  BY DEF SendInLoop
<1>n. n \in 0..MsgLen /\ (n # 0 => send_buffer_ = << >>)
  BY <1>0
<1> DEFINE taken == SubSeq(Units(m), 1, n)
           rest  == SubSeq(Units(m), n + 1, MsgLen)
<1>2. /\ Units(m) \in Seq(Nat) /\ taken \in Seq(Nat) /\ rest \in Seq(Nat)
      /\ taken \o rest = Units(m)
      /\ n = 0 => taken = << >>
      /\ n = MsgLen => taken = Units(m)
  BY <1>n, UnitsSplit
<1>4. \A a \in Seq(Nat) : a \o << >> = a /\ << >> \o a = a
  BY ConcatEmptySeq
<1>t. \A a, b \in Seq(Nat) : a \o b \in Seq(Nat)
  OBVIOUS
<1>p. /\ out' = out \o taken /\ stream' = stream \o Units(m)
      /\ \/ n = MsgLen /\ send_buffer_' = send_buffer_
         \/ n < MsgLen /\ send_buffer_' = send_buffer_ \o rest
  BY <1>1
<1>i. /\ out \in Seq(Nat) /\ send_buffer_ \in Seq(Nat) /\ stream \in Seq(Nat)
      /\ out \o send_buffer_ = stream
  BY DEF BytesInv, BytesTypeOK, StreamIntegrity
<1> HIDE DEF taken, rest
<1>5. out' \in Seq(Nat) /\ send_buffer_' \in Seq(Nat) /\ stream' \in Seq(Nat)
  BY <1>2, <1>i, <1>p, <1>t
<1>a. /\ (out \o send_buffer_) \o rest = out \o (send_buffer_ \o rest)
      /\ (out \o taken) \o rest = out \o (taken \o rest)
  <2>1. out \in Seq(Nat) /\ send_buffer_ \in Seq(Nat) /\ taken \in Seq(Nat) /\ rest \in Seq(Nat)
    BY <1>2, <1>i
  <2>2. (out \o send_buffer_) \o rest = out \o (send_buffer_ \o rest)
    BY <2>1, ConcatSeqNat, Zenon
  <2>3. (out \o taken) \o rest = out \o (taken \o rest)
    BY <2>1, ConcatSeqNat, Zenon
  <2> QED  BY <2>2, <2>3
<1>6. CASE n = MsgLen /\ send_buffer_' = send_buffer_
  <2>1. send_buffer_ = << >> /\ out = stream
    BY <1>0, <1>n, <1>4, <1>6, <1>i
  <2>2. out' = stream' /\ send_buffer_' = << >>
    BY <1>2, <1>6, <1>p, <2>1
  <2>3. out' \o send_buffer_' = stream'
    BY <1>4, <1>5, <2>2
  <2> QED  BY <1>5, <2>3 DEF BytesInv, BytesTypeOK, StreamIntegrity
<1>7. CASE n < MsgLen /\ send_buffer_' = send_buffer_ \o rest
  <2>1. CASE n = 0
    <3>1. out' = out /\ rest = Units(m)
      BY <1>2, <1>4, <1>i, <1>p, <2>1
    <3>2. out' \o send_buffer_' = (out \o send_buffer_) \o rest
      BY <1>7, <1>a, <3>1, Zenon
    <3>3. out' \o send_buffer_' = stream'
      BY <1>i, <1>p, <3>1, <3>2
    <3> QED  BY <1>5, <3>3 DEF BytesInv, BytesTypeOK, StreamIntegrity
  <2>2. CASE n # 0
    <3>1. send_buffer_ = << >> /\ out = stream /\ send_buffer_' = rest
      BY <1>2, <1>4, <1>7, <1>i, <1>n, <2>2
    <3>2. out' \o send_buffer_' = out \o (taken \o rest)
      BY <1>a, <1>p, <3>1, Zenon
    <3>3. out' \o send_buffer_' = stream'
      BY <1>2, <1>p, <3>1, <3>2
    <3> QED  BY <1>5, <3>3 DEF BytesInv, BytesTypeOK, StreamIntegrity
  <2> QED  BY <2>1, <2>2
<1> QED  BY <1>6, <1>7, <1>p

\* Only sendInLoop touches the bytes.
LEMMA BytesInvStep == ASSUME LifeInv, BytesInv, [Next]_vars PROVE BytesInv'
<1> USE DEF chanVars, bufVars, histVars, threadFrame
<1>1. CASE RunSend
  <2>1. Head(queue).msg \in Nat
    BY <1>1, QueueShrinks DEF RunSend, Pop, Functors
  <2> QED  BY <1>1, <2>1, SendInLoopBytes DEF RunSend
<1>2. CASE CallSend
  <2>1. sends + 1 \in Nat
    BY DEF LifeInv, ConnTypeOK
  <2> QED  BY <1>2, <2>1, SendInLoopBytes DEF CallSend
<1>3. CASE UNCHANGED bufVars
  BY <1>3 DEF BytesInv, BytesTypeOK, StreamIntegrity
<1>4. CASE ConnectionEstablished \/ ConnectionDestroyed \/ RunShutdown \/ RunUserCallback
           \/ ReadMessage \/ ReadError \/ HandleClose \/ CallbackReturns
           \/ RemoveConnection \/ CallShutdown \/ CallShutdownInLoop
  BY <1>3, <1>4 DEF ConnectionEstablished, ConnectionDestroyed, RunShutdown, RunUserCallback,
     ReadMessage, ReadError, HandleClose, CallbackReturns, RemoveConnection, CallShutdown,
     CallShutdownInLoop
<1>5. CASE \E t \in Threads : ThreadSend(t) \/ ThreadShutdown(t) \/ ThreadStep(t)
  BY <1>3, <1>5 DEF ThreadSend, ThreadShutdown, ThreadStep, ThreadQueueSend,
     ThreadSetDisconnecting, ThreadQueueShutdown
<1>6. CASE PeerSends \/ PeerCloses \/ PeerResets
  BY <1>3, <1>6 DEF PeerSends, PeerCloses, PeerResets, PeerActs
<1>7. CASE UNCHANGED vars
  BY <1>3, <1>7 DEF vars
<1> QED
  BY <1>1, <1>2, <1>4, <1>5, <1>6, <1>7 DEF Next, LoopStep

\* Partial direct writes, buffering and sends of any thread neither reorder nor
\* lose a unit of what was handed to sendInLoop.
THEOREM StreamStaysIntact == Spec => []StreamIntegrity
<1>1. Init => BytesInv
  <2>1. << >> \in Seq(Nat) /\ << >> \o << >> = << >>
    OBVIOUS
  <2> QED  BY <2>1 DEF Init, BytesInv, BytesTypeOK, StreamIntegrity
<1>2. LifeInv /\ BytesInv /\ [Next]_vars => BytesInv'
  BY BytesInvStep
<1>3. BytesInv => StreamIntegrity
  BY DEF BytesInv
<1> QED  BY <1>1, <1>2, <1>3, LifeInvariant, PTL DEF Spec
=============================================================================
