-------------------------- MODULE TcpClientProofs ---------------------------
(***************************************************************************)
(* Connector and TcpClient for any delays and any number of calls: what a  *)
(* pending start(), a retry timer and an attempt exclude, what a queued    *)
(* connectionDestroyed finds, and from it the safety of the client.        *)
(***************************************************************************)
EXTENDS TcpClient, SequenceTheorems, TLAPS

ClientOps == {"start", "stop", "destroyed"}

Functors == [op : ClientOps, conn : Nat]

HasOp(q, op) == \E i \in 1..Len(q) : q[i].op = op

\* At most one start() is queued.
OneStart(q) == \A i, j \in 1..Len(q) : q[i].op = "start" /\ q[j].op = "start" => i = j

\* A start() whose startInLoop has yet to run.
StartPending == upc = "start" \/ HasOp(tasks, "start")

AttemptTypeOK ==
    /\ connect_ \in BOOLEAN
    /\ state_ \in {"Disconnected", "Connecting", "Connected"}
    /\ socket_ \in BOOLEAN /\ channel_ \in BOOLEAN
    /\ timers \in Nat
    /\ tasks \in Seq(Functors)
    /\ incall \in BOOLEAN /\ closing \in BOOLEAN /\ aborted \in BOOLEAN
    /\ upc \in {"idle", "start", "stop", "dtor"}
    /\ halted \in BOOLEAN /\ latent \in BOOLEAN /\ stale \in BOOLEAN

\* The socket belongs to the attempt under way or to the connection being
\* reported; during the report there is no channel, and no close callback.
SocketOfAttempt ==
    /\ socket_ => state_ = "Connecting" \/ incall
    /\ channel_ /\ socket_ => state_ = "Connecting"
    /\ incall => (stale \/ ~channel_) /\ ~closing

\* Before the first call there is nothing.
Untouched ==
    last = "none" =>
        /\ state_ = "Disconnected" /\ ~channel_ /\ ~socket_ /\ ~incall /\ timers = 0
        /\ ~HasOp(tasks, "start") /\ ~HasOp(tasks, "stop")
        /\ upc \in {"idle", "dtor"}

\* At most one of: a pending start(), a retry timer, an attempt under way.
OneThing ==
    /\ timers <= 1
    /\ timers = 1 => state_ = "Disconnected" /\ ~channel_
    /\ channel_ <=> (state_ = "Connecting" /\ socket_)
    /\ StartPending => state_ = "Disconnected" /\ timers = 0 /\ ~channel_
    /\ OneStart(tasks)
    /\ upc = "start" => ~HasOp(tasks, "start")

\* stopInLoop leaves no attempt, and without a timer none follows.
HaltOK == halted /\ ~latent => timers = 0 /\ ~(channel_ /\ socket_)

AttemptInv ==
    /\ AttemptTypeOK
    /\ SocketOfAttempt
    /\ Untouched
    /\ stale \/ OneThing
    /\ HaltOK
    /\ aborted => stale

-----------------------------------------------------------------------------
(* The queue of the loop. *)

\* A functor is queued.
LEMMA AppendFunctor ==
  ASSUME NEW q \in Seq(Functors), NEW f \in Functors
  PROVE  /\ Append(q, f) \in Seq(Functors)
         /\ \A op : HasOp(Append(q, f), op) <=> HasOp(q, op) \/ f.op = op
         /\ OneStart(q) /\ (f.op = "start" => ~HasOp(q, "start")) => OneStart(Append(q, f))
<1>1. /\ Append(q, f) \in Seq(Functors) /\ Len(Append(q, f)) = Len(q) + 1 /\ Len(q) \in Nat
      /\ \A i \in 1..(Len(q) + 1) : Append(q, f)[i] = IF i <= Len(q) THEN q[i] ELSE f
  OBVIOUS
<1>2. ASSUME NEW op PROVE HasOp(Append(q, f), op) <=> HasOp(q, op) \/ f.op = op
  <2>1. /\ Len(q) + 1 \in 1..(Len(q) + 1) /\ Append(q, f)[Len(q) + 1] = f
        /\ \A i \in 1..Len(q) : i \in 1..(Len(q) + 1) /\ Append(q, f)[i] = q[i]
        /\ \A i \in 1..(Len(q) + 1) : i \in 1..Len(q) \/ i = Len(q) + 1
    BY <1>1
  <2> QED  BY <1>1, <2>1 DEF HasOp
<1>3. ASSUME OneStart(q), f.op = "start" => ~HasOp(q, "start") PROVE OneStart(Append(q, f))
  <2>1. f.op # "start" \/ \A i \in 1..Len(q) : q[i].op # "start"
    BY <1>3 DEF HasOp
  <2> QED  BY <1>1, <1>3, <2>1 DEF OneStart
<1> QED  BY <1>1, <1>2, <1>3

\* The loop takes the first functor.
LEMMA TailFunctor ==
  ASSUME NEW q \in Seq(Functors), q # << >>
  PROVE  /\ Tail(q) \in Seq(Functors) /\ Head(q) \in Functors
         /\ Len(q) \in Nat \ {0} /\ Len(Tail(q)) = Len(q) - 1 /\ Head(q) = q[1]
         /\ \A i \in 1..Len(Tail(q)) :
              /\ i + 1 \in 1..Len(q) /\ Tail(q)[i] = q[i + 1]
              /\ i + 1 # 1 /\ (i + 1 = Len(q) => i = Len(Tail(q)))
         /\ HasOp(q, Head(q).op)
         /\ \A op : HasOp(Tail(q), op) => HasOp(q, op)
         /\ OneStart(q) =>
              OneStart(Tail(q)) /\ (Head(q).op = "start" => ~HasOp(Tail(q), "start"))
<1>1. /\ Tail(q) \in Seq(Functors) /\ Len(Tail(q)) = Len(q) - 1 /\ Len(q) \in Nat \ {0}
      /\ Head(q) = q[1] /\ Head(q) \in Functors /\ 1 \in 1..Len(q)
  OBVIOUS
<1>2. \A i \in 1..Len(Tail(q)) :
        i \in Nat \ {0} /\ i + 1 \in 1..Len(q) /\ Tail(q)[i] = q[i + 1]
  OBVIOUS
<1>6. \A i \in 1..Len(Tail(q)) : i + 1 # 1 /\ (i + 1 = Len(q) => i = Len(Tail(q)))
  <2>1. \A n \in Nat \ {0} : \A i \in 1..(n - 1) : i + 1 # 1 /\ (i + 1 = n => i = n - 1)
    OBVIOUS
  <2> QED  BY <1>1, <2>1, Zenon
<1>3. HasOp(q, Head(q).op) /\ \A op : HasOp(Tail(q), op) => HasOp(q, op)
  BY <1>1, <1>2 DEF HasOp
<1>4. ASSUME OneStart(q) PROVE OneStart(Tail(q))
  <2>1. ASSUME NEW i \in 1..Len(Tail(q)), NEW j \in 1..Len(Tail(q)),
               Tail(q)[i].op = "start", Tail(q)[j].op = "start"
        PROVE  i = j
    <3>1. i + 1 = j + 1
      BY <1>2, <1>4, <2>1 DEF OneStart
    <3> QED  BY <1>2, <3>1
  <2> QED  BY <2>1 DEF OneStart
<1>5. ASSUME OneStart(q), Head(q).op = "start" PROVE ~HasOp(Tail(q), "start")
  <2>1. ASSUME NEW i \in 1..Len(Tail(q)) PROVE Tail(q)[i].op # "start"
    <3>1. i + 1 \in 1..Len(q) /\ i + 1 # 1 /\ Tail(q)[i] = q[i + 1]
      BY <1>2
    <3> QED  BY <1>1, <1>5, <3>1 DEF OneStart
  <2> QED  BY <2>1 DEF HasOp
<1> QED  BY <1>1, <1>2, <1>3, <1>4, <1>5, <1>6

\* The functors that are queued.
LEMMA FunctorType ==
  /\ \A op \in {"start", "stop"} : Functor(op) \in Functors /\ Functor(op).op = op
  /\ \A c \in Nat : [op |-> "destroyed", conn |-> c] \in Functors
  BY DEF Functor, Functors, ClientOps

\* Leftover in terms of the queue.
LEMMA LeftoverMeans ==
  ASSUME AttemptTypeOK
  PROVE  /\ Leftover <=>
              /\ last # "none"
              /\ \/ timers > 0 \/ state_ = "Connecting" \/ upc # "idle"
                 \/ HasOp(tasks, "start") \/ HasOp(tasks, "stop")
         /\ ConnectorTasks <=> HasOp(tasks, "start") \/ HasOp(tasks, "stop")
<1>1. DOMAIN tasks = 1..Len(tasks)
  BY DEF AttemptTypeOK
<1>2. (\E i \in DOMAIN tasks : tasks[i].op \in {"start", "stop"})
        <=> HasOp(tasks, "start") \/ HasOp(tasks, "stop")
  BY <1>1 DEF HasOp
<1> QED  BY <1>2 DEF Leftover, ConnectorTasks

-----------------------------------------------------------------------------
(* The steps of the connector. *)

\* startInLoop, from a state in which, unless the connector is stale, nothing is
\* under way.
LEMMA StartInLoopStep ==
  ASSUME AttemptInv, NEW state \in {"Disconnected", state_}, NEW delay,
         NEW pending \in Nat, NEW connecting \in BOOLEAN,
         StartInLoop(state, delay, pending, connecting),
         last' # "none", incall' = incall,
         closing' \in BOOLEAN, closing' => closing, connect_' \in BOOLEAN,
         upc' = upc, tasks' \in Seq(Functors),
         stale' \in BOOLEAN, stale => stale', halted' \in BOOLEAN, latent' = latent,
         stale' \/ /\ ~incall /\ state = "Disconnected" /\ state_ # "Connecting" /\ pending = 0
                   /\ ~channel_ /\ upc # "start" /\ ~HasOp(tasks', "start") /\ OneStart(tasks'),
         halted' /\ ~latent => FALSE
  PROVE  AttemptInv'
<1> USE DEF AttemptInv
<1>0. \/ /\ state_' = "Connecting" /\ socket_' = TRUE /\ channel_' = TRUE
         /\ timers' = pending /\ aborted' = aborted
      \/ /\ state_' = "Disconnected" /\ socket_' = FALSE /\ channel_' = channel_
         /\ timers' \in {pending, pending + 1} /\ aborted' = aborted
      \/ /\ state # "Disconnected" /\ aborted' = TRUE /\ timers' = pending
         /\ state_' = state_ /\ socket_' = socket_ /\ channel_' = channel_
  BY DEF StartInLoop, Connect, Retry
<1>1. AttemptTypeOK'
  <2>1. timers' \in Nat
    BY <1>0
  <2> QED  BY <1>0, <2>1, Zenon DEF AttemptTypeOK
<1>2. SocketOfAttempt'
  BY <1>0 DEF SocketOfAttempt
<1>3. Untouched' /\ HaltOK'
  BY DEF Untouched, HaltOK
<1>4. stale' \/ OneThing'
  BY <1>0 DEF OneThing, StartPending, SocketOfAttempt, AttemptTypeOK
<1>5. aborted' => stale'
  BY <1>0
<1> QED  BY <1>1, <1>2, <1>3, <1>4, <1>5

\* stopInLoop.
LEMMA StopInLoopStep ==
  ASSUME AttemptInv, StopInLoop, last' # "none", connect_' \in BOOLEAN,
         UNCHANGED <<timers, incall, closing, aborted, upc, stale>>,
         tasks' \in Seq(Functors), OneStart(tasks) => OneStart(tasks'),
         HasOp(tasks', "start") => HasOp(tasks, "start")
  PROVE  AttemptInv'
<1> USE DEF AttemptInv
<1>0. /\ state_' = "Disconnected" /\ halted' = TRUE
      /\ latent' \in BOOLEAN /\ (latent' <=> timers > 0)
      /\ \/ state_ = "Connecting" /\ channel_' = FALSE /\ socket_' = FALSE
         \/ state_ # "Connecting" /\ channel_' = channel_ /\ socket_' = socket_
  <2>1. (timers > 0) \in BOOLEAN
    OBVIOUS
  <2> QED  BY <2>1, Zenon DEF StopInLoop
<1>1. AttemptTypeOK'
  BY <1>0 DEF AttemptTypeOK
<1>2. SocketOfAttempt'
  BY <1>0 DEF SocketOfAttempt
<1>3. Untouched' /\ HaltOK'
  BY <1>0 DEF Untouched, HaltOK, SocketOfAttempt, AttemptTypeOK
<1>4. stale' \/ OneThing'
  BY <1>0 DEF OneThing, StartPending, SocketOfAttempt, AttemptTypeOK
<1>5. aborted' => stale'
  OBVIOUS
<1> QED  BY <1>1, <1>2, <1>3, <1>4, <1>5

\* Steps that change at most the queue, by a functor of another kind, the wish
\* to connect and the call of the user.
LEMMA QueueStep ==
  ASSUME AttemptInv, connect_' \in BOOLEAN,
         UNCHANGED <<state_, socket_, channel_, timers, incall, aborted, haltVars>>,
         closing' = closing \/ (closing' = TRUE /\ ~incall),
         stale' \in BOOLEAN, stale => stale',
         tasks' \in Seq(Functors), OneStart(tasks) => OneStart(tasks') \/ stale',
         upc' \in {"idle", "start", "stop", "dtor"},
         \/ stale'
         \/ StartPending' => StartPending
         \/ state_ = "Disconnected" /\ timers = 0 /\ ~channel_,
         stale' \/ (upc' = "start" => ~HasOp(tasks', "start")),
         last' = "none" =>
            /\ last = "none" /\ upc' \in {"idle", "dtor"}
            /\ ~HasOp(tasks', "start") /\ ~HasOp(tasks', "stop")
  PROVE  AttemptInv'
<1> USE DEF AttemptInv
<1>1. AttemptTypeOK'
  BY DEF AttemptTypeOK, haltVars
<1>2. SocketOfAttempt' /\ Untouched' /\ HaltOK'
  BY DEF SocketOfAttempt, Untouched, HaltOK, haltVars
<1>3. stale' \/ OneThing'
  <2> SUFFICES ASSUME ~stale' PROVE OneThing'
    OBVIOUS
  <2>1. OneThing
    OBVIOUS
  <2> HIDE DEF AttemptInv
  <2>2. StartPending' => state_ = "Disconnected" /\ timers = 0 /\ ~channel_
    BY <2>1 DEF OneThing
  <2> QED  BY <2>1, <2>2 DEF OneThing
<1> QED  BY <1>1, <1>2, <1>3

\* Nothing of the connector changes.
LEMMA AttemptFrame ==
  ASSUME AttemptInv, UNCHANGED vars
  PROVE  AttemptInv'
<1>1. UNCHANGED <<connect_, state_, socket_, channel_, timers, tasks, incall, closing, aborted,
                  upc, last, halted, latent, stale>>
  BY DEF vars, userVars, haltVars
<1> QED
  BY <1>1 DEF AttemptInv, AttemptTypeOK, SocketOfAttempt, Untouched, OneThing, HaltOK,
              StartPending, HasOp, OneStart

\* The facts the steps below start from.
LEMMA AttemptFacts ==
  ASSUME AttemptInv
  PROVE  /\ connect_ \in BOOLEAN /\ stale \in BOOLEAN /\ halted \in BOOLEAN
         /\ latent \in BOOLEAN /\ timers \in Nat /\ tasks \in Seq(Functors)
         /\ upc \in {"idle", "start", "stop", "dtor"} /\ closing \in BOOLEAN
  BY DEF AttemptInv, AttemptTypeOK

\* start() by the user thread.
LEMMA UserStartStep ==
  ASSUME AttemptInv, UserStart
  PROVE  AttemptInv'
<1>1. AttemptTypeOK /\ Untouched /\ (stale \/ OneThing)
  BY DEF AttemptInv
<1>2. /\ upc = "idle" /\ upc' = "start" /\ connect_' = TRUE /\ last' = "start"
      /\ UNCHANGED <<state_, socket_, channel_, timers, tasks, incall, closing, aborted, haltVars>>
  BY DEF UserStart
<1>3. stale' \in BOOLEAN /\ (stale' <=> stale \/ Leftover \/ state_ = "Connected")
  <2>1. (stale \/ Leftover \/ state_ = "Connected") \in BOOLEAN
    OBVIOUS
  <2> QED  BY <2>1, Zenon DEF UserStart, StartsOver
<1>4. ~stale' => state_ = "Disconnected" /\ timers = 0 /\ ~channel_ /\ ~HasOp(tasks, "start")
  BY <1>1, <1>3, LeftoverMeans DEF AttemptTypeOK, Untouched, OneThing
<1> QED  BY <1>2, <1>3, <1>4, AttemptFacts, QueueStep

\* The functor of the call is queued.
LEMMA UserQueuesStep ==
  ASSUME AttemptInv, UserQueues
  PROVE  AttemptInv'
<1>1. AttemptTypeOK /\ Untouched /\ (stale \/ OneThing)
  BY DEF AttemptInv
<1>2. /\ upc \in {"start", "stop"} /\ upc' = "idle" /\ tasks' = Append(tasks, Functor(upc))
      /\ UNCHANGED <<connect_, state_, socket_, channel_, timers, incall, closing, aborted, haltVars,
                     stale, last>>
  BY DEF UserQueues
<1>3. Functor(upc) \in Functors /\ Functor(upc).op = upc
  BY <1>2, FunctorType
<1>4. /\ tasks' \in Seq(Functors)
      /\ \A op : HasOp(tasks', op) <=> HasOp(tasks, op) \/ upc = op
      /\ OneStart(tasks) /\ (upc = "start" => ~HasOp(tasks, "start")) => OneStart(tasks')
  BY <1>2, <1>3, AppendFunctor, AttemptFacts
<1>5. last # "none"
  BY <1>1, <1>2 DEF Untouched
<1>6. stale' \/ (OneStart(tasks) => OneStart(tasks'))
  BY <1>1, <1>2, <1>4 DEF OneThing
<1>7. StartPending' => StartPending
  BY <1>2, <1>4 DEF StartPending
<1> QED  BY <1>2, <1>4, <1>5, <1>6, <1>7, AttemptFacts, QueueStep

\* start() by the loop thread.
LEMMA LoopStartStep ==
  ASSUME AttemptInv, LoopStart
  PROVE  AttemptInv' /\ (stale => stale')
<1>1. AttemptTypeOK /\ Untouched /\ (stale \/ OneThing)
  BY DEF AttemptInv
<1>2. /\ StartInLoop(state_, retry_delay_, timers, TRUE) /\ connect_' = TRUE
      /\ last' = "start" /\ halted' = FALSE
      /\ UNCHANGED <<tasks, incall, closing, upc, latent>>
  BY DEF LoopStart
<1>3. stale' \in BOOLEAN /\ (stale' <=> stale \/ Leftover \/ state_ = "Connected" \/ incall)
  <2>1. (stale \/ Leftover \/ state_ = "Connected" \/ incall) \in BOOLEAN
    OBVIOUS
  <2> QED  BY <2>1, Zenon DEF LoopStart, StartsOver
<1>4. ~stale' => /\ ~incall /\ state_ = "Disconnected" /\ timers = 0 /\ ~channel_
                 /\ upc # "start" /\ ~HasOp(tasks, "start") /\ OneStart(tasks)
  BY <1>1, <1>3, LeftoverMeans DEF AttemptTypeOK, Untouched, OneThing
<1>5. closing' \in BOOLEAN /\ (closing' => closing) /\ (stale => stale')
  BY <1>2, <1>3, AttemptFacts
<1> QED  BY <1>2, <1>3, <1>4, <1>5, AttemptFacts, StartInLoopStep

\* startInLoop runs.
LEMMA RunStartStep ==
  ASSUME AttemptInv, RunStart
  PROVE  AttemptInv'
<1>1. AttemptTypeOK /\ Untouched /\ (stale \/ OneThing)
  BY DEF AttemptInv
<1>2. /\ ~incall /\ tasks # << >> /\ Head(tasks).op = "start" /\ tasks' = Tail(tasks)
      /\ StartInLoop(state_, retry_delay_, timers, connect_) /\ halted' = FALSE
      /\ UNCHANGED <<connect_, incall, closing, upc, last, latent, stale>>
  BY DEF RunStart, Idle, userVars
<1>3. /\ tasks' \in Seq(Functors) /\ HasOp(tasks, "start")
      /\ OneStart(tasks) => OneStart(tasks') /\ ~HasOp(tasks', "start")
  BY <1>2, TailFunctor, AttemptFacts
<1>4. last # "none"
  BY <1>1, <1>3 DEF Untouched
<1>5. stale \/ /\ state_ = "Disconnected" /\ timers = 0 /\ ~channel_ /\ upc # "start"
               /\ ~HasOp(tasks', "start") /\ OneStart(tasks')
  BY <1>1, <1>3 DEF OneThing, StartPending
<1> QED  BY <1>2, <1>3, <1>4, <1>5, AttemptFacts, StartInLoopStep

\* stopInLoop runs.
LEMMA RunStopStep ==
  ASSUME AttemptInv, RunStop
  PROVE  AttemptInv'
<1>1. Untouched
  BY DEF AttemptInv
<1>2. /\ tasks # << >> /\ Head(tasks).op = "stop" /\ tasks' = Tail(tasks) /\ StopInLoop
      /\ UNCHANGED <<connect_, timers, incall, closing, aborted, upc, stale, last>>
  BY DEF RunStop, userVars
<1>3. /\ tasks' \in Seq(Functors) /\ HasOp(tasks, "stop")
      /\ OneStart(tasks) => OneStart(tasks')
      /\ HasOp(tasks', "start") => HasOp(tasks, "start")
  BY <1>2, TailFunctor, AttemptFacts
<1>4. last # "none"
  BY <1>1, <1>3 DEF Untouched
<1> QED  BY <1>2, <1>3, <1>4, AttemptFacts, StopInLoopStep

\* A retry timer fires.
LEMMA RetryTimerStep ==
  ASSUME AttemptInv, RetryTimerFires
  PROVE  AttemptInv'
<1>1. AttemptTypeOK /\ Untouched /\ (stale \/ OneThing) /\ HaltOK
  BY DEF AttemptInv
<1>2. /\ ~incall /\ timers > 0 /\ StartInLoop(state_, retry_delay_, timers - 1, connect_)
      /\ UNCHANGED <<connect_, tasks, incall, closing, upc, last, halted, latent, stale>>
  BY DEF RetryTimerFires, Idle, userVars, haltVars
<1>3. timers - 1 \in Nat
  BY <1>2, AttemptFacts
<1>4. last # "none" /\ ~(halted /\ ~latent)
  BY <1>1, <1>2, AttemptFacts DEF Untouched, HaltOK
<1>5. stale \/ /\ state_ = "Disconnected" /\ timers - 1 = 0 /\ ~channel_ /\ upc # "start"
               /\ ~HasOp(tasks, "start") /\ OneStart(tasks)
  BY <1>1, <1>2, AttemptFacts DEF OneThing, StartPending
<1> QED  BY <1>2, <1>3, <1>4, <1>5, AttemptFacts, StartInLoopStep

\* The attempt fails.
LEMMA ConnectFailsStep ==
  ASSUME AttemptInv, ConnectFails
  PROVE  AttemptInv'
<1> USE DEF AttemptInv
<1>1. /\ ~incall /\ channel_ /\ socket_ /\ channel_' = FALSE
      /\ state_' = "Disconnected" /\ socket_' = FALSE
      /\ timers' \in {timers, timers + 1}
      /\ UNCHANGED <<connect_, tasks, incall, closing, aborted, upc, last, halted, latent, stale>>
  BY AttemptFacts DEF ConnectFails, Idle, Retry, userVars, haltVars
<1>2. AttemptTypeOK'
  <2>1. timers' \in Nat
    BY <1>1 DEF AttemptTypeOK
  <2> QED  BY <1>1, <2>1, Zenon DEF AttemptTypeOK
<1>3. SocketOfAttempt' /\ Untouched'
  BY <1>1 DEF SocketOfAttempt, Untouched
<1>4. HaltOK'
  BY <1>1 DEF HaltOK
<1>5. stale' \/ OneThing'
  BY <1>1 DEF OneThing, StartPending, AttemptTypeOK
<1> QED  BY <1>1, <1>2, <1>3, <1>4, <1>5

\* The attempt succeeds.
LEMMA ConnectSucceedsStep ==
  ASSUME AttemptInv, ConnectSucceeds
  PROVE  AttemptInv'
<1> USE DEF AttemptInv
<1>1. /\ ~incall /\ ~closing /\ channel_ /\ socket_ /\ channel_' = FALSE
      /\ state_' = "Connected" /\ incall' = TRUE
      /\ UNCHANGED <<connect_, socket_, timers, tasks, closing, aborted, upc, last, halted, latent,
                     stale>>
  BY DEF ConnectSucceeds, Idle, userVars, haltVars
<1>2. AttemptTypeOK'
  BY <1>1, Zenon DEF AttemptTypeOK
<1>3. SocketOfAttempt' /\ Untouched'
  BY <1>1 DEF SocketOfAttempt, Untouched
<1>4. HaltOK'
  BY <1>1 DEF HaltOK
<1>5. stale' \/ OneThing'
  BY <1>1 DEF OneThing, StartPending, AttemptTypeOK
<1> QED  BY <1>1, <1>2, <1>3, <1>4, <1>5

\* The connection callback returns.
LEMMA CallbackReturnsStep ==
  ASSUME AttemptInv, CallbackReturns
  PROVE  AttemptInv'
<1> USE DEF AttemptInv
<1>1. /\ incall /\ incall' = FALSE /\ socket_' = FALSE
      /\ UNCHANGED <<connect_, state_, channel_, timers, tasks, closing, aborted, upc, last, halted,
                     latent, stale>>
  BY DEF CallbackReturns, userVars, haltVars
<1>2. AttemptTypeOK'
  BY <1>1, Zenon DEF AttemptTypeOK
<1>3. SocketOfAttempt' /\ Untouched'
  BY <1>1 DEF SocketOfAttempt, Untouched
<1>4. HaltOK'
  BY <1>1 DEF HaltOK
<1>5. stale' \/ OneThing'
  BY <1>1 DEF OneThing, StartPending, AttemptTypeOK, SocketOfAttempt
<1> QED  BY <1>1, <1>2, <1>3, <1>4, <1>5

-----------------------------------------------------------------------------
(* The connections and the functors that destroy them. *)

\* The connection callbacks a connection may have made.
Calls == {<<"up">>, <<"up", "down">>, <<"up", "down", "down">>}

ConnRecords == [state_ : {"Connected", "Disconnecting", "Disconnected"}, calls : Calls]

ClientTypeOK ==
    /\ conns \in Seq(ConnRecords)
    /\ connection_ \in 0..Len(conns) /\ taken \in 0..Len(conns)
    /\ client \in {"alive", "dtor", "gone"}

\* The functor of ~TcpClient in another thread is the last that is queued.
LastIsDtor == client = "gone" /\ taken # 0

\* The other functors.
OfClose(i) == i \in 1..Len(tasks) /\ ~(LastIsDtor /\ i = Len(tasks))

\* Who is closed was reported up only, and two downs are the work of ~TcpClient.
CallsOK ==
    \A c \in 1..Len(conns) :
        /\ conns[c].state_ # "Disconnected" => conns[c].calls = <<"up">>
        /\ conns[c].calls = <<"up", "down", "down">> => LastIsDtor /\ c = taken /\ tasks = << >>

\* The functors find a connection; those of the close callback one that is closed
\* and not reported down, and there is one for a connection.
DestroyedOK ==
    /\ \A i \in 1..Len(tasks) : tasks[i].op = "destroyed" => tasks[i].conn \in 1..Len(conns)
    /\ \A i \in 1..Len(tasks) :
         OfClose(i) /\ tasks[i].op = "destroyed" =>
             /\ conns[tasks[i].conn].state_ = "Disconnected"
             /\ conns[tasks[i].conn].calls = <<"up">>
    /\ \A i, j \in 1..Len(tasks) :
         /\ OfClose(i) /\ tasks[i].op = "destroyed"
         /\ OfClose(j) /\ tasks[j].op = "destroyed" /\ tasks[i].conn = tasks[j].conn
         => i = j
    /\ LastIsDtor /\ tasks # << >> =>
         tasks[Len(tasks)].op = "destroyed" /\ tasks[Len(tasks)].conn = taken

\* connection_ is open, and the destructor and the client's other calls exclude
\* each other.
ClientOK ==
    /\ connection_ # 0 => conns[connection_].state_ # "Disconnected" /\ client # "gone"
    /\ client = "dtor" <=> upc = "dtor"
    /\ client = "gone" => upc = "idle"
    /\ client = "alive" => taken = 0
    /\ last = "none" => conns = << >>

ConnInv == ClientTypeOK /\ CallsOK /\ DestroyedOK /\ ClientOK

\* The callbacks of a connection, as sequences.
LEMMA CallSequences ==
  /\ Append(<<"up">>, "down") = <<"up", "down">>
  /\ Append(<<"up", "down">>, "down") = <<"up", "down", "down">>
  /\ <<"up">> # <<"up", "down">> /\ <<"up">> # <<"up", "down", "down">>
  /\ <<"up", "down">> # <<"up", "down", "down">>
  /\ <<"up">> \in Calls /\ <<"up", "down">> \in Calls /\ <<"up", "down", "down">> \in Calls
  /\ \A s \in Calls : s = <<"up">> \/ s = <<"up", "down">> \/ s = <<"up", "down", "down">>
<1>1. ASSUME NEW S, NEW a \in S, NEW b \in S, NEW c \in S
      PROVE  Append(<<a>>, b) = <<a, b>> /\ Append(<<a, b>>, c) = <<a, b, c>>
  <2>1. \A s, t \in Seq(S) : Len(s) = Len(t) /\ (\A i \in 1..Len(s) : s[i] = t[i]) => s = t
    BY SeqEqual
  <2>2. Append(<<a>>, b) = <<a, b>>
    <3>1. /\ Append(<<a>>, b) \in Seq(S) /\ <<a, b>> \in Seq(S)
          /\ Len(Append(<<a>>, b)) = 2 /\ Len(<<a, b>>) = 2
          /\ <<a>> \in Seq(S) /\ Len(<<a>>) = 1 /\ <<a>>[1] = a
      OBVIOUS
    <3>2. Append(<<a>>, b)[1] = a /\ Append(<<a>>, b)[Len(<<a>>) + 1] = b
      BY <3>1, AppendProperties
    <3>3. \A i \in 1..2 : Append(<<a>>, b)[i] = <<a, b>>[i]
      BY <3>1, <3>2
    <3> QED  BY <2>1, <3>1, <3>3
  <2>3. Append(<<a, b>>, c) = <<a, b, c>>
    <3>1. /\ Append(<<a, b>>, c) \in Seq(S) /\ <<a, b, c>> \in Seq(S)
          /\ Len(Append(<<a, b>>, c)) = 3 /\ Len(<<a, b, c>>) = 3
          /\ <<a, b>> \in Seq(S) /\ Len(<<a, b>>) = 2 /\ <<a, b>>[1] = a /\ <<a, b>>[2] = b
      OBVIOUS
    <3>2. /\ Append(<<a, b>>, c)[1] = a /\ Append(<<a, b>>, c)[2] = b
          /\ Append(<<a, b>>, c)[Len(<<a, b>>) + 1] = c
      BY <3>1, AppendProperties
    <3>3. \A i \in 1..3 : Append(<<a, b>>, c)[i] = <<a, b, c>>[i]
      BY <3>1, <3>2
    <3> QED  BY <2>1, <3>1, <3>3
  <2> QED  BY <2>2, <2>3
<1>2. \A a, b, c \in {"up", "down"} :
        Append(<<a>>, b) = <<a, b>> /\ Append(<<a, b>>, c) = <<a, b, c>>
  BY <1>1
<1>3. Append(<<"up">>, "down") = <<"up", "down">>
  BY <1>2, Zenon
<1>4. Append(<<"up", "down">>, "down") = <<"up", "down", "down">>
  BY <1>2, Zenon
<1>5. /\ <<"up">> # <<"up", "down">> /\ <<"up">> # <<"up", "down", "down">>
      /\ <<"up", "down">> # <<"up", "down", "down">>
  OBVIOUS
<1>6. /\ <<"up">> \in Calls /\ <<"up", "down">> \in Calls /\ <<"up", "down", "down">> \in Calls
      /\ \A s \in Calls : s = <<"up">> \/ s = <<"up", "down">> \/ s = <<"up", "down", "down">>
  BY Zenon DEF Calls
<1> QED  BY <1>3, <1>4, <1>5, <1>6

\* The open connections, by their index.
LEMMA OpenIs ==
  ASSUME ClientTypeOK
  PROVE  /\ Open = {c \in 1..Len(conns) : conns[c].state_ # "Disconnected"}
         /\ Len(conns) \in Nat
<1>1. DOMAIN conns = 1..Len(conns) /\ Len(conns) \in Nat
  BY DEF ClientTypeOK
<1> QED  BY <1>1 DEF Open

\* One connection record is replaced.
LEMMA OneConnection ==
  ASSUME ClientTypeOK, NEW c \in 1..Len(conns), NEW r \in ConnRecords,
         conns' = [conns EXCEPT ![c] = r]
  PROVE  /\ conns' \in Seq(ConnRecords) /\ Len(conns') = Len(conns) /\ conns'[c] = r
         /\ \A i \in 1..Len(conns) \ {c} : conns'[i] = conns[i]
<1>1. conns \in Seq(ConnRecords)
  BY DEF ClientTypeOK
<1>2. conns' \in Seq(ConnRecords) /\ Len(conns') = Len(conns)
  BY <1>1, ExceptSeq
<1>3. conns'[c] = r /\ \A i \in 1..Len(conns) \ {c} : conns'[i] = conns[i]
  BY <1>1
<1> QED  BY <1>2, <1>3

\* The records that the steps write.
LEMMA Records ==
  /\ [state_ |-> "Connected", calls |-> <<"up">>] \in ConnRecords
  /\ \A r \in ConnRecords :
        /\ r.calls \in Calls
        /\ [r EXCEPT !.state_ = "Disconnecting"] \in ConnRecords
        /\ [r EXCEPT !.state_ = "Disconnecting"].state_ = "Disconnecting"
        /\ [r EXCEPT !.state_ = "Disconnecting"].calls = r.calls
        /\ [r EXCEPT !.state_ = "Disconnected"] \in ConnRecords
        /\ [r EXCEPT !.state_ = "Disconnected"].state_ = "Disconnected"
        /\ [r EXCEPT !.state_ = "Disconnected"].calls = r.calls
  /\ \A s \in Calls :
        /\ [state_ |-> "Disconnected", calls |-> s] \in ConnRecords
        /\ [state_ |-> "Disconnected", calls |-> s].state_ = "Disconnected"
        /\ [state_ |-> "Disconnected", calls |-> s].calls = s
<1>1. <<"up">> \in Calls
  BY CallSequences
<1> QED  BY <1>1 DEF ConnRecords

\* connectionDestroyed of a connection that was reported down at most once.
LEMMA DestroyedConnection ==
  ASSUME ClientTypeOK, NEW c \in 1..Len(conns), conns' = Destroyed(c),
         conns[c].calls # <<"up", "down", "down">>
  PROVE  /\ conns' \in Seq(ConnRecords) /\ Len(conns') = Len(conns)
         /\ \A i \in 1..Len(conns) \ {c} : conns'[i] = conns[i]
         /\ conns'[c].state_ = "Disconnected"
         /\ \/ conns[c].calls = <<"up">> /\ conns'[c].calls = <<"up", "down">>
            \/ conns[c].calls = <<"up", "down">> /\ conns'[c].calls = <<"up", "down", "down">>
<1>1. conns[c] \in ConnRecords
  BY DEF ClientTypeOK
<1>2. conns[c].calls \in Calls
  BY <1>1, Records
<1>3. PICK s \in Calls :
        /\ s = Append(conns[c].calls, "down")
        /\ \/ conns[c].calls = <<"up">> /\ s = <<"up", "down">>
           \/ conns[c].calls = <<"up", "down">> /\ s = <<"up", "down", "down">>
  BY <1>2, CallSequences, Zenon
<1>4. PICK r \in ConnRecords : r = [state_ |-> "Disconnected", calls |-> s]
  BY <1>3, Records
<1>5. r.state_ = "Disconnected" /\ r.calls = s
  BY <1>4
<1>6. conns' = [conns EXCEPT ![c] = r]
  BY <1>3, <1>4 DEF Destroyed
<1> QED  BY <1>3, <1>5, <1>6, OneConnection

\* Steps that leave the connections, the queue and the destructor alone.
LEMMA ConnFrame ==
  ASSUME ConnInv, UNCHANGED <<conns, tasks, client, taken, connection_>>,
         client = "dtor" <=> upc' = "dtor", client = "gone" => upc' = "idle",
         last' = "none" => last = "none"
  PROVE  ConnInv'
  BY DEF ConnInv, ClientTypeOK, CallsOK, DestroyedOK, ClientOK, OfClose, LastIsDtor

\* A functor of the connector is queued.
LEMMA ConnQueue ==
  ASSUME ConnInv, tasks \in Seq(Functors), NEW f \in Functors, f.op # "destroyed",
         tasks' = Append(tasks, f), ~LastIsDtor, ~LastIsDtor',
         UNCHANGED <<conns, taken>>, connection_' \in {0, connection_},
         client' \in {"alive", "dtor", "gone"},
         client' = "dtor" <=> upc' = "dtor", client' = "gone" => upc' = "idle",
         client' = "gone" => connection_' = 0, client' = "alive" => client = "alive",
         last' = "none" => last = "none"
  PROVE  ConnInv'
<1> USE DEF ConnInv
<1>1. /\ Len(tasks) \in Nat /\ Len(tasks') = Len(tasks) + 1
      /\ \A i \in 1..(Len(tasks) + 1) : tasks'[i] = IF i <= Len(tasks) THEN tasks[i] ELSE f
  OBVIOUS
<1>2. \A i \in 1..Len(tasks') :
        tasks'[i].op = "destroyed" => i \in 1..Len(tasks) /\ tasks'[i] = tasks[i]
  BY <1>1
<1>3. ClientTypeOK' /\ CallsOK' /\ ClientOK'
  BY DEF ClientTypeOK, CallsOK, ClientOK
<1>4. DestroyedOK'
  BY <1>1, <1>2 DEF DestroyedOK, OfClose
<1> QED  BY <1>3, <1>4

\* A functor of the connector runs.
LEMMA ConnTake ==
  ASSUME ConnInv, tasks \in Seq(Functors), tasks # << >>, Head(tasks).op # "destroyed",
         tasks' = Tail(tasks),
         UNCHANGED <<conns, client, taken, connection_, upc, last>>
  PROVE  ConnInv'
<1> USE DEF ConnInv
<1>1. /\ Len(tasks) \in Nat \ {0} /\ Len(tasks') = Len(tasks) - 1 /\ Head(tasks) = tasks[1]
      /\ \A i \in 1..Len(tasks') : i + 1 \in 1..Len(tasks) /\ tasks'[i] = tasks[i + 1]
  BY TailFunctor
<1>0. \A i \in 1..Len(tasks') : i + 1 # 1 /\ (i + 1 = Len(tasks) => i = Len(tasks'))
  BY TailFunctor
<1>2. ClientTypeOK' /\ ClientOK'
  BY DEF ClientTypeOK, ClientOK
<1>9. CallsOK'
  <2>1. \A c \in 1..Len(conns) : conns[c].calls # <<"up", "down", "down">>
    BY DEF CallsOK
  <2> QED  BY <2>1, Zenon DEF CallsOK
<1>3. ASSUME NEW i \in 1..Len(tasks'), OfClose(i)' PROVE OfClose(i + 1)
  <2>1. i + 1 \in 1..Len(tasks) /\ (i + 1 = Len(tasks) => i = Len(tasks'))
    BY <1>0, <1>1, Zenon
  <2>2. ~(LastIsDtor /\ i = Len(tasks'))
    BY <1>3, Zenon DEF OfClose, LastIsDtor
  <2> QED  BY <2>1, <2>2 DEF OfClose
<1>4. \A i \in 1..Len(tasks') : tasks'[i].op = "destroyed" => tasks'[i].conn \in 1..Len(conns')
  BY <1>1 DEF DestroyedOK
<1>5. \A i \in 1..Len(tasks') :
         OfClose(i)' /\ tasks'[i].op = "destroyed" =>
             /\ conns'[tasks'[i].conn].state_ = "Disconnected"
             /\ conns'[tasks'[i].conn].calls = <<"up">>
  BY <1>1, <1>3 DEF DestroyedOK
<1>6. ASSUME NEW i \in 1..Len(tasks'), NEW j \in 1..Len(tasks'),
             OfClose(i)' /\ tasks'[i].op = "destroyed",
             OfClose(j)' /\ tasks'[j].op = "destroyed" /\ tasks'[i].conn = tasks'[j].conn
      PROVE  i = j
  <2>1. i + 1 = j + 1
    BY <1>1, <1>3, <1>6 DEF DestroyedOK
  <2> QED  BY <1>1, <2>1
<1>7. ASSUME LastIsDtor', tasks' # << >>
      PROVE  tasks'[Len(tasks')].op = "destroyed" /\ tasks'[Len(tasks')].conn = taken'
  <2>1. tasks[Len(tasks)].op = "destroyed" /\ tasks[Len(tasks)].conn = taken
    BY <1>7 DEF DestroyedOK, LastIsDtor
  <2>2. Len(tasks) # 1
    BY <1>1, <2>1
  <2>3. Len(tasks') \in 1..Len(tasks') /\ Len(tasks') + 1 = Len(tasks)
    BY <1>1, <2>2
  <2> QED  BY <1>1, <2>1, <2>3
<1>8. DestroyedOK'
  BY <1>4, <1>5, <1>6, <1>7 DEF DestroyedOK
<1> QED  BY <1>2, <1>8, <1>9

\* onConnection.
LEMMA ConnMade ==
  ASSUME ConnInv, client # "gone", last # "none",
         conns' = Append(conns, [state_ |-> "Connected", calls |-> <<"up">>]),
         connection_' = Len(conns) + 1,
         UNCHANGED <<tasks, client, taken, upc, last>>
  PROVE  ConnInv'
<1> USE DEF ConnInv
<1>1. PICK r \in ConnRecords : r = [state_ |-> "Connected", calls |-> <<"up">>]
  BY Records
<1>2. r.state_ = "Connected" /\ r.calls = <<"up">> /\ <<"up">> # <<"up", "down", "down">>
  BY <1>1, CallSequences
<1>3. conns \in Seq(ConnRecords) /\ conns' = Append(conns, r)
  BY <1>1 DEF ClientTypeOK
<1>4. /\ conns' \in Seq(ConnRecords) /\ Len(conns) \in Nat /\ Len(conns') = Len(conns) + 1
      /\ \A i \in 1..(Len(conns) + 1) : conns'[i] = IF i <= Len(conns) THEN conns[i] ELSE r
  BY <1>3
<1>5. /\ \A i \in 1..Len(conns) : i \in 1..Len(conns') /\ conns'[i] = conns[i]
      /\ conns'[Len(conns) + 1] = r
      /\ \A i \in 1..Len(conns') : i \in 1..Len(conns) \/ i = Len(conns) + 1
  BY <1>4
<1>6. ClientTypeOK'
  BY <1>4 DEF ClientTypeOK
<1>7. CallsOK'
  BY <1>2, <1>5 DEF CallsOK, LastIsDtor
<1>8. DestroyedOK'
  BY <1>5 DEF DestroyedOK, OfClose, LastIsDtor
<1>9. ClientOK'
  BY <1>2, <1>5 DEF ClientOK
<1> QED  BY <1>6, <1>7, <1>8, <1>9

\* disconnect.
LEMMA ConnDisconnect ==
  ASSUME ConnInv, connection_ # 0, conns[connection_].state_ = "Connected",
         conns' = [conns EXCEPT ![connection_].state_ = "Disconnecting"],
         UNCHANGED <<tasks, client, taken, connection_, upc, last>>
  PROVE  /\ ConnInv' /\ Len(conns') = Len(conns)
         /\ conns'[connection_].state_ = "Disconnecting"
         /\ conns'[connection_].calls = conns[connection_].calls
         /\ \A i \in 1..Len(conns) \ {connection_} : conns'[i] = conns[i]
<1> USE DEF ConnInv
<1>1. connection_ \in 1..Len(conns) /\ conns[connection_] \in ConnRecords
  BY DEF ClientTypeOK
<1>2. PICK r \in ConnRecords : r = [conns[connection_] EXCEPT !.state_ = "Disconnecting"]
  BY <1>1, Records
<1>3. r.state_ = "Disconnecting" /\ r.calls = conns[connection_].calls
  BY <1>1, <1>2, Records
<1>4. conns' = [conns EXCEPT ![connection_] = r]
  BY <1>2
<1>5. /\ conns' \in Seq(ConnRecords) /\ Len(conns') = Len(conns) /\ conns'[connection_] = r
      /\ \A i \in 1..Len(conns) \ {connection_} : conns'[i] = conns[i]
  BY <1>1, <1>4, OneConnection
<1>6. ClientTypeOK'
  BY <1>5 DEF ClientTypeOK
<1>7. CallsOK'
  BY <1>1, <1>3, <1>5 DEF CallsOK, LastIsDtor
<1>8. DestroyedOK'
  BY <1>1, <1>5 DEF DestroyedOK, OfClose, LastIsDtor
<1>9. ClientOK'
  <2>1. conns # << >>
    BY <1>1
  <2> QED  BY <1>3, <1>5, <2>1 DEF ClientOK
<1> QED  BY <1>3, <1>5, <1>6, <1>7, <1>8, <1>9

\* handleClose and the close callback.
LEMMA ConnClosed ==
  ASSUME ConnInv, tasks \in Seq(Functors), NEW c \in Open, client # "gone",
         conns' = [conns EXCEPT ![c].state_ = "Disconnected"], connection_' = 0,
         tasks' = Append(tasks, [op |-> "destroyed", conn |-> c]),
         UNCHANGED <<client, taken, upc>>, last' = "none" => last = "none"
  PROVE  /\ ConnInv' /\ c \in 1..Len(conns) /\ Len(conns') = Len(conns)
         /\ conns[c].calls = <<"up">> /\ conns'[c].calls = <<"up">>
         /\ conns'[c].state_ = "Disconnected"
         /\ \A i \in 1..Len(conns) \ {c} : conns'[i] = conns[i]
<1> USE DEF ConnInv
<1>1. c \in 1..Len(conns) /\ conns[c].state_ # "Disconnected" /\ conns[c] \in ConnRecords
  BY OpenIs DEF ClientTypeOK
<1>2. PICK r \in ConnRecords : r = [conns[c] EXCEPT !.state_ = "Disconnected"]
  BY <1>1, Records
<1>3. r.state_ = "Disconnected" /\ r.calls = <<"up">> /\ conns[c].calls = <<"up">>
  BY <1>1, <1>2, Records DEF CallsOK
<1>4. conns' = [conns EXCEPT ![c] = r]
  BY <1>2
<1>5. /\ conns' \in Seq(ConnRecords) /\ Len(conns') = Len(conns) /\ conns'[c] = r
      /\ \A i \in 1..Len(conns) \ {c} : conns'[i] = conns[i]
  BY <1>1, <1>4, OneConnection
<1>6. PICK f \in Functors : f = [op |-> "destroyed", conn |-> c]
  BY <1>1, FunctorType
<1>7. f.op = "destroyed" /\ f.conn = c /\ tasks' = Append(tasks, f)
  BY <1>6
<1>8. /\ Len(tasks) \in Nat /\ Len(tasks') = Len(tasks) + 1
      /\ \A i \in 1..(Len(tasks) + 1) : tasks'[i] = IF i <= Len(tasks) THEN tasks[i] ELSE f
  BY <1>7
<1>9. /\ \A i \in 1..Len(tasks') : (i \in 1..Len(tasks) /\ tasks'[i] = tasks[i]) \/ i = Len(tasks) + 1
      /\ tasks'[Len(tasks) + 1] = f
  BY <1>8
<1>10. ClientTypeOK'
  BY <1>5 DEF ClientTypeOK
<1>11. CallsOK'
  <2>1. <<"up">> # <<"up", "down", "down">>
    BY CallSequences
  <2>2. ASSUME NEW i \in 1..Len(conns) PROVE conns'[i].calls # <<"up", "down", "down">>
    BY <1>3, <1>5, <2>1 DEF CallsOK, LastIsDtor
  <2>3. ASSUME NEW i \in 1..Len(conns), conns'[i].state_ # "Disconnected"
        PROVE  conns'[i].calls = <<"up">>
    BY <1>3, <1>5, <2>3 DEF CallsOK
  <2> QED  BY <1>5, <2>2, <2>3, Zenon DEF CallsOK
<1>12. ~LastIsDtor /\ ~LastIsDtor'
  BY DEF LastIsDtor
<1>13. \A i \in 1..Len(tasks) : tasks[i].op = "destroyed" => tasks[i].conn \in 1..Len(conns) \ {c}
  BY <1>1, <1>12 DEF DestroyedOK, OfClose
<1>14. DestroyedOK'
  BY <1>1, <1>3, <1>5, <1>7, <1>9, <1>12, <1>13 DEF DestroyedOK, OfClose
<1>15. ClientOK'
  <2>1. conns # << >>
    BY <1>1
  <2> QED  BY <2>1 DEF ClientOK
<1> QED  BY <1>1, <1>3, <1>5, <1>10, <1>11, <1>14, <1>15

\* connectionDestroyed, queued by the close callback or by ~TcpClient.
LEMMA ConnDestroyed ==
  ASSUME ConnInv, tasks \in Seq(Functors), tasks # << >>, Head(tasks).op = "destroyed",
         tasks' = Tail(tasks), conns' = Destroyed(Head(tasks).conn),
         UNCHANGED <<client, taken, connection_, upc, last>>
  PROVE  /\ ConnInv'
         /\ \E c \in 1..Len(conns) :
              /\ Len(conns') = Len(conns) /\ conns'[c].state_ = "Disconnected"
              /\ \A i \in 1..Len(conns) \ {c} : conns'[i] = conns[i]
              /\ \/ conns[c].calls = <<"up">> /\ conns'[c].calls = <<"up", "down">>
                 \/ /\ conns[c].calls = <<"up", "down">>
                    /\ conns'[c].calls = <<"up", "down", "down">> /\ c = taken
<1> USE DEF ConnInv
<1>1. /\ Len(tasks) \in Nat \ {0} /\ Len(tasks') = Len(tasks) - 1 /\ Head(tasks) = tasks[1]
      /\ \A i \in 1..Len(tasks') : i + 1 \in 1..Len(tasks) /\ tasks'[i] = tasks[i + 1]
  BY TailFunctor
<1>0. \A i \in 1..Len(tasks') : i + 1 # 1 /\ (i + 1 = Len(tasks) => i = Len(tasks'))
  BY TailFunctor
<1>2. PICK c \in 1..Len(conns) : c = Head(tasks).conn
  BY <1>1 DEF DestroyedOK
<1>3. conns[c].calls # <<"up", "down", "down">>
  BY DEF CallsOK
<1>4. /\ conns' \in Seq(ConnRecords) /\ Len(conns') = Len(conns)
      /\ \A i \in 1..Len(conns) \ {c} : conns'[i] = conns[i]
      /\ conns'[c].state_ = "Disconnected"
      /\ \/ conns[c].calls = <<"up">> /\ conns'[c].calls = <<"up", "down">>
         \/ conns[c].calls = <<"up", "down">> /\ conns'[c].calls = <<"up", "down", "down">>
  BY <1>2, <1>3, DestroyedConnection
<1>5. CASE OfClose(1)
  <2>1. conns[c].state_ = "Disconnected" /\ conns[c].calls = <<"up">>
    BY <1>1, <1>2, <1>5 DEF DestroyedOK
  <2>2. conns'[c].calls = <<"up", "down">> /\ <<"up", "down">> # <<"up", "down", "down">>
    BY <1>4, <2>1, CallSequences
  <2>3. ASSUME NEW i \in 1..Len(tasks'), OfClose(i)' PROVE OfClose(i + 1) /\ i + 1 # 1
    <3>1. i + 1 \in 1..Len(tasks) /\ (i + 1 = Len(tasks) => i = Len(tasks')) /\ i + 1 # 1
      BY <1>0, <1>1, Zenon
    <3>2. ~(LastIsDtor /\ i = Len(tasks'))
      BY <2>3, Zenon DEF OfClose, LastIsDtor
    <3> QED  BY <3>1, <3>2 DEF OfClose
  <2>4. \A i \in 1..Len(tasks') : tasks'[i].op = "destroyed" => tasks'[i].conn \in 1..Len(conns')
    BY <1>1, <1>4 DEF DestroyedOK
  <2>5. ASSUME NEW i \in 1..Len(tasks'), OfClose(i)', tasks'[i].op = "destroyed"
        PROVE  /\ conns'[tasks'[i].conn].state_ = "Disconnected"
               /\ conns'[tasks'[i].conn].calls = <<"up">>
    <3>1. /\ i + 1 \in 1..Len(tasks) /\ tasks[i + 1].op = "destroyed" /\ OfClose(i + 1)
          /\ tasks'[i] = tasks[i + 1] /\ 1 \in 1..Len(tasks)
      BY <1>1, <2>3, <2>5
    <3>2. tasks[i + 1].conn # c
      BY <1>1, <1>2, <1>5, <2>3, <2>5, <3>1 DEF DestroyedOK
    <3>3. tasks[i + 1].conn \in 1..Len(conns) \ {c}
      BY <3>1, <3>2 DEF DestroyedOK
    <3> QED  BY <1>4, <3>1, <3>3 DEF DestroyedOK
  <2>6. ASSUME NEW i \in 1..Len(tasks'), NEW j \in 1..Len(tasks'),
               OfClose(i)' /\ tasks'[i].op = "destroyed",
               OfClose(j)' /\ tasks'[j].op = "destroyed" /\ tasks'[i].conn = tasks'[j].conn
        PROVE  i = j
    <3>1. i + 1 = j + 1
      BY <1>1, <2>3, <2>6 DEF DestroyedOK
    <3> QED  BY <1>1, <3>1
  <2>7. ASSUME LastIsDtor', tasks' # << >>
        PROVE  tasks'[Len(tasks')].op = "destroyed" /\ tasks'[Len(tasks')].conn = taken'
    <3>1. tasks[Len(tasks)].op = "destroyed" /\ tasks[Len(tasks)].conn = taken
      BY <2>7 DEF DestroyedOK, LastIsDtor
    <3>2. Len(tasks) # 1
      BY <1>1, <1>5, <2>7 DEF OfClose, LastIsDtor
    <3>3. Len(tasks') \in 1..Len(tasks') /\ Len(tasks') + 1 = Len(tasks)
      BY <1>1, <3>2
    <3> QED  BY <1>1, <3>1, <3>3
  <2>8. DestroyedOK'
    BY <2>4, <2>5, <2>6, <2>7 DEF DestroyedOK
  <2>9. \A i \in 1..Len(conns) : conns'[i].calls # <<"up", "down", "down">>
    BY <1>4, <2>2 DEF CallsOK
  <2>10. \A i \in 1..Len(conns) : conns'[i].state_ # "Disconnected" => conns'[i].calls = <<"up">>
    BY <1>4 DEF CallsOK
  <2>11. CallsOK'
    BY <1>4, <2>9, <2>10, Zenon DEF CallsOK
  <2>12. ClientTypeOK'
    BY <1>4 DEF ClientTypeOK
  <2>13. ClientOK'
    <3>1. connection_ # 0 => connection_ \in 1..Len(conns) \ {c}
      BY <2>1 DEF ClientOK, ClientTypeOK
    <3>2. conns # << >>
      BY <1>2
    <3> QED  BY <1>4, <3>1, <3>2 DEF ClientOK
  <2> QED  BY <1>4, <2>1, <2>2, <2>8, <2>11, <2>12, <2>13
<1>6. CASE ~OfClose(1)
  <2>1. LastIsDtor /\ Len(tasks) = 1 /\ tasks[1].conn = taken
    <3>1. 1 \in 1..Len(tasks)
      BY <1>1
    <3>2. LastIsDtor /\ Len(tasks) = 1
      BY <1>6, <3>1 DEF OfClose
    <3> QED  BY <3>2 DEF DestroyedOK
  <2>2. c = taken /\ tasks' = << >> /\ Len(tasks') = 0
    BY <1>1, <1>2, <2>1
  <2>3. DestroyedOK'
    <3>1. \A n : n = 0 => 1..n = {}
      OBVIOUS
    <3>2. 1..Len(tasks') = {}
      BY <2>2, <3>1, Zenon
    <3> QED  BY <2>2, <3>2, Zenon DEF DestroyedOK
  <2>4. CallsOK'
    <3>1. ASSUME NEW i \in 1..Len(conns), conns'[i].calls = <<"up", "down", "down">>
          PROVE  i = taken
      BY <1>4, <2>2, <3>1 DEF CallsOK
    <3>2. \A i \in 1..Len(conns) : conns'[i].state_ # "Disconnected" => conns'[i].calls = <<"up">>
      BY <1>4 DEF CallsOK
    <3> QED  BY <1>4, <2>1, <2>2, <3>1, <3>2, Zenon DEF CallsOK, LastIsDtor
  <2>5. ClientTypeOK'
    BY <1>4 DEF ClientTypeOK
  <2>6. ClientOK'
    <3>1. conns # << >> /\ connection_ = 0
      BY <1>2, <2>1 DEF ClientOK, LastIsDtor
    <3> QED  BY <3>1 DEF ClientOK
  <2> QED  BY <1>4, <2>2, <2>3, <2>4, <2>5, <2>6
<1> QED  BY <1>5, <1>6

\* ~TcpClient in the loop thread destroys connection_.
LEMMA ConnDestroyedAtOnce ==
  ASSUME ConnInv, client = "alive", upc = "idle", connection_ # 0, client' = "gone",
         connection_' = 0, conns' = Destroyed(connection_),
         UNCHANGED <<tasks, taken, upc, last>>
  PROVE  /\ ConnInv' /\ connection_ \in 1..Len(conns) /\ Len(conns') = Len(conns)
         /\ \A i \in 1..Len(conns) \ {connection_} : conns'[i] = conns[i]
         /\ conns'[connection_].state_ = "Disconnected"
         /\ conns[connection_].calls = <<"up">> /\ conns'[connection_].calls = <<"up", "down">>
<1> USE DEF ConnInv
<1>1. PICK c \in 1..Len(conns) : c = connection_
  BY DEF ClientTypeOK
<1>2. conns[c].state_ # "Disconnected" /\ conns[c].calls = <<"up">>
  BY <1>1 DEF ClientOK, CallsOK
<1>3. <<"up">> # <<"up", "down", "down">> /\ <<"up">> # <<"up", "down">>
      /\ <<"up", "down">> # <<"up", "down", "down">>
  BY CallSequences
<1>4. /\ conns' \in Seq(ConnRecords) /\ Len(conns') = Len(conns)
      /\ \A i \in 1..Len(conns) \ {c} : conns'[i] = conns[i]
      /\ conns'[c].state_ = "Disconnected" /\ conns'[c].calls = <<"up", "down">>
  BY <1>1, <1>2, <1>3, DestroyedConnection
<1>5. ~LastIsDtor /\ ~LastIsDtor' /\ taken' = 0
  BY DEF LastIsDtor, ClientOK
<1>6. \A i \in 1..Len(tasks) : tasks[i].op = "destroyed" => tasks[i].conn \in 1..Len(conns) \ {c}
  BY <1>2, <1>5 DEF DestroyedOK, OfClose
<1>7. DestroyedOK'
  BY <1>4, <1>5, <1>6 DEF DestroyedOK, OfClose
<1>8. CallsOK'
  <2>1. \A i \in 1..Len(conns) : conns'[i].calls # <<"up", "down", "down">>
    BY <1>3, <1>4, <1>5 DEF CallsOK
  <2>2. \A i \in 1..Len(conns) : conns'[i].state_ # "Disconnected" => conns'[i].calls = <<"up">>
    BY <1>4 DEF CallsOK
  <2> QED  BY <1>4, <2>1, <2>2, Zenon DEF CallsOK
<1>9. ClientTypeOK' /\ ClientOK'
  <2>1. conns # << >>
    BY <1>1
  <2> QED  BY <1>4, <1>5, <2>1 DEF ClientTypeOK, ClientOK
<1> QED  BY <1>1, <1>2, <1>4, <1>7, <1>8, <1>9

\* ~TcpClient in another thread queues connectionDestroyed of the connection it took.
LEMMA ConnDtorQueues ==
  ASSUME ConnInv, tasks \in Seq(Functors), upc = "dtor", upc' = "idle", client' = "gone",
         connection_' = 0, taken # 0,
         tasks' = Append(tasks, [op |-> "destroyed", conn |-> taken]),
         UNCHANGED <<conns, taken, last>>
  PROVE  ConnInv'
<1> USE DEF ConnInv
<1>1. PICK f \in Functors : f = [op |-> "destroyed", conn |-> taken]
  BY FunctorType DEF ClientTypeOK
<1>2. f.op = "destroyed" /\ f.conn = taken /\ tasks' = Append(tasks, f)
  BY <1>1
<1>3. /\ Len(tasks) \in Nat /\ Len(tasks') = Len(tasks) + 1
      /\ \A i \in 1..(Len(tasks) + 1) : tasks'[i] = IF i <= Len(tasks) THEN tasks[i] ELSE f
  BY <1>2
<1>4. /\ \A i \in 1..Len(tasks') : (i \in 1..Len(tasks) /\ tasks'[i] = tasks[i]) \/ i = Len(tasks) + 1
      /\ tasks'[Len(tasks) + 1] = f
  BY <1>3
<1>5. ~LastIsDtor /\ LastIsDtor' /\ taken \in 1..Len(conns)
  BY DEF LastIsDtor, ClientOK, ClientTypeOK
<1>6. ASSUME NEW i \in 1..Len(tasks'), OfClose(i)'
      PROVE  i \in 1..Len(tasks) /\ tasks'[i] = tasks[i] /\ OfClose(i)
  BY <1>3, <1>4, <1>5, <1>6 DEF OfClose
<1>7. \A i \in 1..Len(tasks') : tasks'[i].op = "destroyed" => tasks'[i].conn \in 1..Len(conns')
  BY <1>2, <1>4, <1>5 DEF DestroyedOK
<1>8. \A i \in 1..Len(tasks') : OfClose(i)' /\ tasks'[i].op = "destroyed" =>
          /\ conns'[tasks'[i].conn].state_ = "Disconnected"
          /\ conns'[tasks'[i].conn].calls = <<"up">>
  BY <1>6 DEF DestroyedOK
<1>9. \A i, j \in 1..Len(tasks') :
         /\ OfClose(i)' /\ tasks'[i].op = "destroyed"
         /\ OfClose(j)' /\ tasks'[j].op = "destroyed" /\ tasks'[i].conn = tasks'[j].conn
         => i = j
  BY <1>6 DEF DestroyedOK
<1>10. tasks'[Len(tasks')].op = "destroyed" /\ tasks'[Len(tasks')].conn = taken'
  BY <1>2, <1>3, <1>4
<1>11. DestroyedOK'
  BY <1>7, <1>8, <1>9, <1>10 DEF DestroyedOK
<1>12. ClientTypeOK' /\ ClientOK'
  BY DEF ClientTypeOK, ClientOK
<1>13. CallsOK'
  <2>1. \A i \in 1..Len(conns) : conns[i].calls # <<"up", "down", "down">>
    BY <1>5 DEF CallsOK
  <2> QED  BY <2>1, Zenon DEF CallsOK
<1> QED  BY <1>11, <1>12, <1>13

-----------------------------------------------------------------------------
(* The client and its connector together. *)

\* Nothing in the connector leads to an attempt, or reports one.
Still == ~incall /\ ~closing /\ ~(channel_ /\ socket_) /\ timers = 0 /\ ~StartPending

\* The same, but for a report under way.
Calm == ~channel_ /\ timers = 0 /\ ~StartPending

\* A client destroyed when all was quiet stays quiet.
GoneOK ==
    /\ crash = "no" \/ unsafe
    /\ client # "alive" /\ ~unsafe => Open = {} /\ Still

\* There is one open connection, connection_, and with it no attempt and no close
\* callback.
TrackOK ==
    \/ overlap \/ stale
    \/ /\ client # "gone" => Open \subseteq {connection_}
       /\ \A c, d \in Open : c = d
       /\ Open # {} => Calm /\ ~closing

\* The client's inductive invariant.
ClientInv == AttemptInv /\ ConnInv /\ GoneOK /\ TrackOK

\* Steps that open nothing and leave a quiet connector quiet.
LEMMA SafeFrame ==
  ASSUME GoneOK, TrackOK, UNCHANGED <<crash, unsafe>>,
         Open' \subseteq Open,
         client' = "alive" => client = "alive",
         client' # "alive" /\ ~unsafe => client # "alive",
         Still => Still', Calm => Calm', closing' => closing,
         client' # "gone" => client # "gone" /\ connection_' = connection_,
         overlap => overlap', stale => stale'
  PROVE  GoneOK' /\ TrackOK'
<1>1. GoneOK'
  BY DEF GoneOK
<1>2. TrackOK'
  BY DEF TrackOK
<1> QED  BY <1>1, <1>2

\* How the open connections change with the records.
LEMMA OpenSteps ==
  ASSUME ClientTypeOK, ClientTypeOK'
  PROVE  /\ UNCHANGED conns => Open' = Open
         /\ \A c \in 1..Len(conns) :
              /\ Len(conns') = Len(conns) /\ conns'[c].state_ = "Disconnected"
              /\ \A i \in 1..Len(conns) \ {c} : conns'[i] = conns[i]
              => Open' = Open \ {c}
         /\ \A c \in 1..Len(conns) :
              /\ Len(conns') = Len(conns)
              /\ conns[c].state_ # "Disconnected" /\ conns'[c].state_ # "Disconnected"
              /\ \A i \in 1..Len(conns) \ {c} : conns'[i] = conns[i]
              => Open' = Open
<1>1. /\ Open = {c \in 1..Len(conns) : conns[c].state_ # "Disconnected"}
      /\ Len(conns) \in Nat
  BY OpenIs
<1>2. Open' = {c \in 1..Len(conns') : conns'[c].state_ # "Disconnected"}
  <2>1. DOMAIN conns' = 1..Len(conns')
    BY DEF ClientTypeOK
  <2> QED  BY <2>1 DEF Open
<1>3. UNCHANGED conns => Open' = Open
  BY DEF Open
<1>4. ASSUME NEW c \in 1..Len(conns), Len(conns') = Len(conns),
             conns'[c].state_ = "Disconnected",
             \A i \in 1..Len(conns) \ {c} : conns'[i] = conns[i]
      PROVE  Open' = Open \ {c}
  BY <1>1, <1>2, <1>4
<1>5. ASSUME NEW c \in 1..Len(conns), Len(conns') = Len(conns),
             conns[c].state_ # "Disconnected", conns'[c].state_ # "Disconnected",
             \A i \in 1..Len(conns) \ {c} : conns'[i] = conns[i]
      PROVE  Open' = Open
  BY <1>1, <1>2, <1>5
<1> QED  BY <1>3, <1>4, <1>5

\* Quiet in terms of the queue.
LEMMA QuietMeans ==
  ASSUME AttemptTypeOK
  PROVE  Quiet <=> /\ ~incall /\ ~closing /\ Open \subseteq {connection_} /\ timers = 0
                   /\ ~HasOp(tasks, "start") /\ (connection_ # 0 => ~channel_)
<1>1. DOMAIN tasks = 1..Len(tasks)
  BY DEF AttemptTypeOK
<1> QED  BY <1>1 DEF Quiet, HasOp

\* connect().
LEMMA ClientConnectStep ==
  ASSUME ClientInv, ClientConnect
  PROVE  ClientInv'
<1> USE DEF ClientInv
<1>1. /\ client = "alive" /\ (UserStart \/ LoopStart)
      /\ UNCHANGED <<connection_, conns, client, taken, crash, unsafe>>
  BY DEF ClientConnect
<1>2. /\ upc' = upc \/ (upc = "idle" /\ upc' = "start")
      /\ last' = "start" /\ UNCHANGED <<tasks, closing>>
  BY <1>1 DEF UserStart, LoopStart
<1>3. AttemptInv'
  BY <1>1, UserStartStep, LoopStartStep
<1>4. ConnInv'
  BY <1>1, <1>2, ConnFrame DEF ConnInv, ClientOK
<1>5. overlap' <=> overlap \/ Open # {}
  <2>1. (overlap \/ Open # {}) \in BOOLEAN
    OBVIOUS
  <2> QED  BY <2>1, Zenon DEF ClientConnect
<1>6. stale => stale'
  <2>1. CASE UserStart
    <3>1. (stale \/ StartsOver) \in BOOLEAN
      OBVIOUS
    <3> QED  BY <2>1, <3>1, Zenon DEF UserStart
  <2> QED  BY <1>1, <2>1, LoopStartStep
<1>7. Open' = Open
  BY <1>1 DEF Open
<1>8. GoneOK'
  BY <1>1 DEF GoneOK
<1>9. TrackOK'
  BY <1>1, <1>2, <1>5, <1>6, <1>7 DEF TrackOK
<1> QED  BY <1>3, <1>4, <1>8, <1>9

\* stop().
LEMMA ClientStopStep ==
  ASSUME ClientInv, ClientStop
  PROVE  ClientInv'
<1> USE DEF ClientInv
<1>1. /\ UserStop \/ LoopStop
      /\ UNCHANGED <<connection_, conns, client, taken, crash, overlap, unsafe>>
      /\ client = "alive"
  BY DEF ClientStop
<1>2. Open' = Open
  BY <1>1 DEF Open
<1>3. CASE UserStop
  <2>1. /\ upc = "idle" /\ upc' = "stop" /\ last' = "stop" /\ connect_' = FALSE
        /\ UNCHANGED <<state_, socket_, channel_, timers, tasks, incall, closing, aborted, haltVars, stale>>
    BY <1>3 DEF UserStop
  <2>2. StartPending' <=> StartPending
    BY <2>1 DEF StartPending
  <2>3. AttemptInv'
    BY <2>1, <2>2, AttemptFacts, QueueStep
  <2>4. ConnInv'
    BY <1>1, <2>1, ConnFrame
  <2>5. GoneOK' /\ TrackOK'
    BY <1>1, <1>2, <2>1, <2>2, SafeFrame DEF Still, Calm
  <2> QED  BY <2>3, <2>4, <2>5
<1>4. CASE LoopStop
  <2>1. /\ last' = "stop" /\ connect_' = FALSE /\ StopInLoop
        /\ UNCHANGED <<timers, tasks, incall, closing, aborted, upc, stale>>
    BY <1>4 DEF LoopStop
  <2>2. StartPending' <=> StartPending
    BY <2>1 DEF StartPending
  <2>3. AttemptInv'
    BY <2>1, AttemptFacts, StopInLoopStep
  <2>4. ConnInv'
    BY <1>1, <2>1, ConnFrame DEF ConnInv, ClientOK
  <2>5. (Calm => Calm') /\ (Still => Still')
    BY <2>1, <2>2 DEF Calm, Still, StopInLoop
  <2>6. GoneOK' /\ TrackOK'
    BY <1>1, <1>2, <2>1, <2>5, SafeFrame
  <2> QED  BY <2>3, <2>4, <2>6
<1> QED  BY <1>1, <1>3, <1>4

\* disconnect().
LEMMA DisconnectStep ==
  ASSUME ClientInv, Disconnect
  PROVE  ClientInv'
<1> USE DEF ClientInv
<1>1. /\ UNCHANGED vars /\ UNCHANGED <<connection_, client, taken, crash, overlap, unsafe>>
      /\ conns' = IF connection_ # 0 /\ conns[connection_].state_ = "Connected"
                    THEN [conns EXCEPT ![connection_].state_ = "Disconnecting"] ELSE conns
  BY DEF Disconnect
<1>2. UNCHANGED <<incall, closing, channel_, socket_, timers, upc, tasks, last, stale>>
  BY <1>1 DEF vars, userVars
<1>3. AttemptInv'
  BY <1>1, AttemptFrame
<1>4. ConnInv' /\ Open' = Open
  <2>1. CASE connection_ # 0 /\ conns[connection_].state_ = "Connected"
    <3>1. conns' = [conns EXCEPT ![connection_].state_ = "Disconnecting"]
      BY <1>1, <2>1
    <3>2. /\ ConnInv' /\ Len(conns') = Len(conns)
          /\ conns'[connection_].state_ = "Disconnecting"
          /\ \A i \in 1..Len(conns) \ {connection_} : conns'[i] = conns[i]
      BY <1>1, <1>2, <2>1, <3>1, ConnDisconnect
    <3>3. connection_ \in 1..Len(conns) /\ ClientTypeOK /\ ClientTypeOK'
      BY <2>1, <3>2 DEF ConnInv, ClientTypeOK
    <3> QED  BY <2>1, <3>2, <3>3, OpenSteps
  <2>2. CASE ~(connection_ # 0 /\ conns[connection_].state_ = "Connected")
    <3>1. conns' = conns
      BY <1>1, <2>2
    <3>2. ConnInv'
      BY <1>1, <1>2, <3>1, ConnFrame DEF ConnInv, ClientOK
    <3> QED  BY <3>1, <3>2 DEF Open
  <2> QED  BY <2>1, <2>2
<1>5. Still' = Still /\ Calm' = Calm
  BY <1>2 DEF Still, Calm, StartPending
<1>6. GoneOK' /\ TrackOK'
  BY <1>1, <1>2, <1>4, <1>5, SafeFrame
<1> QED  BY <1>3, <1>4, <1>6

\* The functor of the call is queued.
LEMMA UserGoesOnStep ==
  ASSUME ClientInv, UserGoesOn
  PROVE  ClientInv'
<1> USE DEF ClientInv
<1>1. UserQueues /\ UNCHANGED <<connection_, conns, client, taken, crash, overlap, unsafe>>
  BY DEF UserGoesOn, clientVars
<1>2. /\ upc \in {"start", "stop"} /\ upc' = "idle" /\ tasks' = Append(tasks, Functor(upc))
      /\ UNCHANGED <<channel_, socket_, timers, incall, closing, last, stale>>
  BY <1>1 DEF UserQueues
<1>3. Functor(upc) \in Functors /\ Functor(upc).op = upc
  BY <1>2, FunctorType
<1>4. AttemptInv'
  BY <1>1, UserQueuesStep
<1>5. client = "alive"
  BY <1>2 DEF ConnInv, ClientOK, ClientTypeOK
<1>6. ConnInv'
  <2>1. ~LastIsDtor /\ ~LastIsDtor'
    BY <1>1, <1>5 DEF LastIsDtor
  <2>2. Functor(upc).op # "destroyed"
    BY <1>2, <1>3
  <2> QED  BY <1>1, <1>2, <1>3, <1>5, <2>1, <2>2, AttemptFacts, ConnQueue
<1>7. StartPending' <=> StartPending
  BY <1>2, <1>3, AttemptFacts, AppendFunctor DEF StartPending
<1>8. Open' = Open
  BY <1>1 DEF Open
<1>9. GoneOK' /\ TrackOK'
  BY <1>1, <1>2, <1>7, <1>8, SafeFrame DEF Still, Calm
<1> QED  BY <1>4, <1>6, <1>9

\* startInLoop or stopInLoop runs.
LEMMA RunConnectorTaskStep ==
  ASSUME ClientInv, RunConnectorTask
  PROVE  ClientInv'
<1> USE DEF ClientInv
<1>1. /\ RunStart \/ RunStop
      /\ UNCHANGED <<connection_, conns, client, taken, crash, overlap, unsafe>>
  BY DEF RunConnectorTask, clientVars
<1>2. /\ tasks # << >> /\ Head(tasks).op \in {"start", "stop"} /\ tasks' = Tail(tasks)
      /\ UNCHANGED <<upc, last, stale, incall, closing>>
  BY <1>1 DEF RunStart, RunStop, userVars
<1>3. AttemptInv'
  BY <1>1, RunStartStep, RunStopStep
<1>4. ConnInv'
  BY <1>1, <1>2, AttemptFacts, ConnTake
<1>5. Open' = Open
  BY <1>1 DEF Open
<1>6. (Still => Still') /\ (Calm => Calm')
  <2>1. HasOp(tasks, Head(tasks).op) /\ (HasOp(tasks', "start") => HasOp(tasks, "start"))
    BY <1>2, AttemptFacts, TailFunctor
  <2>2. CASE RunStart
    <3>1. StartPending
      BY <2>1, <2>2 DEF RunStart, StartPending
    <3> QED  BY <3>1 DEF Still, Calm
  <2>3. CASE RunStop
    <3>1. StopInLoop /\ UNCHANGED <<timers, upc, incall, closing>>
      BY <2>3 DEF RunStop, userVars
    <3>2. StartPending' => StartPending
      BY <2>1, <3>1 DEF StartPending
    <3> QED  BY <3>1, <3>2 DEF StopInLoop, Still, Calm
  <2> QED  BY <1>1, <2>2, <2>3
<1>7. GoneOK' /\ TrackOK'
  BY <1>1, <1>2, <1>5, <1>6, SafeFrame
<1> QED  BY <1>3, <1>4, <1>7

\* A retry timer fires, or an attempt fails.
LEMMA AttemptStep ==
  ASSUME ClientInv, FireRetryTimer \/ AttemptFails
  PROVE  ClientInv'
<1> USE DEF ClientInv
<1>1. /\ RetryTimerFires \/ ConnectFails
      /\ UNCHANGED <<connection_, conns, client, taken, crash, overlap, unsafe>>
  BY DEF FireRetryTimer, AttemptFails, clientVars
<1>2. UNCHANGED <<upc, last, stale, tasks, closing>>
  BY <1>1 DEF RetryTimerFires, ConnectFails, userVars
<1>3. AttemptInv'
  BY <1>1, RetryTimerStep, ConnectFailsStep
<1>4. ConnInv'
  BY <1>1, <1>2, ConnFrame DEF ConnInv, ClientOK
<1>5. Open' = Open
  BY <1>1 DEF Open
<1>6. ~Still /\ ~Calm
  BY <1>1 DEF RetryTimerFires, ConnectFails, Still, Calm
<1>7. GoneOK' /\ TrackOK'
  BY <1>1, <1>2, <1>5, <1>6, SafeFrame
<1> QED  BY <1>3, <1>4, <1>7

\* An attempt succeeds.
LEMMA OnConnectionStep ==
  ASSUME ClientInv, OnConnection
  PROVE  ClientInv'
<1> USE DEF ClientInv
<1>1. ConnectSucceeds /\ UNCHANGED <<client, taken, overlap, unsafe>>
  BY DEF OnConnection
<1>2. /\ channel_ /\ socket_ /\ ~channel_' /\ ~closing'
      /\ UNCHANGED <<upc, last, stale, tasks, timers>>
  BY <1>1 DEF ConnectSucceeds, Idle, userVars
<1>3. AttemptInv'
  BY <1>1, ConnectSucceedsStep
<1>4. last # "none"
  BY <1>2 DEF AttemptInv, Untouched
<1>5. ~Still /\ ~Calm
  BY <1>2 DEF Still, Calm
<1>6. CASE client = "gone"
  <2>1. crash' = "client" /\ UNCHANGED <<conns, connection_>>
    BY <1>6 DEF OnConnection
  <2>2. ConnInv'
    BY <1>1, <1>2, <2>1, ConnFrame DEF ConnInv, ClientOK
  <2>3. unsafe /\ Open' = Open
    BY <1>5, <1>6, <2>1 DEF GoneOK, Open
  <2>4. GoneOK'
    BY <1>1, <2>3 DEF GoneOK
  <2>5. TrackOK'
    BY <1>1, <1>2, <1>5, <1>6, <2>3 DEF TrackOK
  <2> QED  BY <1>3, <2>2, <2>4, <2>5
<1>7. CASE client # "gone"
  <2>1. /\ conns' = Append(conns, [state_ |-> "Connected", calls |-> <<"up">>])
        /\ connection_' = Len(conns) + 1 /\ UNCHANGED crash
    BY <1>7 DEF OnConnection
  <2>2. ConnInv'
    BY <1>1, <1>2, <1>4, <1>7, <2>1, ConnMade
  <2>3. GoneOK'
    BY <1>1, <1>5, <2>1 DEF GoneOK
  <2>4. TrackOK'
    <3> SUFFICES ASSUME ~overlap, ~stale PROVE TrackOK'
      BY <1>1, <1>2 DEF TrackOK
    <3>1. Open = {}
      BY <1>5 DEF TrackOK
    <3>2. Open' \subseteq {connection_'}
      <4>1. ClientTypeOK /\ ClientTypeOK'
        BY <2>2 DEF ConnInv
      <4>2. /\ conns \in Seq(ConnRecords) /\ Len(conns) \in Nat /\ Len(conns') = Len(conns) + 1
            /\ \A i \in 1..Len(conns) : conns'[i] = conns[i]
            /\ DOMAIN conns' = 1..(Len(conns) + 1)
        <5>1. [state_ |-> "Connected", calls |-> <<"up">>] \in ConnRecords
          BY Records
        <5> QED  BY <2>1, <4>1, <5>1 DEF ClientTypeOK
      <4>3. ASSUME NEW c \in Open' PROVE c = Len(conns) + 1
        <5>1. c \in 1..(Len(conns) + 1) /\ conns'[c].state_ # "Disconnected"
          BY <4>2, <4>3 DEF Open
        <5>2. c \notin 1..Len(conns)
          BY <3>1, <4>1, <4>2, <5>1, OpenIs
        <5> QED  BY <4>2, <5>1, <5>2
      <4> QED  BY <2>1, <4>3
    <3>3. Calm'
      BY <1>2 DEF Calm, AttemptInv, OneThing, StartPending, AttemptTypeOK
    <3> QED  BY <1>2, <3>2, <3>3 DEF TrackOK
  <2> QED  BY <1>3, <2>2, <2>3, <2>4
<1> QED  BY <1>6, <1>7

\* The connection callback returns.
LEMMA OnConnectionReturnsStep ==
  ASSUME ClientInv, OnConnectionReturns
  PROVE  ClientInv'
<1> USE DEF ClientInv
<1>1. /\ UNCHANGED <<connection_, conns, client, taken, overlap, unsafe>>
      /\ \/ client = "gone" /\ incall /\ UNCHANGED vars
         \/ CallbackReturns /\ UNCHANGED crash
  BY DEF OnConnectionReturns
<1>2. incall /\ UNCHANGED <<upc, last, stale, tasks, timers, channel_, closing>>
  BY <1>1 DEF CallbackReturns, userVars, vars
<1>3. AttemptInv'
  BY <1>1, AttemptFrame, CallbackReturnsStep
<1>4. ConnInv'
  BY <1>1, <1>2, ConnFrame DEF ConnInv, ClientOK
<1>5. Open' = Open
  BY <1>1 DEF Open
<1>6. ~Still /\ (Calm => Calm')
  BY <1>2 DEF Still, Calm, StartPending
<1>7. CASE client = "gone"
  <2>1. unsafe
    BY <1>6, <1>7 DEF GoneOK
  <2>2. TrackOK'
    BY <1>1, <1>2, <1>5, <1>6 DEF TrackOK
  <2> QED  BY <1>1, <1>3, <1>4, <2>1, <2>2 DEF GoneOK
<1>8. CASE client # "gone"
  <2>1. UNCHANGED crash
    BY <1>1, <1>8
  <2> QED  BY <1>1, <1>2, <1>3, <1>4, <1>5, <1>6, <2>1, SafeFrame
<1> QED  BY <1>7, <1>8

\* The peer closes a connection.
LEMMA HandleCloseStep ==
  ASSUME ClientInv, NEW c, HandleClose(c)
  PROVE  ClientInv'
<1> USE DEF ClientInv
<1>1. /\ ~incall /\ ~closing /\ c \in Open
      /\ UNCHANGED <<connect_, state_, socket_, channel_, timers, incall, aborted, haltVars, upc,
                     last, stale, client, taken, overlap, unsafe>>
  BY DEF HandleClose, Idle
<1>2. client # "alive" => unsafe
  BY <1>1 DEF GoneOK
<1>3. CASE client = "gone"
  <2>1. UNCHANGED <<conns, connection_, tasks, closing>>
    BY <1>3 DEF HandleClose
  <2>2. AttemptInv'
    BY <1>1, <2>1, AttemptFacts, QueueStep DEF AttemptInv, Untouched, OneThing, StartPending
  <2>3. ConnInv'
    BY <1>1, <2>1, ConnFrame DEF ConnInv, ClientOK
  <2>4. Open' = Open /\ (Calm => Calm')
    BY <1>1, <2>1 DEF Open, Calm, StartPending
  <2>5. GoneOK' /\ TrackOK'
    BY <1>1, <1>2, <1>3, <2>1, <2>4 DEF GoneOK, TrackOK
  <2> QED  BY <2>2, <2>3, <2>5
<1>4. CASE client # "gone"
  <2>1. /\ conns' = [conns EXCEPT ![c].state_ = "Disconnected"] /\ connection_' = 0
        /\ tasks' = Append(tasks, [op |-> "destroyed", conn |-> c])
        /\ closing' = closing \/ closing' = TRUE
        /\ UNCHANGED crash
    BY <1>4 DEF HandleClose
  <2>2. c \in 1..Len(conns) /\ ClientTypeOK
    BY <1>1, OpenIs DEF ConnInv
  <2>12. c \in Nat
    BY <2>2
  <2>3. PICK f \in Functors : f = [op |-> "destroyed", conn |-> c]
    BY <2>12, FunctorType, Zenon
  <2>4. f.op = "destroyed" /\ tasks' = Append(tasks, f)
    BY <2>1, <2>3
  <2>5. /\ tasks' \in Seq(Functors) /\ (OneStart(tasks) => OneStart(tasks'))
        /\ HasOp(tasks', "start") <=> HasOp(tasks, "start")
    BY <2>4, AttemptFacts, AppendFunctor
  <2>6. last # "none"
    <3>1. conns # << >>
      BY <2>2
    <3> QED  BY <3>1 DEF ConnInv, ClientOK
  <2>7. AttemptInv'
    <3>1. StartPending' <=> StartPending
      BY <1>1, <2>5 DEF StartPending
    <3>2. upc' = "start" => stale' \/ ~HasOp(tasks', "start")
      BY <1>1, <2>5 DEF AttemptInv, OneThing
    <3> QED  BY <1>1, <2>1, <2>5, <2>6, <3>1, <3>2, AttemptFacts, QueueStep
  <2>8. /\ ConnInv' /\ Len(conns') = Len(conns) /\ conns'[c].state_ = "Disconnected"
        /\ \A i \in 1..Len(conns) \ {c} : conns'[i] = conns[i]
    BY <1>1, <1>4, <2>1, AttemptFacts, ConnClosed
  <2>9. Open' = Open \ {c}
    BY <2>2, <2>8, OpenSteps DEF ConnInv
  <2>10. GoneOK'
    BY <1>1, <1>2, <2>1 DEF GoneOK
  <2>11. TrackOK'
    <3>1. overlap \/ stale \/ Open' = {}
      BY <1>1, <2>9 DEF TrackOK
    <3> QED  BY <1>1, <3>1 DEF TrackOK
  <2> QED  BY <2>7, <2>8, <2>10, <2>11
<1> QED  BY <1>3, <1>4

\* The close callback restarts the connector.
LEMMA CloseRestartsStep ==
  ASSUME ClientInv, CloseRestarts
  PROVE  ClientInv'
<1> USE DEF ClientInv
<1>1. closing /\ UNCHANGED <<connection_, conns, client, taken, overlap, unsafe>>
  BY DEF CloseRestarts
<1>2. (client # "alive" => unsafe) /\ ~incall
  BY <1>1 DEF GoneOK, Still, AttemptInv, SocketOfAttempt
<1>3. Open' = Open
  BY <1>1 DEF Open
<1>4. CASE client = "gone"
  <2>1. UNCHANGED vars
    BY <1>4 DEF CloseRestarts
  <2>2. AttemptInv'
    BY <2>1, AttemptFrame
  <2>3. UNCHANGED <<channel_, timers, upc, tasks, last, stale, closing>>
    BY <2>1 DEF vars, userVars
  <2>4. ConnInv'
    BY <1>1, <2>3, ConnFrame DEF ConnInv, ClientOK
  <2>5. Calm => Calm'
    BY <2>3 DEF Calm, StartPending
  <2>6. GoneOK' /\ TrackOK'
    BY <1>1, <1>2, <1>3, <1>4, <2>3, <2>5 DEF GoneOK, TrackOK
  <2> QED  BY <2>2, <2>4, <2>6
<1>5. CASE client # "gone"
  <2>1. /\ closing' = FALSE /\ last' = "restart" /\ stale' = (stale \/ Leftover) /\ RestartInLoop
        /\ UNCHANGED <<tasks, incall, upc, crash>>
    BY <1>5 DEF CloseRestarts
  <2>2. stale' \in BOOLEAN /\ (stale' <=> stale \/ Leftover)
    <3>1. (stale \/ Leftover) \in BOOLEAN
      OBVIOUS
    <3> QED  BY <2>1, <3>1, Zenon
  <2>3. AttemptInv'
    <3>1. /\ connect_' = TRUE /\ StartInLoop("Disconnected", DefaultDelay, timers, TRUE)
          /\ halted' = FALSE /\ latent' = latent
      BY <2>1 DEF RestartInLoop
    <3>2. ~stale' => /\ state_ # "Connecting" /\ timers = 0 /\ upc # "start"
                     /\ ~HasOp(tasks, "start")
      BY <2>2, LeftoverMeans, AttemptFacts DEF AttemptInv, Untouched
    <3>3. ~stale' => ~channel_ /\ OneStart(tasks)
      BY <2>2, <3>2 DEF AttemptInv, OneThing
    <3>4. (stale => stale') /\ last' # "none" /\ closing' \in BOOLEAN /\ ~closing'
      BY <2>1, <2>2
    <3> QED  BY <1>2, <2>1, <2>2, <3>1, <3>2, <3>3, <3>4, AttemptFacts, StartInLoopStep
  <2>4. ConnInv'
    BY <1>1, <2>1, ConnFrame DEF ConnInv, ClientOK
  <2>5. GoneOK'
    BY <1>1, <1>2, <2>1 DEF GoneOK
  <2>6. TrackOK'
    BY <1>1, <1>3, <2>2 DEF TrackOK
  <2> QED  BY <2>3, <2>4, <2>5, <2>6
<1> QED  BY <1>4, <1>5

\* connectionDestroyed runs.
LEMMA RunDestroyedStep ==
  ASSUME ClientInv, RunDestroyed
  PROVE  ClientInv'
<1> USE DEF ClientInv
<1>1. /\ tasks # << >> /\ Head(tasks).op = "destroyed" /\ tasks' = Tail(tasks)
      /\ conns' = Destroyed(Head(tasks).conn)
      /\ UNCHANGED <<connect_, state_, socket_, channel_, timers, incall, closing, aborted, haltVars,
                     stale, upc, last, connection_, client, taken, crash, overlap, unsafe>>
  BY DEF RunDestroyed, userVars
<1>2. /\ tasks' \in Seq(Functors) /\ (OneStart(tasks) => OneStart(tasks'))
      /\ \A op : HasOp(tasks', op) => HasOp(tasks, op)
  BY <1>1, AttemptFacts, TailFunctor
<1>3. StartPending' => StartPending
  BY <1>1, <1>2 DEF StartPending
<1>4. AttemptInv'
  <2>1. last = "none" => upc \in {"idle", "dtor"} /\ ~HasOp(tasks', "start") /\ ~HasOp(tasks', "stop")
    BY <1>2 DEF AttemptInv, Untouched
  <2>2. stale \/ (upc = "start" => ~HasOp(tasks', "start"))
    BY <1>2 DEF AttemptInv, OneThing
  <2> QED  BY <1>1, <1>2, <1>3, <2>1, <2>2, AttemptFacts, QueueStep
<1>5. /\ ConnInv'
      /\ \E c \in 1..Len(conns) :
           /\ Len(conns') = Len(conns) /\ conns'[c].state_ = "Disconnected"
           /\ \A i \in 1..Len(conns) \ {c} : conns'[i] = conns[i]
  BY <1>1, AttemptFacts, ConnDestroyed
<1>6. Open' \subseteq Open
  BY <1>5, OpenSteps DEF ConnInv
<1>7. (Still => Still') /\ (Calm => Calm')
  BY <1>1, <1>3 DEF Still, Calm
<1>8. GoneOK' /\ TrackOK'
  BY <1>1, <1>6, <1>7, SafeFrame
<1> QED  BY <1>4, <1>5, <1>8

\* ~TcpClient in the loop thread.
LEMMA DestroyInLoopStep ==
  ASSUME ClientInv, crash = "no", DestroyInLoop
  PROVE  ClientInv'
<1> USE DEF ClientInv
<1>1. /\ client = "alive" /\ upc = "idle" /\ client' = "gone" /\ connection_' = 0
      /\ UNCHANGED <<taken, crash, overlap>>
      /\ unsafe' = ~Quiet
  BY DEF DestroyInLoop
<1>2. unsafe' <=> ~Quiet
  BY <1>1
<1>3. CASE connection_ # 0
  <2>1. conns' = Destroyed(connection_) /\ UNCHANGED vars
    BY <1>3 DEF DestroyInLoop
  <2>2. UNCHANGED <<incall, closing, channel_, socket_, timers, upc, tasks, last, stale>>
    BY <2>1 DEF vars, userVars
  <2>3. AttemptInv'
    BY <2>1, AttemptFrame
  <2>4. /\ ConnInv' /\ connection_ \in 1..Len(conns) /\ Len(conns') = Len(conns)
        /\ \A i \in 1..Len(conns) \ {connection_} : conns'[i] = conns[i]
        /\ conns'[connection_].state_ = "Disconnected"
    BY <1>1, <1>3, <2>1, <2>2, ConnDestroyedAtOnce
  <2>5. Open' = Open \ {connection_}
    BY <2>4, OpenSteps DEF ConnInv
  <2>6. Quiet => Open' = {} /\ Still'
    BY <1>1, <1>3, <2>2, <2>5, QuietMeans DEF AttemptInv, Still, StartPending
  <2>7. GoneOK'
    BY <1>1, <1>2, <2>6 DEF GoneOK
  <2>8. Calm => Calm'
    BY <2>2 DEF Calm, StartPending
  <2>9. TrackOK'
    BY <1>1, <2>2, <2>5, <2>8 DEF TrackOK
  <2> QED  BY <2>3, <2>4, <2>7, <2>9
<1>4. CASE connection_ = 0
  <2>1. /\ connect_' = FALSE /\ StopInLoop /\ last' = "stop"
        /\ UNCHANGED <<timers, tasks, incall, closing, aborted, upc, stale, conns>>
    BY <1>4 DEF DestroyInLoop
  <2>2. AttemptInv'
    BY <2>1, AttemptFacts, StopInLoopStep
  <2>3. ConnInv'
    <3>1. ~LastIsDtor /\ ~LastIsDtor'
      BY <1>1 DEF LastIsDtor, ConnInv, ClientOK
    <3>2. ClientTypeOK' /\ ClientOK'
      BY <1>1, <2>1 DEF ConnInv, ClientTypeOK, ClientOK
    <3>3. CallsOK' /\ DestroyedOK'
      BY <1>1, <2>1, <3>1 DEF ConnInv, CallsOK, DestroyedOK, OfClose
    <3> QED  BY <3>2, <3>3 DEF ConnInv
  <2>4. Open' = Open
    BY <2>1 DEF Open
  <2>5. Quiet => Open = {}
    <3>1. 0 \notin Open
      BY OpenIs DEF ConnInv
    <3> QED  BY <1>4, <3>1, QuietMeans DEF AttemptInv
  <2>6. Quiet => Still'
    BY <1>1, <2>1, QuietMeans DEF AttemptInv, SocketOfAttempt, Still, StartPending, StopInLoop
  <2>7. GoneOK'
    BY <1>1, <1>2, <2>4, <2>5, <2>6 DEF GoneOK
  <2>8. Calm => Calm'
    BY <2>1 DEF Calm, StartPending, StopInLoop
  <2>9. TrackOK'
    BY <1>1, <2>1, <2>4, <2>8 DEF TrackOK
  <2> QED  BY <2>2, <2>3, <2>7, <2>9
<1> QED  BY <1>3, <1>4

\* ~TcpClient in another thread begins.
LEMMA DestroyBeginsStep ==
  ASSUME ClientInv, crash = "no", DestroyBegins
  PROVE  ClientInv'
<1> USE DEF ClientInv
<1>1. /\ client = "alive" /\ upc = "idle" /\ client' = "dtor" /\ upc' = "dtor"
      /\ taken' = connection_ /\ unsafe' = ~(Quiet /\ Open = {} /\ ~channel_)
      /\ UNCHANGED <<connect_, state_, socket_, channel_, timers, tasks, incall, closing, aborted, last,
                     haltVars, stale, connection_, conns, crash, overlap>>
  BY DEF DestroyBegins
<1>2. unsafe' <=> ~(Quiet /\ Open = {} /\ ~channel_)
  BY <1>1
<1>3. AttemptInv'
  <2>1. StartPending' => StartPending
    BY <1>1 DEF StartPending
  <2>2. last = "none" => ~HasOp(tasks, "start") /\ ~HasOp(tasks, "stop")
    BY DEF AttemptInv, Untouched
  <2> QED  BY <1>1, <2>1, <2>2, AttemptFacts, QueueStep
<1>4. ConnInv'
  <2>1. ~LastIsDtor /\ ~LastIsDtor'
    BY <1>1 DEF LastIsDtor
  <2>2. ClientTypeOK' /\ ClientOK'
    BY <1>1 DEF ConnInv, ClientTypeOK, ClientOK
  <2>3. CallsOK' /\ DestroyedOK'
    BY <1>1, <2>1 DEF ConnInv, CallsOK, DestroyedOK, OfClose
  <2> QED  BY <2>2, <2>3 DEF ConnInv
<1>5. Open' = Open
  BY <1>1 DEF Open
<1>6. GoneOK'
  BY <1>1, <1>2, <1>5, QuietMeans DEF GoneOK, AttemptInv, Still, StartPending
<1>7. Calm => Calm'
  BY <1>1 DEF Calm, StartPending
<1>8. TrackOK'
  BY <1>1, <1>5, <1>7 DEF TrackOK
<1> QED  BY <1>3, <1>4, <1>6, <1>8

\* ~TcpClient in another thread ends.
LEMMA DestroyEndsStep ==
  ASSUME ClientInv, DestroyEnds
  PROVE  ClientInv'
<1> USE DEF ClientInv
<1>1. /\ upc = "dtor" /\ upc' = "idle" /\ client' = "gone" /\ connection_' = 0
      /\ UNCHANGED <<state_, socket_, channel_, timers, incall, closing, aborted, haltVars, stale, conns,
                     taken, crash, overlap, unsafe>>
  BY DEF DestroyEnds
<1>2. client = "dtor"
  BY <1>1 DEF ConnInv, ClientOK
<1>3. /\ ConnInv' /\ AttemptInv' /\ (HasOp(tasks', "start") => HasOp(tasks, "start"))
  <2>1. CASE taken # 0
    <3>1. tasks' = Append(tasks, [op |-> "destroyed", conn |-> taken]) /\ UNCHANGED <<connect_, last>>
      BY <2>1 DEF DestroyEnds
    <3>2. ConnInv'
      BY <1>1, <2>1, <3>1, AttemptFacts, ConnDtorQueues
    <3>8. taken \in Nat
      BY DEF ConnInv, ClientTypeOK
    <3>3. PICK f \in Functors : f = [op |-> "destroyed", conn |-> taken]
      BY <3>8, FunctorType, Zenon
    <3>4. f.op = "destroyed" /\ tasks' = Append(tasks, f)
      BY <3>1, <3>3
    <3>5. /\ tasks' \in Seq(Functors) /\ (OneStart(tasks) => OneStart(tasks'))
          /\ HasOp(tasks', "start") <=> HasOp(tasks, "start")
          /\ HasOp(tasks', "stop") <=> HasOp(tasks, "stop")
      BY <3>4, AttemptFacts, AppendFunctor
    <3>6. last = "none" => ~HasOp(tasks, "start") /\ ~HasOp(tasks, "stop")
      BY DEF AttemptInv, Untouched
    <3>7. StartPending' => StartPending
      BY <1>1, <3>5 DEF StartPending
    <3> QED  BY <1>1, <3>1, <3>2, <3>5, <3>6, <3>7, AttemptFacts, QueueStep
  <2>2. CASE taken = 0
    <3>1. tasks' = Append(tasks, Functor("stop")) /\ connect_' = FALSE /\ last' = "stop"
      BY <2>2 DEF DestroyEnds
    <3>2. PICK f \in Functors : f = Functor("stop") /\ f.op = "stop"
      BY FunctorType
    <3>3. tasks' = Append(tasks, f) /\ f.op # "destroyed"
      BY <3>1, <3>2
    <3>4. /\ tasks' \in Seq(Functors) /\ (OneStart(tasks) => OneStart(tasks'))
          /\ HasOp(tasks', "start") <=> HasOp(tasks, "start")
      BY <3>2, <3>3, AttemptFacts, AppendFunctor
    <3>5. ~LastIsDtor /\ ~LastIsDtor'
      BY <1>1, <2>2 DEF LastIsDtor
    <3>6. ConnInv'
      BY <1>1, <1>2, <3>1, <3>3, <3>5, AttemptFacts, ConnQueue
    <3>7. StartPending' => StartPending
      BY <1>1, <3>4 DEF StartPending
    <3> QED  BY <1>1, <3>1, <3>4, <3>6, <3>7, AttemptFacts, QueueStep
  <2> QED  BY <2>1, <2>2
<1>4. Open' = Open
  BY <1>1 DEF Open
<1>5. (Still => Still') /\ (Calm => Calm')
  BY <1>1, <1>3 DEF Still, Calm, StartPending
<1>6. GoneOK' /\ TrackOK'
  BY <1>1, <1>2, <1>4, <1>5, SafeFrame
<1> QED  BY <1>3, <1>6

-----------------------------------------------------------------------------
(* The theorems. *)

\* ClientInv is an invariant of the client.
LEMMA ClientInvariant == Spec => []ClientInv
<1>1. ClientInit => ClientInv
  <2> SUFFICES ASSUME ClientInit PROVE ClientInv
    OBVIOUS
  <2>1. /\ connect_ = FALSE /\ state_ = "Disconnected" /\ socket_ = FALSE /\ channel_ = FALSE
        /\ timers = 0 /\ tasks = << >> /\ incall = FALSE /\ closing = FALSE /\ aborted = FALSE
        /\ upc = "idle" /\ last = "none" /\ halted = FALSE /\ latent = FALSE /\ stale = FALSE
        /\ connection_ = 0 /\ conns = << >> /\ client = "alive" /\ taken = 0 /\ crash = "no"
    BY DEF ClientInit, Init
  <2>2. tasks \in Seq(Functors) /\ Len(tasks) = 0 /\ conns \in Seq(ConnRecords) /\ Len(conns) = 0
        /\ DOMAIN conns = {}
    BY <2>1
  <2>3. /\ \A op : ~HasOp(tasks, op)
        /\ OneStart(tasks) /\ Open = {}
    BY <2>2 DEF HasOp, OneStart, Open
  <2>4. AttemptInv
    <3>1. AttemptTypeOK
      BY <2>1, <2>2 DEF AttemptTypeOK
    <3>2. SocketOfAttempt /\ Untouched /\ HaltOK
      BY <2>1, <2>3 DEF SocketOfAttempt, Untouched, HaltOK
    <3>3. OneThing
      BY <2>1, <2>3 DEF OneThing, StartPending
    <3> QED  BY <2>1, <3>1, <3>2, <3>3 DEF AttemptInv
  <2>5. ConnInv
    BY <2>1, <2>2 DEF ConnInv, ClientTypeOK, CallsOK, DestroyedOK, ClientOK, LastIsDtor
  <2>6. GoneOK /\ TrackOK
    BY <2>1, <2>3 DEF GoneOK, TrackOK
  <2> QED  BY <2>4, <2>5, <2>6 DEF ClientInv
<1>2. ClientInv /\ [Next]_allVars => ClientInv'
  <2> SUFFICES ASSUME ClientInv, [Next]_allVars PROVE ClientInv'
    OBVIOUS
  <2>1. CASE UNCHANGED allVars
    <3>1. UNCHANGED vars /\ UNCHANGED <<conns, client, taken, connection_, crash, overlap, unsafe>>
      BY <2>1 DEF allVars, clientVars
    <3>2. UNCHANGED <<incall, closing, channel_, socket_, timers, upc, tasks, last, stale>>
      BY <3>1 DEF vars, userVars
    <3>3. AttemptInv'
      BY <3>1, AttemptFrame DEF ClientInv
    <3>4. ConnInv'
      BY <3>1, <3>2, ConnFrame DEF ClientInv, ConnInv, ClientOK
    <3>5. Open' = Open /\ (Calm => Calm') /\ (Still => Still')
      BY <3>1, <3>2 DEF Open, Calm, Still, StartPending
    <3>6. GoneOK' /\ TrackOK'
      BY <3>1, <3>2, <3>5, SafeFrame DEF ClientInv
    <3> QED  BY <3>3, <3>4, <3>6 DEF ClientInv
  <2>2. CASE Next
    BY <2>2, ClientConnectStep, ClientStopStep, DisconnectStep, UserGoesOnStep,
       RunConnectorTaskStep, RunDestroyedStep, AttemptStep, OnConnectionStep,
       OnConnectionReturnsStep, HandleCloseStep, CloseRestartsStep, DestroyInLoopStep,
       DestroyBeginsStep, DestroyEndsStep
       DEF Next, LoopStep
  <2> QED  BY <2>1, <2>2
<1> QED  BY <1>1, <1>2, PTL DEF Spec

\* One attempt at a time, with its channel and its socket, however start, stop,
\* restart, retry timers and the kernel's answers interleave.
THEOREM ConnectorMakesOneAttempt == Spec => []OneAttempt
<1>1. ClientInv => OneAttempt
  BY DEF ClientInv, AttemptInv, SocketOfAttempt, OneThing, OneAttempt
<1> QED  BY <1>1, ClientInvariant, PTL

\* A connector that stopInLoop left without a retry timer reports no connection
\* until it is started again.
THEOREM StopEndsAttempts == Spec => StopIsFinal
<1>1. ASSUME ClientInv, [Next]_allVars, ~incall, incall'
      PROVE  ~halted \/ latent
  <2>1. AttemptTypeOK /\ HaltOK
    BY <1>1 DEF ClientInv, AttemptInv
  <2>2. CASE OnConnection
    BY <2>1, <2>2 DEF OnConnection, ConnectSucceeds, HaltOK
  <2>3. CASE ~OnConnection
    <3>1. CASE UNCHANGED allVars
      BY <1>1, <3>1 DEF allVars, vars
    <3>2. CASE Next
      <4>1. \/ ClientConnect \/ ClientStop \/ Disconnect \/ UserGoesOn
            \/ RunConnectorTask \/ RunDestroyed \/ FireRetryTimer \/ AttemptFails
            \/ OnConnectionReturns \/ (\E c \in 1..MaxCalls : HandleClose(c))
            \/ CloseRestarts \/ DestroyInLoop \/ DestroyBegins \/ DestroyEnds
        BY <2>3, <3>2 DEF Next, LoopStep
      <4>2. incall' = incall
        BY <1>1, <4>1
           DEF ClientConnect, UserStart, LoopStart, ClientStop, UserStop, LoopStop, Disconnect, vars,
               UserGoesOn, UserQueues, RunConnectorTask, RunStart, RunStop, RunDestroyed,
               FireRetryTimer, RetryTimerFires, AttemptFails, ConnectFails,
               OnConnectionReturns, CallbackReturns, HandleClose, CloseRestarts, DestroyInLoop,
               DestroyBegins, DestroyEnds
      <4> QED  BY <1>1, <4>2
    <3> QED  BY <1>1, <3>1, <3>2
  <2> QED  BY <2>2, <2>3
<1>2. ClientInv /\ [Next]_allVars => [~incall /\ incall' => ~halted \/ latent]_vars
  BY <1>1
<1> QED  BY <1>2, ClientInvariant, PTL DEF Spec, StopIsFinal

\* connection_ is the open connection.
THEOREM ConnectionIsTracked == Spec => []TracksConnection
<1>1. ClientInv => TracksConnection
  BY DEF ClientInv, TrackOK, TracksConnection
<1> QED  BY <1>1, ClientInvariant, PTL

\* No use of a destroyed client or connector, and no abort in startInLoop, but for
\* the exceptions of NoCrash.
THEOREM ClientNeverCrashes == Spec => []NoCrash
<1>1. ClientInv => NoCrash
  BY DEF ClientInv, GoneOK, AttemptInv, NoCrash
<1> QED  BY <1>1, ClientInvariant, PTL

-----------------------------------------------------------------------------
(* ConnectionLife. *)

\* Connection c is at the stage that its callbacks and its state_ say.
StageOK(c) ==
    \/ conns[c].calls = <<"up">> /\ conns[c].state_ # "Disconnected" /\ LifeOf(c) = "up"
    \/ conns[c].calls = <<"up">> /\ conns[c].state_ = "Disconnected" /\ LifeOf(c) = "closed"
    \/ conns[c].calls = <<"up", "down">> /\ LifeOf(c) = "down"
    \/ conns[c].calls = <<"up", "down", "down">> /\ LifeOf(c) = "down"

StagesOK == \A c \in 1..Len(conns) : StageOK(c)

\* Every connection is at one of the stages.
LEMMA Stages == ClientTypeOK /\ CallsOK => StagesOK
<1> SUFFICES ASSUME ClientTypeOK, CallsOK, NEW c \in 1..Len(conns) PROVE StageOK(c)
  BY DEF StagesOK
<1>1. c \in Open <=> conns[c].state_ # "Disconnected"
  BY OpenIs
<1>2. conns[c].calls = <<"up", "down", "down">> => c = taken
  BY DEF CallsOK
<1>3. /\ <<"up">> # <<"up", "down">> /\ <<"up">> # <<"up", "down", "down">>
      /\ <<"up", "down">> # <<"up", "down", "down">>
  BY CallSequences
<1>4. ASSUME conns[c].calls = <<"up">> PROVE LifeOf(c) = IF c \in Open THEN "up" ELSE "closed"
  BY <1>3, <1>4 DEF LifeOf
<1>5. ASSUME conns[c].calls = <<"up", "down">> PROVE LifeOf(c) = "down"
  BY <1>3, <1>5 DEF LifeOf
<1>6. ASSUME conns[c].calls = <<"up", "down", "down">> PROVE LifeOf(c) = "down"
  BY <1>2, <1>3, <1>6 DEF LifeOf
<1>7. \/ conns[c].calls = <<"up">> \/ conns[c].calls = <<"up", "down">>
      \/ conns[c].calls = <<"up", "down", "down">>
  <2>1. conns[c] \in ConnRecords
    BY DEF ClientTypeOK
  <2>2. conns[c].calls \in Calls
    BY <2>1, Records
  <2> QED  BY <2>2, CallSequences, Zenon
<1> QED  BY <1>1, <1>4, <1>5, <1>6, <1>7 DEF StageOK

\* The refinement mapping.
LifeMap == [c \in 1..MaxCalls |-> IF c \in DOMAIN conns THEN LifeOf(c) ELSE "none"]

\* A step that takes one connection along one of the moves, or leaves it at its
\* stage, and leaves the others at theirs.
LEMMA LifeMove ==
  ASSUME NEW c, \A i \in (1..MaxCalls) \ {c} : LifeMap'[i] = LifeMap[i],
         c \in 1..MaxCalls =>
            LifeMap'[c] = LifeMap[c] \/ <<LifeMap[c], LifeMap'[c]>> \in Life!Moves
  PROVE  [Life!LNext]_LifeMap
<1>1. CASE c \notin 1..MaxCalls \/ LifeMap'[c] = LifeMap[c]
  <2>1. \A i \in 1..MaxCalls : LifeMap'[i] = LifeMap[i]
    BY <1>1
  <2>2. LifeMap' = LifeMap
    BY <2>1 DEF LifeMap
  <2> QED  BY <2>2
<1>2. CASE c \in 1..MaxCalls /\ <<LifeMap[c], LifeMap'[c]>> \in Life!Moves
  <2>1. LifeMap' = [LifeMap EXCEPT ![c] = LifeMap'[c]]
    BY DEF LifeMap
  <2>2. \E m \in Life!Moves : LifeMap[c] = m[1] /\ LifeMap' = [LifeMap EXCEPT ![c] = m[2]]
    <3> USE <1>2
    <3> WITNESS <<LifeMap[c], LifeMap'[c]>> \in Life!Moves
    <3> QED  BY <2>1
  <2> QED  BY <1>2, <2>2 DEF Life!LNext, Life!Move, LifeMap
<1> QED  BY <1>1, <1>2

\* What a step may do to the records of the connections.
LEMMA ConnMoves ==
  ASSUME ClientInv, Next
  PROVE  \/ UNCHANGED conns
         \/ conns' = Append(conns, [state_ |-> "Connected", calls |-> <<"up">>])
         \/ \E c \in 1..Len(conns) :
              /\ Len(conns') = Len(conns)
              /\ \A i \in 1..Len(conns) \ {c} : conns'[i] = conns[i]
              /\ \/ /\ conns'[c].calls = conns[c].calls
                    /\ conns[c].state_ # "Disconnected" /\ conns'[c].state_ # "Disconnected"
                 \/ /\ conns[c].calls = <<"up">> /\ conns'[c].calls = <<"up">>
                    /\ conns[c].state_ # "Disconnected" /\ conns'[c].state_ = "Disconnected"
                 \/ conns[c].calls = <<"up">> /\ conns'[c].calls = <<"up", "down">>
                 \/ /\ conns[c].calls = <<"up", "down">>
                    /\ conns'[c].calls = <<"up", "down", "down">>
<1> USE DEF ClientInv
<1>1. CASE Disconnect
  <2>1. /\ UNCHANGED vars /\ UNCHANGED <<connection_, client, taken>>
        /\ conns' = IF connection_ # 0 /\ conns[connection_].state_ = "Connected"
                      THEN [conns EXCEPT ![connection_].state_ = "Disconnecting"] ELSE conns
    BY <1>1 DEF Disconnect
  <2>2. UNCHANGED <<tasks, upc, last>>
    BY <2>1 DEF vars, userVars
  <2>3. CASE connection_ # 0 /\ conns[connection_].state_ = "Connected"
    <3>1. conns' = [conns EXCEPT ![connection_].state_ = "Disconnecting"]
      BY <2>1, <2>3
    <3>2. /\ Len(conns') = Len(conns) /\ conns'[connection_].state_ = "Disconnecting"
          /\ conns'[connection_].calls = conns[connection_].calls
          /\ \A i \in 1..Len(conns) \ {connection_} : conns'[i] = conns[i]
      BY <2>1, <2>2, <2>3, <3>1, ConnDisconnect
    <3>3. connection_ \in 1..Len(conns)
      BY <2>3 DEF ConnInv, ClientTypeOK
    <3> QED  BY <2>3, <3>2, <3>3
  <2> QED  BY <2>1, <2>3
<1>2. ASSUME NEW c, HandleClose(c)
      PROVE  \/ UNCHANGED conns
             \/ /\ c \in 1..Len(conns) /\ Len(conns') = Len(conns)
                /\ conns[c].calls = <<"up">> /\ conns'[c].calls = <<"up">>
                /\ conns[c].state_ # "Disconnected" /\ conns'[c].state_ = "Disconnected"
                /\ \A i \in 1..Len(conns) \ {c} : conns'[i] = conns[i]
  <2>1. CASE client = "gone"
    BY <1>2, <2>1 DEF HandleClose
  <2>2. CASE client # "gone"
    <3>1. /\ c \in Open /\ conns' = [conns EXCEPT ![c].state_ = "Disconnected"] /\ connection_' = 0
          /\ tasks' = Append(tasks, [op |-> "destroyed", conn |-> c])
          /\ UNCHANGED <<client, taken, upc, last>>
      BY <1>2, <2>2 DEF HandleClose
    <3>2. conns[c].state_ # "Disconnected"
      BY <3>1 DEF Open
    <3> QED  BY <2>2, <3>1, <3>2, AttemptFacts, ConnClosed
  <2> QED  BY <2>1, <2>2
<1>3. CASE RunDestroyed
  <2>1. /\ tasks # << >> /\ Head(tasks).op = "destroyed" /\ tasks' = Tail(tasks)
        /\ conns' = Destroyed(Head(tasks).conn)
        /\ UNCHANGED <<client, taken, connection_, upc, last>>
    BY <1>3 DEF RunDestroyed, userVars
  <2> QED  BY <2>1, AttemptFacts, ConnDestroyed
<1>4. CASE DestroyInLoop
  <2>1. CASE connection_ # 0
    <3>1. /\ client = "alive" /\ upc = "idle" /\ client' = "gone" /\ connection_' = 0
          /\ conns' = Destroyed(connection_) /\ UNCHANGED taken /\ UNCHANGED vars
      BY <1>4, <2>1 DEF DestroyInLoop
    <3>2. UNCHANGED <<tasks, upc, last>>
      BY <3>1 DEF vars, userVars
    <3> QED  BY <2>1, <3>1, <3>2, ConnDestroyedAtOnce
  <2> QED  BY <1>4, <2>1 DEF DestroyInLoop
<1>5. CASE OnConnection
  BY <1>5 DEF OnConnection
<1>6. CASE \/ ClientConnect \/ ClientStop \/ UserGoesOn \/ RunConnectorTask
           \/ FireRetryTimer \/ AttemptFails \/ OnConnectionReturns \/ CloseRestarts
           \/ DestroyBegins \/ DestroyEnds
  BY <1>6 DEF ClientConnect, ClientStop, UserGoesOn, RunConnectorTask, FireRetryTimer,
              AttemptFails, OnConnectionReturns, CloseRestarts, DestroyBegins, DestroyEnds,
              clientVars
<1>7. CASE \E c \in 1..MaxCalls : HandleClose(c)
  BY <1>2, <1>7
<1> QED  BY <1>1, <1>3, <1>4, <1>5, <1>6, <1>7 DEF Next, LoopStep

\* Through reconnection, disconnect, stop and destruction each connection is
\* reported up once and then down, in the order of ConnectionLife.
THEOREM ClientImplementsLife == Spec => ImplementsLife
<1>1. ClientInit => Life!LInit
  <2> SUFFICES ASSUME ClientInit PROVE Life!LInit
    OBVIOUS
  <2>1. DOMAIN conns = {}
    BY DEF ClientInit
  <2> QED  BY <2>1 DEF Life!LInit
<1>2. ASSUME ClientInv, ClientInv', StagesOK, StagesOK', Next
      PROVE  [Life!LNext]_LifeMap
  <2>0. /\ Len(conns) \in Nat /\ DOMAIN conns = 1..Len(conns) /\ conns \in Seq(ConnRecords)
        /\ DOMAIN conns' = 1..Len(conns')
    BY <1>2 DEF ClientInv, ConnInv, ClientTypeOK
  <2>1. ASSUME NEW i \in 1..Len(conns), i \in 1..Len(conns'), conns'[i] = conns[i]
        PROVE  LifeOf(i)' = LifeOf(i)
    <3>1. StageOK(i) /\ StageOK(i)'
      BY <1>2, <2>1 DEF StagesOK
    <3>2. /\ <<"up">> # <<"up", "down">> /\ <<"up">> # <<"up", "down", "down">>
          /\ <<"up", "down">> # <<"up", "down", "down">>
      BY CallSequences
    <3> QED  BY <2>1, <3>1, <3>2 DEF StageOK
  <2>2. CASE UNCHANGED conns
    <3>1. LifeMap' = LifeMap
      BY <2>0, <2>1, <2>2 DEF LifeMap
    <3> QED  BY <3>1
  <2>3. CASE conns' = Append(conns, [state_ |-> "Connected", calls |-> <<"up">>])
    <3>1. PICK c \in Nat : c = Len(conns) + 1
      BY <2>0
    <3>2. PICK r \in ConnRecords : r = [state_ |-> "Connected", calls |-> <<"up">>]
      BY Records
    <3>3. /\ Len(conns') = c /\ conns'[c] = r /\ c \in 1..c /\ c \notin 1..Len(conns)
          /\ \A i \in 1..Len(conns) : conns'[i] = conns[i] /\ i \in 1..c
          /\ \A i \in 1..c : i \in 1..Len(conns) \/ i = c
      BY <2>0, <2>3, <3>1, <3>2
    <3>4. LifeOf(c)' = "up"
      <4>1. StageOK(c)'
        BY <1>2, <3>3 DEF StagesOK
      <4>2. conns'[c].calls = <<"up">> /\ conns'[c].state_ # "Disconnected"
        BY <3>2, <3>3
      <4>3. /\ <<"up">> # <<"up", "down">> /\ <<"up">> # <<"up", "down", "down">>
        BY CallSequences
      <4> QED  BY <4>1, <4>2, <4>3 DEF StageOK
    <3>5. \A i \in (1..MaxCalls) \ {c} : LifeMap'[i] = LifeMap[i]
      BY <2>0, <2>1, <3>3 DEF LifeMap
    <3>6. c \in 1..MaxCalls => LifeMap[c] = "none" /\ LifeMap'[c] = "up"
      BY <2>0, <3>3, <3>4 DEF LifeMap
    <3>7. c \in 1..MaxCalls => <<LifeMap[c], LifeMap'[c]>> \in Life!Moves
      BY <3>6 DEF Life!Moves
    <3> QED  BY <3>5, <3>7, LifeMove
  <2>4. ASSUME NEW c \in 1..Len(conns), Len(conns') = Len(conns),
               \A i \in 1..Len(conns) \ {c} : conns'[i] = conns[i],
               \/ /\ conns'[c].calls = conns[c].calls
                  /\ conns[c].state_ # "Disconnected" /\ conns'[c].state_ # "Disconnected"
               \/ /\ conns[c].calls = <<"up">> /\ conns'[c].calls = <<"up">>
                  /\ conns[c].state_ # "Disconnected" /\ conns'[c].state_ = "Disconnected"
               \/ conns[c].calls = <<"up">> /\ conns'[c].calls = <<"up", "down">>
               \/ /\ conns[c].calls = <<"up", "down">>
                  /\ conns'[c].calls = <<"up", "down", "down">>
        PROVE  [Life!LNext]_LifeMap
    <3>1. StageOK(c) /\ StageOK(c)'
      BY <1>2, <2>4 DEF StagesOK
    <3>2. /\ <<"up">> # <<"up", "down">> /\ <<"up">> # <<"up", "down", "down">>
          /\ <<"up", "down">> # <<"up", "down", "down">>
      BY CallSequences
    <3>3. \/ LifeOf(c)' = LifeOf(c)
          \/ LifeOf(c) = "up" /\ LifeOf(c)' \in {"closed", "down"}
          \/ LifeOf(c) = "closed" /\ LifeOf(c)' = "down"
      BY <2>4, <3>1, <3>2 DEF StageOK
    <3>4. \A i \in (1..MaxCalls) \ {c} : LifeMap'[i] = LifeMap[i]
      BY <2>0, <2>1, <2>4 DEF LifeMap
    <3>5. c \in 1..MaxCalls => LifeMap[c] = LifeOf(c) /\ LifeMap'[c] = LifeOf(c)'
      BY <2>0, <2>4 DEF LifeMap
    <3>6. c \in 1..MaxCalls => LifeMap'[c] = LifeMap[c] \/ <<LifeMap[c], LifeMap'[c]>> \in Life!Moves
      BY <3>3, <3>5 DEF Life!Moves
    <3> QED  BY <3>4, <3>6, LifeMove
  <2> QED  BY <1>2, <2>2, <2>3, <2>4, ConnMoves
<1>3. ASSUME UNCHANGED allVars PROVE UNCHANGED LifeMap
  BY <1>3 DEF allVars, clientVars, LifeMap, LifeOf, Open
<1>4. ClientInv => StagesOK
  BY Stages DEF ClientInv, ConnInv
<1> QED
  BY <1>1, <1>2, <1>3, <1>4, ClientInvariant, PTL DEF Spec, ImplementsLife, Life!LSpec, LifeMap
=============================================================================
