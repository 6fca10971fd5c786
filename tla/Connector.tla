----------------------------- MODULE Connector ------------------------------
(***************************************************************************)
(* net/Connector: the client side of a connection attempt with retries.    *)
(* start and stop are called by a user thread and by code in the loop      *)
(* thread, restart by the latter.  The loop runs queued functors in order  *)
(* and each expired retry timer once.  The kernel decides how an attempt   *)
(* ends.                                                                   *)
(* TcpClient, which owns the connector, completes the specification.       *)
(***************************************************************************)
EXTENDS Naturals, Sequences

CONSTANTS
    DefaultDelay,   \* DEFAULT_RETRY_DELAY
    MaxDelay,       \* MAX_RETRY_DELAY
    MaxCalls        \* bound on the number of start, stop and restart calls

ASSUME DelayAssumption ==
    DefaultDelay \in Nat \ {0} /\ MaxDelay \in Nat /\ DefaultDelay <= MaxDelay
ASSUME MaxCallsAssumption == MaxCalls \in Nat

VARIABLES
    connect_,
    state_,
    socket_, channel_,   \* are the pointers set?
    retry_delay_,
    timers,              \* retry timers that have not fired
    tasks,               \* functors queued in the loop, "start" and "stop" are here
    incall,              \* is the loop thread inside new_connection_callback_?
    closing,             \* is it in a close callback, about to call restart()?
    aborted,             \* has the program called std::abort?
    upc,                 \* the call the user thread is in, connect_ assigned
    calls,               \* history: number of calls
    last,                \* history: the last call begun, by either thread
    halted,              \* history: stopInLoop has run, nothing was started since
    latent,              \* history: a retry timer was pending when it ran
    gaveUp,              \* history: the last connect() met an error it does not retry
    stale                \* history: the connector was started again over what was
                         \* left of the last time, see StartsOver

userVars == <<upc, calls, last>>
haltVars == <<halted, latent>>
vars == <<connect_, state_, socket_, channel_, retry_delay_, timers, tasks, incall,
          closing, aborted, userVars, haltVars, gaveUp, stale>>

Functor(op) == [op |-> op, conn |-> 0]

Init ==
    /\ connect_ = FALSE
    /\ state_ = "Disconnected"
    /\ socket_ = FALSE /\ channel_ = FALSE
    /\ retry_delay_ = DefaultDelay
    /\ timers = 0
    /\ tasks = << >>
    /\ incall = FALSE /\ closing = FALSE
    /\ aborted = FALSE
    /\ upc = "idle" /\ calls = 0 /\ last = "none"
    /\ halted = FALSE /\ latent = FALSE
    /\ gaveUp = FALSE
    /\ stale = FALSE

-----------------------------------------------------------------------------
\* The next delay: doubled, and capped.
Doubled(delay) == IF 2 * delay < MaxDelay THEN 2 * delay ELSE MaxDelay

\* Mutant: no timer is armed.
RetryNever(delay, pending, connecting) ==
    /\ state_' = "Disconnected"
    /\ socket_' = FALSE
    /\ retry_delay_' = Doubled(delay)
    /\ timers' = pending

\* retry(), from the delay, the pending timers and the connect_ it finds.
Retry(delay, pending, connecting) ==
    /\ state_' = "Disconnected"
    /\ socket_' = FALSE
    /\ retry_delay_' = Doubled(delay)
    /\ timers' = pending + (IF connecting THEN 1 ELSE 0)

\* connect(): in progress or done at once (connecting() makes the channel, in
\* place of an earlier one), an error worth a retry, or any other error.
Connect(delay, pending, connecting) ==
    \/ /\ state_' = "Connecting"
       /\ socket_' = TRUE
       /\ channel_' = TRUE
       /\ retry_delay_' = delay
       /\ timers' = pending
       /\ gaveUp' = FALSE
    \/ /\ Retry(delay, pending, connecting)
       /\ gaveUp' = FALSE
       /\ UNCHANGED channel_
    \/ /\ state_' = "Disconnected"
       /\ socket_' = FALSE
       /\ retry_delay_' = delay
       /\ timers' = pending
       /\ gaveUp' = TRUE
       /\ UNCHANGED channel_

\* startInLoop(): connect_ is not tested.
StartInLoop(state, delay, pending, connecting) ==
    IF state = "Disconnected"
      THEN Connect(delay, pending, connecting) /\ UNCHANGED aborted
      ELSE /\ aborted' = TRUE
           /\ timers' = pending
           /\ UNCHANGED <<state_, socket_, channel_, retry_delay_, gaveUp>>

\* Mutant: the attempt in progress is not abandoned.
StopInLoopKeeping ==
    /\ state_' = "Disconnected"
    /\ halted' = TRUE
    /\ latent' = (timers > 0)
    /\ UNCHANGED <<channel_, socket_>>

\* stopInLoop(): a pending retry timer is left alone.
StopInLoop ==
    /\ IF state_ = "Connecting"
         THEN channel_' = FALSE /\ socket_' = FALSE
         ELSE UNCHANGED <<channel_, socket_>>
    /\ state_' = "Disconnected"
    /\ halted' = TRUE
    /\ latent' = (timers > 0)

\* restart(), in the loop thread.
RestartInLoop ==
    /\ connect_' = TRUE
    /\ StartInLoop("Disconnected", DefaultDelay, timers, TRUE)
    /\ halted' = FALSE
    /\ UNCHANGED latent

-----------------------------------------------------------------------------
(* The loop thread, outside and inside new_connection_callback_. *)

Idle == ~incall /\ ~closing /\ ~aborted

RunStart ==
    /\ Idle
    /\ tasks # << >> /\ Head(tasks).op = "start"
    /\ tasks' = Tail(tasks)
    /\ StartInLoop(state_, retry_delay_, timers, connect_)
    /\ halted' = FALSE
    /\ UNCHANGED <<connect_, incall, closing, userVars, latent, stale>>

RunStop ==
    /\ Idle
    /\ tasks # << >> /\ Head(tasks).op = "stop"
    /\ tasks' = Tail(tasks)
    /\ StopInLoop
    /\ UNCHANGED <<connect_, retry_delay_, timers, incall, closing, aborted, userVars, gaveUp,
                   stale>>

\* Mutant: retry() uses runEvery.
RetryTimerRepeats ==
    /\ Idle
    /\ timers > 0
    /\ StartInLoop(state_, retry_delay_, timers, connect_)
    /\ UNCHANGED <<connect_, tasks, incall, closing, userVars, haltVars, stale>>

\* The functor that retry() gave to runAfter.
RetryTimerFires ==
    /\ Idle
    /\ timers > 0
    /\ StartInLoop(state_, retry_delay_, timers - 1, connect_)
    /\ UNCHANGED <<connect_, tasks, incall, closing, userVars, haltVars, stale>>

\* handleWritable() with SO_ERROR set.  A closed descriptor does not get here: epoll
\* does not report it and poll reports POLLNVAL, which runs no write callback.
ConnectFails ==
    /\ Idle
    /\ channel_ /\ socket_
    /\ channel_' = FALSE
    /\ Retry(retry_delay_, timers, connect_)
    /\ UNCHANGED <<connect_, tasks, incall, closing, aborted, userVars, haltVars, gaveUp, stale>>

\* handleWritable() without an error, up to new_connection_callback_.
ConnectSucceeds ==
    /\ Idle
    /\ channel_ /\ socket_
    /\ state_' = "Connected"
    /\ channel_' = FALSE
    /\ incall' = TRUE
    /\ UNCHANGED <<connect_, socket_, retry_delay_, timers, tasks, closing, aborted, userVars,
                   haltVars, gaveUp, stale>>

\* The rest of handleWritable().
CallbackReturns ==
    /\ incall
    /\ incall' = FALSE
    /\ socket_' = FALSE
    /\ UNCHANGED <<connect_, state_, channel_, retry_delay_, timers, tasks, closing, aborted,
                   userVars, haltVars, gaveUp, stale>>

-----------------------------------------------------------------------------
(* start() and stop().  In the loop thread runInLoop runs the functor at    *)
(* once; the user thread assigns connect_ and then queues the functor.      *)

\* What an earlier start(), restart() or stop() may have left: a retry timer, an
\* attempt under way, or a start() or stop() that has yet to run.
Leftover ==
    /\ last # "none"
    /\ \/ timers > 0
       \/ state_ = "Connecting"
       \/ \E i \in DOMAIN tasks : tasks[i].op \in {"start", "stop"}
       \/ upc # "idle"

\* Does start() come over something left?  A connection counts, open or closed:
\* state_ stays Connected until stop() or restart().
StartsOver == Leftover \/ state_ = "Connected"

\* In the connection callback start() is always over something: the rest of
\* handleWritable resets socket_, then the socket of the new attempt.
LoopStart ==
    /\ incall \/ Idle
    /\ ~aborted
    /\ calls < MaxCalls
    /\ calls' = calls + 1
    /\ last' = "start"
    /\ stale' = (stale \/ StartsOver \/ incall)
    /\ connect_' = TRUE
    /\ StartInLoop(state_, retry_delay_, timers, TRUE)
    /\ halted' = FALSE
    /\ UNCHANGED <<tasks, incall, closing, upc, latent>>

\* Also in the connection callback (test_connector.cpp:198).
LoopStop ==
    /\ incall \/ Idle
    /\ ~aborted
    /\ calls < MaxCalls
    /\ calls' = calls + 1
    /\ last' = "stop"
    /\ connect_' = FALSE
    /\ StopInLoop
    /\ UNCHANGED <<retry_delay_, timers, tasks, incall, closing, aborted, upc, gaveUp, stale>>

UserStart ==
    /\ upc = "idle"
    /\ calls < MaxCalls
    /\ calls' = calls + 1
    /\ last' = "start"
    /\ stale' = (stale \/ StartsOver)
    /\ connect_' = TRUE
    /\ upc' = "start"
    /\ UNCHANGED <<state_, socket_, channel_, retry_delay_, timers, tasks, incall, closing,
                   aborted, haltVars, gaveUp>>

UserStop ==
    /\ upc = "idle"
    /\ calls < MaxCalls
    /\ calls' = calls + 1
    /\ last' = "stop"
    /\ connect_' = FALSE
    /\ upc' = "stop"
    /\ UNCHANGED <<state_, socket_, channel_, retry_delay_, timers, tasks, incall, closing,
                   aborted, haltVars, gaveUp, stale>>

UserQueues ==
    /\ upc \in {"start", "stop"}
    /\ tasks' = Append(tasks, Functor(upc))
    /\ upc' = "idle"
    /\ UNCHANGED <<connect_, state_, socket_, channel_, retry_delay_, timers, incall, closing,
                   aborted, calls, last, haltVars, gaveUp, stale>>

-----------------------------------------------------------------------------
(* Properties of the connector, checked in the composition with its owner.  *)

\* There is one attempt at a time: a retry timer waits only when no attempt is
\* under way and no connection is up, and a second timer never joins it; the
\* channel in the poller is the one of the attempt under way and has a socket,
\* which handleWritable dereferences.  No socket outlives its attempt: every way
\* an attempt ends, stop() and a restart() during another attempt included,
\* closes its socket.  All but the last unless the connector is started over
\* what is left of an earlier call, see StartsOver.
OneAttempt ==
    /\ \/ stale
       \/ /\ timers <= 1
          /\ timers = 1 => state_ = "Disconnected" /\ ~channel_
          /\ channel_ <=> (state_ = "Connecting" /\ socket_)
    /\ socket_ => state_ = "Connecting" \/ incall

\* new_connection_callback_ is not called after stop() has taken effect
\* (test_connector.cpp:157), unless a retry timer was pending: stop() does not
\* cancel it and startInLoop does not test connect_.
StopIsFinal == [][~incall /\ incall' => ~halted \/ latent]_vars
=============================================================================
