----------------------------- MODULE TimerQueue -----------------------------
(***************************************************************************)
(* net/TimerQueue and net/Timer: a min-heap of (time, sequence) entries,   *)
(* the map of live timers, and one timerfd armed for the earliest entry.   *)
(* The loop thread adds and cancels timers directly, other threads through *)
(* functors that the loop runs in order.                                   *)
(*                                                                         *)
(* The heap is a set of entries of which the least is taken.  armed is the *)
(* absolute time the timerfd is set to, 0 when it is disarmed; a read that *)
(* finds it expired disarms it.  Time passes in any state.                 *)
(***************************************************************************)
EXTENDS Naturals, Sequences, FiniteSets

CONSTANTS
    TimePoints,     \* the expiration times users ask for
    Intervals,      \* intervals of timers, 0 for one that is not repeated
    MaxTime,        \* bound on the clock
    MaxTimers,      \* bound on the number of timers created
    MaxCancels      \* bound on the number of cancelTimer calls

ASSUME TimeAssumption ==
    /\ TimePoints \subseteq Nat /\ Intervals \subseteq Nat
    /\ MaxTime \in Nat /\ MaxTimers \in Nat /\ MaxCancels \in Nat

SequenceNos == 1..MaxTimers

VARIABLES
    now,            \* steady_clock::now()
    timers_,        \* sequences of the live timers
    interval_,      \* interval_[s], set when the timer is created
    timer_queue_,   \* the heap
    armed,          \* the timerfd
    tasks,          \* functors queued by other threads
    lpc,            \* the loop thread: "idle"; "ready": the timerfd's channel is in
                    \* the batch being dispatched; "expired": in the for over
                    \* expired_timers; "callback": in a timer's callback
    batch,          \* entries of expired_timers not yet looked at
    cur,            \* the timer whose callback runs
    created,        \* history: number of timers created
    cancels,        \* history: number of cancelTimer calls
    fired,          \* history: fired[s] callbacks of timer s have begun
    cancelled       \* history: timers cancelled by a cancelTimer functor, see Cancel

userVars == <<interval_, created, cancels>>
vars == <<now, timers_, interval_, timer_queue_, armed, tasks, lpc, batch, cur,
          created, cancels, fired, cancelled>>

Entry(tp, s) == [tp |-> tp, seq |-> s]

\* std::greater on (time, sequence) pairs.
Before(e, f) == e.tp < f.tp \/ (e.tp = f.tp /\ e.seq <= f.seq)

\* timer_queue_.top(), and the first of the expired entries.
Top(S) == CHOOSE e \in S : \A f \in S : Before(e, f)

Init ==
    /\ now = 1
    /\ timers_ = {}
    /\ interval_ = [s \in SequenceNos |-> 0]
    /\ timer_queue_ = {}
    /\ armed = 0
    /\ tasks = << >>
    /\ lpc = "idle"
    /\ batch = {}
    /\ cur = 0
    /\ created = 0
    /\ cancels = 0
    /\ fired = [s \in SequenceNos |-> 0]
    /\ cancelled = {}

-----------------------------------------------------------------------------
\* resetTimerFd_(), for the heap q: an empty heap disarms the timerfd, and so
\* does timerfd_settime with the time 0.
ResetTimerFd(q) == armed' = IF q = {} THEN 0 ELSE Top(q).tp

\* Mutant: only a timer earlier than the armed time resets the timerfd, and a
\* disarmed timerfd counts as armed for the time 0.
AddNoReset(tp, s) ==
    /\ timers_' = timers_ \cup {s}
    /\ timer_queue_' = timer_queue_ \cup {Entry(tp, s)}
    /\ IF tp < armed THEN ResetTimerFd(timer_queue_') ELSE UNCHANGED armed

\* The functor of addTimer.
Add(tp, s) ==
    /\ timers_' = timers_ \cup {s}
    /\ timer_queue_' = timer_queue_ \cup {Entry(tp, s)}
    /\ IF tp = Top(timer_queue_').tp
         THEN ResetTimerFd(timer_queue_')
         ELSE UNCHANGED armed

\* The addition of timer s by another thread has not run yet.
Queued(s) == \E i \in DOMAIN tasks : tasks[i].op = "add" /\ tasks[i].seq = s

\* The functor of cancelTimer: the entry in the heap stays.  Run by the loop
\* thread ahead of the queued addition it erases nothing, and cancels nothing.
Cancel(s) ==
    /\ timers_' = timers_ \ {s}
    /\ cancelled' = IF Queued(s) THEN cancelled ELSE cancelled \cup {s}

\* A Timer object is made: its sequence and interval.
Create(d) ==
    /\ created < MaxTimers
    /\ created' = created + 1
    /\ interval_' = [interval_ EXCEPT ![created + 1] = d]

CancelCall ==
    /\ cancels < MaxCancels
    /\ cancels' = cancels + 1

-----------------------------------------------------------------------------
(* Other threads: the functor goes to the queue of the loop. *)

ThreadAdd(tp, d) ==
    /\ Create(d)
    /\ tasks' = Append(tasks, [op |-> "add", seq |-> created + 1, tp |-> tp])
    /\ UNCHANGED <<now, timers_, timer_queue_, armed, lpc, batch, cur, cancels, fired,
                   cancelled>>

ThreadCancel(s) ==
    /\ s <= created
    /\ CancelCall
    /\ tasks' = Append(tasks, [op |-> "cancel", seq |-> s, tp |-> 0])
    /\ UNCHANGED <<now, timers_, interval_, timer_queue_, armed, lpc, batch, cur,
                   created, fired, cancelled>>

-----------------------------------------------------------------------------
(* Code in the loop thread: functors, callbacks of other channels (also of *)
(* the batch the timerfd is in), timer callbacks.  It calls the functors   *)
(* directly, before those in the queue.                                    *)

UserCode == lpc \in {"idle", "ready", "callback"}

LoopAdd(tp, d) ==
    /\ UserCode
    /\ Create(d)
    /\ Add(tp, created + 1)
    /\ UNCHANGED <<now, tasks, lpc, batch, cur, cancels, fired, cancelled>>

LoopCancel(s) ==
    /\ UserCode
    /\ s <= created
    /\ CancelCall
    /\ Cancel(s)
    /\ UNCHANGED <<now, interval_, timer_queue_, armed, tasks, lpc, batch, cur, created,
                   fired>>

RunTask ==
    /\ lpc = "idle"
    /\ tasks # << >>
    /\ tasks' = Tail(tasks)
    /\ LET f == Head(tasks) IN
       \/ f.op = "add" /\ Add(f.tp, f.seq) /\ UNCHANGED cancelled
       \/ f.op = "cancel" /\ Cancel(f.seq) /\ UNCHANGED <<timer_queue_, armed>>
    /\ UNCHANGED <<now, userVars, lpc, batch, cur, fired>>

-----------------------------------------------------------------------------
(* The timerfd expires. *)

Expired == armed # 0 /\ armed <= now

\* poll returns the channel of the timerfd.
PollTimerFd ==
    /\ lpc = "idle"
    /\ Expired
    /\ lpc' = "ready"
    /\ UNCHANGED <<now, timers_, userVars, timer_queue_, armed, tasks, batch, cur, fired,
                   cancelled>>

\* handleExpiredTimers_ when a callback before it has armed the timerfd anew:
\* the read fails.
ReadFails ==
    /\ lpc = "ready"
    /\ ~Expired
    /\ lpc' = "idle"
    /\ UNCHANGED <<now, timers_, userVars, timer_queue_, armed, tasks, batch, cur, fired,
                   cancelled>>

\* The read, and getExpiredTimers_.
GetExpired ==
    /\ lpc = "ready"
    /\ Expired
    /\ lpc' = "expired"
    /\ armed' = 0
    /\ batch' = {e \in timer_queue_ : e.tp <= now}
    /\ timer_queue_' = {e \in timer_queue_ : e.tp > now}
    /\ UNCHANGED <<now, timers_, userVars, tasks, cur, fired, cancelled>>

\* Mutant: the timer is not looked up again before its callback.
FireUnchecked ==
    /\ lpc = "expired"
    /\ batch # {}
    /\ LET e == Top(batch) IN
       /\ batch' = batch \ {e}
       /\ lpc' = "callback" /\ cur' = e.seq
       /\ fired' = [fired EXCEPT ![e.seq] = @ + 1]
    /\ UNCHANGED <<now, timers_, userVars, timer_queue_, armed, tasks, cancelled>>

\* The next expired entry, whose timer may have been cancelled.
Fire ==
    /\ lpc = "expired"
    /\ batch # {}
    /\ LET e == Top(batch) IN
       /\ batch' = batch \ {e}
       /\ \/ /\ e.seq \in timers_
             /\ lpc' = "callback" /\ cur' = e.seq
             /\ fired' = [fired EXCEPT ![e.seq] = @ + 1]
          \/ /\ e.seq \notin timers_
             /\ UNCHANGED <<lpc, cur, fired>>
    /\ UNCHANGED <<now, timers_, userVars, timer_queue_, armed, tasks, cancelled>>

\* Mutant: a timer that has fired stays in timers_.
CallbackReturnsKeeping ==
    /\ lpc = "callback"
    /\ lpc' = "expired"
    /\ cur' = 0
    /\ IF cur \in timers_ /\ interval_[cur] > 0
         THEN timer_queue_' = timer_queue_ \cup {Entry(now + interval_[cur], cur)}
         ELSE UNCHANGED timer_queue_
    /\ UNCHANGED <<now, timers_, userVars, armed, tasks, batch, fired, cancelled>>

\* Mutant: isRepeated() is interval_.count() >= 0.
CallbackReturnsRepeating ==
    /\ lpc = "callback"
    /\ lpc' = "expired"
    /\ cur' = 0
    /\ IF cur \in timers_
         THEN timer_queue_' = timer_queue_ \cup {Entry(now + interval_[cur], cur)}
         ELSE UNCHANGED timer_queue_
    /\ UNCHANGED <<now, timers_, userVars, armed, tasks, batch, fired, cancelled>>

\* A repeated timer goes back into the heap; one that has cancelled itself, or
\* was cancelled, is left alone.
CallbackReturns ==
    /\ lpc = "callback"
    /\ lpc' = "expired"
    /\ cur' = 0
    /\ \/ /\ cur \in timers_ /\ interval_[cur] > 0
          /\ timer_queue_' = timer_queue_ \cup {Entry(now + interval_[cur], cur)}
          /\ UNCHANGED timers_
       \/ /\ cur \in timers_ /\ interval_[cur] = 0
          /\ timers_' = timers_ \ {cur}
          /\ UNCHANGED timer_queue_
       \/ /\ cur \notin timers_
          /\ UNCHANGED <<timers_, timer_queue_>>
    /\ UNCHANGED <<now, userVars, armed, tasks, batch, fired, cancelled>>

\* Mutant: the timerfd is not armed again after the callbacks.
BatchEndsDisarmed ==
    /\ lpc = "expired"
    /\ batch = {}
    /\ lpc' = "idle"
    /\ UNCHANGED <<now, timers_, userVars, timer_queue_, armed, tasks, batch, cur, fired,
                   cancelled>>

\* The end of handleExpiredTimers_.
BatchEnds ==
    /\ lpc = "expired"
    /\ batch = {}
    /\ lpc' = "idle"
    /\ ResetTimerFd(timer_queue_)
    /\ UNCHANGED <<now, timers_, userVars, timer_queue_, tasks, batch, cur, fired,
                   cancelled>>

Tick ==
    /\ now < MaxTime
    /\ now' = now + 1
    /\ UNCHANGED <<timers_, userVars, timer_queue_, armed, tasks, lpc, batch, cur, fired,
                   cancelled>>

-----------------------------------------------------------------------------
LoopStep ==
    \/ RunTask
    \/ PollTimerFd
    \/ ReadFails
    \/ GetExpired
    \/ Fire
    \/ CallbackReturns
    \/ BatchEnds

Next ==
    \/ LoopStep
    \/ Tick
    \/ \E tp \in TimePoints, d \in Intervals : ThreadAdd(tp, d) \/ LoopAdd(tp, d)
    \/ \E s \in SequenceNos : ThreadCancel(s) \/ LoopCancel(s)

(***************************************************************************)
(* Time passes; the loop polls, dispatches and runs functors in each turn, *)
(* so neither kind of step is put off for ever; callbacks return.          *)
(***************************************************************************)
Fairness == WF_vars(Tick) /\ WF_vars(LoopStep) /\ SF_vars(RunTask) /\ SF_vars(PollTimerFd)

Spec == Init /\ [][Next]_vars /\ Fairness

-----------------------------------------------------------------------------
(* Properties. *)

\* A live timer has exactly one entry, in the heap or among the expired ones
\* still to be looked at, except while its own callback runs: lazy deletion,
\* self-cancellation and additions from callbacks never leave a live timer
\* without an entry or with two.
OneEntryPerTimer ==
    \A s \in timers_ :
        Cardinality({e \in timer_queue_ \cup batch : e.seq = s})
            = IF lpc = "callback" /\ cur = s THEN 0 ELSE 1

\* Whenever expired timers are not being handled, the timerfd is armed for the
\* earliest entry (for the time 0 that means disarmed); in particular a failed
\* read loses no expiration.
ArmedForEarliest ==
    lpc \in {"idle", "ready"} /\ timer_queue_ # {} => armed = Top(timer_queue_).tp

\* A timer that is not repeated fires once.
OneShotFiresOnce == \A s \in SequenceNos : interval_[s] = 0 => fired[s] <= 1

\* No callback begins after the timer's cancellation has taken effect, in the
\* batch being handled included (README.md:515: cancelled timers are skipped),
\* except for a timer that the loop thread cancels while its addition by another
\* thread is queued: that cancellation finds nothing.
CancelIsFinal ==
    [][\A s \in SequenceNos :
         fired'[s] > fired[s] => s \notin cancelled]_vars

\* Every timer that is not repeated fires or is cancelled, however the additions,
\* cancellations and ghost entries of others interleave with it, unless there
\* is an entry for the epoch of the clock: resetTimerFd_ takes that for a request
\* to disarm the timerfd, and it stays disarmed.
TimersFire ==
    \A s \in SequenceNos :
        (s \in timers_ /\ interval_[s] = 0)
            ~> (s \notin timers_ \/ \E e \in timer_queue_ : e.tp = 0)
=============================================================================
