----------------------------- MODULE EventLoop ------------------------------
(***************************************************************************)
(* net/EventLoop: one loop thread that polls, dispatches the ready         *)
(* channels and runs the tasks that it and other threads put in            *)
(* task_queue_; quit() from any thread.                                    *)
(*                                                                         *)
(* A task is named by the ordinal of its push_back.  The eventfd counter   *)
(* is abstracted to whether the descriptor is readable.  ready_channels_   *)
(* is a set: poll promises no order.                                       *)
(***************************************************************************)
EXTENDS Naturals, Sequences, FiniteSets

CONSTANTS
    Threads,         \* threads other than the loop thread
    Channels,        \* the channels other than wakeup_channel_
    WakeupChannel,   \* wakeup_channel_
    MaxTasks,        \* bound on the number of tasks ever queued
    InBatchRemoval   \* does a callback remove a channel of the same batch?

ASSUME MaxTasksAssumption == MaxTasks \in Nat
ASSUME WakeupAssumption == WakeupChannel \notin Channels
ASSUME InBatchAssumption == InBatchRemoval \in BOOLEAN

VARIABLES
    pc,                    \* where the loop thread is, see LoopPC
    quit_,
    is_processing_tasks_,
    wakeup_fd_,            \* is the eventfd readable?
    channels,              \* channels the poller watches, wakeup_channel_ apart
    ready_channels_,       \* what is left of the batch the last poll returned
    tasks,                 \* what is left of the batch swapped out of task_queue_
    task_queue_,
    tpc,                   \* tpc[t] = "wakeup": t is before the wakeup() of its call
    posted,                \* history: ordinal of the task queued last
    ran,                   \* history: ordinal of the task run last
    silent                 \* history: tasks the loop thread queued outside loop()

taskVars  == <<tasks, task_queue_, posted, ran, silent>>
chanVars  == <<channels, ready_channels_>>
vars == <<pc, quit_, is_processing_tasks_, wakeup_fd_, channels,
          ready_channels_, tasks, task_queue_, tpc, posted, ran, silent>>

(***************************************************************************)
(* The loop thread is outside loop(), at the while condition, in           *)
(* poller_->poll, in the for over ready_channels_ (between two callbacks   *)
(* or inside one), at the swap of executePendingTasks, or in the for over  *)
(* tasks (between two tasks or inside one).  "crashed" is what a call      *)
(* through a pointer to a destroyed Channel leads to.                      *)
(***************************************************************************)
LoopPC == {"out", "check", "poll", "dispatch", "callback", "swap",
           "tasks", "task", "crashed"}

\* The points where code of the application runs in the loop thread.
UserPC == {"out", "callback", "task"}

TypeOK ==
    /\ pc \in LoopPC
    /\ quit_ \in BOOLEAN
    /\ is_processing_tasks_ \in BOOLEAN
    /\ wakeup_fd_ \in BOOLEAN
    /\ channels \subseteq Channels
    /\ ready_channels_ \subseteq Channels \cup {WakeupChannel}
    /\ tasks \in Seq(Nat)
    /\ task_queue_ \in Seq(Nat)
    /\ tpc \in [Threads -> {"idle", "wakeup"}]
    /\ posted \in Nat
    /\ ran \in Nat
    /\ silent \subseteq Nat

Init ==
    /\ pc = "out"
    /\ quit_ = TRUE
    /\ is_processing_tasks_ = FALSE
    /\ wakeup_fd_ = FALSE
    /\ channels = {}
    /\ ready_channels_ = {}
    /\ tasks = << >>
    /\ task_queue_ = << >>
    /\ tpc = [t \in Threads |-> "idle"]
    /\ posted = 0
    /\ ran = 0
    /\ silent = {}

-----------------------------------------------------------------------------
(* The loop thread. *)

\* loop(): is_running_ and quit_ are assigned before the first test of quit_.
EnterLoop ==
    /\ pc = "out"
    /\ pc' = "check"
    /\ quit_' = FALSE
    /\ UNCHANGED <<is_processing_tasks_, wakeup_fd_, chanVars, taskVars, tpc>>

CheckQuit ==
    /\ pc = "check"
    /\ pc' = IF quit_ THEN "out" ELSE "poll"
    /\ UNCHANGED <<quit_, is_processing_tasks_, wakeup_fd_, chanVars, taskVars, tpc>>

PollReturns(R) ==
    /\ pc = "poll"
    /\ pc' = "dispatch"
    /\ ready_channels_' = R
    /\ UNCHANGED <<quit_, is_processing_tasks_, wakeup_fd_, channels, taskVars, tpc>>

\* The eventfd is readable: it is in the batch, with any ready channels.
PollWakeup ==
    /\ wakeup_fd_
    /\ \E R \in SUBSET channels : PollReturns(R \cup {WakeupChannel})

PollChannels ==
    /\ ~wakeup_fd_
    /\ \E R \in SUBSET channels : R # {} /\ PollReturns(R)

\* kPollTime has passed, or the call was interrupted (EINTR).
PollNothing == PollReturns({})

\* The read callback of wakeup_channel_ reads the eventfd, which clears it.
HandleWakeup ==
    /\ pc = "dispatch"
    /\ WakeupChannel \in ready_channels_
    /\ ready_channels_' = ready_channels_ \ {WakeupChannel}
    /\ wakeup_fd_' = FALSE
    /\ UNCHANGED <<pc, quit_, is_processing_tasks_, channels, taskVars, tpc>>

HandleEvent(c) ==
    /\ pc = "dispatch"
    /\ c \in ready_channels_
    /\ ready_channels_' = ready_channels_ \ {c}
    /\ pc' = IF c \in channels THEN "callback" ELSE "crashed"
    /\ UNCHANGED <<quit_, is_processing_tasks_, wakeup_fd_, channels, taskVars, tpc>>

CallbackReturns ==
    /\ pc = "callback"
    /\ pc' = "dispatch"
    /\ UNCHANGED <<quit_, is_processing_tasks_, wakeup_fd_, chanVars, taskVars, tpc>>

\* Mutant: is_processing_tasks_ is not set before the tasks run.
BatchDoneUnmarked ==
    /\ pc = "dispatch"
    /\ ready_channels_ = {}
    /\ pc' = "swap"
    /\ UNCHANGED <<quit_, is_processing_tasks_, wakeup_fd_, chanVars, taskVars, tpc>>

\* The for over ready_channels_ ends; executePendingTasks begins.
BatchDone ==
    /\ pc = "dispatch"
    /\ ready_channels_ = {}
    /\ pc' = "swap"
    /\ is_processing_tasks_' = TRUE
    /\ UNCHANGED <<quit_, wakeup_fd_, chanVars, taskVars, tpc>>

\* Mutant: task_queue_ is copied, not swapped.
CopyTasks ==
    /\ pc = "swap"
    /\ pc' = "tasks"
    /\ tasks' = task_queue_
    /\ UNCHANGED <<quit_, is_processing_tasks_, wakeup_fd_, chanVars, tpc,
                   task_queue_, posted, ran, silent>>

SwapTasks ==
    /\ pc = "swap"
    /\ pc' = "tasks"
    /\ tasks' = task_queue_
    /\ task_queue_' = << >>
    /\ UNCHANGED <<quit_, is_processing_tasks_, wakeup_fd_, chanVars, tpc,
                   posted, ran, silent>>

\* Mutant: the batch is consumed from its back.
RunLastTask ==
    /\ pc = "tasks"
    /\ tasks # << >>
    /\ pc' = "task"
    /\ ran' = tasks[Len(tasks)]
    /\ tasks' = SubSeq(tasks, 1, Len(tasks) - 1)
    /\ UNCHANGED <<quit_, is_processing_tasks_, wakeup_fd_, chanVars, tpc,
                   task_queue_, posted, silent>>

RunTask ==
    /\ pc = "tasks"
    /\ tasks # << >>
    /\ pc' = "task"
    /\ ran' = Head(tasks)
    /\ tasks' = Tail(tasks)
    /\ UNCHANGED <<quit_, is_processing_tasks_, wakeup_fd_, chanVars, tpc,
                   task_queue_, posted, silent>>

TaskReturns ==
    /\ pc = "task"
    /\ pc' = "tasks"
    /\ UNCHANGED <<quit_, is_processing_tasks_, wakeup_fd_, chanVars, taskVars, tpc>>

TasksDone ==
    /\ pc = "tasks"
    /\ tasks = << >>
    /\ pc' = "check"
    /\ is_processing_tasks_' = FALSE
    /\ UNCHANGED <<quit_, wakeup_fd_, chanVars, taskVars, tpc>>

-----------------------------------------------------------------------------
(* Calls the application makes in the loop thread: outside loop(), in a    *)
(* channel's callback or in a task.                                        *)

\* The push_back under task_mutex_, by any thread.
Push ==
    /\ posted < MaxTasks
    /\ posted' = posted + 1
    /\ task_queue_' = Append(task_queue_, posted + 1)

\* Mutant: the test is !isInLoopThread() alone.
QueueInLoopNoWakeup ==
    /\ pc \in UserPC
    /\ Push
    /\ silent' = IF pc = "out" THEN silent \cup {posted + 1} ELSE silent
    /\ UNCHANGED <<pc, quit_, is_processing_tasks_, wakeup_fd_, chanVars, tasks,
                   ran, tpc>>

\* The loop thread writes the eventfd only while it executes tasks.
QueueInLoop ==
    /\ pc \in UserPC
    /\ Push
    /\ wakeup_fd_' = (wakeup_fd_ \/ is_processing_tasks_)
    /\ silent' = IF pc = "out" THEN silent \cup {posted + 1} ELSE silent
    /\ UNCHANGED <<pc, quit_, is_processing_tasks_, chanVars, tasks, ran, tpc>>

Quit ==
    /\ pc \in UserPC
    /\ quit_' = TRUE
    /\ UNCHANGED <<pc, is_processing_tasks_, wakeup_fd_, chanVars, taskVars, tpc>>

\* A Channel's first listenTill..., through updateChannel.  A name is not
\* reused while the old object of that name is still in the batch.
UpdateChannel(c) ==
    /\ pc \in UserPC
    /\ c \notin channels \cup ready_channels_
    /\ channels' = channels \cup {c}
    /\ UNCHANGED <<pc, quit_, is_processing_tasks_, wakeup_fd_, ready_channels_,
                   taskVars, tpc>>

\* ignoreAll and removeChannel, and the owner destroys the Channel object.
RemoveChannel(c) ==
    /\ pc \in UserPC
    /\ c \in channels
    /\ c \in ready_channels_ => InBatchRemoval
    /\ channels' = channels \ {c}
    /\ UNCHANGED <<pc, quit_, is_processing_tasks_, wakeup_fd_, ready_channels_,
                   taskVars, tpc>>

-----------------------------------------------------------------------------
(* Calls other threads make: each changes its variable, then wakes up. *)

ThreadQueueInLoop(t) ==
    /\ tpc[t] = "idle"
    /\ Push
    /\ tpc' = [tpc EXCEPT ![t] = "wakeup"]
    /\ UNCHANGED <<pc, quit_, is_processing_tasks_, wakeup_fd_, chanVars, tasks,
                   ran, silent>>

\* Mutant: quit() of another thread does not wake the loop up.
ThreadQuitNoWakeup(t) ==
    /\ tpc[t] = "idle"
    /\ quit_' = TRUE
    /\ UNCHANGED <<pc, is_processing_tasks_, wakeup_fd_, chanVars, taskVars, tpc>>

ThreadQuit(t) ==
    /\ tpc[t] = "idle"
    /\ quit_' = TRUE
    /\ tpc' = [tpc EXCEPT ![t] = "wakeup"]
    /\ UNCHANGED <<pc, is_processing_tasks_, wakeup_fd_, chanVars, taskVars>>

Wakeup(t) ==
    /\ tpc[t] = "wakeup"
    /\ wakeup_fd_' = TRUE
    /\ tpc' = [tpc EXCEPT ![t] = "idle"]
    /\ UNCHANGED <<pc, quit_, is_processing_tasks_, chanVars, taskVars>>

-----------------------------------------------------------------------------
\* The steps the loop thread takes by itself once it is inside loop().
LoopStep ==
    \/ CheckQuit
    \/ PollWakeup
    \/ HandleWakeup
    \/ \E c \in Channels : HandleEvent(c)
    \/ CallbackReturns
    \/ BatchDone
    \/ SwapTasks
    \/ RunTask
    \/ TaskReturns
    \/ TasksDone

Next ==
    \/ EnterLoop
    \/ LoopStep
    \/ PollChannels
    \/ PollNothing
    \/ QueueInLoop
    \/ Quit
    \/ \E c \in Channels : UpdateChannel(c) \/ RemoveChannel(c)
    \/ \E t \in Threads : ThreadQueueInLoop(t) \/ ThreadQuit(t) \/ Wakeup(t)

Spec == Init /\ [][Next]_vars

(***************************************************************************)
(* Callbacks and tasks return, a thread that has called queueInLoop or     *)
(* quit reaches its wakeup(), and poll returns when the eventfd is         *)
(* readable.  Nothing makes the timeout of poll happen: what is live under *)
(* this fairness does not depend on kPollTime.                             *)
(***************************************************************************)
Fairness == WF_vars(LoopStep) /\ \A t \in Threads : WF_vars(Wakeup(t))

FairSpec == Spec /\ Fairness

-----------------------------------------------------------------------------
(* Properties. *)

\* The tasks not yet run are, in order, the ones queued after the last one
\* that ran: across the swap of executePendingTasks, with any thread queueing
\* at any point, no task is lost, run twice or overtaken.
TasksInOrder ==
    /\ ran + Len(tasks) + Len(task_queue_) = posted
    /\ \A i \in 1..Len(tasks) : tasks[i] = ran + i
    /\ \A i \in 1..Len(task_queue_) : task_queue_[i] = ran + Len(tasks) + i

\* The eventfd is readable, or a thread is about to make it readable.
Signalled == wakeup_fd_ \/ \E t \in Threads : tpc[t] = "wakeup"

\* The loop thread has read the eventfd, if it was readable, and has yet to
\* swap task_queue_.
BeforeSwap == pc \in {"dispatch", "callback", "swap", "crashed"}

\* A loop thread that is about to sleep in poll, or is asleep, with a task in
\* the queue will be woken by the eventfd, whatever the order of push_back,
\* swap, read and wakeup() was; the exception is a task that the loop thread
\* queued before loop(), for which queueInLoop writes nothing.
NoLostWakeup ==
    \A i \in 1..Len(task_queue_) :
        BeforeSwap \/ task_queue_[i] \in silent \/ Signalled

\* quit() of another thread reaches a loop thread that had tested quit_ before
\* it was set and has gone to sleep in poll since.
NoLostQuit == pc = "poll" /\ quit_ => Signalled

\* is_processing_tasks_, which decides whether queueInLoop of the loop thread
\* wakes up, is true exactly where a task queued now misses the swap.
ProcessingFlag ==
    pc # "crashed" => (is_processing_tasks_ <=> pc \in {"swap", "tasks", "task"})

\* The local vector of executePendingTasks is empty outside its for loop, so the
\* swap leaves nothing behind in task_queue_.
BatchScoped == tasks # << >> => pc \in {"tasks", "task"}

\* What queueInLoop and executePendingTasks implement together.
Executor == INSTANCE TaskExecutor WITH submitted <- posted, executed <- ran

\* EventLoop with its threads, swap and wakeups runs tasks as TaskExecutor does.
ImplementsExecutor == Executor!TESpec

\* A task queued inside loop() or by another thread is run, or loop() returns,
\* without help from the timeout of poll.
TasksEventuallyRun ==
    \A k \in 1..MaxTasks :
        (posted >= k /\ k \notin silent /\ pc # "out") ~> (ran >= k \/ pc = "out")

\* After quit(), by any thread, during loop(), loop() returns, and does so
\* without help from the timeout of poll.
QuitEndsLoop == (quit_ /\ pc # "out") ~> (pc = "out")
=============================================================================
