-------------------------- MODULE EventLoopThread ---------------------------
(***************************************************************************)
(* net/EventLoopThread: an owner thread starts a thread that runs an       *)
(* EventLoop, uses the loop and destroys the EventLoopThread.  The loop    *)
(* itself is EventLoop, whose actions are taken while the object exists.   *)
(***************************************************************************)
EXTENDS EventLoop

CONSTANT Owner   \* the thread that owns the EventLoopThread

ASSUME OwnerAssumption == Threads = {Owner}

VARIABLES
    thread_,    \* the progress of the started thread, see ThreadPhase
    loop_,      \* is the pointer to the EventLoop set?
    owner,      \* the progress of the owner, see OwnerPhase
    early       \* history: has anybody but ~EventLoopThread called quit()?

eltVars == <<thread_, loop_, owner, early>>
allVars == <<vars, eltVars>>

\* Not created; before the init callback has returned; loop_ published and
\* loop() not yet called; in loop() or just returned; loop_ cleared; ended,
\* the EventLoop destroyed.
ThreadPhase == {"none", "init", "enter", "loop", "exiting", "dead"}

\* The owner has the object, waits in startLoop, has the loop, is in the
\* destructor (at the test of loop_, in quit() before and after quit_ is set,
\* in join), or is done.  "terminated": ~thread of a joinable thread.
\* "dangling": a call on the destroyed EventLoop.
OwnerPhase == {"new", "wait", "running", "dtor", "quit", "wakeup", "join",
               "destroyed", "terminated", "dangling"}

ELTInit ==
    /\ Init
    /\ thread_ = "none"
    /\ loop_ = FALSE
    /\ owner = "new"
    /\ early = FALSE

-----------------------------------------------------------------------------
(* The started thread. *)

\* What the init callback, channel callbacks and tasks may do with the loop.
InitOrLoopCode ==
    /\ \/ thread_ = "init"
       \/ thread_ = "loop" /\ pc # "out"
    /\ \/ QueueInLoop /\ UNCHANGED early
       \/ Quit /\ early' = TRUE
       \/ (\E c \in Channels : UpdateChannel(c) \/ RemoveChannel(c)) /\ UNCHANGED early
    /\ UNCHANGED <<thread_, loop_, owner>>

\* Mutant: the condition is notified but loop_ is left null.
PublishNothing ==
    /\ thread_ = "init"
    /\ thread_' = "enter"
    /\ UNCHANGED <<vars, loop_, owner, early>>

\* loop_ is set and the condition notified, under mutex_.
Publish ==
    /\ thread_ = "init"
    /\ thread_' = "enter"
    /\ loop_' = TRUE
    /\ UNCHANGED <<vars, owner, early>>

CallLoop ==
    /\ thread_ = "enter"
    /\ EnterLoop
    /\ thread_' = "loop"
    /\ UNCHANGED <<loop_, owner, early>>

Looping ==
    /\ thread_ = "loop"
    /\ LoopStep
    /\ UNCHANGED eltVars

PollTimesOut ==
    /\ thread_ = "loop"
    /\ PollChannels \/ PollNothing
    /\ UNCHANGED eltVars

\* loop() has returned: loop_ is cleared under mutex_.
ClearLoop ==
    /\ thread_ = "loop"
    /\ pc = "out"
    /\ thread_' = "exiting"
    /\ loop_' = FALSE
    /\ UNCHANGED <<vars, owner, early>>

\* The local EventLoop is destroyed and the thread ends.
ThreadEnds ==
    /\ thread_ = "exiting"
    /\ thread_' = "dead"
    /\ UNCHANGED <<vars, loop_, owner, early>>

-----------------------------------------------------------------------------
(* The owner. *)

\* startLoop() creates the thread and waits for the condition.
StartLoop ==
    /\ owner = "new"
    /\ owner' = "wait"
    /\ thread_' = "init"
    /\ UNCHANGED <<vars, loop_, early>>

\* Mutant: wait without a predicate, ended by a spurious wakeup.
StartLoopReturnsEarly ==
    /\ owner = "wait"
    /\ owner' = "running"
    /\ UNCHANGED <<vars, thread_, loop_, early>>

StartLoopReturns ==
    /\ owner = "wait"
    /\ loop_
    /\ owner' = "running"
    /\ UNCHANGED <<vars, thread_, loop_, early>>

\* The owner uses the loop that startLoop returned.
UseLoop ==
    /\ owner = "running"
    /\ thread_ # "dead"
    /\ \/ ThreadQueueInLoop(Owner) /\ UNCHANGED early
       \/ ThreadQuit(Owner) /\ early' = TRUE
       \/ Wakeup(Owner) /\ UNCHANGED early
    /\ UNCHANGED <<thread_, loop_, owner>>

\* The loop ended between the two steps of quit() or queueInLoop(), and wakeup()
\* uses a destroyed object.  A call that begins after the end of the loop is left
\* out: all that it uses is destroyed.
UseDeadLoop ==
    /\ owner = "running"
    /\ thread_ = "dead"
    /\ tpc[Owner] = "wakeup"
    /\ tpc' = [tpc EXCEPT ![Owner] = "idle"]
    /\ owner' \in {"running", "dangling"}
    /\ UNCHANGED <<pc, quit_, is_processing_tasks_, wakeup_fd_, chanVars, taskVars,
                   thread_, loop_, early>>

DtorBegins ==
    /\ owner \in {"new", "running"}
    /\ tpc[Owner] = "idle"
    /\ owner' = "dtor"
    /\ UNCHANGED <<vars, thread_, loop_, early>>

\* if (loop_): read without mutex_.  A null loop_ skips quit and join, and
\* the member thread_ is destroyed as it is.
TestLoop ==
    /\ owner = "dtor"
    /\ owner' = CASE loop_ -> "quit"
                  [] ~loop_ /\ thread_ = "none" -> "destroyed"
                  [] OTHER -> "terminated"
    /\ UNCHANGED <<vars, thread_, loop_, early>>

\* Mutant: quit() assigns quit_ and does not wake the loop up.
DtorQuitNoWakeup ==
    /\ owner = "quit"
    /\ thread_ # "dead"
    /\ quit_' = TRUE
    /\ owner' = "join"
    /\ UNCHANGED <<pc, is_processing_tasks_, wakeup_fd_, chanVars, taskVars, tpc,
                   thread_, loop_, early>>

\* loop_->quit(), its two steps.
DtorQuit ==
    /\ owner = "quit"
    /\ \/ /\ thread_ # "dead"
          /\ ThreadQuit(Owner)
          /\ owner' = "wakeup"
       \/ /\ thread_ = "dead"
          /\ owner' = "dangling"
          /\ UNCHANGED vars
    /\ UNCHANGED <<thread_, loop_, early>>

\* Mutant: the destructor does not join.
DtorWakeupNoJoin ==
    /\ owner = "wakeup"
    /\ thread_ # "dead"
    /\ Wakeup(Owner)
    /\ owner' = "destroyed"
    /\ UNCHANGED <<thread_, loop_, early>>

\* wakeup() on the destroyed loop writes to whatever the stale wakeup_fd_ is:
\* it may go unnoticed, or not.
DtorWakeup ==
    /\ owner = "wakeup"
    /\ \/ thread_ # "dead" /\ Wakeup(Owner) /\ owner' = "join"
       \/ /\ thread_ = "dead"
          /\ owner' \in {"join", "dangling"}
          /\ UNCHANGED vars
    /\ UNCHANGED <<thread_, loop_, early>>

Join ==
    /\ owner = "join"
    /\ thread_ = "dead"
    /\ owner' = "destroyed"
    /\ UNCHANGED <<vars, thread_, loop_, early>>

-----------------------------------------------------------------------------
ThreadStep == Publish \/ CallLoop \/ Looping \/ ClearLoop \/ ThreadEnds

OwnerStep == StartLoopReturns \/ TestLoop \/ DtorQuit \/ DtorWakeup \/ Join

ELTNext ==
    \/ ThreadStep
    \/ OwnerStep
    \/ InitOrLoopCode
    \/ PollTimesOut
    \/ StartLoop
    \/ UseLoop
    \/ UseDeadLoop
    \/ DtorBegins

(***************************************************************************)
(* Both threads are scheduled: callbacks and tasks return, a call that has *)
(* begun goes on.  The owner need not ever begin its destructor, and poll  *)
(* need not time out.                                                      *)
(***************************************************************************)
ELTSpec ==
    /\ ELTInit /\ [][ELTNext]_allVars
    /\ WF_allVars(ThreadStep)
    /\ WF_allVars(OwnerStep)

-----------------------------------------------------------------------------
(* Properties. *)

\* The reference that startLoop() returns is to a loop whose init callback has
\* returned and which exists until the owner destroys the EventLoopThread, if
\* nobody else quits the loop.
LoopUsable ==
    owner = "running" => (thread_ \in {"enter", "loop"} /\ loop_) \/ early

\* No thread still runs with the this pointer of a destroyed EventLoopThread:
\* the destructor ends after the thread (test_eventloopthread.cpp:148), and
\* skips the join of a running thread only if somebody else has quit the loop.
ThreadGoneWithOwner ==
    /\ owner = "destroyed" => thread_ \in {"none", "dead"}
    /\ owner = "terminated" => early /\ thread_ \in {"exiting", "dead"}

\* startLoop() returns: loop_ is still set when the owner gets mutex_ back,
\* unless the loop was quit before.
StartLoopCompletes == (owner = "wait") ~> (owner = "running" \/ early)

\* Once loop() has begun, a quit_ set by the destructor ends the join without
\* help from the timeout of poll.
JoinCompletes ==
    (owner = "join" /\ quit_ /\ thread_ = "loop") ~> (owner = "destroyed")

\* ~EventLoopThread() stops the loop and returns (test_eventloopthread.cpp:140:
\* "Destructor will call loop.quit() and thread.join()").
DestructorCompletes == (owner = "dtor") ~> (owner \notin {"dtor", "quit", "wakeup", "join"})
=============================================================================
