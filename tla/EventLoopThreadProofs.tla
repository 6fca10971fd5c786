----------------------- MODULE EventLoopThreadProofs ------------------------
(***************************************************************************)
(* EventLoopThread's startLoop and destructor against the thread they      *)
(* start, for any channels and number of tasks; and the promises of        *)
(* EventLoop kept inside the composition.                                  *)
(***************************************************************************)
EXTENDS EventLoopThread, EventLoopProofs

\* The owner after the quit_ = true of its destructor, or after a call on the
\* destroyed loop.
AfterQuit == {"wakeup", "join", "destroyed", "dangling"}

ThreadTypeOK ==
    /\ thread_ \in ThreadPhase
    /\ loop_ \in BOOLEAN
    /\ owner \in OwnerPhase
    /\ early \in BOOLEAN

\* loop_ is set exactly between the publication and the end of loop().
LoopPublished == loop_ <=> thread_ \in {"enter", "loop"}

\* How far the thread is, from what the owner has seen of it.
OwnerKnows ==
    /\ owner = "new" => thread_ = "none"
    /\ owner \in {"running", "quit", "wakeup", "join"} => thread_ \notin {"none", "init"}
    /\ owner \in {"dtor", "terminated", "dangling"} => thread_ # "init"
    /\ owner = "destroyed" => thread_ \in {"none", "dead"}
    /\ owner = "terminated" => early /\ thread_ \in {"exiting", "dead"}

\* loop() ends by quit_, and quit_ has somebody who set it since loop() began.
QuitHasCause ==
    /\ thread_ = "loop" /\ pc = "out" => quit_
    /\ thread_ = "loop" /\ quit_ => early \/ owner \in AfterQuit
    /\ thread_ \in {"exiting", "dead"} => early \/ owner \in AfterQuit

ThreadInv == ThreadTypeOK /\ LoopPublished /\ OwnerKnows /\ QuitHasCause

-----------------------------------------------------------------------------

\* The steps of the loop thread never assign quit_ and leave loop() by it.
LEMMA LoopStepQuit ==
  ASSUME LoopStep \/ PollChannels \/ PollNothing
  PROVE  quit_' = quit_ /\ (pc' = "out" => quit_)
<1>1. CASE CheckQuit
  BY <1>1 DEF CheckQuit
<1>2. CASE PollWakeup \/ PollChannels \/ PollNothing
  BY <1>2 DEF PollWakeup, PollChannels, PollNothing, PollReturns
<1>3. CASE HandleWakeup
  BY <1>3 DEF HandleWakeup
<1>4. CASE \E c \in Channels : HandleEvent(c)
  BY <1>4 DEF HandleEvent
<1>5. CASE CallbackReturns \/ BatchDone \/ SwapTasks
  BY <1>5 DEF CallbackReturns, BatchDone, SwapTasks
<1>6. CASE RunTask \/ TaskReturns \/ TasksDone
  BY <1>6 DEF RunTask, TaskReturns, TasksDone
<1> QED
  BY <1>1, <1>2, <1>3, <1>4, <1>5, <1>6 DEF LoopStep

\* Each step of the composition keeps ThreadInv.
LEMMA ThreadInvStep == ASSUME ThreadInv, [ELTNext]_allVars PROVE ThreadInv'
<1> USE DEF ThreadInv, ThreadTypeOK, LoopPublished, OwnerKnows, QuitHasCause,
            ThreadPhase, OwnerPhase, AfterQuit
<1>1. CASE Publish
  BY <1>1 DEF Publish, vars
<1>2. CASE CallLoop
  BY <1>2 DEF CallLoop, EnterLoop
<1>3. CASE Looping \/ PollTimesOut
  BY <1>3, LoopStepQuit DEF Looping, PollTimesOut, eltVars
<1>4. CASE ClearLoop
  BY <1>4 DEF ClearLoop, vars
<1>5. CASE ThreadEnds
  BY <1>5 DEF ThreadEnds, vars
<1>6. CASE StartLoopReturns
  BY <1>6 DEF StartLoopReturns, vars
<1>7. CASE TestLoop
  BY <1>7 DEF TestLoop, vars
<1>8. CASE DtorQuit
  BY <1>8 DEF DtorQuit, ThreadQuit, vars
<1>9. CASE DtorWakeup
  BY <1>9 DEF DtorWakeup, Wakeup, vars
<1>10. CASE Join
  BY <1>10 DEF Join, vars
<1>11. CASE InitOrLoopCode
  <2>1. CASE QueueInLoop /\ UNCHANGED early
    BY <1>11, <2>1 DEF InitOrLoopCode, QueueInLoop
  <2>2. CASE Quit /\ early' = TRUE
    BY <1>11, <2>2 DEF InitOrLoopCode, Quit
  <2>3. CASE (\E c \in Channels : UpdateChannel(c) \/ RemoveChannel(c)) /\ UNCHANGED early
    BY <1>11, <2>3 DEF InitOrLoopCode, UpdateChannel, RemoveChannel
  <2> QED  BY <1>11, <2>1, <2>2, <2>3 DEF InitOrLoopCode
<1>12. CASE StartLoop
  BY <1>12 DEF StartLoop, vars
<1>13. CASE UseLoop
  <2>1. CASE ThreadQueueInLoop(Owner) /\ UNCHANGED early
    BY <1>13, <2>1 DEF UseLoop, ThreadQueueInLoop
  <2>2. CASE ThreadQuit(Owner) /\ early' = TRUE
    BY <1>13, <2>2 DEF UseLoop, ThreadQuit
  <2>3. CASE Wakeup(Owner) /\ UNCHANGED early
    BY <1>13, <2>3 DEF UseLoop, Wakeup
  <2> QED  BY <1>13, <2>1, <2>2, <2>3 DEF UseLoop
<1>14. CASE UseDeadLoop
  BY <1>14 DEF UseDeadLoop
<1>15. CASE DtorBegins
  BY <1>15 DEF DtorBegins, vars
<1>16. CASE UNCHANGED allVars
  BY <1>16 DEF allVars, vars, eltVars
<1> QED
  BY <1>1, <1>2, <1>3, <1>4, <1>5, <1>6, <1>7, <1>8, <1>9, <1>10, <1>11, <1>12,
     <1>13, <1>14, <1>15, <1>16 DEF ELTNext, ThreadStep, OwnerStep

\* ThreadInv is an invariant of the thread, its loop and its owner.
LEMMA ThreadInvariant == ELTSpec => []ThreadInv
<1>1. ELTInit => ThreadInv
  BY DEF ELTInit, ThreadInv, ThreadTypeOK, LoopPublished, OwnerKnows, QuitHasCause,
         ThreadPhase, OwnerPhase, AfterQuit
<1>2. ThreadInv /\ [ELTNext]_allVars => ThreadInv'
  BY ThreadInvStep
<1> QED  BY <1>1, <1>2, PTL DEF ELTSpec

\* The reference returned by startLoop() is to a live loop until somebody other
\* than the destructor quits it.
THEOREM StartedLoopUsable == ELTSpec => []LoopUsable
<1>1. ThreadInv => LoopUsable
  BY DEF ThreadInv, ThreadTypeOK, ThreadPhase, LoopPublished, OwnerKnows, QuitHasCause,
         AfterQuit, LoopUsable
<1> QED  BY <1>1, ThreadInvariant, PTL

\* ~EventLoopThread leaves no running thread behind, and destroys a joinable
\* thread only after a quit() of somebody else.
THEOREM DestructorLeavesNoThread == ELTSpec => []ThreadGoneWithOwner
<1>1. ThreadInv => ThreadGoneWithOwner
  BY DEF ThreadInv, OwnerKnows, ThreadGoneWithOwner
<1> QED  BY <1>1, ThreadInvariant, PTL

-----------------------------------------------------------------------------

\* What a step of the composition is to the loop: a step of EventLoop, nothing,
\* or a wakeup that comes too late for the destroyed loop.
LEMMA CompositionStep ==
  ASSUME [ELTNext]_allVars
  PROVE  [Next]_vars \/ UseDeadLoop
<1>0. Owner \in Threads  BY OwnerAssumption
<1>1. CASE Looping \/ PollTimesOut \/ CallLoop
  BY <1>1 DEF Looping, PollTimesOut, CallLoop, Next
<1>2. CASE DtorQuit \/ DtorWakeup
  BY <1>0, <1>2 DEF DtorQuit, DtorWakeup, Next
<1>3. CASE InitOrLoopCode
  BY <1>3 DEF InitOrLoopCode, Next
<1>4. CASE UseLoop
  BY <1>0, <1>4 DEF UseLoop, Next
<1>5. CASE Publish \/ ClearLoop \/ ThreadEnds \/ StartLoopReturns \/ TestLoop \/ Join
           \/ StartLoop \/ DtorBegins
  BY <1>5 DEF Publish, ClearLoop, ThreadEnds, StartLoopReturns, TestLoop, Join,
              StartLoop, DtorBegins
<1>6. CASE UNCHANGED allVars
  BY <1>6 DEF allVars
<1> QED
  BY <1>1, <1>2, <1>3, <1>4, <1>5, <1>6 DEF ELTNext, ThreadStep, OwnerStep

\* A wakeup() that comes too late moves the owner only.
LEMMA LateWakeup ==
  ASSUME TypeOK, UseDeadLoop
  PROVE  /\ TypeOK'
         /\ UNCHANGED <<pc, quit_, is_processing_tasks_, wakeup_fd_, chanVars, taskVars>>
         /\ thread_ = "dead" /\ thread_' = "dead"
  BY DEF UseDeadLoop, TypeOK, chanVars, taskVars

\* The thread ends once.
LEMMA DeadStaysDead ==
  ASSUME OwnerKnows, [ELTNext]_allVars, thread_ = "dead"
  PROVE  thread_' = "dead"
<1> USE DEF OwnerKnows
<1>1. CASE ThreadStep \/ PollTimesOut \/ InitOrLoopCode
  BY <1>1 DEF ThreadStep, Publish, CallLoop, Looping, ClearLoop, ThreadEnds, eltVars,
              PollTimesOut, InitOrLoopCode
<1>2. CASE OwnerStep \/ DtorBegins
  BY <1>2 DEF OwnerStep, StartLoopReturns, TestLoop, DtorQuit, DtorWakeup, Join, DtorBegins
<1>3. CASE StartLoop \/ UseLoop \/ UseDeadLoop
  BY <1>3 DEF StartLoop, UseLoop, UseDeadLoop
<1>4. CASE UNCHANGED allVars
  BY <1>4 DEF allVars, eltVars
<1> QED  BY <1>1, <1>2, <1>3, <1>4 DEF ELTNext

\* EventLoop's invariants in the composition: those on wakeups last as long as
\* the loop object, those on tasks and flags survive it.
LiveLoopInv ==
    /\ TypeOK /\ TasksInOrder /\ BatchScoped /\ ProcessingFlag
    /\ thread_ # "dead" => NoLostWakeup /\ NoLostQuit

\* LiveLoopInv is an invariant of the thread, its loop and its owner.
LEMMA LiveLoopInvariant == ELTSpec => []LiveLoopInv
<1>1. ELTInit => LiveLoopInv
  BY TypeInit, LoopInvInit DEF ELTInit, LiveLoopInv, LoopInv
<1>2. ThreadInv /\ LiveLoopInv /\ [ELTNext]_allVars => LiveLoopInv'
  <2> SUFFICES ASSUME ThreadInv, LiveLoopInv, [ELTNext]_allVars PROVE LiveLoopInv'
    OBVIOUS
  <2>1. thread_' # "dead" => thread_ # "dead"
    BY DeadStaysDead DEF ThreadInv
  <2>2. CASE [Next]_vars
    BY <2>1, <2>2, TypeStep, TasksInOrderStep, BatchScopedStep, ProcessingFlagStep,
       NoLostWakeupStep, NoLostQuitStep DEF LiveLoopInv
  <2>3. CASE UseDeadLoop
    BY <2>3, LateWakeup DEF LiveLoopInv, TasksInOrder, BatchScoped, ProcessingFlag,
       chanVars, taskVars
  <2> QED  BY <2>2, <2>3, CompositionStep
<1> QED  BY <1>1, <1>2, ThreadInvariant, PTL DEF ELTSpec

\* While the started loop exists, a task of the owner is never left in the queue
\* of a sleeping loop, and a quit() of the owner or its destructor never misses it.
THEOREM LiveLoopNeverMissesWakeup ==
    ELTSpec => [](thread_ # "dead" => NoLostWakeup /\ NoLostQuit)
  BY LiveLoopInvariant, PTL DEF LiveLoopInv

\* The tasks that the init callback, the loop's callbacks and the owner hand to
\* the started loop are run as TaskExecutor runs them, whenever the owner quits
\* or destroys it.
THEOREM ThreadRefinesTaskExecutor == ELTSpec => ImplementsExecutor
<1>1. ELTInit => Executor!TEInit
  BY DEF ELTInit, Init, Executor!TEInit
<1>2. LiveLoopInv /\ [ELTNext]_allVars => [Executor!TENext]_<<posted, ran>>
  BY CompositionStep, ExecutorStep DEF LiveLoopInv, UseDeadLoop, taskVars
<1> QED
  BY <1>1, <1>2, LiveLoopInvariant, PTL DEF ELTSpec, ImplementsExecutor, Executor!TESpec
=============================================================================
