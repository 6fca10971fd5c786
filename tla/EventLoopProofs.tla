-------------------------- MODULE EventLoopProofs ---------------------------
(***************************************************************************)
(* The invariants of EventLoop and its refinement of TaskExecutor, for any *)
(* number of threads, channels and tasks.                                  *)
(***************************************************************************)
EXTENDS EventLoop, TLAPS

\* The inductive invariant.  TasksInOrder needs BatchScoped at the swap, and
\* NoLostWakeup needs ProcessingFlag when a task queues a task.
LoopInv == TasksInOrder /\ BatchScoped /\ ProcessingFlag /\ NoLostWakeup /\ NoLostQuit

\* The initial values have their types.
LEMMA TypeInit == Init => TypeOK
<1> SUFFICES ASSUME Init PROVE TypeOK
  OBVIOUS
<1>1. << >> \in Seq(Nat)
  OBVIOUS
<1> QED
  BY <1>1 DEF Init, TypeOK, LoopPC

\* Every step of the loop thread and of the other threads keeps the types.
LEMMA TypeStep == TypeOK /\ [Next]_vars => TypeOK'
<1> SUFFICES ASSUME TypeOK, [Next]_vars PROVE TypeOK'
  OBVIOUS
<1> USE DEF TypeOK, LoopPC, taskVars, chanVars
<1>1. CASE EnterLoop
  BY <1>1 DEF EnterLoop
<1>2. CASE CheckQuit
  BY <1>2 DEF CheckQuit
<1>3. CASE PollWakeup
  BY <1>3 DEF PollWakeup, PollReturns
<1>4. CASE PollChannels
  BY <1>4 DEF PollChannels, PollReturns
<1>5. CASE PollNothing
  BY <1>5 DEF PollNothing, PollReturns
<1>6. CASE HandleWakeup
  BY <1>6 DEF HandleWakeup
<1>7. ASSUME NEW c \in Channels, HandleEvent(c) PROVE TypeOK'
  BY <1>7 DEF HandleEvent
<1>8. CASE CallbackReturns
  BY <1>8 DEF CallbackReturns
<1>9. CASE BatchDone
  BY <1>9 DEF BatchDone
<1>10. CASE SwapTasks
  BY <1>10 DEF SwapTasks
<1>11. CASE RunTask
  BY <1>11 DEF RunTask
<1>12. CASE TaskReturns
  BY <1>12 DEF TaskReturns
<1>13. CASE TasksDone
  BY <1>13 DEF TasksDone
<1>14. CASE QueueInLoop
  BY <1>14 DEF QueueInLoop, Push
<1>15. CASE Quit
  BY <1>15 DEF Quit
<1>16. ASSUME NEW c \in Channels, UpdateChannel(c) PROVE TypeOK'
  BY <1>16 DEF UpdateChannel
<1>17. ASSUME NEW c \in Channels, RemoveChannel(c) PROVE TypeOK'
  BY <1>17 DEF RemoveChannel
<1>18. ASSUME NEW t \in Threads, ThreadQueueInLoop(t) PROVE TypeOK'
  BY <1>18 DEF ThreadQueueInLoop, Push
<1>19. ASSUME NEW t \in Threads, ThreadQuit(t) PROVE TypeOK'
  BY <1>19 DEF ThreadQuit
<1>20. ASSUME NEW t \in Threads, Wakeup(t) PROVE TypeOK'
  BY <1>20 DEF Wakeup
<1>21. CASE UNCHANGED vars
  BY <1>21 DEF vars
<1> QED
  BY <1>1, <1>2, <1>3, <1>4, <1>5, <1>6, <1>7, <1>8, <1>9, <1>10, <1>11,
     <1>12, <1>13, <1>14, <1>15, <1>16, <1>17, <1>18, <1>19, <1>20, <1>21
     DEF Next, LoopStep

\* EventLoop's variables stay in their types under every operation of the loop
\* thread and of the other threads.
THEOREM TypeCorrect == Spec => []TypeOK
  BY TypeInit, TypeStep, PTL DEF Spec

\* Every step keeps the unexecuted tasks in the order of their push_back.
LEMMA TasksInOrderStep ==
    TypeOK /\ BatchScoped /\ TasksInOrder /\ [Next]_vars => TasksInOrder'
<1> SUFFICES ASSUME TypeOK, BatchScoped, TasksInOrder, [Next]_vars PROVE TasksInOrder'
  OBVIOUS
<1> USE DEF TypeOK, taskVars, chanVars, TasksInOrder
<1>1. CASE EnterLoop
  BY <1>1 DEF EnterLoop
<1>2. CASE CheckQuit
  BY <1>2 DEF CheckQuit
<1>3. CASE PollWakeup
  BY <1>3 DEF PollWakeup, PollReturns
<1>4. CASE PollChannels
  BY <1>4 DEF PollChannels, PollReturns
<1>5. CASE PollNothing
  BY <1>5 DEF PollNothing, PollReturns
<1>6. CASE HandleWakeup
  BY <1>6 DEF HandleWakeup
<1>7. ASSUME NEW c \in Channels, HandleEvent(c) PROVE TasksInOrder'
  BY <1>7 DEF HandleEvent
<1>8. CASE CallbackReturns
  BY <1>8 DEF CallbackReturns
<1>9. CASE BatchDone
  BY <1>9 DEF BatchDone
<1>10. CASE SwapTasks
  <2>1. tasks = << >> /\ Len(tasks) = 0
    BY <1>10 DEF SwapTasks, BatchScoped
  <2>2. Len(task_queue_') = 0 /\ tasks' = task_queue_ /\ UNCHANGED <<posted, ran>>
    BY <1>10 DEF SwapTasks
  <2> QED
    BY <2>1, <2>2
<1>11. CASE RunTask
  <2>1. tasks # << >> /\ ran' = Head(tasks) /\ tasks' = Tail(tasks)
        /\ UNCHANGED <<task_queue_, posted>>
    BY <1>11 DEF RunTask
  <2>2. Len(tasks) > 0 /\ ran' = ran + 1
    BY <2>1
  <2>3. Len(tasks') = Len(tasks) - 1
    BY <2>1
  <2>4. \A i \in 1..Len(tasks') : tasks'[i] = tasks[i + 1]
    BY <2>1, <2>3
  <2>5. Len(task_queue_) \in Nat /\ Len(tasks) \in Nat
    OBVIOUS
  <2>6. ASSUME NEW i \in 1..Len(tasks') PROVE tasks'[i] = ran' + i
    <3>1. i + 1 \in 1..Len(tasks) /\ i \in Nat
      BY <2>3, <2>5
    <3> QED
      BY <2>2, <2>4, <3>1
  <2>7. ran' + Len(tasks') + Len(task_queue_') = posted'
    BY <2>1, <2>2, <2>3, <2>5
  <2>8. \A i \in 1..Len(task_queue_') : task_queue_'[i] = ran' + Len(tasks') + i
    BY <2>1, <2>2, <2>3, <2>5
  <2> QED
    BY <2>6, <2>7, <2>8
<1>12. CASE TaskReturns
  BY <1>12 DEF TaskReturns
<1>13. CASE TasksDone
  BY <1>13 DEF TasksDone
<1>14. CASE QueueInLoop
  <2>1. /\ Len(task_queue_') = Len(task_queue_) + 1
        /\ \A i \in 1..Len(task_queue_) : task_queue_'[i] = task_queue_[i]
        /\ task_queue_'[Len(task_queue_) + 1] = posted + 1
        /\ posted' = posted + 1
        /\ UNCHANGED <<tasks, ran>>
    BY <1>14 DEF QueueInLoop, Push
  <2>2. Len(task_queue_) \in Nat /\ Len(tasks) \in Nat
    OBVIOUS
  <2>3. ASSUME NEW i \in 1..Len(task_queue_')
        PROVE  task_queue_'[i] = ran + Len(tasks) + i
    <3>1. CASE i \in 1..Len(task_queue_)
      BY <2>1, <2>2, <3>1
    <3>2. CASE i = Len(task_queue_) + 1
      <4>1. task_queue_'[i] = posted + 1
        BY <2>1, <3>2
      <4>2. posted = ran + Len(tasks) + Len(task_queue_)
        OBVIOUS
      <4> QED
        BY <2>2, <3>2, <4>1, <4>2
    <3>3. i \in Nat /\ 1 <= i /\ i <= Len(task_queue_) + 1
      BY <2>1, <2>2
    <3>4. i \in 1..Len(task_queue_) \/ i = Len(task_queue_) + 1
      BY <2>2, <3>3
    <3> QED
      BY <3>1, <3>2, <3>4
  <2> QED
    BY <2>1, <2>2, <2>3
<1>15. CASE Quit
  BY <1>15 DEF Quit
<1>16. ASSUME NEW c \in Channels, UpdateChannel(c) PROVE TasksInOrder'
  BY <1>16 DEF UpdateChannel
<1>17. ASSUME NEW c \in Channels, RemoveChannel(c) PROVE TasksInOrder'
  BY <1>17 DEF RemoveChannel
<1>18. ASSUME NEW t \in Threads, ThreadQueueInLoop(t) PROVE TasksInOrder'
  <2>1. /\ Len(task_queue_') = Len(task_queue_) + 1
        /\ \A i \in 1..Len(task_queue_) : task_queue_'[i] = task_queue_[i]
        /\ task_queue_'[Len(task_queue_) + 1] = posted + 1
        /\ posted' = posted + 1
        /\ UNCHANGED <<tasks, ran>>
    BY <1>18 DEF ThreadQueueInLoop, Push
  <2>2. Len(task_queue_) \in Nat /\ Len(tasks) \in Nat
    OBVIOUS
  <2>3. ASSUME NEW i \in 1..Len(task_queue_')
        PROVE  task_queue_'[i] = ran + Len(tasks) + i
    <3>1. CASE i \in 1..Len(task_queue_)
      BY <2>1, <2>2, <3>1
    <3>2. CASE i = Len(task_queue_) + 1
      <4>1. task_queue_'[i] = posted + 1
        BY <2>1, <3>2
      <4>2. posted = ran + Len(tasks) + Len(task_queue_)
        OBVIOUS
      <4> QED
        BY <2>2, <3>2, <4>1, <4>2
    <3>3. i \in Nat /\ 1 <= i /\ i <= Len(task_queue_) + 1
      BY <2>1, <2>2
    <3>4. i \in 1..Len(task_queue_) \/ i = Len(task_queue_) + 1
      BY <2>2, <3>3
    <3> QED
      BY <3>1, <3>2, <3>4
  <2> QED
    BY <2>1, <2>2, <2>3
<1>19. ASSUME NEW t \in Threads, ThreadQuit(t) PROVE TasksInOrder'
  BY <1>19 DEF ThreadQuit
<1>20. ASSUME NEW t \in Threads, Wakeup(t) PROVE TasksInOrder'
  BY <1>20 DEF Wakeup
<1>21. CASE UNCHANGED vars
  BY <1>21 DEF vars
<1> QED
  BY <1>1, <1>2, <1>3, <1>4, <1>5, <1>6, <1>7, <1>8, <1>9, <1>10, <1>11,
     <1>12, <1>13, <1>14, <1>15, <1>16, <1>17, <1>18, <1>19, <1>20, <1>21
     DEF Next, LoopStep

\* Every step keeps the local vector of executePendingTasks empty outside it.
LEMMA BatchScopedStep ==
    TypeOK /\ BatchScoped /\ [Next]_vars => BatchScoped'
<1> SUFFICES ASSUME TypeOK, BatchScoped, [Next]_vars PROVE BatchScoped'
  OBVIOUS
<1> USE DEF TypeOK, LoopPC, taskVars, chanVars, UserPC, BatchScoped
<1>1. CASE EnterLoop
  BY <1>1 DEF EnterLoop
<1>2. CASE CheckQuit
  BY <1>2 DEF CheckQuit
<1>3. CASE PollWakeup
  BY <1>3 DEF PollWakeup, PollReturns
<1>4. CASE PollChannels
  BY <1>4 DEF PollChannels, PollReturns
<1>5. CASE PollNothing
  BY <1>5 DEF PollNothing, PollReturns
<1>6. CASE HandleWakeup
  BY <1>6 DEF HandleWakeup
<1>7. ASSUME NEW c \in Channels, HandleEvent(c) PROVE BatchScoped'
  BY <1>7 DEF HandleEvent
<1>8. CASE CallbackReturns
  BY <1>8 DEF CallbackReturns
<1>9. CASE BatchDone
  BY <1>9 DEF BatchDone
<1>10. CASE SwapTasks
  BY <1>10 DEF SwapTasks
<1>11. CASE RunTask
  BY <1>11 DEF RunTask
<1>12. CASE TaskReturns
  BY <1>12 DEF TaskReturns
<1>13. CASE TasksDone
  BY <1>13 DEF TasksDone
<1>14. CASE QueueInLoop
  BY <1>14 DEF QueueInLoop, Push
<1>15. CASE Quit
  BY <1>15 DEF Quit
<1>16. ASSUME NEW c \in Channels, UpdateChannel(c) PROVE BatchScoped'
  BY <1>16 DEF UpdateChannel
<1>17. ASSUME NEW c \in Channels, RemoveChannel(c) PROVE BatchScoped'
  BY <1>17 DEF RemoveChannel
<1>18. ASSUME NEW t \in Threads, ThreadQueueInLoop(t) PROVE BatchScoped'
  BY <1>18 DEF ThreadQueueInLoop, Push
<1>19. ASSUME NEW t \in Threads, ThreadQuit(t) PROVE BatchScoped'
  BY <1>19 DEF ThreadQuit
<1>20. ASSUME NEW t \in Threads, Wakeup(t) PROVE BatchScoped'
  BY <1>20 DEF Wakeup
<1>21. CASE UNCHANGED vars
  BY <1>21 DEF vars
<1> QED
  BY <1>1, <1>2, <1>3, <1>4, <1>5, <1>6, <1>7, <1>8, <1>9, <1>10, <1>11,
     <1>12, <1>13, <1>14, <1>15, <1>16, <1>17, <1>18, <1>19, <1>20, <1>21
     DEF Next, LoopStep

\* Every step keeps is_processing_tasks_ true exactly within executePendingTasks.
LEMMA ProcessingFlagStep ==
    TypeOK /\ ProcessingFlag /\ [Next]_vars => ProcessingFlag'
<1> SUFFICES ASSUME TypeOK, ProcessingFlag, [Next]_vars PROVE ProcessingFlag'
  OBVIOUS
<1> USE DEF TypeOK, LoopPC, taskVars, chanVars, UserPC, ProcessingFlag
<1>1. CASE EnterLoop
  BY <1>1 DEF EnterLoop
<1>2. CASE CheckQuit
  BY <1>2 DEF CheckQuit
<1>3. CASE PollWakeup
  BY <1>3 DEF PollWakeup, PollReturns
<1>4. CASE PollChannels
  BY <1>4 DEF PollChannels, PollReturns
<1>5. CASE PollNothing
  BY <1>5 DEF PollNothing, PollReturns
<1>6. CASE HandleWakeup
  BY <1>6 DEF HandleWakeup
<1>7. ASSUME NEW c \in Channels, HandleEvent(c) PROVE ProcessingFlag'
  BY <1>7 DEF HandleEvent
<1>8. CASE CallbackReturns
  BY <1>8 DEF CallbackReturns
<1>9. CASE BatchDone
  BY <1>9 DEF BatchDone
<1>10. CASE SwapTasks
  BY <1>10 DEF SwapTasks
<1>11. CASE RunTask
  BY <1>11 DEF RunTask
<1>12. CASE TaskReturns
  BY <1>12 DEF TaskReturns
<1>13. CASE TasksDone
  BY <1>13 DEF TasksDone
<1>14. CASE QueueInLoop
  BY <1>14 DEF QueueInLoop, Push
<1>15. CASE Quit
  BY <1>15 DEF Quit
<1>16. ASSUME NEW c \in Channels, UpdateChannel(c) PROVE ProcessingFlag'
  BY <1>16 DEF UpdateChannel
<1>17. ASSUME NEW c \in Channels, RemoveChannel(c) PROVE ProcessingFlag'
  BY <1>17 DEF RemoveChannel
<1>18. ASSUME NEW t \in Threads, ThreadQueueInLoop(t) PROVE ProcessingFlag'
  BY <1>18 DEF ThreadQueueInLoop, Push
<1>19. ASSUME NEW t \in Threads, ThreadQuit(t) PROVE ProcessingFlag'
  BY <1>19 DEF ThreadQuit
<1>20. ASSUME NEW t \in Threads, Wakeup(t) PROVE ProcessingFlag'
  BY <1>20 DEF Wakeup
<1>21. CASE UNCHANGED vars
  BY <1>21 DEF vars
<1> QED
  BY <1>1, <1>2, <1>3, <1>4, <1>5, <1>6, <1>7, <1>8, <1>9, <1>10, <1>11,
     <1>12, <1>13, <1>14, <1>15, <1>16, <1>17, <1>18, <1>19, <1>20, <1>21
     DEF Next, LoopStep

\* Every step keeps a queued task signalled: wakeup() of the queueing thread is
\* still to come or has made the eventfd readable, or the swap is still ahead.
LEMMA NoLostWakeupStep ==
    TypeOK /\ ProcessingFlag /\ NoLostWakeup /\ [Next]_vars => NoLostWakeup'
<1> SUFFICES ASSUME TypeOK, ProcessingFlag, NoLostWakeup, [Next]_vars PROVE NoLostWakeup'
  OBVIOUS
<1> USE DEF TypeOK, LoopPC, taskVars, chanVars, UserPC, Signalled, BeforeSwap,
          ProcessingFlag, NoLostWakeup
<1>1. CASE EnterLoop
  BY <1>1 DEF EnterLoop
<1>2. CASE CheckQuit
  BY <1>2 DEF CheckQuit
<1>3. CASE PollWakeup
  BY <1>3 DEF PollWakeup, PollReturns
<1>4. CASE PollChannels
  BY <1>4 DEF PollChannels, PollReturns
<1>5. CASE PollNothing
  BY <1>5 DEF PollNothing, PollReturns
<1>6. CASE HandleWakeup
  BY <1>6 DEF HandleWakeup
<1>7. ASSUME NEW c \in Channels, HandleEvent(c) PROVE NoLostWakeup'
  BY <1>7 DEF HandleEvent
<1>8. CASE CallbackReturns
  BY <1>8 DEF CallbackReturns
<1>9. CASE BatchDone
  BY <1>9 DEF BatchDone
<1>10. CASE SwapTasks
  BY <1>10 DEF SwapTasks
<1>11. CASE RunTask
  BY <1>11 DEF RunTask
<1>12. CASE TaskReturns
  BY <1>12 DEF TaskReturns
<1>13. CASE TasksDone
  BY <1>13 DEF TasksDone
<1>14. CASE QueueInLoop
  BY <1>14 DEF QueueInLoop, Push
<1>15. CASE Quit
  BY <1>15 DEF Quit
<1>16. ASSUME NEW c \in Channels, UpdateChannel(c) PROVE NoLostWakeup'
  BY <1>16 DEF UpdateChannel
<1>17. ASSUME NEW c \in Channels, RemoveChannel(c) PROVE NoLostWakeup'
  BY <1>17 DEF RemoveChannel
<1>18. ASSUME NEW t \in Threads, ThreadQueueInLoop(t) PROVE NoLostWakeup'
  BY <1>18 DEF ThreadQueueInLoop, Push
<1>19. ASSUME NEW t \in Threads, ThreadQuit(t) PROVE NoLostWakeup'
  BY <1>19 DEF ThreadQuit
<1>20. ASSUME NEW t \in Threads, Wakeup(t) PROVE NoLostWakeup'
  BY <1>20 DEF Wakeup
<1>21. CASE UNCHANGED vars
  BY <1>21 DEF vars
<1> QED
  BY <1>1, <1>2, <1>3, <1>4, <1>5, <1>6, <1>7, <1>8, <1>9, <1>10, <1>11,
     <1>12, <1>13, <1>14, <1>15, <1>16, <1>17, <1>18, <1>19, <1>20, <1>21
     DEF Next, LoopStep

\* Every step keeps a quit_ set during poll signalled.
LEMMA NoLostQuitStep ==
    TypeOK /\ NoLostQuit /\ [Next]_vars => NoLostQuit'
<1> SUFFICES ASSUME TypeOK, NoLostQuit, [Next]_vars PROVE NoLostQuit'
  OBVIOUS
<1> USE DEF TypeOK, LoopPC, taskVars, chanVars, UserPC, Signalled, NoLostQuit
<1>1. CASE EnterLoop
  BY <1>1 DEF EnterLoop
<1>2. CASE CheckQuit
  BY <1>2 DEF CheckQuit
<1>3. CASE PollWakeup
  BY <1>3 DEF PollWakeup, PollReturns
<1>4. CASE PollChannels
  BY <1>4 DEF PollChannels, PollReturns
<1>5. CASE PollNothing
  BY <1>5 DEF PollNothing, PollReturns
<1>6. CASE HandleWakeup
  BY <1>6 DEF HandleWakeup
<1>7. ASSUME NEW c \in Channels, HandleEvent(c) PROVE NoLostQuit'
  BY <1>7 DEF HandleEvent
<1>8. CASE CallbackReturns
  BY <1>8 DEF CallbackReturns
<1>9. CASE BatchDone
  BY <1>9 DEF BatchDone
<1>10. CASE SwapTasks
  BY <1>10 DEF SwapTasks
<1>11. CASE RunTask
  BY <1>11 DEF RunTask
<1>12. CASE TaskReturns
  BY <1>12 DEF TaskReturns
<1>13. CASE TasksDone
  BY <1>13 DEF TasksDone
<1>14. CASE QueueInLoop
  BY <1>14 DEF QueueInLoop, Push
<1>15. CASE Quit
  BY <1>15 DEF Quit
<1>16. ASSUME NEW c \in Channels, UpdateChannel(c) PROVE NoLostQuit'
  BY <1>16 DEF UpdateChannel
<1>17. ASSUME NEW c \in Channels, RemoveChannel(c) PROVE NoLostQuit'
  BY <1>17 DEF RemoveChannel
<1>18. ASSUME NEW t \in Threads, ThreadQueueInLoop(t) PROVE NoLostQuit'
  BY <1>18 DEF ThreadQueueInLoop, Push
<1>19. ASSUME NEW t \in Threads, ThreadQuit(t) PROVE NoLostQuit'
  BY <1>19 DEF ThreadQuit
<1>20. ASSUME NEW t \in Threads, Wakeup(t) PROVE NoLostQuit'
  BY <1>20 DEF Wakeup
<1>21. CASE UNCHANGED vars
  BY <1>21 DEF vars
<1> QED
  BY <1>1, <1>2, <1>3, <1>4, <1>5, <1>6, <1>7, <1>8, <1>9, <1>10, <1>11,
     <1>12, <1>13, <1>14, <1>15, <1>16, <1>17, <1>18, <1>19, <1>20, <1>21
     DEF Next, LoopStep

\* The invariant holds before loop() is called.
LEMMA LoopInvInit == Init => LoopInv
<1> SUFFICES ASSUME Init PROVE LoopInv
  OBVIOUS
<1>1. Len(tasks) = 0 /\ Len(task_queue_) = 0
  BY DEF Init
<1>2. TasksInOrder /\ NoLostWakeup
  BY <1>1 DEF Init, TasksInOrder, NoLostWakeup
<1> QED
  BY <1>2 DEF Init, LoopInv, BatchScoped, ProcessingFlag, NoLostQuit

\* The inductive invariant holds initially and is preserved by every step.
LEMMA LoopInvariant == Spec => [](TypeOK /\ LoopInv)
<1>1. Init => LoopInv
  BY LoopInvInit
<1>2. TypeOK /\ LoopInv /\ [Next]_vars => LoopInv'
  BY TasksInOrderStep, BatchScopedStep, ProcessingFlagStep, NoLostWakeupStep,
     NoLostQuitStep DEF LoopInv
<1> QED
  BY <1>1, <1>2, TypeCorrect, PTL DEF Spec

\* executePendingTasks runs every task once, in the order of the push_backs of
\* queueInLoop: nothing is lost, repeated or overtaken across the swap.
THEOREM TasksStayInOrder == Spec => []TasksInOrder
  BY LoopInvariant, PTL DEF LoopInv

\* No task that another thread, or a task, hands to queueInLoop is left in the
\* queue of a sleeping loop thread without a wakeup.
THEOREM WakeupNeverLost == Spec => []NoLostWakeup
  BY LoopInvariant, PTL DEF LoopInv

\* quit() of another thread is never missed by a loop thread asleep in poll.
THEOREM QuitNeverLost == Spec => []NoLostQuit
  BY LoopInvariant, PTL DEF LoopInv

\* A step of EventLoop is one of the executor, or changes nothing there.
LEMMA ExecutorStep ==
    TypeOK /\ TasksInOrder /\ [Next]_vars => [Executor!TENext]_<<posted, ran>>
<1> SUFFICES ASSUME TypeOK, TasksInOrder, [Next]_vars
             PROVE  Executor!TENext \/ UNCHANGED <<posted, ran>>
  OBVIOUS
<1>1. CASE RunTask
  <2>1. tasks # << >> /\ ran' = Head(tasks) /\ UNCHANGED posted
    BY <1>1 DEF RunTask
  <2>2. Len(tasks) > 0 /\ Len(task_queue_) \in Nat /\ Len(tasks) \in Nat
    BY <2>1 DEF TypeOK
  <2>3. ran' = ran + 1
    BY <2>1, <2>2 DEF TypeOK, TasksInOrder
  <2>4. ran < posted
    BY <2>2 DEF TypeOK, TasksInOrder
  <2> QED
    BY <2>1, <2>3, <2>4 DEF Executor!TENext, Executor!Execute
<1>2. CASE QueueInLoop
  BY <1>2 DEF QueueInLoop, Push, Executor!TENext, Executor!Submit
<1>3. ASSUME NEW t \in Threads, ThreadQueueInLoop(t)
      PROVE  Executor!TENext
  BY <1>3 DEF ThreadQueueInLoop, Push, Executor!TENext, Executor!Submit
<1>4. CASE EnterLoop \/ CheckQuit \/ PollWakeup \/ PollChannels \/ PollNothing
  BY <1>4 DEF EnterLoop, CheckQuit, PollWakeup, PollChannels, PollNothing,
              PollReturns, taskVars
<1>5. CASE HandleWakeup \/ CallbackReturns \/ BatchDone \/ SwapTasks
           \/ TaskReturns \/ TasksDone \/ Quit
  BY <1>5 DEF HandleWakeup, CallbackReturns, BatchDone, SwapTasks,
              TaskReturns, TasksDone, Quit, taskVars
<1>6. ASSUME NEW c \in Channels,
             HandleEvent(c) \/ UpdateChannel(c) \/ RemoveChannel(c)
      PROVE  UNCHANGED <<posted, ran>>
  BY <1>6 DEF HandleEvent, UpdateChannel, RemoveChannel, taskVars
<1>7. ASSUME NEW t \in Threads, ThreadQuit(t) \/ Wakeup(t)
      PROVE  UNCHANGED <<posted, ran>>
  BY <1>7 DEF ThreadQuit, Wakeup, taskVars
<1>8. CASE UNCHANGED vars
  BY <1>8 DEF vars
<1> QED
  BY <1>1, <1>2, <1>3, <1>4, <1>5, <1>6, <1>7, <1>8 DEF Next, LoopStep

\* EventLoop implements the abstract executor: the history of queueInLoop and
\* of task() calls is one of TaskExecutor.
THEOREM RefinesTaskExecutor == Spec => ImplementsExecutor
<1>1. Init => Executor!TEInit
  BY DEF Init, Executor!TEInit
<1>2. TypeOK /\ TasksInOrder /\ [Next]_vars
      => [Executor!TENext]_<<posted, ran>>
  BY ExecutorStep
<1>3. Spec => [](TypeOK /\ TasksInOrder)
  BY TypeCorrect, TasksStayInOrder, PTL
<1> QED
  BY <1>1, <1>2, <1>3, PTL DEF Spec, ImplementsExecutor, Executor!TESpec
=============================================================================
