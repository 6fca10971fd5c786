---------------------------- MODULE TaskExecutor ----------------------------
(***************************************************************************)
(* What EventLoop promises the callers of queueInLoop and runInLoop, with  *)
(* threads, polling and wakeups left out: submitted tasks are run one at a *)
(* time, each exactly once, in the order in which they were submitted.     *)
(* A task is named by the ordinal of its submission.                       *)
(***************************************************************************)
EXTENDS Naturals

VARIABLES
    submitted,   \* ordinal of the task submitted last
    executed     \* ordinal of the task run last

TEInit == submitted = 0 /\ executed = 0

Submit  == submitted' = submitted + 1 /\ UNCHANGED executed

Execute == /\ executed < submitted
           /\ executed' = executed + 1
           /\ UNCHANGED submitted

TENext == Submit \/ Execute

TESpec == TEInit /\ [][TENext]_<<submitted, executed>>
=============================================================================
