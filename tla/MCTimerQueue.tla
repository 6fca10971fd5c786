---------------------------- MODULE MCTimerQueue ----------------------------
(* TimerQueue on small instances for TLC. *)
EXTENDS TimerQueue
=============================================================================
