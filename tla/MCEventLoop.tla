---------------------------- MODULE MCEventLoop -----------------------------
(* EventLoop on small instances for TLC. *)
EXTENDS EventLoop
=============================================================================
