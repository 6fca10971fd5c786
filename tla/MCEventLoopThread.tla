------------------------- MODULE MCEventLoopThread --------------------------
(* EventLoopThread on small instances for TLC. *)
EXTENDS EventLoopThread
=============================================================================
