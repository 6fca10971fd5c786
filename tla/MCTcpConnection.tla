-------------------------- MODULE MCTcpConnection ---------------------------
(* TcpConnection on small instances for TLC. *)
EXTENDS TcpConnection
=============================================================================
