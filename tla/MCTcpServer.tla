---------------------------- MODULE MCTcpServer -----------------------------
(* TcpServer on small instances for TLC. *)
EXTENDS TcpServer
=============================================================================
