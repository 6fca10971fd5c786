---------------------------- MODULE MCTcpClient -----------------------------
(* TcpClient on small instances for TLC. *)
EXTENDS TcpClient
=============================================================================
