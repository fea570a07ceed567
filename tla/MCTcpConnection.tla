-------------------------- MODULE MCTcpConnection --------------------------
(* Constants for TLC to check TcpConnection.                               *)
EXTENDS TcpConnection
=============================================================================
