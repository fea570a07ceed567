---------------------------- MODULE MCTcpServer ----------------------------
(* Constants for TLC to check TcpServer.                                   *)
EXTENDS TcpServer
=============================================================================
