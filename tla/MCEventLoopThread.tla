------------------------- MODULE MCEventLoopThread -------------------------
(* Constants for TLC to check EventLoopThread.                             *)
EXTENDS EventLoopThread
=============================================================================
