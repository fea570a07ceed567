------------------------------ MODULE MCTimer ------------------------------
(* Constants for TLC to check Timer.                                       *)
EXTENDS Timer
=============================================================================
