--------------------------- MODULE MCEPollPoller ---------------------------
(* Constants for TLC to check EPollPoller.                                 *)
EXTENDS EPollPoller, TLC

CONSTANTS c1, c2, c3, f1, f2

\* Two channels one after the other on f1, and one on f2.
MCfd == c1 :> f1 @@ c2 :> f2 @@ c3 :> f1
=============================================================================
