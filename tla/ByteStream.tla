----------------------------- MODULE ByteStream -----------------------------
(***************************************************************************)
(* What a TcpConnection promises the code that calls send and shutdown on  *)
(* it: what it accepts is written once and in order, as long as the        *)
(* connection lasts; the end of the stream comes after the last byte, and  *)
(* nothing after the end.  Buffers, partial writes, events and threads are *)
(* nobody's business.                                                      *)
(***************************************************************************)
EXTENDS SequencesExt

VARIABLES
  accepted,      \* the bytes the connection took charge of
  sent,          \* the bytes written to the socket
  phase          \* "open", "finished" (our FIN is sent) or "closed"

vars == <<accepted, sent, phase>>

Init == accepted = <<>> /\ sent = <<>> /\ phase = "open"

\* More is accepted, and some of what was accepted and not sent is sent.
Advance ==
  /\ IsPrefix(accepted, accepted')
  /\ IsPrefix(sent, sent')
  /\ IsPrefix(sent', accepted')

Transfer == phase = "open" /\ Advance /\ UNCHANGED phase

\* The end of the stream, perhaps right behind the last bytes.
Finish ==
  /\ phase = "open" /\ phase' = "finished"
  /\ Advance
  /\ sent' = accepted'

\* The connection is closed, by whatever side; what waits is lost.
Close ==
  /\ phase # "closed" /\ phase' = "closed"
  /\ UNCHANGED <<accepted, sent>>

Next == Transfer \/ Finish \/ Close

Spec == Init /\ [][Next]_vars
=============================================================================
