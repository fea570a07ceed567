----------------------------- MODULE ByteQueue -----------------------------
(***************************************************************************)
(* What a Buffer promises the code that fills it and the code that reads   *)
(* it: the readable bytes are the bytes put in and not yet taken out, in   *)
(* order.  Where they lie in memory is nobody's business.                  *)
(***************************************************************************)
EXTENDS Sequences, Naturals

CONSTANT Inputs      \* the pieces of data put in

VARIABLE content      \* the readable bytes

Init == content = <<>>

Put(data) == content' = content \o data

\* Taking more than there is takes everything.
Take(n) == content' = SubSeq(content, n + 1, Len(content))

Next ==
  \/ \E data \in Inputs : Put(data)
  \/ \E n \in 0 .. Len(content) : Take(n)

Spec == Init /\ [][Next]_content
=============================================================================
