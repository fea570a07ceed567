------------------------------ MODULE MCBuffer ------------------------------
(* Constants for TLC to check Buffer.                                      *)
EXTENDS Buffer, SequencesExt

\* Everything of up to three bytes; the longest grows the vector and spills.
InputsUpTo3 == SeqOf({1, 2}, 3)
=============================================================================
