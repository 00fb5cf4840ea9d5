-------------------------- MODULE MCPointerRingBuffer --------------------------
(***************************************************************************)
(* The ring for TLC, with every index different from every other: an index *)
(* lost, repeated or out of order shows.                                   *)
(***************************************************************************)
EXTENDS PointerRingBuffer

MCIndexes == 0 .. (MaxPuts - 1)
MCStream  == [i \in MCIndexes |-> i]
=============================================================================
