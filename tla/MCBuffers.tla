----------------------------- MODULE MCBuffers -----------------------------
(***************************************************************************)
(* Bounds for model checking Buffers.tla.                                  *)
(***************************************************************************)
EXTENDS Buffers, TLC

\* The buffers of the heap are alike.
BufferSymmetry == Permutations(Mbuffs)
=============================================================================
