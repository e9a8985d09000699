----------------------------- MODULE MCTimers -----------------------------
(***************************************************************************)
(* Model checking Timers.tla: messages and memory are interchangeable.     *)
(***************************************************************************)
EXTENDS Timers, TLC

Symmetry == Permutations(Mbuffs) \cup Permutations(Cells)
=============================================================================
