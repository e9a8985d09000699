------------------------------ MODULE MCDataIo ------------------------------
(***************************************************************************)
(* Bounds for model checking DataIo.tla.                                   *)
(***************************************************************************)
EXTENDS DataIo

\* Two writes of one and a half mbuffs each.
Lengths == {3}
=============================================================================
