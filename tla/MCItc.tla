------------------------------- MODULE MCItc -------------------------------
(***************************************************************************)
(* Bounds for model checking Itc.tla.                                      *)
(***************************************************************************)
EXTENDS Itc

\* All three lists of kernel(): tx_ret_queue has no producer yet, and shares
\* the expirations of output_timer with tx_nor_queue.
MCKernelTx == ToNetout
MCMaxMade == [c \in Channels |-> IF c \in {"nor", "in"} THEN 2 ELSE 1]
=============================================================================
