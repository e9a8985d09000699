----------------------------- MODULE MCService -----------------------------
(***************************************************************************)
(* Bounds for model checking Service.tla.                                  *)
(***************************************************************************)
EXTENDS Service

\* What the first daemon leaves behind the pid of the second makes that of the
\* third.
ThreeDaemons == 1 .. 3
ThreePids == <<<<2, 3>>, <<1>>, <<1, 3>>>>

\* One packet is 8 * DFL_MTU = 8 bits.
Good == [port |-> TRUE, listen_api |-> TRUE, pid_file |-> TRUE, overal_bps |-> 17]
CommandLines ==
  {Good, [Good EXCEPT !.port = FALSE], [Good EXCEPT !.pid_file = FALSE],
   [Good EXCEPT !.overal_bps = 16], [Good EXCEPT !.overal_bps = 0]}
=============================================================================
