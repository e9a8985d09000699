---------------------------- MODULE MCSockTable ----------------------------
(***************************************************************************)
(* Model checking SockTable.tla: with one configuration every socket gets  *)
(* a speed, with the other there is none left for the second.               *)
(***************************************************************************)
EXTENDS SockTable

MCOveral == {2, 5}
=============================================================================
