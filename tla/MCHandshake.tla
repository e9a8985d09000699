---------------------------- MODULE MCHandshake ----------------------------
(***************************************************************************)
(* Bounds for model checking Handshake.tla.                                *)
(***************************************************************************)
EXTENDS Handshake, TLC

CONSTANTS caller, server, rival

ListenCalls == {"bind", "listen", "accept"}

\* One connector, one listener.
PairCalls == [s \in {caller, server} |-> IF s = server THEN ListenCalls ELSE {"connect"}]
PairRequests == [s \in {caller, server} |-> IF s = server THEN 4 ELSE 1]
PairRate == [s \in {caller, server} |-> IF s = server THEN 2 ELSE 1]

\* A connector that calls connect() again.
AgainRequests == [s \in {caller, server} |-> IF s = server THEN 3 ELSE 2]

\* Two connectors, which are alike.
RivalSymmetry == Permutations({caller, rival})
RivalCalls == [s \in {caller, server, rival} |-> IF s = server THEN ListenCalls ELSE {"connect"}]
RivalRequests == [s \in {caller, server, rival} |-> IF s = server THEN 3 ELSE 1]
RivalRate == [s \in {caller, server, rival} |-> 1]
=============================================================================
