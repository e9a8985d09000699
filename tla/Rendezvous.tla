----------------------------- MODULE Rendezvous -----------------------------
(***************************************************************************)
(* What the connection handshake promises, without messages: a socket      *)
(* calls another, the other promises it the connection, the caller opens   *)
(* it and last the one that promised.  A caller may give up; a promise is  *)
(* made once and to one caller.                                            *)
(***************************************************************************)
CONSTANTS
  Socks,  \* the sockets
  None    \* no socket

\* What its theorems assume; HandshakeAssumption implies it.
NoneIsNoSocket == None \notin Socks

VARIABLES
  phase,  \* how far a socket got
  peer    \* with whom, or None

Phases == {"idle", "calling", "closed", "promised", "open"}

RendezvousInit ==
  /\ phase = [s \in Socks |-> "idle"]
  /\ peer = [s \in Socks |-> None]

Enter(s, p) == phase' = [phase EXCEPT ![s] = p]

Call(s, d) ==
  /\ phase[s] = "idle"
  /\ s # d
  /\ Enter(s, "calling")
  /\ peer' = [peer EXCEPT ![s] = d]

GiveUp(s) ==
  /\ phase[s] = "calling"
  /\ Enter(s, "closed")
  /\ UNCHANGED peer

\* The caller may have given up in the meantime.
Promise(s, d) ==
  /\ phase[s] = "idle"
  /\ phase[d] \in {"calling", "closed"}
  /\ peer[d] = s
  /\ Enter(s, "promised")
  /\ peer' = [peer EXCEPT ![s] = d]

\* s goes from phase p to open when its peer is in phase q, engaged with s.
Open(s, p, q) ==
  /\ phase[s] = p
  /\ peer[s] \in Socks
  /\ phase[peer[s]] = q
  /\ peer[peer[s]] = s
  /\ Enter(s, "open")
  /\ UNCHANGED peer

RendezvousNext ==
  \E s \in Socks :
    \/ \E d \in Socks : Call(s, d) \/ Promise(s, d)
    \/ GiveUp(s)
    \/ Open(s, "calling", "promised")
    \/ Open(s, "promised", "open")

RendezvousSpec == RendezvousInit /\ [][RendezvousNext]_<<phase, peer>>

-----------------------------------------------------------------------------
\* Type invariant: an engaged socket has a peer, an idle one has none.
RendezvousTypeOK ==
  /\ phase \in [Socks -> Phases]
  /\ peer \in [Socks -> Socks \cup {None}]
  /\ \A s \in Socks : phase[s] = "idle" <=> peer[s] = None

\* Two ends: whoever is open has a peer that is engaged with it and that has
\* promised, or has opened too; so_state ESTABLISHED is never one-sided
\* against a peer that knows nothing of it.
Agreement ==
  \A s \in Socks :
    phase[s] = "open" => /\ peer[peer[s]] = s
                         /\ phase[peer[s]] \in {"promised", "open"}

\* One connection per listener: of two callers of the same socket at most one
\* ever opens, however their CONNECTs interleave.
Exclusive ==
  \A s, d \in Socks :
    s # d /\ phase[s] = "open" /\ phase[d] = "open" => peer[s] # peer[d]
=============================================================================
