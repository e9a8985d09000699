-------------------------- MODULE RendezvousProofs --------------------------
(***************************************************************************)
(* The rendezvous keeps its promises for every set of sockets.             *)
(***************************************************************************)
EXTENDS Rendezvous, TLAPS

RendezvousInv == RendezvousTypeOK /\ Agreement

LEMMA RendezvousInitInv == NoneIsNoSocket /\ RendezvousInit => RendezvousInv
  BY DEF NoneIsNoSocket, RendezvousInit, RendezvousInv, RendezvousTypeOK, Agreement, Phases

\* A socket that leaves the idle phase was nobody's open peer, because the
\* peer of an open socket has promised or is open itself.
LEMMA CallInv ==
  ASSUME NoneIsNoSocket, RendezvousInv, NEW s \in Socks, NEW d \in Socks, Call(s, d)
  PROVE  RendezvousInv'
<1>1. RendezvousTypeOK'
  BY DEF NoneIsNoSocket, RendezvousInv, RendezvousTypeOK, Call, Enter, Phases
<1>2. Agreement'
  <2> SUFFICES ASSUME NEW x \in Socks, phase'[x] = "open"
               PROVE  peer'[peer'[x]] = x /\ phase'[peer'[x]] \in {"promised", "open"}
    BY DEF Agreement
  <2>1. x # s /\ phase[x] = "open" /\ peer'[x] = peer[x]
    BY DEF RendezvousInv, RendezvousTypeOK, Call, Enter
  <2>2. peer[x] \in Socks /\ phase[peer[x]] # "idle"
    BY <2>1 DEF NoneIsNoSocket, RendezvousInv, RendezvousTypeOK, Agreement
  <2>3. peer[x] # s
    BY <2>2 DEF Call
  <2> QED
    BY <2>1, <2>2, <2>3 DEF RendezvousInv, RendezvousTypeOK, Agreement, Call, Enter
<1> QED
  BY <1>1, <1>2 DEF RendezvousInv

LEMMA PromiseInv ==
  ASSUME NoneIsNoSocket, RendezvousInv, NEW s \in Socks, NEW d \in Socks, Promise(s, d)
  PROVE  RendezvousInv'
<1>1. RendezvousTypeOK'
  BY DEF NoneIsNoSocket, RendezvousInv, RendezvousTypeOK, Promise, Enter, Phases
<1>2. Agreement'
  <2> SUFFICES ASSUME NEW x \in Socks, phase'[x] = "open"
               PROVE  peer'[peer'[x]] = x /\ phase'[peer'[x]] \in {"promised", "open"}
    BY DEF Agreement
  <2>1. x # s /\ phase[x] = "open" /\ peer'[x] = peer[x]
    BY DEF RendezvousInv, RendezvousTypeOK, Promise, Enter
  <2>2. peer[x] \in Socks /\ phase[peer[x]] # "idle"
    BY <2>1 DEF NoneIsNoSocket, RendezvousInv, RendezvousTypeOK, Agreement
  <2>3. peer[x] # s
    BY <2>2 DEF Promise
  <2> QED
    BY <2>1, <2>2, <2>3 DEF RendezvousInv, RendezvousTypeOK, Agreement, Promise, Enter
<1> QED
  BY <1>1, <1>2 DEF RendezvousInv

\* A caller that gives up was nobody's open peer either.
LEMMA GiveUpInv ==
  ASSUME NoneIsNoSocket, RendezvousInv, NEW s \in Socks, GiveUp(s)
  PROVE  RendezvousInv'
<1>1. RendezvousTypeOK'
  BY DEF RendezvousInv, RendezvousTypeOK, GiveUp, Enter, Phases
<1>2. Agreement'
  BY DEF NoneIsNoSocket, RendezvousInv, RendezvousTypeOK, Agreement, GiveUp, Enter
<1> QED
  BY <1>1, <1>2 DEF RendezvousInv

\* Whoever opens has a peer engaged with it that promised or is open, and
\* stays a good peer for whoever opened before.
LEMMA OpenInv ==
  ASSUME NoneIsNoSocket, RendezvousInv, NEW s \in Socks, NEW p \in {"calling", "promised"},
         NEW q \in {"promised", "open"}, Open(s, p, q)
  PROVE  RendezvousInv'
<1>1. RendezvousTypeOK'
  BY DEF RendezvousInv, RendezvousTypeOK, Open, Enter, Phases
<1>2. Agreement'
  BY DEF NoneIsNoSocket, RendezvousInv, RendezvousTypeOK, Agreement, Open, Enter
<1> QED
  BY <1>1, <1>2 DEF RendezvousInv

\* Every step keeps the invariant.
LEMMA RendezvousStep ==
  NoneIsNoSocket /\ RendezvousInv /\ [RendezvousNext]_<<phase, peer>> => RendezvousInv'
<1> SUFFICES ASSUME NoneIsNoSocket, RendezvousInv, [RendezvousNext]_<<phase, peer>>
             PROVE  RendezvousInv'
  OBVIOUS
<1>1. CASE UNCHANGED <<phase, peer>>
  BY <1>1 DEF RendezvousInv, RendezvousTypeOK, Agreement
<1>2. ASSUME NEW s \in Socks, NEW d \in Socks, Call(s, d) \/ Promise(s, d)
      PROVE  RendezvousInv'
  BY <1>2, CallInv, PromiseInv
<1>3. ASSUME NEW s \in Socks,
             GiveUp(s) \/ Open(s, "calling", "promised") \/ Open(s, "promised", "open")
      PROVE  RendezvousInv'
  BY <1>3, GiveUpInv, OpenInv
<1> QED
  BY <1>1, <1>2, <1>3 DEF RendezvousNext

-----------------------------------------------------------------------------
(* What a socket did towards another; none of it can be undone, so that a   *)
(* message about it stays true for as long as it travels.                   *)

HasCalled(s, d) == peer[s] = d /\ phase[s] \in {"calling", "closed", "open"}

HasPromised(s, d) ==
  /\ peer[s] = d
  /\ HasCalled(d, s)
  /\ phase[s] = "promised" \/ (phase[s] = "open" /\ phase[d] = "open")

HasOpened(s, d) == peer[s] = d /\ phase[s] = "open"

LEMMA Lasting ==
  ASSUME NoneIsNoSocket, RendezvousInv, [RendezvousNext]_<<phase, peer>>,
         NEW s \in Socks, NEW d \in Socks
  PROVE  /\ HasCalled(s, d) => HasCalled(s, d)'
         /\ HasPromised(s, d) => HasPromised(s, d)'
         /\ HasOpened(s, d) => HasOpened(s, d)'
<1> USE DEF HasCalled, HasPromised, HasOpened, RendezvousInv, RendezvousTypeOK
<1>1. CASE UNCHANGED <<phase, peer>>
  BY <1>1
<1>2. ASSUME NEW x \in Socks, NEW y \in Socks, Call(x, y) \/ Promise(x, y)
      PROVE  /\ HasCalled(s, d) => HasCalled(s, d)'
             /\ HasPromised(s, d) => HasPromised(s, d)'
             /\ HasOpened(s, d) => HasOpened(s, d)'
  BY <1>2 DEF Call, Promise, Enter
<1>3. ASSUME NEW x \in Socks, GiveUp(x)
      PROVE  /\ HasCalled(s, d) => HasCalled(s, d)'
             /\ HasPromised(s, d) => HasPromised(s, d)'
             /\ HasOpened(s, d) => HasOpened(s, d)'
  BY <1>3 DEF GiveUp, Enter
<1>4. ASSUME NEW x \in Socks, Open(x, "calling", "promised") \/ Open(x, "promised", "open")
      PROVE  /\ HasCalled(s, d) => HasCalled(s, d)'
             /\ HasPromised(s, d) => HasPromised(s, d)'
             /\ HasOpened(s, d) => HasOpened(s, d)'
  BY <1>4 DEF Open, Enter
<1> QED
  BY <1>1, <1>2, <1>3, <1>4 DEF RendezvousNext

-----------------------------------------------------------------------------
\* Types of the rendezvous, for every set of sockets.
THEOREM RendezvousTypeCorrect ==
  ASSUME NoneIsNoSocket PROVE RendezvousSpec => []RendezvousTypeOK
<1>1. RendezvousInv => RendezvousTypeOK
  BY DEF RendezvousInv
<1> QED
  BY <1>1, RendezvousInitInv, RendezvousStep, PTL DEF RendezvousSpec

\* An open socket has a peer engaged with it that promised or is open: no
\* one-sided connection, whatever the number of sockets.
THEOREM AgreementCorrect ==
  ASSUME NoneIsNoSocket PROVE RendezvousSpec => []Agreement
<1>1. RendezvousInv => Agreement
  BY DEF RendezvousInv
<1> QED
  BY <1>1, RendezvousInitInv, RendezvousStep, PTL DEF RendezvousSpec

\* Of the callers of one socket at most one opens, whatever their number.
THEOREM ExclusiveCorrect ==
  ASSUME NoneIsNoSocket PROVE RendezvousSpec => []Exclusive
<1>1. RendezvousInv => Exclusive
  BY DEF RendezvousInv, Agreement, Exclusive
<1> QED
  BY <1>1, RendezvousInitInv, RendezvousStep, PTL DEF RendezvousSpec
=============================================================================
