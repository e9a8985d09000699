--------------------------- MODULE HandshakeProofs ---------------------------
(***************************************************************************)
(* Control messages and their timers have one owner, for any number of     *)
(* sockets, API calls, attempts and losses, programs of several threads    *)
(* included.                                                               *)
(***************************************************************************)
EXTENDS Handshake, TLAPS

-----------------------------------------------------------------------------
(* Queues of carriers *)

Carriers == [msg : Msgs, discard : BOOLEAN]
ReturnedCarriers == [msg : Msgs, discard : BOOLEAN, sent : BOOLEAN]
IsQueue(q) == q \in Seq(Carriers) \/ q \in Seq(ReturnedCarriers)

LEMMA AppendOwning ==
  ASSUME NEW S, NEW q \in Seq(S), NEW c, c.discard \in BOOLEAN
  PROVE  Owning(Append(q, c)) =
           IF c.discard THEN Owning(q) ELSE Owning(q) \cup {c.msg.seq}
<1> DEFINE p == Append(q, c)
<1>1. /\ DOMAIN p = DOMAIN q \cup {Len(q) + 1}
      /\ p[Len(q) + 1] = c
      /\ \A i \in DOMAIN q : p[i] = q[i]
  OBVIOUS
<1> HIDE DEF p
<1>2. CASE c.discard
  <2>1. {j \in DOMAIN p : ~p[j].discard} = {j \in DOMAIN q : ~q[j].discard}
    BY <1>1, <1>2
  <2> QED
    BY <1>1, <1>2, <2>1 DEF Owning, p
<1>3. CASE ~c.discard
  <2>1. {j \in DOMAIN p : ~p[j].discard} = {j \in DOMAIN q : ~q[j].discard} \cup {Len(q) + 1}
    BY <1>1, <1>3
  <2> QED
    BY <1>1, <1>3, <2>1 DEF Owning, p
<1> QED
  BY <1>2, <1>3

LEMMA AppendOnce ==
  ASSUME NEW S, NEW q \in Seq(S), NEW c, c.discard \in BOOLEAN,
         Once(q), c.discard \/ c.msg.seq \notin Owning(q)
  PROVE  Once(Append(q, c))
<1> DEFINE p == Append(q, c)
<1>1. /\ DOMAIN p = DOMAIN q \cup {Len(q) + 1}
      /\ p[Len(q) + 1] = c
      /\ \A i \in DOMAIN q : p[i] = q[i]
  OBVIOUS
<1>2. \A i \in DOMAIN q : ~q[i].discard => q[i].msg.seq \in Owning(q)
  BY DEF Owning
<1> HIDE DEF p
<1>3. Once(p)
  BY <1>1, <1>2 DEF Once
<1> QED
  BY <1>3 DEF p

LEMMA TailOwning ==
  ASSUME NEW S, NEW q \in Seq(S), q # <<>>, Once(q), Head(q).discard \in BOOLEAN
  PROVE  /\ Once(Tail(q))
         /\ Owning(Tail(q)) =
              IF Head(q).discard THEN Owning(q) ELSE Owning(q) \ {Head(q).msg.seq}
         /\ ~Head(q).discard => Head(q).msg.seq \in Owning(q)
<1> DEFINE p == Tail(q)
<1>0. /\ Len(q) \in Nat \ {0} /\ DOMAIN q = 1 .. Len(q)
      /\ DOMAIN p = 1 .. Len(q) - 1
      /\ \A i \in 1 .. Len(q) - 1 : p[i] = q[i + 1]
      /\ Head(q) = q[1]
  OBVIOUS
<1>1. /\ \A i \in DOMAIN q : i = 1 \/ i - 1 \in DOMAIN p
      /\ 1 \in DOMAIN q
      /\ \A i \in DOMAIN q : i \in Int
      /\ \A i \in DOMAIN p : i + 1 \in DOMAIN q /\ p[i] = q[i + 1] /\ i \in Int /\ i + 1 # 1
      /\ Head(q) = q[1]
  BY <1>0
<1> HIDE DEF p
<1>2. Once(p)
  <2> SUFFICES ASSUME NEW i \in DOMAIN p, NEW j \in DOMAIN p, ~p[i].discard, ~p[j].discard,
                      p[i].msg.seq = p[j].msg.seq
               PROVE  i = j
    BY DEF Once
  <2>1. i + 1 = j + 1
    BY <1>1 DEF Once
  <2> QED
    BY <2>1, <1>1
<1>3. ~Head(q).discard => Head(q).msg.seq \in Owning(q)
  BY <1>1 DEF Owning
<1>4. Owning(p) \subseteq Owning(q)
  BY <1>1 DEF Owning
<1>5. ASSUME NEW i \in DOMAIN q, ~q[i].discard
      PROVE  i = 1 \/ q[i].msg.seq \in Owning(p)
  <2> SUFFICES ASSUME i # 1  PROVE q[i].msg.seq \in Owning(p)
    OBVIOUS
  <2>1. i - 1 \in DOMAIN p /\ p[i - 1] = q[i]
    BY <1>1
  <2> QED
    BY <2>1, <1>5 DEF Owning
<1>6. /\ Owning(q) \subseteq Owning(p) \cup {Head(q).msg.seq}
      /\ Head(q).discard => Owning(q) \subseteq Owning(p)
  BY <1>1, <1>5 DEF Owning
<1>7. ~Head(q).discard => Head(q).msg.seq \notin Owning(p)
  BY <1>1 DEF Owning, Once
<1> QED
  BY <1>2, <1>3, <1>4, <1>6, <1>7 DEF p

-----------------------------------------------------------------------------
(* The inductive invariant.  It adds two facts to the properties: a         *)
(* sequence number that is in use was given out, and the output thread      *)
(* returns a message that was sent only if it may be needed again.          *)

InUse(k, o, q) == Owning(o) \cup Owning(q) \cup OwnedBySock(k)

\* For one socket k, its queues o and q, and the numbers acked and failed.
Ownership(k, o, q, a, f) ==
  /\ Once(o) /\ Once(q)
  /\ \A m, n \in k.ctrlSent : m.seq = n.seq => m = n
  /\ Owning(o) \cap Owning(q) = {}
  /\ (Owning(o) \cup Owning(q)) \cap OwnedBySock(k) = {}
  /\ (a \cup f) \cap InUse(k, o, q) = {}
  /\ k.timers \subseteq InUse(k, o, q) \cup f
  /\ \A n \in InUse(k, o, q) \cup a \cup f : n < k.cseq
  /\ \A i \in DOMAIN q : q[i].sent => ~q[i].discard

HandshakeInv ==
  /\ TypeOK
  /\ \A s \in Socks : Ownership(sock[s], outq[s], sentq[s], acked[s], failed[s])

LEMMA InvImplies == HandshakeInv => OwnedOnce /\ TimersHaveMessages
  BY DEF HandshakeInv, Ownership, OwnedOnce, TimersHaveMessages, Held, InUse

LEMMA InitOwnership == HandshakeAssumption /\ Init => HandshakeInv
<1> SUFFICES ASSUME Init PROVE HandshakeInv
  OBVIOUS
<1>1. NewSock \in SocketType
  BY DEF NewSock, SocketType, States, START_CTRLSEQ
<1>2. TypeOK
  BY <1>1, HandshakeAssumption DEF Init, TypeOK, NewSock
<1>3. ASSUME NEW s \in Socks
      PROVE  Ownership(sock[s], outq[s], sentq[s], acked[s], failed[s])
  <2>1. Owning(<<>>) = {} /\ Once(<<>>) /\ DOMAIN <<>> = {}
    BY DEF Owning, Once
  <2>2. OwnedBySock(NewSock) = {} /\ NewSock.ctrlSent = {} /\ NewSock.timers = {}
    BY DEF OwnedBySock, NewSock
  <2> QED
    BY <2>1, <2>2 DEF Init, Ownership, InUse
<1> QED
  BY <1>2, <1>3 DEF HandshakeInv

\* What may be taken from a socket's messages: nothing but the record around
\* them changes, or timers are dropped.
LEMMA KeepOwnership ==
  ASSUME NEW k \in SocketType, NEW k2 \in SocketType, NEW o, NEW q, NEW a, NEW f,
         Ownership(k, o, q, a, f),
         k2.ctrlSent = k.ctrlSent, k2.cseq = k.cseq, k2.timers \subseteq k.timers
  PROVE  Ownership(k2, o, q, a, f)
  BY DEF Ownership, InUse, OwnedBySock

\* A new message, prepare_connect() or prepare_accept(), and its timer.
LEMMA NewOwnership ==
  ASSUME NEW k \in SocketType, NEW k2 \in SocketType, NEW o \in Seq(Carriers), NEW q,
         NEW a, NEW f, NEW c \in Carriers,
         Ownership(k, o, q, a, f), ~c.discard, c.msg.seq = k.cseq,
         k2.ctrlSent = k.ctrlSent, k2.cseq = k.cseq + 1, k2.timers = k.timers \cup {k.cseq},
         \A n \in InUse(k, o, q) \cup a \cup f : n \in Nat
  PROVE  Ownership(k2, Append(o, c), q, a, f)
<1>1. k.cseq \in Nat /\ c.discard \in BOOLEAN
  BY DEF SocketType, Carriers
<1>2. k.cseq \notin InUse(k, o, q) \cup a \cup f
  BY <1>1 DEF Ownership
<1>3. Owning(Append(o, c)) = Owning(o) \cup {k.cseq}
  BY <1>1, AppendOwning
<1>4. Once(Append(o, c))
  BY <1>1, <1>2, AppendOnce DEF Ownership, InUse
<1>5. OwnedBySock(k2) = OwnedBySock(k)
  BY DEF OwnedBySock
<1>6. InUse(k2, Append(o, c), q) = InUse(k, o, q) \cup {k.cseq}
  BY <1>3, <1>5 DEF InUse
<1>7. \A n \in InUse(k, o, q) \cup {k.cseq} \cup a \cup f : n < k2.cseq
  BY <1>1 DEF Ownership
<1> QED
  BY <1>2, <1>3, <1>4, <1>5, <1>6, <1>7 DEF Ownership, InUse

\* A clone, or a CTRL_ACK.
LEMMA CloneOwnership ==
  ASSUME NEW k, NEW o \in Seq(Carriers), NEW q, NEW a, NEW f, NEW c \in Carriers,
         Ownership(k, o, q, a, f), c.discard
  PROVE  Ownership(k, Append(o, c), q, a, f)
<1>1. Owning(Append(o, c)) = Owning(o) /\ Once(Append(o, c))
  BY AppendOwning, AppendOnce DEF Ownership, Carriers
<1> QED
  BY <1>1 DEF Ownership, InUse

\* do_rx_ctrl_ack() and the end of the attempts: messages and their timers go.
LEMMA ReleaseOwnership ==
  ASSUME NEW k \in SocketType, NEW k2 \in SocketType, NEW o, NEW q, NEW a, NEW f,
         Ownership(k, o, q, a, f), NEW D \in SUBSET k.ctrlSent, NEW b,
         b = a \/ b = a \cup {c.seq : c \in D},
         k2.ctrlSent = k.ctrlSent \ D, k2.cseq = k.cseq,
         k2.timers = k.timers \ {c.seq : c \in D}
  PROVE  Ownership(k2, o, q, b, f)
<1>1. OwnedBySock(k2) = OwnedBySock(k) \ {c.seq : c \in D}
  BY DEF OwnedBySock, Ownership
<1>2. {c.seq : c \in D} \subseteq OwnedBySock(k)
  BY DEF OwnedBySock
<1>3. InUse(k2, o, q) = InUse(k, o, q) \ {c.seq : c \in D}
  BY <1>1, <1>2 DEF InUse, Ownership
<1>4. /\ (b \cup f) \cap InUse(k2, o, q) = {}
      /\ k2.timers \subseteq InUse(k2, o, q) \cup f
      /\ \A n \in InUse(k2, o, q) \cup b \cup f : n < k2.cseq
  BY <1>2, <1>3 DEF Ownership, InUse
<1>5. \A m, n \in k2.ctrlSent : m.seq = n.seq => m = n
  BY DEF Ownership
<1> QED
  BY <1>1, <1>4, <1>5 DEF Ownership

\* The output thread hands the carrier c back, or keeps it.
LEMMA SendOwnership ==
  ASSUME NEW k, NEW o \in Seq(Carriers), NEW q \in Seq(ReturnedCarriers), NEW a, NEW f,
         Ownership(k, o, q, a, f), o # <<>>, NEW sent \in BOOLEAN,
         sent => ~Head(o).discard
  PROVE  Ownership(k, Tail(o), Append(q, Returned(Head(o), sent)), a, f)
<1> DEFINE c == Head(o)
           r == Returned(c, sent)
           p == Append(q, r)
<1>1. c \in Carriers
  OBVIOUS
<1>2. r \in ReturnedCarriers /\ r.msg = c.msg /\ r.discard = c.discard /\ r.sent = sent
  BY <1>1 DEF Carriers, ReturnedCarriers, Returned
<1>3. c.discard \in BOOLEAN /\ r.discard \in BOOLEAN
  BY <1>1, <1>2 DEF Carriers
<1>4. /\ Once(Tail(o))
      /\ Owning(Tail(o)) = IF c.discard THEN Owning(o) ELSE Owning(o) \ {c.msg.seq}
      /\ ~c.discard => c.msg.seq \in Owning(o)
  BY <1>3, TailOwning DEF Ownership
<1>5. ~c.discard => c.msg.seq \notin Owning(q)
  BY <1>4 DEF Ownership
<1> HIDE DEF c, r
<1>6. Once(p)
  BY <1>2, <1>3, <1>5, AppendOnce DEF Ownership
<1>7. Owning(p) = IF c.discard THEN Owning(q) ELSE Owning(q) \cup {c.msg.seq}
  BY <1>2, <1>3, AppendOwning
<1>8. \A i \in DOMAIN p : p[i].sent => ~p[i].discard
  <2>1. \A i \in DOMAIN p : p[i] = r \/ (i \in DOMAIN q /\ p[i] = q[i])
    OBVIOUS
  <2>2. r.sent => ~r.discard
    BY <1>2 DEF c
  <2> QED
    BY <2>1, <2>2 DEF Ownership
<1> HIDE DEF p
<1>9. InUse(k, Tail(o), p) = InUse(k, o, q)
  BY <1>4, <1>7 DEF InUse
<1>10. /\ Owning(Tail(o)) \cap Owning(p) = {}
       /\ Owning(Tail(o)) \cup Owning(p) = Owning(o) \cup Owning(q)
  BY <1>3, <1>4, <1>7 DEF Ownership
<1> QED
  BY <1>4, <1>6, <1>8, <1>9, <1>10 DEF Ownership, p, r, c

\* What is sent with DISCARD_TRUE does not come back.
LEMMA DropOwnership ==
  ASSUME NEW k, NEW o \in Seq(Carriers), NEW q, NEW a, NEW f,
         Ownership(k, o, q, a, f), o # <<>>, Head(o).discard
  PROVE  Ownership(k, Tail(o), q, a, f)
<1>1. Head(o).discard \in BOOLEAN
  BY DEF Carriers
<1>2. Once(Tail(o)) /\ Owning(Tail(o)) = Owning(o)
  BY <1>1, TailOwning DEF Ownership
<1> QED
  BY <1>2 DEF Ownership, InUse

\* SENT_SUCCESS: from the queue of returned messages to so_ctrl_sent.
LEMMA SuccessOwnership ==
  ASSUME NEW k \in SocketType, NEW k2 \in SocketType, NEW o, NEW q \in Seq(ReturnedCarriers),
         NEW a, NEW f, Ownership(k, o, q, a, f), q # <<>>, Head(q).sent,
         k2.ctrlSent = k.ctrlSent \cup {Head(q).msg}, k2.cseq = k.cseq, k2.timers = k.timers
  PROVE  Ownership(k2, o, Tail(q), a, f)
<1> DEFINE c == Head(q)
<1>1. c.discard \in BOOLEAN /\ ~c.discard
  <2>1. c = q[1] /\ 1 \in DOMAIN q /\ c \in ReturnedCarriers
    OBVIOUS
  <2> QED
    BY <2>1 DEF Ownership, ReturnedCarriers
<1>2. /\ Once(Tail(q))
      /\ Owning(Tail(q)) = Owning(q) \ {c.msg.seq}
      /\ c.msg.seq \in Owning(q)
  BY <1>1, TailOwning DEF Ownership
<1> HIDE DEF c
<1>3. OwnedBySock(k2) = OwnedBySock(k) \cup {c.msg.seq}
  BY DEF OwnedBySock, c
<1>4. InUse(k2, o, Tail(q)) = InUse(k, o, q)
  BY <1>2, <1>3 DEF InUse
<1>5. \A m, n \in k2.ctrlSent : m.seq = n.seq => m = n
  <2>1. \A m \in k.ctrlSent : m.seq # c.msg.seq
    BY <1>2 DEF Ownership, OwnedBySock
  <2> QED
    BY <2>1 DEF Ownership, c
<1>6. /\ Owning(o) \cap Owning(Tail(q)) = {}
      /\ (Owning(o) \cup Owning(Tail(q))) \cap OwnedBySock(k2) = {}
  BY <1>2, <1>3 DEF Ownership
<1>7. \A i \in DOMAIN Tail(q) : Tail(q)[i].sent => ~Tail(q)[i].discard
  <2>1. \A i \in DOMAIN Tail(q) : i + 1 \in DOMAIN q /\ Tail(q)[i] = q[i + 1]
    OBVIOUS
  <2> QED
    BY <2>1 DEF Ownership
<1> QED
  BY <1>2, <1>4, <1>5, <1>6, <1>7 DEF Ownership

\* SENT_ERROR: the message is freed, and its timer stays.
LEMMA ErrorOwnership ==
  ASSUME NEW k \in SocketType, NEW o, NEW q \in Seq(ReturnedCarriers), NEW a, NEW f, NEW g,
         Ownership(k, o, q, a, f), q # <<>>,
         g = IF Head(q).discard THEN f ELSE f \cup {Head(q).msg.seq}
  PROVE  Ownership(k, o, Tail(q), a, g)
<1> DEFINE c == Head(q)
<1>1. c.discard \in BOOLEAN
  <2>1. c \in ReturnedCarriers
    OBVIOUS
  <2> QED
    BY <2>1 DEF ReturnedCarriers
<1>2. /\ Once(Tail(q))
      /\ Owning(Tail(q)) = IF c.discard THEN Owning(q) ELSE Owning(q) \ {c.msg.seq}
      /\ ~c.discard => c.msg.seq \in Owning(q)
  BY <1>1, TailOwning DEF Ownership
<1> HIDE DEF c
<1>3. InUse(k, o, Tail(q)) = IF c.discard THEN InUse(k, o, q) ELSE InUse(k, o, q) \ {c.msg.seq}
  BY <1>1, <1>2 DEF InUse, Ownership
<1>4. /\ Owning(o) \cap Owning(Tail(q)) = {}
      /\ (Owning(o) \cup Owning(Tail(q))) \cap OwnedBySock(k) = {}
  BY <1>1, <1>2 DEF Ownership
<1>5. /\ (a \cup g) \cap InUse(k, o, Tail(q)) = {}
      /\ k.timers \subseteq InUse(k, o, Tail(q)) \cup g
  BY <1>1, <1>3 DEF Ownership, c
<1>6. InUse(k, o, Tail(q)) \cup a \cup g \subseteq InUse(k, o, q) \cup a \cup f
  BY <1>1, <1>2, <1>3 DEF InUse, c
<1>7. \A i \in DOMAIN Tail(q) : Tail(q)[i].sent => ~Tail(q)[i].discard
  <2>1. \A i \in DOMAIN Tail(q) : i + 1 \in DOMAIN q /\ Tail(q)[i] = q[i + 1]
    OBVIOUS
  <2> QED
    BY <2>1 DEF Ownership
<1> QED
  BY <1>2, <1>4, <1>5, <1>6, <1>7 DEF Ownership

-----------------------------------------------------------------------------
(* Steps *)

\* A step of socket s leaves every other socket alone.
Others(s) ==
  \A t \in Socks \ {s} :
    /\ sock'[t] = sock[t] /\ outq'[t] = outq[t] /\ sentq'[t] = sentq[t]
    /\ acked'[t] = acked[t] /\ failed'[t] = failed[t]

LEMMA OneSocket ==
  ASSUME HandshakeInv, TypeOK', NEW s \in Socks, Others(s),
         Ownership(sock'[s], outq'[s], sentq'[s], acked'[s], failed'[s])
  PROVE  HandshakeInv'
  BY DEF HandshakeInv, Others

LEMMA InUseNat ==
  ASSUME TypeOK, NEW s \in Socks
  PROVE  \A n \in InUse(sock[s], outq[s], sentq[s]) \cup acked[s] \cup failed[s] : n \in Nat
<1>1. outq[s] \in Seq(Carriers) /\ sentq[s] \in Seq(ReturnedCarriers)
  BY DEF TypeOK, Carriers, ReturnedCarriers
<1>2. ASSUME NEW m \in Msgs PROVE m.seq \in Nat
  BY DEF Msgs
<1>3. \A i \in DOMAIN outq[s] : outq[s][i].msg \in Msgs
  <2>1. \A i \in DOMAIN outq[s] : outq[s][i] \in Carriers
    BY <1>1
  <2> QED
    BY <2>1 DEF Carriers
<1>4. \A i \in DOMAIN sentq[s] : sentq[s][i].msg \in Msgs
  <2>1. \A i \in DOMAIN sentq[s] : sentq[s][i] \in ReturnedCarriers
    BY <1>1
  <2> QED
    BY <2>1 DEF ReturnedCarriers
<1>5. sock[s].ctrlSent \subseteq Msgs
  BY DEF TypeOK, SocketType
<1>6. acked[s] \subseteq Nat /\ failed[s] \subseteq Nat
  BY DEF TypeOK
<1> QED
  BY <1>2, <1>3, <1>4, <1>5, <1>6 DEF InUse, Owning, OwnedBySock

\* What the parts of the type invariant say of one socket.
LEMMA SocketTypes ==
  ASSUME TypeOK, NEW s \in Socks
  PROVE  /\ sock[s] \in SocketType
         /\ outq[s] \in Seq(Carriers)
         /\ sentq[s] \in Seq(ReturnedCarriers)
         /\ sock[s].cseq \in Nat
         /\ sock[s].state = "CONNECT_RCVD" => sock[s].connReq \in Msgs
  BY DEF TypeOK, Carriers, ReturnedCarriers, SocketType

\* What handlers do beside their socket and its queues: take a datagram, close
\* so_loctrl, count requests and replies.
Aside(s) ==
  /\ net' \subseteq net
  /\ UNCHANGED open \/ open' = [open EXCEPT ![s] = FALSE]
  /\ \/ UNCHANGED owed
     \/ owed' = [owed EXCEPT ![s] = @ - 1] \/ owed' = [owed EXCEPT ![s] = @ + 1]
  /\ UNCHANGED requests \/ requests' = [requests EXCEPT ![s] = @ + 1]
  /\ UNCHANGED <<sentq, failed, losses>>

\* The types after a handler that updates s and may transmit.
LEMMA StepTypes ==
  ASSUME TypeOK, NEW s \in Socks, NEW k \in SocketType,
         k.state = "CONNECT_RCVD" => k.connReq # None,
         sock' = [sock EXCEPT ![s] = k],
         \/ UNCHANGED outq
         \/ \E c \in Carriers : outq' = [outq EXCEPT ![s] = Append(@, c)],
         Aside(s),
         UNCHANGED acked \/ \E D \in SUBSET Nat : acked' = [acked EXCEPT ![s] = @ \cup D]
  PROVE  TypeOK'
<1>1. sock' \in [Socks -> SocketType]
  BY DEF TypeOK
<1>2. outq' \in [Socks -> Seq([msg : Msgs, discard : BOOLEAN])]
  <2>1. outq \in [Socks -> Seq(Carriers)]
    BY DEF TypeOK, Carriers
  <2>2. CASE UNCHANGED outq
    BY <2>1, <2>2 DEF Carriers
  <2>3. ASSUME NEW c \in Carriers, outq' = [outq EXCEPT ![s] = Append(@, c)]
        PROVE  outq' \in [Socks -> Seq(Carriers)]
    <3>1. Append(outq[s], c) \in Seq(Carriers)
      BY <2>1
    <3> QED
      BY <2>1, <2>3, <3>1
  <2> QED
    BY <2>2, <2>3 DEF Carriers
<1>3. /\ net' \subseteq Msgs
      /\ open' \in [Socks -> BOOLEAN]
      /\ losses' \in 0 .. MaxLosses
      /\ sentq' \in [Socks -> Seq([msg : Msgs, discard : BOOLEAN, sent : BOOLEAN])]
      /\ failed' \in [Socks -> SUBSET Nat]
  BY DEF TypeOK, Aside
<1>4. owed' \in [Socks -> Int] /\ requests' \in [Socks -> Nat]
  <2>1. owed \in [Socks -> Int] /\ requests \in [Socks -> Nat]
    BY DEF TypeOK
  <2>2. requests' \in [Socks -> Nat]
    BY <2>1 DEF Aside
  <2>3. CASE UNCHANGED owed
    BY <2>1, <2>2, <2>3
  <2>4. CASE owed' = [owed EXCEPT ![s] = @ - 1] \/ owed' = [owed EXCEPT ![s] = @ + 1]
    BY <2>1, <2>2, <2>4
  <2> QED
    BY <2>3, <2>4 DEF Aside
<1>5. acked' \in [Socks -> SUBSET Nat]
  <2>1. acked \in [Socks -> SUBSET Nat]
    BY DEF TypeOK
  <2>2. CASE UNCHANGED acked
    BY <2>1, <2>2
  <2>3. ASSUME NEW D \in SUBSET Nat, acked' = [acked EXCEPT ![s] = @ \cup D]
        PROVE  acked' \in [Socks -> SUBSET Nat]
    <3>1. acked[s] \cup D \in SUBSET Nat
      BY <2>1
    <3> QED
      BY <2>1, <2>3, <3>1
  <2> QED
    BY <2>2, <2>3
<1>6. \A t \in Socks : sock'[t].state = "CONNECT_RCVD" => sock'[t].connReq # None
  BY DEF TypeOK
<1> QED
  BY <1>1, <1>2, <1>3, <1>4, <1>5, <1>6 DEF TypeOK

\* The messages that are prepared.
LEMMA CarrierType ==
  ASSUME NEW m \in Msgs, NEW discard \in BOOLEAN
  PROVE  [msg |-> m, discard |-> discard] \in Carriers
  BY DEF Carriers

\* A handler that sends nothing of its own: it may acknowledge, send again, and
\* drop timers.
LEMMA PlainInv ==
  ASSUME HandshakeInv, NEW s \in Socks, NEW k \in SocketType,
         k.state = "CONNECT_RCVD" => k.connReq # None,
         sock' = [sock EXCEPT ![s] = k],
         k.ctrlSent = sock[s].ctrlSent, k.cseq = sock[s].cseq,
         k.timers \subseteq sock[s].timers,
         \/ UNCHANGED outq
         \/ \E c \in Carriers : c.discard /\ outq' = [outq EXCEPT ![s] = Append(@, c)],
         Aside(s), UNCHANGED acked
  PROVE  HandshakeInv'
<1>1. TypeOK /\ sock[s] \in SocketType /\ outq[s] \in Seq(Carriers)
  BY SocketTypes DEF HandshakeInv
<1>2. TypeOK'
  BY <1>1, StepTypes
<1>3. /\ sock'[s] = k /\ sentq'[s] = sentq[s] /\ acked'[s] = acked[s] /\ failed'[s] = failed[s]
      /\ Others(s)
  BY <1>1 DEF TypeOK, Others, Aside
<1>4. Ownership(k, outq[s], sentq[s], acked[s], failed[s])
  BY <1>1, KeepOwnership DEF HandshakeInv
<1>5. CASE UNCHANGED outq
  BY <1>2, <1>3, <1>4, <1>5, OneSocket
<1>6. ASSUME NEW c \in Carriers, c.discard, outq' = [outq EXCEPT ![s] = Append(@, c)]
      PROVE  HandshakeInv'
  <2>1. outq'[s] = Append(outq[s], c)
    BY <1>6 DEF HandshakeInv, TypeOK
  <2>2. Ownership(k, Append(outq[s], c), sentq[s], acked[s], failed[s])
    BY <1>1, <1>4, <1>6, CloneOwnership
  <2> QED
    BY <1>2, <1>3, <2>1, <2>2, OneSocket
<1> QED
  BY <1>5, <1>6

\* A handler that prepares a new message c.
LEMMA NewInv ==
  ASSUME HandshakeInv, NEW s \in Socks, NEW k \in SocketType, k.state # "CONNECT_RCVD",
         NEW c \in Carriers, ~c.discard, c.msg.seq = sock[s].cseq,
         sock' = [sock EXCEPT ![s] = k], outq' = [outq EXCEPT ![s] = Append(@, c)],
         k.ctrlSent = sock[s].ctrlSent, k.cseq = sock[s].cseq + 1,
         k.timers = sock[s].timers \cup {sock[s].cseq},
         Aside(s), UNCHANGED acked
  PROVE  HandshakeInv'
<1>1. TypeOK /\ sock[s] \in SocketType /\ outq[s] \in Seq(Carriers)
  BY SocketTypes DEF HandshakeInv
<1>2. TypeOK'
  BY <1>1, StepTypes
<1>3. /\ sock'[s] = k /\ outq'[s] = Append(outq[s], c) /\ sentq'[s] = sentq[s]
      /\ acked'[s] = acked[s] /\ failed'[s] = failed[s]
      /\ Others(s)
  BY <1>1 DEF TypeOK, Others, Aside
<1>4. Ownership(k, Append(outq[s], c), sentq[s], acked[s], failed[s])
  BY <1>1, NewOwnership, InUseNat DEF HandshakeInv
<1> QED
  BY <1>2, <1>3, <1>4, OneSocket

\* A handler that releases the messages D, and may acknowledge.
LEMMA ReleaseInv ==
  ASSUME HandshakeInv, NEW s \in Socks, NEW k \in SocketType,
         k.state = "CONNECT_RCVD" => k.connReq # None,
         NEW D \in SUBSET sock[s].ctrlSent,
         sock' = [sock EXCEPT ![s] = k],
         k.ctrlSent = sock[s].ctrlSent \ D, k.cseq = sock[s].cseq,
         k.timers = sock[s].timers \ {c.seq : c \in D},
         \/ UNCHANGED outq
         \/ \E c \in Carriers : c.discard /\ outq' = [outq EXCEPT ![s] = Append(@, c)],
         Aside(s),
         UNCHANGED acked \/ acked' = [acked EXCEPT ![s] = @ \cup {c.seq : c \in D}]
  PROVE  HandshakeInv'
<1>1. TypeOK /\ sock[s] \in SocketType /\ outq[s] \in Seq(Carriers)
  BY SocketTypes DEF HandshakeInv
<1>2. {c.seq : c \in D} \in SUBSET Nat
  BY <1>1 DEF SocketType, Msgs
<1>3. TypeOK'
  BY <1>1, <1>2, StepTypes
<1>4. /\ sock'[s] = k /\ sentq'[s] = sentq[s] /\ failed'[s] = failed[s]
      /\ Others(s)
      /\ acked'[s] = acked[s] \/ acked'[s] = acked[s] \cup {c.seq : c \in D}
  BY <1>1 DEF TypeOK, Others, Aside
<1>5. Ownership(k, outq[s], sentq[s], acked'[s], failed[s])
  BY <1>1, <1>4, ReleaseOwnership DEF HandshakeInv
<1>6. CASE UNCHANGED outq
  BY <1>3, <1>4, <1>5, <1>6, OneSocket
<1>7. ASSUME NEW c \in Carriers, c.discard, outq' = [outq EXCEPT ![s] = Append(@, c)]
      PROVE  HandshakeInv'
  <2>1. outq'[s] = Append(outq[s], c)
    BY <1>7 DEF HandshakeInv, TypeOK
  <2>2. Ownership(k, Append(outq[s], c), sentq[s], acked'[s], failed[s])
    BY <1>1, <1>5, <1>7, CloneOwnership
  <2> QED
    BY <1>3, <1>4, <2>1, <2>2, OneSocket
<1> QED
  BY <1>6, <1>7

LEMMA ConnectInv ==
  ASSUME HandshakeInv, NEW s \in Socks, NEW d \in Socks, Connect(s, d)
  PROVE  HandshakeInv'
<1> DEFINE k == [sock[s] EXCEPT !.state = "CONNECT_SENT", !.loctrl = "CONNECT_REQUEST",
                                !.bound = TRUE, !.host = d, !.attempts = 1, !.cseq = @ + 1,
                                !.timers = @ \cup {sock[s].cseq}]
           c == [msg |-> prepare_connect(s, d), discard |-> FALSE]
<1>1. TypeOK /\ sock[s] \in SocketType /\ outq[s] \in Seq(Carriers) /\ sock[s].cseq \in Nat
  BY SocketTypes DEF HandshakeInv
<1>2. k \in SocketType /\ k.state # "CONNECT_RCVD"
  <2>1. sock[s].timers \cup {sock[s].cseq} \in SUBSET Nat /\ sock[s].cseq + 1 \in Nat
    BY <1>1 DEF SocketType
  <2> QED
    BY <1>1, <2>1 DEF SocketType, States
<1>3. c \in Carriers /\ ~c.discard /\ c.msg.seq = sock[s].cseq
  <2>1. Rate[s] \in Nat /\ "connect" \in Kinds /\ 0 \in Nat
    BY HandshakeAssumption DEF HandshakeAssumption, Kinds
  <2>2. prepare_connect(s, d) \in Msgs /\ prepare_connect(s, d).seq = sock[s].cseq
    BY <1>1, <2>1 DEF prepare_connect, Message, Msgs
  <2> QED
    BY <2>2, CarrierType
<1>4. /\ sock' = [sock EXCEPT ![s] = k]
      /\ outq' = [outq EXCEPT ![s] = Append(@, c)]
      /\ Aside(s) /\ UNCHANGED acked
  BY DEF Connect, Request, Update, Transmit, Ask, historyVars, Aside
<1>5. /\ k.ctrlSent = sock[s].ctrlSent
      /\ k.cseq = sock[s].cseq + 1
      /\ k.timers = sock[s].timers \cup {sock[s].cseq}
  BY <1>1 DEF SocketType
<1> HIDE DEF k, c
<1> QED
  BY <1>2, <1>3, <1>4, <1>5, NewInv

\* accept() and the CONNECT that it answers, whichever came first.
LEMMA AcceptingInv ==
  ASSUME HandshakeInv, NEW s \in Socks, NEW req \in Msgs, NEW ctrl_ack \in BOOLEAN,
         Update(s, Accepting(s, req)), Transmit(s, prepare_accept(s, req, ctrl_ack), FALSE),
         Aside(s), UNCHANGED acked
  PROVE  HandshakeInv'
<1> DEFINE k == Accepting(s, req)
           c == [msg |-> prepare_accept(s, req, ctrl_ack), discard |-> FALSE]
<1>1. sock[s] \in SocketType /\ sock[s].cseq \in Nat
  BY SocketTypes DEF HandshakeInv
<1>2. Rate[s] \in Nat /\ {"accept", "acceptack"} \subseteq Kinds
  BY HandshakeAssumption DEF HandshakeAssumption, Kinds
<1>3. k \in SocketType /\ k.state # "CONNECT_RCVD"
  <2>1. /\ sock[s].timers \cup {sock[s].cseq} \in SUBSET Nat
        /\ sock[s].cseq + 1 \in Nat /\ sock[s].attempts + 1 \in Nat
    BY <1>1 DEF SocketType
  <2>2. req.src \in Socks /\ Lower(req.rate, Rate[s]) \in Nat
    BY <1>2 DEF Msgs, Lower
  <2> QED
    BY <1>1, <2>1, <2>2 DEF SocketType, States, Accepting
<1>4. c \in Carriers /\ ~c.discard /\ c.msg.seq = sock[s].cseq
  <2>1. prepare_accept(s, req, ctrl_ack) \in Msgs
    BY <1>1, <1>2 DEF prepare_accept, Message, Msgs
  <2>2. prepare_accept(s, req, ctrl_ack).seq = sock[s].cseq
    BY DEF prepare_accept, Message
  <2> QED
    BY <2>1, <2>2, CarrierType
<1>5. /\ k.ctrlSent = sock[s].ctrlSent
      /\ k.cseq = sock[s].cseq + 1
      /\ k.timers = sock[s].timers \cup {sock[s].cseq}
  BY <1>1 DEF SocketType, Accepting
<1>6. sock' = [sock EXCEPT ![s] = k] /\ outq' = [outq EXCEPT ![s] = Append(@, c)]
  BY DEF Update, Transmit
<1> HIDE DEF k, c
<1> QED
  BY <1>3, <1>4, <1>5, <1>6, NewInv

\* The remaining requests of the API.
LEMMA ClientInv ==
  ASSUME HandshakeInv, NEW s \in Socks, Client(s)
  PROVE  HandshakeInv'
<1> USE DEF Request
<1>1. sock[s] \in SocketType /\ sock = [sock EXCEPT ![s] = sock[s]]
      /\ (sock[s].state = "CONNECT_RCVD" => sock[s].connReq \in Msgs \ {None})
  BY SocketTypes, HandshakeAssumption DEF HandshakeInv, TypeOK, HandshakeAssumption
<1>2. ASSUME NEW d \in Socks \ {s}, Connect(s, d)  PROVE HandshakeInv'
  BY <1>2, ConnectInv
<1>3. ASSUME UNCHANGED <<sock, outq, acked>>, Aside(s)  PROVE HandshakeInv'
  BY <1>1, <1>3, PlainInv
<1>4. CASE Bind(s)
  <2> DEFINE k == [sock[s] EXCEPT !.bound = TRUE]
  <2>1. Aside(s) /\ UNCHANGED <<outq, acked>>
    BY <1>4 DEF Bind, Aside, historyVars
  <2>2. CASE UNCHANGED sock
    BY <1>3, <2>1, <2>2
  <2>3. CASE Update(s, k)
    <3>1. /\ k \in SocketType /\ k.state = sock[s].state /\ k.connReq = sock[s].connReq
          /\ k.ctrlSent = sock[s].ctrlSent /\ k.cseq = sock[s].cseq
          /\ k.timers = sock[s].timers
      BY <1>1 DEF SocketType
    <3>2. sock' = [sock EXCEPT ![s] = k]
      BY <2>3 DEF Update
    <3> HIDE DEF k
    <3> QED
      BY <1>1, <2>1, <3>1, <3>2, PlainInv
  <2> QED
    BY <1>4, <2>2, <2>3 DEF Bind
<1>5. CASE Listen(s)
  <2> DEFINE k == [sock[s] EXCEPT !.state = "LISTEN"]
  <2>1. Aside(s) /\ UNCHANGED <<outq, acked>>
    BY <1>5 DEF Listen, Aside, historyVars
  <2>2. CASE UNCHANGED sock
    BY <1>3, <2>1, <2>2
  <2>3. CASE Update(s, k)
    <3>1. /\ k \in SocketType /\ k.state # "CONNECT_RCVD"
          /\ k.ctrlSent = sock[s].ctrlSent /\ k.cseq = sock[s].cseq
          /\ k.timers = sock[s].timers
      BY <1>1 DEF SocketType, States
    <3>2. sock' = [sock EXCEPT ![s] = k]
      BY <2>3 DEF Update
    <3> HIDE DEF k
    <3> QED
      BY <1>1, <2>1, <3>1, <3>2, PlainInv
  <2> QED
    BY <1>5, <2>2, <2>3 DEF Listen
<1>6. CASE AcceptListening(s)
  <2> DEFINE k == [sock[s] EXCEPT !.loctrl = "ACCEPT_REQUEST"]
  <2>1. Aside(s) /\ UNCHANGED <<outq, acked>>
    BY <1>6 DEF AcceptListening, Aside, historyVars, Ask
  <2>2. /\ k \in SocketType /\ k.state = sock[s].state /\ k.connReq = sock[s].connReq
        /\ k.ctrlSent = sock[s].ctrlSent /\ k.cseq = sock[s].cseq
        /\ k.timers = sock[s].timers
    BY <1>1 DEF SocketType
  <2>3. sock' = [sock EXCEPT ![s] = k]
    BY <1>6 DEF AcceptListening, Update
  <2> HIDE DEF k
  <2> QED
    BY <1>1, <2>1, <2>2, <2>3, PlainInv
<1>7. CASE AcceptPending(s)
  <2>1. Aside(s) /\ UNCHANGED acked
    BY <1>7 DEF AcceptPending, Aside, historyVars, Ask
  <2>2. sock[s].connReq \in Msgs
    BY <1>1, <1>7 DEF AcceptPending
  <2> QED
    BY <1>7, <2>1, <2>2, AcceptingInv DEF AcceptPending
<1>8. CASE AcceptRefused(s)
  BY <1>3, <1>8 DEF AcceptRefused, Aside, historyVars, Ask
<1> QED
  BY <1>2, <1>4, <1>5, <1>6, <1>7, <1>8 DEF Client

\* prepare_ctrl_ack(), sent with DISCARD_TRUE.
LEMMA CtrlAckType ==
  ASSUME NEW s \in Socks, NEW m \in Msgs
  PROVE  LET c == [msg |-> prepare_ctrl_ack(s, m), discard |-> TRUE]
         IN c \in Carriers /\ c.discard
<1>1. prepare_ctrl_ack(s, m) \in Msgs
  BY DEF prepare_ctrl_ack, Message, Msgs, Kinds
<1> QED
  BY <1>1, CarrierType

LEMMA ReleaseType ==
  ASSUME NEW k \in SocketType, NEW D \in SUBSET k.ctrlSent
  PROVE  LET r == Release(k, D) IN
         /\ r \in SocketType
         /\ r.ctrlSent = k.ctrlSent \ D /\ r.cseq = k.cseq
         /\ r.timers = k.timers \ {c.seq : c \in D}
         /\ r.state = k.state /\ r.connReq = k.connReq
<1> DEFINE r == Release(k, D)
<1>1. k.ctrlSent \ D \in SUBSET Msgs /\ k.timers \ {c.seq : c \in D} \in SUBSET Nat
  BY DEF SocketType
<1>2. r \in SocketType
  BY <1>1 DEF SocketType, Release
<1>3. /\ r.ctrlSent = k.ctrlSent \ D /\ r.cseq = k.cseq
      /\ r.timers = k.timers \ {c.seq : c \in D}
      /\ r.state = k.state /\ r.connReq = k.connReq
  BY DEF SocketType, Release
<1> QED
  BY <1>2, <1>3

\* do_process_input()
LEMMA ReceiveInv ==
  ASSUME HandshakeInv, NEW s \in Socks, NEW m \in net, Receive(s, m)
  PROVE  HandshakeInv'
<1> DEFINE D == Acknowledged(s, m)
           r == Release(sock[s], D)
           a == [msg |-> prepare_ctrl_ack(s, m), discard |-> TRUE]
<1>1. /\ sock[s] \in SocketType /\ sock = [sock EXCEPT ![s] = sock[s]]
      /\ sock[s].state = "CONNECT_RCVD" => sock[s].connReq \in Msgs \ {None}
  BY SocketTypes, HandshakeAssumption DEF HandshakeInv, TypeOK, HandshakeAssumption
<1>2. m \in Msgs /\ m # None
  BY HandshakeAssumption DEF HandshakeInv, TypeOK, HandshakeAssumption
<1>3. a \in Carriers /\ a.discard
  BY <1>2, CtrlAckType
<1>4. D \in SUBSET sock[s].ctrlSent
  BY DEF Acknowledged
<1>5. /\ r \in SocketType
      /\ r.ctrlSent = sock[s].ctrlSent \ D /\ r.cseq = sock[s].cseq
      /\ r.timers = sock[s].timers \ {c.seq : c \in D}
      /\ r.state = sock[s].state /\ r.connReq = sock[s].connReq
  BY <1>1, <1>4, ReleaseType
<1> HIDE DEF D, r, a
<1>6. CASE ReceiveConnectAck(s, m)
  <2>1. Aside(s) /\ UNCHANGED outq
    BY <1>6 DEF ReceiveConnectAck, Deliver, Aside, clientVars
  <2>2. sock' = [sock EXCEPT ![s] = r] /\ acked' = [acked EXCEPT ![s] = @ \cup {c.seq : c \in D}]
    BY <1>6 DEF ReceiveConnectAck, Update, NoteAck, D, r
  <2> QED
    BY <1>1, <1>4, <1>5, <2>1, <2>2, ReleaseInv
<1>7. CASE ReceiveAccept(s, m)
  <2> DEFINE k == [r EXCEPT !.committed = m.rate, !.state = "ESTABLISHED"]
  <2>1. Aside(s)
    BY <1>7 DEF ReceiveAccept, Deliver, Aside, Reply
  <2>2. /\ sock' = [sock EXCEPT ![s] = k]
        /\ acked' = [acked EXCEPT ![s] = @ \cup {c.seq : c \in D}]
        /\ outq' = [outq EXCEPT ![s] = Append(@, a)]
    BY <1>7 DEF ReceiveAccept, Update, NoteAck, Transmit, D, r, a
  <2>3. m.rate \in Nat
    BY <1>2 DEF Msgs
  <2>4. /\ k \in SocketType /\ k.state # "CONNECT_RCVD"
        /\ k.ctrlSent = r.ctrlSent /\ k.cseq = r.cseq /\ k.timers = r.timers
    BY <1>5, <2>3 DEF SocketType, States
  <2> HIDE DEF k
  <2> QED
    BY <1>1, <1>3, <1>4, <1>5, <2>1, <2>2, <2>4, ReleaseInv
<1>8. CASE ReceiveConnectAccepting(s, m)
  <2>1. Aside(s) /\ UNCHANGED acked
    BY <1>8 DEF ReceiveConnectAccepting, Deliver, Aside, clientVars, historyVars
  <2> QED
    BY <1>2, <1>8, <2>1, AcceptingInv DEF ReceiveConnectAccepting
<1>9. CASE ReceiveConnectEarly(s, m)
  <2> DEFINE k == [sock[s] EXCEPT !.state = "CONNECT_RCVD", !.connReq = m]
  <2>1. Aside(s) /\ UNCHANGED acked
    BY <1>9 DEF ReceiveConnectEarly, Deliver, Aside, clientVars, historyVars
  <2>2. sock' = [sock EXCEPT ![s] = k] /\ outq' = [outq EXCEPT ![s] = Append(@, a)]
    BY <1>9 DEF ReceiveConnectEarly, Update, Transmit, a
  <2>3. /\ k \in SocketType /\ k.connReq = m
        /\ k.ctrlSent = sock[s].ctrlSent /\ k.cseq = sock[s].cseq
        /\ k.timers = sock[s].timers
    BY <1>1, <1>2 DEF SocketType, States
  <2> HIDE DEF k
  <2> QED
    BY <1>2, <1>3, <2>1, <2>2, <2>3, PlainInv
<1>10. CASE ReceiveAcceptAck(s, m)
  <2> DEFINE k == [r EXCEPT !.state = "ESTABLISHED"]
  <2>1. Aside(s) /\ UNCHANGED outq
    BY <1>10 DEF ReceiveAcceptAck, Deliver, Aside, Reply
  <2>2. sock' = [sock EXCEPT ![s] = k] /\ acked' = [acked EXCEPT ![s] = @ \cup {c.seq : c \in D}]
    BY <1>10 DEF ReceiveAcceptAck, Update, NoteAck, D, r
  <2>3. /\ k \in SocketType /\ k.state # "CONNECT_RCVD"
        /\ k.ctrlSent = r.ctrlSent /\ k.cseq = r.cseq /\ k.timers = r.timers
    BY <1>5 DEF SocketType, States
  <2> HIDE DEF k
  <2> QED
    BY <1>4, <1>5, <2>1, <2>2, <2>3, ReleaseInv
<1>11. CASE ReceiveUnexpected(s, m)
  <2>1. Aside(s) /\ UNCHANGED <<sock, outq, acked>>
    BY <1>11 DEF ReceiveUnexpected, Deliver, Aside, clientVars, historyVars
  <2> QED
    BY <1>1, <2>1, PlainInv
<1> QED
  BY <1>6, <1>7, <1>8, <1>9, <1>10, <1>11 DEF Receive

\* The output thread.
LEMMA SendInv ==
  ASSUME HandshakeInv, NEW s \in Socks, Send(s)
  PROVE  HandshakeInv'
<1> DEFINE c == Head(outq[s])
<1>1. /\ TypeOK /\ sock[s] \in SocketType
      /\ outq[s] \in Seq(Carriers) /\ sentq[s] \in Seq(ReturnedCarriers)
      /\ Ownership(sock[s], outq[s], sentq[s], acked[s], failed[s])
  BY SocketTypes DEF HandshakeInv
<1>2. outq[s] # <<>> /\ outq' = [outq EXCEPT ![s] = Tail(@)] /\ c \in Carriers
  BY <1>1 DEF Send
<1>3. UNCHANGED <<sock, open, owed, requests, acked, failed, losses>>
  BY DEF Send, clientVars, historyVars
<1>4. /\ outq' \in [Socks -> Seq(Carriers)]
      /\ \A t \in Socks \ {s} : outq'[t] = outq[t]
      /\ outq'[s] = Tail(outq[s])
  <2>1. outq \in [Socks -> Seq(Carriers)] /\ Tail(outq[s]) \in Seq(Carriers)
    BY <1>1, <1>2 DEF TypeOK, Carriers
  <2> QED
    BY <1>2, <2>1
<1> HIDE DEF c
<1>5. ASSUME NEW sent \in BOOLEAN, sent => ~c.discard,
             sentq' = [sentq EXCEPT ![s] = Append(@, Returned(c, sent))], net' \subseteq Msgs
      PROVE  HandshakeInv'
  <2>1. Returned(c, sent) \in ReturnedCarriers
    BY <1>2 DEF Carriers, ReturnedCarriers, Returned
  <2>2. Append(sentq[s], Returned(c, sent)) \in Seq(ReturnedCarriers)
    BY <1>1, <2>1
  <2>3. sentq' \in [Socks -> Seq(ReturnedCarriers)]
    BY <1>1, <1>5, <2>2 DEF TypeOK, ReturnedCarriers
  <2>4. TypeOK'
    BY <1>1, <1>3, <1>4, <1>5, <2>3 DEF TypeOK, Carriers, ReturnedCarriers
  <2>5. sentq'[s] = Append(sentq[s], Returned(c, sent)) /\ Others(s)
    BY <1>1, <1>3, <1>4, <1>5 DEF TypeOK, Others
  <2>6. Ownership(sock[s], Tail(outq[s]), Append(sentq[s], Returned(c, sent)), acked[s], failed[s])
    BY <1>1, <1>2, <1>5, SendOwnership DEF c
  <2> QED
    BY <1>3, <1>4, <2>4, <2>5, <2>6, OneSocket
<1>6. ASSUME c.discard, UNCHANGED sentq, net' \subseteq Msgs
      PROVE  HandshakeInv'
  <2>1. TypeOK'
    BY <1>1, <1>3, <1>4, <1>6 DEF TypeOK, Carriers
  <2>2. Others(s)
    BY <1>3, <1>4, <1>6 DEF Others
  <2>3. Ownership(sock[s], Tail(outq[s]), sentq[s], acked[s], failed[s])
    BY <1>1, <1>2, <1>6, DropOwnership DEF c
  <2> QED
    BY <1>3, <1>4, <1>6, <2>1, <2>2, <2>3, OneSocket
<1>7. net' \subseteq Msgs
  BY <1>1, <1>2 DEF Send, TypeOK, Carriers, c
<1>8. c.discard \in BOOLEAN
  BY <1>2 DEF Carriers
<1>9. \/ sentq' = sentq /\ c.discard
      \/ sentq' = [sentq EXCEPT ![s] = Append(@, Returned(c, TRUE))] /\ ~c.discard
      \/ sentq' = [sentq EXCEPT ![s] = Append(@, Returned(c, FALSE))]
  BY <1>8 DEF Send, c
<1> QED
  BY <1>5, <1>6, <1>7, <1>9

\* do_socket_error_response() keeps the messages of the socket.
LEMMA ErrorType ==
  ASSUME NEW s \in Socks, NEW k \in SocketType, ErrorResponse(s, k)
  PROVE  \E k2 \in SocketType :
           /\ sock' = [sock EXCEPT ![s] = k2]
           /\ k2.ctrlSent = k.ctrlSent /\ k2.cseq = k.cseq /\ k2.timers = k.timers
           /\ k2 = k \/ k2.state = "CLOSE"
           /\ UNCHANGED open \/ open' = [open EXCEPT ![s] = FALSE]
           /\ UNCHANGED owed \/ owed' = [owed EXCEPT ![s] = @ - 1]
<1> DEFINE k2 == [k EXCEPT !.state = "CLOSE", !.loctrl = "NONE"]
<1>1. CASE k.state = "CONNECT_SENT"
  <2>1. /\ sock' = [sock EXCEPT ![s] = k2]
        /\ open' = [open EXCEPT ![s] = FALSE]
        /\ owed' = [owed EXCEPT ![s] = @ - 1]
    BY <1>1 DEF ErrorResponse, Update, Reply
  <2>2. k2 \in SocketType /\ k2.state = "CLOSE"
        /\ k2.ctrlSent = k.ctrlSent /\ k2.cseq = k.cseq /\ k2.timers = k.timers
    BY DEF SocketType, States
  <2> HIDE DEF k2
  <2> QED
    BY <2>1, <2>2
<1>2. CASE k.state # "CONNECT_SENT"
  BY <1>2 DEF ErrorResponse, Update
<1> QED
  BY <1>1, <1>2

\* do_process_sent_msg()
LEMMA SentInv ==
  ASSUME HandshakeInv, NEW s \in Socks, SentSuccess(s) \/ SentError(s)
  PROVE  HandshakeInv'
<1> DEFINE c == Head(sentq[s])
<1>1. /\ TypeOK /\ sock[s] \in SocketType /\ sentq[s] \in Seq(ReturnedCarriers)
      /\ sock[s].state = "CONNECT_RCVD" => sock[s].connReq # None
      /\ Ownership(sock[s], outq[s], sentq[s], acked[s], failed[s])
  BY SocketTypes DEF HandshakeInv, TypeOK
<1>2. /\ sentq[s] # <<>> /\ sentq' = [sentq EXCEPT ![s] = Tail(@)]
      /\ UNCHANGED <<outq, net, requests, acked, losses>>
  BY DEF SentSuccess, SentError, clientVars, historyVars
<1>3. c \in ReturnedCarriers
  BY <1>1, <1>2
<1>4. c.msg \in Msgs /\ c.msg.seq \in Nat
  BY <1>3 DEF ReturnedCarriers, Msgs
<1>5. /\ sentq' \in [Socks -> Seq(ReturnedCarriers)]
      /\ \A t \in Socks \ {s} : sentq'[t] = sentq[t]
      /\ sentq'[s] = Tail(sentq[s])
  <2>1. sentq \in [Socks -> Seq(ReturnedCarriers)] /\ Tail(sentq[s]) \in Seq(ReturnedCarriers)
    BY <1>1, <1>2 DEF TypeOK, ReturnedCarriers
  <2> QED
    BY <1>2, <2>1
<1> HIDE DEF c
<1>6. CASE SentSuccess(s)
  <2> DEFINE k == [sock[s] EXCEPT !.ctrlSent = @ \cup {c.msg}]
  <2>1. c.sent /\ sock' = [sock EXCEPT ![s] = k] /\ UNCHANGED <<open, owed, failed>>
    BY <1>6 DEF SentSuccess, Update, clientVars, historyVars, c
  <2>2. sock[s].ctrlSent \cup {c.msg} \in SUBSET Msgs
    BY <1>1, <1>4 DEF SocketType
  <2>3. /\ k \in SocketType /\ k.state = sock[s].state /\ k.connReq = sock[s].connReq
        /\ k.ctrlSent = sock[s].ctrlSent \cup {c.msg} /\ k.cseq = sock[s].cseq
        /\ k.timers = sock[s].timers
    BY <1>1, <2>2 DEF SocketType
  <2> HIDE DEF k
  <2>4. TypeOK'
    BY <1>1, <1>2, <1>5, <2>1, <2>3 DEF TypeOK, ReturnedCarriers
  <2>5. sock'[s] = k /\ outq'[s] = outq[s] /\ acked'[s] = acked[s] /\ failed'[s] = failed[s]
        /\ Others(s)
    BY <1>1, <1>2, <1>5, <2>1 DEF TypeOK, Others
  <2>6. Ownership(k, outq[s], Tail(sentq[s]), acked[s], failed[s])
    BY <1>1, <1>2, <2>1, <2>3, SuccessOwnership DEF c
  <2> QED
    BY <1>5, <2>4, <2>5, <2>6, OneSocket
<1>7. CASE SentError(s)
  <2>1. PICK k \in SocketType :
          /\ sock' = [sock EXCEPT ![s] = k]
          /\ k.ctrlSent = sock[s].ctrlSent /\ k.cseq = sock[s].cseq /\ k.timers = sock[s].timers
          /\ k = sock[s] \/ k.state = "CLOSE"
          /\ UNCHANGED open \/ open' = [open EXCEPT ![s] = FALSE]
          /\ UNCHANGED owed \/ owed' = [owed EXCEPT ![s] = @ - 1]
    BY <1>1, <1>7, ErrorType DEF SentError
  <2> DEFINE g == IF c.discard THEN failed[s] ELSE failed[s] \cup {c.msg.seq}
  <2>2. g \in SUBSET Nat
    BY <1>1, <1>4 DEF TypeOK
  <2>3. failed' = [failed EXCEPT ![s] = g]
    BY <1>1, <1>7 DEF SentError, TypeOK, c
  <2>4. owed' \in [Socks -> Int] /\ open' \in [Socks -> BOOLEAN]
    <3>1. owed \in [Socks -> Int] /\ open \in [Socks -> BOOLEAN]
      BY <1>1 DEF TypeOK
    <3>2. open' \in [Socks -> BOOLEAN]
      BY <2>1, <3>1
    <3>3. owed' \in [Socks -> Int]
      BY <2>1, <3>1
    <3> QED
      BY <3>2, <3>3
  <2> HIDE DEF g
  <2>5. sock'[s] = k /\ failed'[s] = g /\ outq'[s] = outq[s] /\ acked'[s] = acked[s] /\ Others(s)
    BY <1>1, <1>2, <1>5, <2>1, <2>3 DEF TypeOK, Others
  <2>6. sock' \in [Socks -> SocketType] /\ failed' \in [Socks -> SUBSET Nat]
    BY <1>1, <2>1, <2>2, <2>3 DEF TypeOK
  <2>7. \A t \in Socks : sock'[t].state = "CONNECT_RCVD" => sock'[t].connReq # None
    BY <1>1, <2>1, <2>5 DEF TypeOK, Others
  <2>8. TypeOK'
    BY <1>1, <1>2, <1>5, <2>4, <2>6, <2>7 DEF TypeOK, ReturnedCarriers
  <2>9. Ownership(k, outq[s], sentq[s], acked[s], failed[s])
    BY <1>1, <2>1, KeepOwnership
  <2>10. Ownership(k, outq[s], Tail(sentq[s]), acked[s], g)
    BY <1>1, <1>2, <2>9, ErrorOwnership DEF g, c
  <2> QED
    BY <1>5, <2>5, <2>8, <2>10, OneSocket
<1> QED
  BY <1>6, <1>7

\* do_process_expired()
LEMMA ExpireInv ==
  ASSUME HandshakeInv, NEW s \in Socks, NEW q \in sock[s].timers, Expire(s, q)
  PROVE  HandshakeInv'
<1>1. /\ sock[s] \in SocketType
      /\ sock[s].state = "CONNECT_RCVD" => sock[s].connReq # None
  BY SocketTypes DEF HandshakeInv, TypeOK
<1>2. UNCHANGED <<sentq, net, acked, failed, losses>>
  BY DEF Expire, historyVars
<1>3. CASE ExpireUnknown(s, q)
  <2> DEFINE k == [sock[s] EXCEPT !.timers = @ \ {q}]
  <2>1. sock' = [sock EXCEPT ![s] = k] /\ UNCHANGED outq /\ Aside(s)
    BY <1>2, <1>3 DEF ExpireUnknown, Update, Aside, clientVars
  <2>2. sock[s].timers \ {q} \in SUBSET Nat
    BY <1>1 DEF SocketType
  <2>3. /\ k \in SocketType /\ k.state = sock[s].state /\ k.connReq = sock[s].connReq
        /\ k.ctrlSent = sock[s].ctrlSent /\ k.cseq = sock[s].cseq
        /\ k.timers \subseteq sock[s].timers
    BY <1>1, <2>2 DEF SocketType
  <2> HIDE DEF k
  <2> QED
    BY <1>1, <1>2, <2>1, <2>3, PlainInv
<1>4. CASE ExpireRetry(s, q)
  <2> DEFINE k == [sock[s] EXCEPT !.attempts = @ + 1]
  <2>1. PICK m \in Expired(s, q) : Update(s, k) /\ Transmit(s, m, TRUE) /\ UNCHANGED clientVars
    BY <1>4 DEF ExpireRetry
  <2>2. [msg |-> m, discard |-> TRUE] \in Carriers
    BY <1>1, <2>1, CarrierType DEF Expired, SocketType
  <2>3. /\ sock' = [sock EXCEPT ![s] = k] /\ Aside(s)
        /\ \E c \in Carriers : c.discard /\ outq' = [outq EXCEPT ![s] = Append(@, c)]
    BY <1>2, <2>1, <2>2 DEF Update, Transmit, Aside, clientVars
  <2>4. /\ k \in SocketType /\ k.state = sock[s].state /\ k.connReq = sock[s].connReq
        /\ k.ctrlSent = sock[s].ctrlSent /\ k.cseq = sock[s].cseq
        /\ k.timers = sock[s].timers
    BY <1>1 DEF SocketType
  <2> HIDE DEF k
  <2> QED
    BY <1>1, <1>2, <2>3, <2>4, PlainInv
<1>5. CASE ExpireGiveUp(s, q)
  <2>1. PICK m \in Expired(s, q) :
          ErrorResponse(s, Release(sock[s], {m})) /\ UNCHANGED <<outq, requests>>
    BY <1>5 DEF ExpireGiveUp
  <2> DEFINE D == {m}
             r == Release(sock[s], D)
  <2>2. D \in SUBSET sock[s].ctrlSent
    BY <2>1 DEF Expired
  <2>3. /\ r \in SocketType
        /\ r.ctrlSent = sock[s].ctrlSent \ D /\ r.cseq = sock[s].cseq
        /\ r.timers = sock[s].timers \ {c.seq : c \in D}
        /\ r.state = sock[s].state /\ r.connReq = sock[s].connReq
    BY <1>1, <2>2, ReleaseType
  <2>4. ErrorResponse(s, r)
    BY <2>1
  <2> HIDE DEF r, D
  <2>5. PICK k \in SocketType :
          /\ sock' = [sock EXCEPT ![s] = k]
          /\ k.ctrlSent = r.ctrlSent /\ k.cseq = r.cseq /\ k.timers = r.timers
          /\ k = r \/ k.state = "CLOSE"
          /\ UNCHANGED open \/ open' = [open EXCEPT ![s] = FALSE]
          /\ UNCHANGED owed \/ owed' = [owed EXCEPT ![s] = @ - 1]
    BY <2>3, <2>4, ErrorType
  <2>6. Aside(s)
    BY <1>2, <2>1, <2>5 DEF Aside
  <2> QED
    BY <1>1, <1>2, <2>1, <2>2, <2>3, <2>5, <2>6, ReleaseInv
<1> QED
  BY <1>3, <1>4, <1>5 DEF Expire

LEMMA LoseInv ==
  ASSUME HandshakeInv, NEW m \in net, Lose(m)
  PROVE  HandshakeInv'
<1>1. losses' \in 0 .. MaxLosses /\ net' \subseteq net
  BY HandshakeAssumption DEF Lose, HandshakeInv, TypeOK, HandshakeAssumption
<1>2. UNCHANGED <<sock, outq, sentq, open, owed, requests, acked, failed>>
  BY DEF Lose, clientVars, historyVars
<1> QED
  BY <1>1, <1>2 DEF HandshakeInv, TypeOK

LEMMA NextInv == HandshakeInv /\ [Next]_vars => HandshakeInv'
<1> SUFFICES ASSUME HandshakeInv, [Next]_vars  PROVE HandshakeInv'
  OBVIOUS
<1>1. CASE Network
  BY <1>1, LoseInv, ReceiveInv DEF Network
<1>2. ASSUME NEW s \in Socks, Client(s)  PROVE HandshakeInv'
  BY <1>2, ClientInv
<1>3. ASSUME NEW s \in Socks, Daemon(s)  PROVE HandshakeInv'
  BY <1>3, SendInv, SentInv, ExpireInv DEF Daemon
<1>4. CASE UNCHANGED vars
  BY <1>4 DEF vars, HandshakeInv, TypeOK
<1> QED
  BY <1>1, <1>2, <1>3, <1>4 DEF Next

LEMMA InvAlways == Spec => []HandshakeInv
<1>1. Init => HandshakeInv
  BY InitOwnership, HandshakeAssumption
<1> QED
  BY <1>1, NextInv, PTL DEF Spec

\* struct sock and the queues keep their types, and a socket in GV_CONNECT_RCVD
\* has the request that accept() will answer, for any number of sockets.
THEOREM HandshakeTypeCorrect == Spec => []TypeOK
<1>1. HandshakeInv => TypeOK
  BY DEF HandshakeInv
<1> QED
  BY <1>1, InvAlways, PTL

\* No control message is freed twice or lost from sight while a retry, a late
\* acknowledgement, a failed transmission and several threads of a program
\* compete for it.
THEOREM OwnershipCorrect == Spec => []OwnedOnce
<1>1. HandshakeInv => OwnedOnce
  BY InvImplies
<1> QED
  BY <1>1, InvAlways, PTL

\* No timer points at a message that was released.
THEOREM TimersCorrect == Spec => []TimersHaveMessages
<1>1. HandshakeInv => TimersHaveMessages
  BY InvImplies
<1> QED
  BY <1>1, InvAlways, PTL
-----------------------------------------------------------------------------
(* The handshake implements the rendezvous.  The invariant says of every    *)
(* message that is anywhere, in a queue, in the network or kept by a        *)
(* socket, what it proves of its two sockets; none of that can be undone,   *)
(* so that losses, copies and delays do not matter, nor sequence numbers.   *)

RP == INSTANCE RendezvousProofs WITH phase <- phases, peer <- hosts

Meant(m) ==
  /\ m.kind = "connect" => RP!HasCalled(m.src, m.dst)
  /\ IsAccept(m) => RP!HasPromised(m.src, m.dst)
  /\ m.kind = "ctrlack" => RP!HasOpened(m.src, m.dst) \/ RP!HasCalled(m.dst, m.src)

Carried(q) == {q[i].msg : i \in DOMAIN q}
MessagesOf(k, o, q) == Carried(o) \cup Carried(q) \cup k.ctrlSent \cup ({k.connReq} \ {None})

\* For one socket s, its record k, whether its so_loctrl is open, the replies that
\* are due and the requests that were made: a socket that gave up makes no further
\* request, one that nobody used is as new, and somebody waits for the reply
\* that a state promises.
Sound(s, k, isOpen, due, n) ==
  /\ k.state = "CLOSE" => k.loctrl = "NONE" /\ (k.host = None \/ ~isOpen)
  /\ n = 0 => k.state = "CLOSE"
  /\ k.connReq # None => k.connReq.kind = "connect" /\ k.connReq.dst = s
  /\ due >= 0
  /\ \/ k.state \in {"CONNECT_SENT", "ACCEPT_SENT"}
     \/ k.state = "LISTEN" /\ k.loctrl = "ACCEPT_REQUEST"
     => due > 0

EngagedInv ==
  /\ HandshakeInv
  /\ RP!RendezvousInv
  /\ \A s \in Socks : Sound(s, sock[s], open[s], owed[s], requests[s])
  /\ \A m \in net : Meant(m)
  /\ \A s \in Socks : \A m \in MessagesOf(sock[s], outq[s], sentq[s]) : Meant(m)

\* A step of the rendezvous, or none, and one that keeps the invariant.
Engage == [RP!RendezvousNext]_<<phases, hosts>>
EngagedStep == Engage /\ EngagedInv'

LEMMA SomeNone == RP!NoneIsNoSocket
  BY HandshakeAssumption DEF HandshakeAssumption, RP!NoneIsNoSocket

LEMMA MessageTypes ==
  ASSUME TypeOK
  PROVE  /\ net \subseteq Msgs
         /\ \A s \in Socks : MessagesOf(sock[s], outq[s], sentq[s]) \subseteq Msgs
<1> SUFFICES ASSUME NEW s \in Socks  PROVE MessagesOf(sock[s], outq[s], sentq[s]) \subseteq Msgs
  BY DEF TypeOK
<1>1. outq[s] \in Seq(Carriers) /\ sentq[s] \in Seq(ReturnedCarriers) /\ sock[s] \in SocketType
  BY SocketTypes
<1>2. Carried(outq[s]) \subseteq Msgs
  <2>1. \A i \in DOMAIN outq[s] : outq[s][i] \in Carriers
    BY <1>1
  <2> QED
    BY <2>1 DEF Carriers, Carried
<1>3. Carried(sentq[s]) \subseteq Msgs
  <2>1. \A i \in DOMAIN sentq[s] : sentq[s][i] \in ReturnedCarriers
    BY <1>1
  <2> QED
    BY <2>1 DEF ReturnedCarriers, Carried
<1> QED
  BY <1>1, <1>2, <1>3 DEF MessagesOf, SocketType

LEMMA AppendCarried ==
  ASSUME NEW S, NEW q \in Seq(S), NEW c
  PROVE  Carried(Append(q, c)) = Carried(q) \cup {c.msg}
<1> DEFINE p == Append(q, c)
<1>1. /\ DOMAIN p = DOMAIN q \cup {Len(q) + 1}
      /\ p[Len(q) + 1] = c
      /\ \A i \in DOMAIN q : p[i] = q[i]
  OBVIOUS
<1> HIDE DEF p
<1>2. Carried(p) = Carried(q) \cup {c.msg}
  BY <1>1 DEF Carried
<1> QED
  BY <1>2 DEF p

LEMMA TailCarried ==
  ASSUME NEW S, NEW q \in Seq(S), q # <<>>
  PROVE  Carried(Tail(q)) \subseteq Carried(q) /\ Head(q).msg \in Carried(q)
<1> DEFINE p == Tail(q)
<1>1. /\ 1 \in DOMAIN q /\ Head(q) = q[1]
      /\ \A i \in DOMAIN p : i + 1 \in DOMAIN q /\ p[i] = q[i + 1]
  OBVIOUS
<1> HIDE DEF p
<1>2. Carried(p) \subseteq Carried(q) /\ Head(q).msg \in Carried(q)
  BY <1>1 DEF Carried
<1> QED
  BY <1>2 DEF p

LEMMA MeantLasts ==
  ASSUME EngagedInv, Engage, NEW m \in Msgs, Meant(m)
  PROVE  Meant(m)'
<1>1. m.src \in Socks /\ m.dst \in Socks
  BY DEF Msgs
<1>2. \A s, d \in Socks : /\ RP!HasCalled(s, d) => RP!HasCalled(s, d)'
                          /\ RP!HasPromised(s, d) => RP!HasPromised(s, d)'
                          /\ RP!HasOpened(s, d) => RP!HasOpened(s, d)'
  BY SomeNone, RP!Lasting DEF EngagedInv, Engage
<1> QED
  BY <1>1, <1>2 DEF Meant

\* What an update of one socket is in the rendezvous.
LEMMA PhaseUpdate ==
  ASSUME TypeOK, NEW s \in Socks, NEW k \in SocketType, sock' = [sock EXCEPT ![s] = k]
  PROVE  /\ phases' = [phases EXCEPT ![s] = Phase(k)]
         /\ hosts' = [hosts EXCEPT ![s] = k.host]
         /\ Phase(k) = phases[s] /\ k.host = hosts[s] => UNCHANGED <<phases, hosts>>
<1>1. sock'[s] = k /\ \A t \in Socks \ {s} : sock'[t] = sock[t]
  BY DEF TypeOK
<1>2. phases' = [phases EXCEPT ![s] = Phase(k)]
  <2>1. phases' = [t \in Socks |-> IF t = s THEN Phase(k) ELSE phases[t]]
    BY <1>1 DEF phases
  <2> QED
    BY <2>1 DEF phases
<1>3. hosts' = [hosts EXCEPT ![s] = k.host]
  <2>1. hosts' = [t \in Socks |-> IF t = s THEN k.host ELSE hosts[t]]
    BY <1>1 DEF hosts
  <2> QED
    BY <2>1 DEF hosts
<1>4. phases = [phases EXCEPT ![s] = phases[s]] /\ hosts = [hosts EXCEPT ![s] = hosts[s]]
  BY DEF phases, hosts
<1> QED
  BY <1>2, <1>3, <1>4

LEMMA Quiet ==
  ASSUME TypeOK, NEW s \in Socks, NEW k \in SocketType, sock' = [sock EXCEPT ![s] = k],
         Phase(k) = Phase(sock[s]), k.host = sock[s].host
  PROVE  Engage
<1>1. phases[s] = Phase(sock[s]) /\ hosts[s] = sock[s].host
  BY DEF phases, hosts
<1> QED
  BY <1>1, PhaseUpdate DEF Engage

\* A step of socket s that brings no message but such as are true.
LEMMA StepEngaged ==
  ASSUME EngagedInv, HandshakeInv', Engage, NEW s \in Socks,
         \A t \in Socks \ {s} :
           /\ sock'[t] = sock[t] /\ outq'[t] = outq[t] /\ sentq'[t] = sentq[t]
           /\ open'[t] = open[t] /\ owed'[t] = owed[t] /\ requests'[t] = requests[t],
         \A m \in net' \cup MessagesOf(sock'[s], outq'[s], sentq'[s]) :
           m \in net \cup MessagesOf(sock[s], outq[s], sentq[s]) \/ Meant(m)',
         Sound(s, sock'[s], open'[s], owed'[s], requests'[s])
  PROVE  EngagedStep
<1>1. RP!RendezvousInv'
  BY SomeNone, RP!RendezvousStep DEF EngagedInv, Engage
<1>2. \A t \in Socks : Sound(t, sock[t], open[t], owed[t], requests[t])'
  BY DEF EngagedInv
<1>3. \A m \in net : Meant(m)'
  BY MeantLasts, MessageTypes DEF EngagedInv, HandshakeInv
<1>4. \A t \in Socks : \A m \in MessagesOf(sock[t], outq[t], sentq[t]) : Meant(m)'
  BY MeantLasts, MessageTypes DEF EngagedInv, HandshakeInv
<1>5. \A m \in net' : Meant(m)'
  BY <1>3, <1>4
<1>6. \A t \in Socks : \A m \in MessagesOf(sock'[t], outq'[t], sentq'[t]) : Meant(m)'
  BY <1>3, <1>4
<1> QED
  BY <1>1, <1>2, <1>5, <1>6 DEF EngagedInv, EngagedStep

\* A handler that updates the socket s and may transmit.
LEMMA HandlerEngaged ==
  ASSUME EngagedInv, HandshakeInv', Engage, NEW s \in Socks, NEW k \in SocketType,
         sock' = [sock EXCEPT ![s] = k], Aside(s),
         k.ctrlSent \subseteq sock[s].ctrlSent,
         k.connReq \in {None, sock[s].connReq} \/ Meant(k.connReq)',
         \/ UNCHANGED outq
         \/ \E c \in Carriers : Meant(c.msg)' /\ outq' = [outq EXCEPT ![s] = Append(@, c)],
         Sound(s, k, open'[s], owed'[s], requests'[s])
  PROVE  EngagedStep
<1>1. TypeOK /\ outq[s] \in Seq(Carriers)
  BY SocketTypes DEF EngagedInv, HandshakeInv
<1>2. sock'[s] = k /\ \A t \in Socks \ {s} : sock'[t] = sock[t] /\ outq'[t] = outq[t]
  BY <1>1 DEF TypeOK
<1>3. /\ sentq' = sentq /\ net' \subseteq net
      /\ \A t \in Socks \ {s} : open'[t] = open[t] /\ requests'[t] = requests[t]
  BY <1>1 DEF Aside, TypeOK
<1>4. \A t \in Socks \ {s} : owed'[t] = owed[t]
  BY <1>1 DEF Aside, TypeOK
<1>5. \A m \in Carried(outq'[s]) : m \in Carried(outq[s]) \/ Meant(m)'
  <2>1. CASE UNCHANGED outq
    BY <2>1
  <2>2. ASSUME NEW c \in Carriers, Meant(c.msg)', outq' = [outq EXCEPT ![s] = Append(@, c)]
        PROVE  \A m \in Carried(outq'[s]) : m \in Carried(outq[s]) \/ Meant(m)'
    <3>1. outq'[s] = Append(outq[s], c)
      BY <1>1, <2>2 DEF TypeOK
    <3> QED
      BY <1>1, <2>2, <3>1, AppendCarried
  <2> QED
    BY <2>1, <2>2
<1>6. \A m \in MessagesOf(k, outq'[s], sentq[s]) :
        m \in MessagesOf(sock[s], outq[s], sentq[s]) \/ Meant(m)'
  BY <1>5 DEF MessagesOf
<1> QED
  BY <1>2, <1>3, <1>4, <1>6, StepEngaged

\* A handler that sends nothing new and engages nobody.
LEMMA QuietEngaged ==
  ASSUME EngagedInv, HandshakeInv', NEW s \in Socks, NEW k \in SocketType,
         sock' = [sock EXCEPT ![s] = k], Aside(s),
         Phase(k) = Phase(sock[s]), k.host = sock[s].host,
         k.ctrlSent \subseteq sock[s].ctrlSent, k.connReq = sock[s].connReq,
         \/ UNCHANGED outq
         \/ \E c \in Carriers : /\ c.msg \in sock[s].ctrlSent
                                /\ outq' = [outq EXCEPT ![s] = Append(@, c)],
         Sound(s, k, open'[s], owed'[s], requests'[s])
  PROVE  EngagedStep
<1>1. TypeOK /\ Engage
  BY Quiet DEF EngagedInv, HandshakeInv
<1>2. \A m \in sock[s].ctrlSent : Meant(m)'
  BY <1>1, MeantLasts, MessageTypes DEF EngagedInv, MessagesOf
<1> QED
  BY <1>1, <1>2, HandlerEngaged

\* connect() on a socket that was closed and never used.
LEMMA ConnectEngaged ==
  ASSUME EngagedInv, HandshakeInv', NEW s \in Socks, NEW d \in Socks \ {s}, Connect(s, d),
         sock[s].state = "CLOSE", sock[s].loctrl = "NONE"
  PROVE  EngagedStep
<1> DEFINE k == [sock[s] EXCEPT !.state = "CONNECT_SENT", !.loctrl = "CONNECT_REQUEST",
                                !.bound = TRUE, !.host = d, !.attempts = 1, !.cseq = @ + 1,
                                !.timers = @ \cup {sock[s].cseq}]
<1>1. TypeOK /\ sock[s] \in SocketType /\ sock[s].cseq \in Nat
  BY SocketTypes DEF EngagedInv, HandshakeInv
<1>2. k \in SocketType
  <2>1. sock[s].timers \cup {sock[s].cseq} \in SUBSET Nat /\ sock[s].cseq + 1 \in Nat
    BY <1>1 DEF SocketType
  <2> QED
    BY <1>1, <2>1 DEF SocketType, States
<1>3. PICK c \in Carriers : /\ c = [msg |-> prepare_connect(s, d), discard |-> FALSE]
                            /\ c.msg.kind = "connect" /\ c.msg.src = s /\ c.msg.dst = d
  <2>1. Rate[s] \in Nat /\ "connect" \in Kinds /\ 0 \in Nat
    BY HandshakeAssumption DEF HandshakeAssumption, Kinds
  <2>2. prepare_connect(s, d) \in Msgs
    BY <1>1, <2>1 DEF prepare_connect, Message, Msgs
  <2> QED
    BY <2>2, CarrierType DEF prepare_connect, Message
<1>4. /\ sock' = [sock EXCEPT ![s] = k]
      /\ outq' = [outq EXCEPT ![s] = Append(@, c)]
      /\ Aside(s)
  BY <1>3 DEF Connect, Request, Update, Transmit, Ask, historyVars, Aside
<1>5. /\ k.ctrlSent = sock[s].ctrlSent /\ k.connReq = sock[s].connReq
      /\ k.state = "CONNECT_SENT" /\ k.host = d
  BY <1>1 DEF SocketType
<1>6. {owed'[s], requests'[s]} \subseteq Nat \ {0}
  <2>1. owed[s] \in Int /\ requests[s] \in Nat /\ owed[s] >= 0
    BY <1>1 DEF TypeOK, EngagedInv, Sound
  <2>2. owed'[s] = owed[s] + 1 /\ requests'[s] = requests[s] + 1
    BY <1>1 DEF Connect, Request, Ask, TypeOK
  <2> QED
    BY <2>1, <2>2
<1>7. open[s] /\ Sound(s, sock[s], open[s], owed[s], requests[s])
  BY DEF Connect, Request, EngagedInv
<1> HIDE DEF k
<1>8. phases' = [phases EXCEPT ![s] = Phase(k)] /\ hosts' = [hosts EXCEPT ![s] = k.host]
  BY <1>1, <1>2, <1>4, PhaseUpdate
<1>9. Phase(k) = "calling" /\ phases[s] = "idle"
  BY <1>5, <1>7 DEF Phase, phases, Sound
<1>10. RP!Call(s, d)
  BY <1>5, <1>8, <1>9 DEF RP!Call, RP!Enter
<1>11. Engage
  BY <1>10 DEF Engage, RP!RendezvousNext
<1>12. Meant(c.msg)'
  <2>1. RP!HasCalled(s, d)'
    BY <1>5, <1>8, <1>9 DEF RP!HasCalled, phases, hosts
  <2> QED
    BY <1>3, <2>1 DEF Meant, IsAccept
<1>13. Sound(s, k, open'[s], owed'[s], requests'[s])
  BY <1>5, <1>6, <1>7 DEF Sound
<1> QED
  BY <1>2, <1>3, <1>4, <1>5, <1>11, <1>12, <1>13, HandlerEngaged

LEMMA AcceptingType ==
  ASSUME NEW s \in Socks, sock[s] \in SocketType, NEW req \in Msgs
  PROVE  LET k == Accepting(s, req) IN
         /\ k \in SocketType
         /\ k.ctrlSent = sock[s].ctrlSent /\ k.connReq = None
         /\ k.state = "ACCEPT_SENT" /\ k.host = req.src
<1>1. Rate[s] \in Nat
  BY HandshakeAssumption DEF HandshakeAssumption
<1>2. req.src \in Socks /\ Lower(req.rate, Rate[s]) \in Nat
  BY <1>1 DEF Msgs, Lower
<1>3. /\ sock[s].timers \cup {sock[s].cseq} \in SUBSET Nat
      /\ sock[s].cseq + 1 \in Nat /\ sock[s].attempts + 1 \in Nat
  BY DEF SocketType
<1> QED
  BY <1>2, <1>3 DEF SocketType, States, Accepting

\* accept() and the CONNECT req that it answers: the caller still waits or gave
\* up, and cannot be established, because its peer s has promised nothing.
LEMMA AcceptingEngaged ==
  ASSUME EngagedInv, HandshakeInv', NEW s \in Socks, NEW req \in Msgs, NEW ctrl_ack \in BOOLEAN,
         sock[s].state \in {"LISTEN", "CONNECT_RCVD"},
         Meant(req), req.kind = "connect", req.dst = s,
         Update(s, Accepting(s, req)), Transmit(s, prepare_accept(s, req, ctrl_ack), FALSE),
         Aside(s), {owed'[s], requests'[s]} \subseteq Nat \ {0}
  PROVE  EngagedStep
<1> DEFINE k == Accepting(s, req)
           d == req.src
<1>1. TypeOK /\ sock[s] \in SocketType /\ sock[s].cseq \in Nat /\ d \in Socks
  BY SocketTypes DEF EngagedInv, HandshakeInv, Msgs
<1>2. Rate[s] \in Nat /\ {"accept", "acceptack"} \subseteq Kinds
  BY HandshakeAssumption DEF HandshakeAssumption, Kinds
<1>3. k \in SocketType
  BY <1>1, AcceptingType
<1>4. /\ k.ctrlSent = sock[s].ctrlSent /\ k.connReq = None
      /\ k.state = "ACCEPT_SENT" /\ k.host = d
  BY <1>1, AcceptingType
<1>5. PICK c \in Carriers : /\ c = [msg |-> prepare_accept(s, req, ctrl_ack), discard |-> FALSE]
                            /\ IsAccept(c.msg) /\ c.msg.src = s /\ c.msg.dst = d
  <2>1. prepare_accept(s, req, ctrl_ack) \in Msgs
    BY <1>1, <1>2 DEF prepare_accept, Message, Msgs
  <2> QED
    BY <2>1, CarrierType DEF prepare_accept, Message, IsAccept
<1>6. sock' = [sock EXCEPT ![s] = k] /\ outq' = [outq EXCEPT ![s] = Append(@, c)]
  BY <1>5 DEF Update, Transmit
<1> HIDE DEF k
<1>7. phases' = [phases EXCEPT ![s] = Phase(k)] /\ hosts' = [hosts EXCEPT ![s] = k.host]
  BY <1>1, <1>3, <1>6, PhaseUpdate
<1>8. Phase(k) = "promised" /\ phases[s] = "idle"
  BY <1>4 DEF Phase, phases
<1>9. RP!HasCalled(d, s)
  BY DEF Meant
<1>10. phases[d] \in {"calling", "closed"} /\ hosts[d] = s
  BY <1>1, <1>8, <1>9
     DEF RP!HasCalled, EngagedInv, RP!RendezvousInv, RP!RendezvousTypeOK, RP!Agreement
<1>11. RP!Promise(s, d)
  BY <1>4, <1>7, <1>8, <1>10 DEF RP!Promise, RP!Enter
<1>12. Engage
  BY <1>1, <1>11 DEF Engage, RP!RendezvousNext
<1>13. Meant(c.msg)'
  <2>1. RP!HasCalled(d, s)'
    BY <1>1, <1>9, <1>12, SomeNone, RP!Lasting DEF EngagedInv, Engage
  <2>2. hosts'[s] = d /\ phases'[s] = "promised"
    BY <1>4, <1>7, <1>8 DEF phases, hosts
  <2>3. RP!HasPromised(s, d)'
    BY <2>1, <2>2 DEF RP!HasPromised
  <2> QED
    BY <1>5, <2>3 DEF Meant, IsAccept
<1>14. Sound(s, k, open'[s], owed'[s], requests'[s])
  BY <1>4 DEF Sound
<1> QED
  BY <1>3, <1>4, <1>5, <1>6, <1>12, <1>13, <1>14, HandlerEngaged

\* The requests of the API, of which only connect() needs the premise.
LEMMA ClientEngaged ==
  ASSUME EngagedInv, HandshakeInv', NEW s \in Socks, Client(s),
         \A d \in Socks : Connect(s, d) => sock[s].state = "CLOSE" /\ sock[s].loctrl = "NONE"
  PROVE  EngagedStep
<1> USE DEF Request
<1>1. /\ TypeOK /\ sock[s] \in SocketType /\ sock = [sock EXCEPT ![s] = sock[s]]
      /\ Sound(s, sock[s], open[s], owed[s], requests[s])
      /\ owed[s] \in Int /\ requests[s] \in Nat
  BY SocketTypes DEF EngagedInv, HandshakeInv, TypeOK
<1>2. ASSUME NEW d \in Socks \ {s}, Connect(s, d)  PROVE EngagedStep
  BY <1>2, ConnectEngaged
<1> DEFINE other == \/ Bind(s) \/ Listen(s)
                    \/ AcceptListening(s) \/ AcceptPending(s) \/ AcceptRefused(s)
<1>3. ASSUME other
      PROVE  /\ open[s] /\ UNCHANGED <<open, sentq, net>>
             /\ requests'[s] \in Nat \ {0}
             /\ owed' = owed \/ owed' = [owed EXCEPT ![s] = @ + 1]
             /\ owed'[s] = owed[s] \/ owed'[s] = owed[s] + 1
             /\ Aside(s)
  <2>1. /\ open[s] /\ UNCHANGED <<open, sentq, net, failed, losses>>
        /\ requests' = [requests EXCEPT ![s] = @ + 1]
        /\ owed' = owed \/ owed' = [owed EXCEPT ![s] = @ + 1]
    BY <1>3 DEF Bind, Listen, AcceptListening, AcceptPending, AcceptRefused, Ask, historyVars
  <2>2. requests'[s] \in Nat \ {0} /\ (owed'[s] = owed[s] \/ owed'[s] = owed[s] + 1)
    BY <1>1, <2>1 DEF TypeOK
  <2> QED
    BY <2>1, <2>2 DEF Aside
<1>4. ASSUME other, UNCHANGED <<sock, outq>>
      PROVE  EngagedStep
  <2>1. Sound(s, sock[s], open'[s], owed'[s], requests'[s])
    BY <1>1, <1>3, <1>4 DEF Sound
  <2> QED
    BY <1>1, <1>3, <1>4, <2>1, QuietEngaged
<1>5. CASE Bind(s)
  <2> DEFINE k == [sock[s] EXCEPT !.bound = TRUE]
  <2>1. CASE UNCHANGED sock
    BY <1>4, <1>5, <2>1 DEF Bind
  <2>2. CASE Update(s, k) /\ sock[s].state = "CLOSE"
    <3>1. k \in SocketType
      BY <1>1 DEF SocketType
    <3>2. /\ k.state = sock[s].state /\ k.loctrl = sock[s].loctrl /\ k.host = sock[s].host
          /\ k.connReq = sock[s].connReq /\ k.ctrlSent = sock[s].ctrlSent
      BY <1>1 DEF SocketType
    <3>3. sock' = [sock EXCEPT ![s] = k] /\ UNCHANGED <<outq, owed>>
      BY <1>5, <2>2 DEF Update, Bind
    <3> HIDE DEF k
    <3>4. Sound(s, k, open'[s], owed'[s], requests'[s])
      BY <1>1, <1>3, <1>5, <2>2, <3>2, <3>3 DEF Sound
    <3>5. Phase(k) = Phase(sock[s])
      BY <3>2 DEF Phase
    <3> QED
      BY <1>3, <1>5, <3>1, <3>2, <3>3, <3>4, <3>5, QuietEngaged
  <2> QED
    BY <1>5, <2>1, <2>2 DEF Bind
<1>6. CASE Listen(s)
  <2> DEFINE k == [sock[s] EXCEPT !.state = "LISTEN"]
  <2>1. CASE UNCHANGED sock
    BY <1>4, <1>6, <2>1 DEF Listen
  <2>2. CASE Update(s, k) /\ sock[s].state = "CLOSE"
    <3>1. k \in SocketType
      BY <1>1 DEF SocketType, States
    <3>2. /\ k.state = "LISTEN" /\ k.loctrl = sock[s].loctrl /\ k.host = sock[s].host
          /\ k.connReq = sock[s].connReq /\ k.ctrlSent = sock[s].ctrlSent
      BY <1>1 DEF SocketType
    <3>3. sock' = [sock EXCEPT ![s] = k] /\ UNCHANGED <<outq, owed>>
      BY <1>6, <2>2 DEF Update, Listen
    <3> HIDE DEF k
    <3>4. Sound(s, k, open'[s], owed'[s], requests'[s])
      BY <1>1, <1>3, <1>6, <2>2, <3>2, <3>3 DEF Sound
    <3>5. Phase(k) = Phase(sock[s])
      BY <1>1, <1>3, <1>6, <2>2, <3>2 DEF Phase, Sound
    <3> QED
      BY <1>3, <1>6, <3>1, <3>2, <3>3, <3>4, <3>5, QuietEngaged
  <2> QED
    BY <1>6, <2>1, <2>2 DEF Listen
<1>7. CASE AcceptListening(s)
  <2> DEFINE k == [sock[s] EXCEPT !.loctrl = "ACCEPT_REQUEST"]
  <2>1. k \in SocketType
    BY <1>1 DEF SocketType
  <2>2. /\ k.state = sock[s].state /\ k.loctrl = "ACCEPT_REQUEST" /\ k.host = sock[s].host
        /\ k.connReq = sock[s].connReq /\ k.ctrlSent = sock[s].ctrlSent
    BY <1>1 DEF SocketType
  <2>3. sock' = [sock EXCEPT ![s] = k] /\ UNCHANGED outq /\ sock[s].state = "LISTEN"
    BY <1>7 DEF Update, AcceptListening
  <2>4. owed'[s] = owed[s] + 1
    BY <1>1, <1>7 DEF AcceptListening, Ask, TypeOK
  <2> HIDE DEF k
  <2>5. Sound(s, k, open'[s], owed'[s], requests'[s])
    BY <1>1, <1>3, <1>7, <2>2, <2>3, <2>4 DEF Sound
  <2>6. Phase(k) = Phase(sock[s])
    BY <2>2 DEF Phase
  <2> QED
    BY <1>3, <1>7, <2>1, <2>2, <2>3, <2>5, <2>6, QuietEngaged
<1>8. CASE AcceptPending(s)
  <2> DEFINE req == sock[s].connReq
  <2>1. sock[s].state = "CONNECT_RCVD" /\ req \in Msgs /\ req # None
    BY <1>1, <1>8, SocketTypes, HandshakeAssumption DEF AcceptPending, HandshakeAssumption
  <2>2. Meant(req) /\ req.kind = "connect" /\ req.dst = s
    BY <1>1, <2>1 DEF EngagedInv, MessagesOf, Sound
  <2>3. owed'[s] \in Nat \ {0}
    <3>1. owed'[s] = owed[s] + 1
      BY <1>1, <1>8 DEF AcceptPending, Ask, TypeOK
    <3>2. owed[s] >= 0
      BY <1>1 DEF Sound
    <3> QED
      BY <1>1, <3>1, <3>2
  <2>4. Update(s, Accepting(s, req)) /\ Transmit(s, prepare_accept(s, req, FALSE), FALSE)
    BY <1>8 DEF AcceptPending
  <2>5. {owed'[s], requests'[s]} \subseteq Nat \ {0} /\ Aside(s)
    BY <1>3, <1>8, <2>3
  <2> HIDE DEF req
  <2> QED
    BY <2>1, <2>2, <2>4, <2>5, AcceptingEngaged
<1>9. CASE AcceptRefused(s)
  BY <1>4, <1>9 DEF AcceptRefused
<1> QED
  BY <1>2, <1>5, <1>6, <1>7, <1>8, <1>9 DEF Client

LEMMA CtrlAckMeans ==
  ASSUME NEW s \in Socks, NEW m \in Msgs
  PROVE  \E c \in Carriers :
           /\ c = [msg |-> prepare_ctrl_ack(s, m), discard |-> TRUE]
           /\ c.msg.kind = "ctrlack" /\ c.msg.src = s /\ c.msg.dst = m.src
  BY CtrlAckType DEF prepare_ctrl_ack, Message

\* The ACCEPT arrives: whoever sent it has promised the connection, and is not
\* established before the socket that it answers.
LEMMA AcceptEngaged ==
  ASSUME EngagedInv, HandshakeInv', NEW s \in Socks, NEW m \in net, m.dst = s, ReceiveAccept(s, m)
  PROVE  EngagedStep
<1> DEFINE r == Release(sock[s], Acknowledged(s, m))
           k == [r EXCEPT !.committed = m.rate, !.state = "ESTABLISHED"]
<1>1. /\ TypeOK /\ sock[s] \in SocketType /\ m \in Msgs /\ m.src \in Socks /\ m.rate \in Nat
      /\ Sound(s, sock[s], open[s], owed[s], requests[s]) /\ owed[s] \in Int
      /\ requests[s] \in Nat /\ Meant(m)
  BY SocketTypes DEF EngagedInv, HandshakeInv, TypeOK, Msgs
<1>2. sock[s].state = "CONNECT_SENT" /\ sock[s].host = m.src /\ IsAccept(m)
  BY DEF ReceiveAccept, FromHost
<1>3. Acknowledged(s, m) \in SUBSET sock[s].ctrlSent
  BY DEF Acknowledged
<1>4. /\ r \in SocketType /\ r.ctrlSent = sock[s].ctrlSent \ Acknowledged(s, m)
      /\ r.connReq = sock[s].connReq /\ r.host = sock[s].host
  BY <1>1, <1>3, ReleaseType DEF Release, SocketType
<1> HIDE DEF r
<1>5. /\ k \in SocketType /\ k.state = "ESTABLISHED" /\ k.host = sock[s].host
      /\ k.ctrlSent \subseteq sock[s].ctrlSent /\ k.connReq = sock[s].connReq
  BY <1>1, <1>4 DEF SocketType, States
<1>6. PICK c \in Carriers :
        /\ c = [msg |-> prepare_ctrl_ack(s, m), discard |-> TRUE]
        /\ c.msg.kind = "ctrlack" /\ c.msg.src = s /\ c.msg.dst = m.src
  BY <1>1, CtrlAckMeans
<1>7. /\ sock' = [sock EXCEPT ![s] = k] /\ outq' = [outq EXCEPT ![s] = Append(@, c)]
      /\ Aside(s)
  BY <1>6 DEF ReceiveAccept, Update, Transmit, Deliver, Aside, Reply, r
<1>8. open'[s] = open[s] /\ owed'[s] = owed[s] - 1 /\ requests'[s] = requests[s]
  BY <1>1 DEF ReceiveAccept, Reply, TypeOK
<1> HIDE DEF k
<1>9. Sound(s, k, open'[s], owed'[s], requests'[s])
  BY <1>1, <1>2, <1>5, <1>8 DEF Sound
<1>10. phases' = [phases EXCEPT ![s] = Phase(k)] /\ hosts' = [hosts EXCEPT ![s] = k.host]
       /\ phases[s] = "calling" /\ Phase(k) = "open" /\ hosts[s] = m.src
  BY <1>1, <1>2, <1>5, <1>7, PhaseUpdate DEF Phase, phases, hosts
<1>11. RP!Open(s, "calling", "promised")
  <2>1. RP!HasPromised(m.src, s)
    BY <1>1, <1>2 DEF Meant
  <2>2. hosts[m.src] = s /\ phases[m.src] = "promised"
    BY <1>10, <2>1 DEF RP!HasPromised
  <2>3. UNCHANGED hosts
    BY <1>2, <1>5, <1>10 DEF hosts
  <2> QED
    BY <1>1, <1>10, <2>2, <2>3 DEF RP!Open, RP!Enter
<1>12. Engage
  BY <1>11 DEF Engage, RP!RendezvousNext
<1>13. Meant(c.msg)'
  <2>1. phases'[s] = "open" /\ hosts'[s] = m.src
    BY <1>2, <1>5, <1>10 DEF phases, hosts
  <2>2. RP!HasOpened(s, c.msg.dst)'
    BY <1>6, <2>1 DEF RP!HasOpened
  <2> QED
    BY <1>6, <2>2 DEF Meant, IsAccept
<1> QED
  BY <1>5, <1>7, <1>9, <1>12, <1>13, HandlerEngaged

\* The acknowledgement of the ACCEPT arrives: only an established caller sends
\* it, because this socket has called nobody.
LEMMA AcceptAckEngaged ==
  ASSUME EngagedInv, HandshakeInv', NEW s \in Socks, NEW m \in net, m.dst = s,
         ReceiveAcceptAck(s, m)
  PROVE  EngagedStep
<1> DEFINE r == Release(sock[s], Acknowledged(s, m))
           k == [r EXCEPT !.state = "ESTABLISHED"]
<1>1. /\ TypeOK /\ sock[s] \in SocketType /\ m \in Msgs /\ m.src \in Socks
      /\ Sound(s, sock[s], open[s], owed[s], requests[s]) /\ owed[s] \in Int
      /\ requests[s] \in Nat /\ Meant(m)
  BY SocketTypes DEF EngagedInv, HandshakeInv, TypeOK, Msgs
<1>2. sock[s].state = "ACCEPT_SENT" /\ sock[s].host = m.src /\ IsAck(m)
  BY DEF ReceiveAcceptAck, FromHost, Acknowledged
<1>3. Acknowledged(s, m) \in SUBSET sock[s].ctrlSent
  BY DEF Acknowledged
<1>4. /\ r \in SocketType /\ r.ctrlSent = sock[s].ctrlSent \ Acknowledged(s, m)
      /\ r.connReq = sock[s].connReq /\ r.host = sock[s].host
  BY <1>1, <1>3, ReleaseType DEF Release, SocketType
<1> HIDE DEF r
<1>5. /\ k \in SocketType /\ k.state = "ESTABLISHED" /\ k.host = sock[s].host
      /\ k.ctrlSent \subseteq sock[s].ctrlSent /\ k.connReq = sock[s].connReq
  BY <1>1, <1>4 DEF SocketType, States
<1>6. sock' = [sock EXCEPT ![s] = k] /\ UNCHANGED outq /\ Aside(s)
  BY DEF ReceiveAcceptAck, Update, Deliver, Aside, Reply, r
<1>7. open'[s] = open[s] /\ owed'[s] = owed[s] - 1 /\ requests'[s] = requests[s]
  BY <1>1 DEF ReceiveAcceptAck, Reply, TypeOK
<1> HIDE DEF k
<1>8. Sound(s, k, open'[s], owed'[s], requests'[s])
  BY <1>1, <1>2, <1>5, <1>7 DEF Sound
<1>9. phases' = [phases EXCEPT ![s] = Phase(k)] /\ hosts' = [hosts EXCEPT ![s] = k.host]
      /\ phases[s] = "promised" /\ Phase(k) = "open" /\ hosts[s] = m.src
  BY <1>1, <1>2, <1>5, <1>6, PhaseUpdate DEF Phase, phases, hosts
<1>10. RP!HasOpened(m.src, s)
  <2>1. ~RP!HasCalled(s, m.src)
    BY <1>9 DEF RP!HasCalled
  <2> QED
    BY <1>1, <1>2, <2>1 DEF Meant, IsAck, IsAccept, RP!HasPromised
<1>11. RP!Open(s, "promised", "open")
  <2>1. UNCHANGED hosts
    BY <1>2, <1>5, <1>9 DEF hosts
  <2> QED
    BY <1>1, <1>9, <1>10, <2>1 DEF RP!Open, RP!Enter, RP!HasOpened
<1>12. Engage
  BY <1>11 DEF Engage, RP!RendezvousNext
<1> QED
  BY <1>5, <1>6, <1>8, <1>12, HandlerEngaged

\* do_process_input()
LEMMA ReceiveEngaged ==
  ASSUME EngagedInv, HandshakeInv', NEW s \in Socks, NEW m \in net, Receive(s, m)
  PROVE  EngagedStep
<1>1. /\ TypeOK /\ sock[s] \in SocketType /\ m \in Msgs /\ m.dst = s /\ m # None
      /\ Sound(s, sock[s], open[s], owed[s], requests[s])
      /\ owed[s] \in Int /\ requests[s] \in Nat /\ Meant(m)
  BY SocketTypes, HandshakeAssumption
     DEF EngagedInv, HandshakeInv, TypeOK, Receive, HandshakeAssumption
<1>2. CASE ReceiveConnectAck(s, m)
  <2> DEFINE k == Release(sock[s], Acknowledged(s, m))
  <2>1. Acknowledged(s, m) \in SUBSET sock[s].ctrlSent
    BY DEF Acknowledged
  <2>2. /\ k \in SocketType /\ k.ctrlSent = sock[s].ctrlSent \ Acknowledged(s, m)
        /\ k.connReq = sock[s].connReq /\ k.host = sock[s].host /\ k.state = sock[s].state
        /\ k.loctrl = sock[s].loctrl
    BY <1>1, <2>1, ReleaseType DEF Release, SocketType
  <2>3. /\ sock' = [sock EXCEPT ![s] = k] /\ Aside(s)
        /\ UNCHANGED <<outq, open, owed, requests>>
    BY <1>2 DEF ReceiveConnectAck, Update, Deliver, Aside, clientVars
  <2> HIDE DEF k
  <2>4. Sound(s, k, open'[s], owed'[s], requests'[s]) /\ Phase(k) = Phase(sock[s])
    BY <1>1, <2>2, <2>3 DEF Sound, Phase
  <2> QED
    BY <2>2, <2>3, <2>4, QuietEngaged
<1>3. CASE ReceiveConnectAccepting(s, m)
  <2>1. /\ sock[s].state = "LISTEN" /\ sock[s].loctrl = "ACCEPT_REQUEST" /\ m.kind = "connect"
        /\ Update(s, Accepting(s, m)) /\ Transmit(s, prepare_accept(s, m, TRUE), FALSE)
        /\ Aside(s) /\ UNCHANGED <<owed, requests>>
    BY <1>3 DEF ReceiveConnectAccepting, Deliver, Aside, clientVars, historyVars
  <2>2. owed[s] > 0 /\ requests[s] # 0
    BY <1>1, <2>1 DEF Sound
  <2>3. {owed'[s], requests'[s]} \subseteq Nat \ {0}
    BY <1>1, <2>1, <2>2
  <2> QED
    BY <1>1, <2>1, <2>3, AcceptingEngaged
<1>4. CASE ReceiveConnectEarly(s, m)
  <2> DEFINE k == [sock[s] EXCEPT !.state = "CONNECT_RCVD", !.connReq = m]
  <2>1. PICK c \in Carriers :
          /\ c = [msg |-> prepare_ctrl_ack(s, m), discard |-> TRUE]
          /\ c.msg.kind = "ctrlack" /\ c.msg.src = s /\ c.msg.dst = m.src
    BY <1>1, CtrlAckMeans
  <2>2. /\ sock[s].state = "LISTEN" /\ m.kind = "connect"
        /\ sock' = [sock EXCEPT ![s] = k] /\ outq' = [outq EXCEPT ![s] = Append(@, c)]
        /\ Aside(s) /\ UNCHANGED <<open, owed, requests>>
    BY <1>4, <2>1
       DEF ReceiveConnectEarly, Update, Transmit, Deliver, Aside, clientVars, historyVars
  <2>3. /\ k \in SocketType /\ k.connReq = m /\ k.state = "CONNECT_RCVD"
        /\ k.ctrlSent = sock[s].ctrlSent /\ k.host = sock[s].host
    BY <1>1 DEF SocketType, States
  <2> HIDE DEF k
  <2>4. Sound(s, k, open'[s], owed'[s], requests'[s])
    BY <1>1, <2>2, <2>3 DEF Sound
  <2>5. Engage
    <3>1. Phase(k) = Phase(sock[s])
      BY <2>2, <2>3 DEF Phase
    <3> QED
      BY <1>1, <2>2, <2>3, <3>1, Quiet
  <2>6. Meant(m)'
    BY <1>1, <2>5, MeantLasts
  <2>7. Meant(c.msg)'
    <3>1. RP!HasCalled(m.src, s)'
      BY <1>1, <2>2, <2>6 DEF Meant
    <3> QED
      BY <2>1, <3>1 DEF Meant, IsAccept
  <2> QED
    BY <2>2, <2>3, <2>4, <2>5, <2>6, <2>7, HandlerEngaged
<1>5. CASE ReceiveUnexpected(s, m)
  <2>1. /\ UNCHANGED <<sock, outq, open, owed, requests>> /\ Aside(s)
        /\ sock = [sock EXCEPT ![s] = sock[s]]
    BY <1>1, <1>5 DEF ReceiveUnexpected, Deliver, Aside, clientVars, historyVars, TypeOK
  <2>2. Sound(s, sock[s], open'[s], owed'[s], requests'[s])
    BY <1>1, <2>1
  <2> QED
    BY <1>1, <2>1, <2>2, QuietEngaged
<1> QED
  BY <1>1, <1>2, <1>3, <1>4, <1>5, AcceptEngaged, AcceptAckEngaged DEF Receive

\* do_socket_error_response() after k, which differs from the socket only in its
\* messages and timers: a caller gives up, and everybody else stays as they are.
LEMMA ErrorEngages ==
  ASSUME EngagedInv, NEW s \in Socks, NEW k \in SocketType, ErrorResponse(s, k),
         k.state = sock[s].state, k.loctrl = sock[s].loctrl, k.host = sock[s].host,
         k.connReq = sock[s].connReq
  PROVE  /\ Engage
         /\ \E k2 \in SocketType :
              /\ sock' = [sock EXCEPT ![s] = k2]
              /\ k2.ctrlSent = k.ctrlSent /\ k2.connReq = k.connReq
              /\ Sound(s, k2, open'[s], owed'[s], requests[s])
         /\ UNCHANGED open \/ open' = [open EXCEPT ![s] = FALSE]
         /\ UNCHANGED owed \/ owed' = [owed EXCEPT ![s] = @ - 1]
<1>1. /\ TypeOK /\ sock[s] \in SocketType
      /\ Sound(s, sock[s], open[s], owed[s], requests[s])
      /\ owed[s] \in Int /\ requests[s] \in Nat
  BY SocketTypes DEF EngagedInv, HandshakeInv, TypeOK
<1>2. CASE k.state = "CONNECT_SENT"
  <2> DEFINE k2 == [k EXCEPT !.state = "CLOSE", !.loctrl = "NONE"]
  <2>1. /\ sock' = [sock EXCEPT ![s] = k2]
        /\ open' = [open EXCEPT ![s] = FALSE]
        /\ owed' = [owed EXCEPT ![s] = @ - 1]
    BY <1>2 DEF ErrorResponse, Update, Reply
  <2>2. /\ k2 \in SocketType /\ k2.state = "CLOSE" /\ k2.loctrl = "NONE" /\ k2.host = k.host
        /\ k2.ctrlSent = k.ctrlSent /\ k2.connReq = k.connReq
    BY DEF SocketType, States
  <2> HIDE DEF k2
  <2>3. open'[s] = FALSE /\ owed'[s] = owed[s] - 1
    BY <1>1, <2>1 DEF TypeOK
  <2>4. owed[s] > 0
    BY <1>1, <1>2 DEF Sound
  <2>5. Sound(s, k2, open'[s], owed'[s], requests[s])
    BY <1>1, <2>2, <2>3, <2>4 DEF Sound
  <2>6. /\ phases' = [phases EXCEPT ![s] = Phase(k2)] /\ hosts' = [hosts EXCEPT ![s] = k2.host]
        /\ phases[s] = "calling"
    BY <1>1, <1>2, <2>1, <2>2, PhaseUpdate DEF Phase, phases
  <2>7. hosts[s] = k2.host /\ k2.host # None
    <3>1. hosts[s] # None
      BY <2>6 DEF EngagedInv, RP!RendezvousInv, RP!RendezvousTypeOK
    <3> QED
      BY <2>2, <3>1 DEF hosts
  <2>8. RP!GiveUp(s)
    <3>1. Phase(k2) = "closed"
      BY <2>2, <2>7 DEF Phase
    <3>2. UNCHANGED hosts
      BY <2>6, <2>7 DEF hosts
    <3> QED
      BY <2>6, <3>1, <3>2 DEF RP!GiveUp, RP!Enter
  <2> QED
    BY <2>1, <2>2, <2>5, <2>8 DEF Engage, RP!RendezvousNext
<1>3. CASE k.state # "CONNECT_SENT"
  <2>1. sock' = [sock EXCEPT ![s] = k] /\ UNCHANGED <<open, owed>>
    BY <1>3 DEF ErrorResponse, Update
  <2>2. Phase(k) = Phase(sock[s])
    BY DEF Phase
  <2>3. Sound(s, k, open'[s], owed'[s], requests[s])
    BY <1>1, <2>1 DEF Sound
  <2> QED
    BY <1>1, <2>1, <2>2, <2>3, Quiet
<1> QED
  BY <1>2, <1>3

\* The output thread sends what is true, and returns it.
LEMMA SendEngaged ==
  ASSUME EngagedInv, HandshakeInv', NEW s \in Socks, Send(s)
  PROVE  EngagedStep
<1> DEFINE c == Head(outq[s])
<1>1. /\ TypeOK /\ outq[s] \in Seq(Carriers) /\ sentq[s] \in Seq(ReturnedCarriers)
      /\ Sound(s, sock[s], open[s], owed[s], requests[s])
  BY SocketTypes DEF EngagedInv, HandshakeInv
<1>2. outq[s] # <<>> /\ UNCHANGED <<sock, open, owed, requests>>
  BY DEF Send, clientVars
<1>3. Engage
  BY <1>2 DEF Engage, phases, hosts
<1>4. outq'[s] = Tail(outq[s]) /\ \A t \in Socks \ {s} : outq'[t] = outq[t]
  BY <1>1 DEF Send, TypeOK
<1>5. Carried(outq'[s]) \subseteq Carried(outq[s]) /\ c.msg \in Carried(outq[s])
  BY <1>1, <1>2, <1>4, TailCarried
<1>6. net' \subseteq net \cup {c.msg}
  BY DEF Send
<1>7. /\ \A t \in Socks \ {s} : sentq'[t] = sentq[t]
      /\ Carried(sentq'[s]) \subseteq Carried(sentq[s]) \cup {c.msg}
  <2>1. CASE UNCHANGED sentq
    BY <2>1
  <2>2. ASSUME NEW sent, sentq' = [sentq EXCEPT ![s] = Append(@, Returned(c, sent))]
        PROVE  /\ \A t \in Socks \ {s} : sentq'[t] = sentq[t]
               /\ Carried(sentq'[s]) \subseteq Carried(sentq[s]) \cup {c.msg}
    <3>1. sentq'[s] = Append(sentq[s], Returned(c, sent)) /\ Returned(c, sent).msg = c.msg
      BY <1>1, <2>2 DEF TypeOK, Returned
    <3>2. Carried(sentq'[s]) = Carried(sentq[s]) \cup {c.msg}
      BY <1>1, <3>1, AppendCarried
    <3> QED
      BY <1>1, <2>2, <3>2 DEF TypeOK
  <2> QED
    BY <2>1, <2>2 DEF Send
<1> HIDE DEF c
<1>8. \A m \in net' \cup MessagesOf(sock'[s], outq'[s], sentq'[s]) :
        m \in net \cup MessagesOf(sock[s], outq[s], sentq[s])
  BY <1>2, <1>5, <1>6, <1>7 DEF MessagesOf
<1> QED
  BY <1>1, <1>2, <1>3, <1>4, <1>7, <1>8, StepEngaged

\* do_process_sent_msg()
LEMMA SentEngaged ==
  ASSUME EngagedInv, HandshakeInv', NEW s \in Socks, SentSuccess(s) \/ SentError(s)
  PROVE  EngagedStep
<1> DEFINE c == Head(sentq[s])
<1>1. /\ TypeOK /\ sock[s] \in SocketType /\ sentq[s] \in Seq(ReturnedCarriers)
      /\ Sound(s, sock[s], open[s], owed[s], requests[s])
      /\ c.msg \in Carried(sentq[s])
  BY SocketTypes, TailCarried DEF EngagedInv, HandshakeInv, SentSuccess, SentError
<1>2. /\ sentq[s] # <<>> /\ sentq' = [sentq EXCEPT ![s] = Tail(@)]
      /\ UNCHANGED <<outq, net, requests>>
  BY DEF SentSuccess, SentError, clientVars
<1>3. sentq'[s] = Tail(sentq[s]) /\ \A t \in Socks \ {s} : sentq'[t] = sentq[t]
  BY <1>1, <1>2 DEF TypeOK
<1>4. Carried(sentq'[s]) \subseteq Carried(sentq[s])
  BY <1>1, <1>2, <1>3, TailCarried
<1> HIDE DEF c
<1>5. CASE SentSuccess(s)
  <2> DEFINE k == [sock[s] EXCEPT !.ctrlSent = @ \cup {c.msg}]
  <2>1. sock' = [sock EXCEPT ![s] = k] /\ UNCHANGED <<open, owed>>
    BY <1>5 DEF SentSuccess, Update, clientVars, c
  <2>2. /\ k.state = sock[s].state /\ k.loctrl = sock[s].loctrl /\ k.host = sock[s].host
        /\ k.connReq = sock[s].connReq /\ k.ctrlSent = sock[s].ctrlSent \cup {c.msg}
    BY <1>1 DEF SocketType
  <2>3. k \in SocketType
    <3>1. sock[s].ctrlSent \cup {c.msg} \in SUBSET Msgs
      BY <1>1, MessageTypes DEF SocketType, MessagesOf
    <3> QED
      BY <1>1, <3>1 DEF SocketType
  <2> HIDE DEF k
  <2>4. sock'[s] = k /\ \A t \in Socks \ {s} : sock'[t] = sock[t]
    BY <1>1, <2>1 DEF TypeOK
  <2>5. Engage
    <3>1. Phase(k) = Phase(sock[s])
      BY <2>2 DEF Phase
    <3> QED
      BY <1>1, <2>1, <2>2, <2>3, <3>1, Quiet
  <2>6. Sound(s, k, open[s], owed[s], requests[s])
    BY <1>1, <2>2 DEF Sound
  <2>7. \A m \in net' \cup MessagesOf(sock'[s], outq'[s], sentq'[s]) :
          m \in net \cup MessagesOf(sock[s], outq[s], sentq[s])
    BY <1>1, <1>2, <1>4, <2>2, <2>4 DEF MessagesOf
  <2> QED
    BY <1>2, <1>3, <2>1, <2>4, <2>5, <2>6, <2>7, StepEngaged
<1>6. CASE SentError(s)
  <2>1. ErrorResponse(s, sock[s])
    BY <1>6 DEF SentError
  <2>2. /\ Engage
        /\ \E k2 \in SocketType :
             /\ sock' = [sock EXCEPT ![s] = k2]
             /\ k2.ctrlSent = sock[s].ctrlSent /\ k2.connReq = sock[s].connReq
             /\ Sound(s, k2, open'[s], owed'[s], requests[s])
        /\ UNCHANGED open \/ open' = [open EXCEPT ![s] = FALSE]
        /\ UNCHANGED owed \/ owed' = [owed EXCEPT ![s] = @ - 1]
    BY <1>1, <2>1, ErrorEngages
  <2>3. PICK k \in SocketType : /\ sock' = [sock EXCEPT ![s] = k]
                                /\ k.ctrlSent = sock[s].ctrlSent /\ k.connReq = sock[s].connReq
                                /\ Sound(s, k, open'[s], owed'[s], requests[s])
    BY <2>2
  <2>4. sock'[s] = k /\ \A t \in Socks \ {s} : sock'[t] = sock[t]
    BY <1>1, <2>3 DEF TypeOK
  <2>5. \A t \in Socks \ {s} : open'[t] = open[t] /\ owed'[t] = owed[t]
    BY <1>1, <2>2 DEF TypeOK
  <2>6. \A m \in net' \cup MessagesOf(sock'[s], outq'[s], sentq'[s]) :
          m \in net \cup MessagesOf(sock[s], outq[s], sentq[s])
    BY <1>2, <1>4, <2>3, <2>4 DEF MessagesOf
  <2> QED
    BY <1>2, <1>3, <2>2, <2>3, <2>4, <2>5, <2>6, StepEngaged
<1> QED
  BY <1>5, <1>6

\* do_process_expired()
LEMMA ExpireEngaged ==
  ASSUME EngagedInv, HandshakeInv', NEW s \in Socks, NEW q \in sock[s].timers, Expire(s, q)
  PROVE  EngagedStep
<1>1. /\ TypeOK /\ sock[s] \in SocketType
      /\ Sound(s, sock[s], open[s], owed[s], requests[s])
  BY SocketTypes DEF EngagedInv, HandshakeInv
<1>2. UNCHANGED <<sentq, net, acked, failed, losses>>
  BY DEF Expire, historyVars
<1>3. CASE ExpireUnknown(s, q)
  <2> DEFINE k == [sock[s] EXCEPT !.timers = @ \ {q}]
  <2>1. /\ sock' = [sock EXCEPT ![s] = k] /\ UNCHANGED outq /\ Aside(s)
        /\ UNCHANGED <<open, owed, requests>>
    BY <1>2, <1>3 DEF ExpireUnknown, Update, Aside, clientVars
  <2>2. k \in SocketType
    <3>1. sock[s].timers \ {q} \in SUBSET Nat
      BY <1>1 DEF SocketType
    <3> QED
      BY <1>1, <3>1 DEF SocketType
  <2>3. /\ k.state = sock[s].state /\ k.loctrl = sock[s].loctrl /\ k.host = sock[s].host
        /\ k.connReq = sock[s].connReq /\ k.ctrlSent = sock[s].ctrlSent
    BY <1>1 DEF SocketType
  <2> HIDE DEF k
  <2>4. Sound(s, k, open'[s], owed'[s], requests'[s]) /\ Phase(k) = Phase(sock[s])
    BY <1>1, <2>1, <2>3 DEF Sound, Phase
  <2> QED
    BY <2>1, <2>2, <2>3, <2>4, QuietEngaged
<1>4. CASE ExpireRetry(s, q)
  <2> DEFINE k == [sock[s] EXCEPT !.attempts = @ + 1]
  <2>1. PICK m \in Expired(s, q) : Update(s, k) /\ Transmit(s, m, TRUE) /\ UNCHANGED clientVars
    BY <1>4 DEF ExpireRetry
  <2>2. PICK c \in Carriers : c = [msg |-> m, discard |-> TRUE] /\ c.msg \in sock[s].ctrlSent
    BY <1>1, <2>1, CarrierType DEF Expired, SocketType
  <2>3. /\ sock' = [sock EXCEPT ![s] = k] /\ Aside(s) /\ UNCHANGED <<open, owed, requests>>
        /\ outq' = [outq EXCEPT ![s] = Append(@, c)]
    BY <1>2, <2>1, <2>2 DEF Update, Transmit, Aside, clientVars
  <2>4. /\ k \in SocketType
        /\ k.state = sock[s].state /\ k.loctrl = sock[s].loctrl /\ k.host = sock[s].host
        /\ k.connReq = sock[s].connReq /\ k.ctrlSent = sock[s].ctrlSent
    BY <1>1 DEF SocketType
  <2> HIDE DEF k
  <2>5. Sound(s, k, open'[s], owed'[s], requests'[s]) /\ Phase(k) = Phase(sock[s])
    BY <1>1, <2>3, <2>4 DEF Sound, Phase
  <2> QED
    BY <2>2, <2>3, <2>4, <2>5, QuietEngaged
<1>5. CASE ExpireGiveUp(s, q)
  <2>1. PICK m \in Expired(s, q) :
          ErrorResponse(s, Release(sock[s], {m})) /\ UNCHANGED <<outq, requests>>
    BY <1>5 DEF ExpireGiveUp
  <2> DEFINE r == Release(sock[s], {m})
  <2>2. {m} \in SUBSET sock[s].ctrlSent
    BY <2>1 DEF Expired
  <2>3. /\ r \in SocketType /\ r.ctrlSent = sock[s].ctrlSent \ {m}
        /\ r.state = sock[s].state /\ r.connReq = sock[s].connReq
        /\ r.host = sock[s].host /\ r.loctrl = sock[s].loctrl
    BY <1>1, <2>2, ReleaseType DEF Release, SocketType
  <2>4. ErrorResponse(s, r)
    BY <2>1
  <2> HIDE DEF r
  <2>5. /\ Engage
        /\ \E k2 \in SocketType :
             /\ sock' = [sock EXCEPT ![s] = k2]
             /\ k2.ctrlSent = r.ctrlSent /\ k2.connReq = r.connReq
             /\ Sound(s, k2, open'[s], owed'[s], requests[s])
        /\ UNCHANGED open \/ open' = [open EXCEPT ![s] = FALSE]
        /\ UNCHANGED owed \/ owed' = [owed EXCEPT ![s] = @ - 1]
    BY <2>3, <2>4, ErrorEngages
  <2>6. PICK k \in SocketType : /\ sock' = [sock EXCEPT ![s] = k]
                                /\ k.ctrlSent = r.ctrlSent /\ k.connReq = r.connReq
                                /\ Sound(s, k, open'[s], owed'[s], requests[s])
    BY <2>5
  <2>7. Aside(s)
    BY <1>2, <2>1, <2>5 DEF Aside
  <2> QED
    BY <2>1, <2>3, <2>5, <2>6, <2>7, HandlerEngaged
<1> QED
  BY <1>3, <1>4, <1>5 DEF Expire

LEMMA LoseEngaged ==
  ASSUME EngagedInv, HandshakeInv', NEW m \in net, Lose(m)
  PROVE  EngagedStep
<1>1. net' \subseteq net /\ UNCHANGED <<sock, outq, sentq, open, owed, requests>>
  BY DEF Lose, clientVars, historyVars
<1>2. Engage
  BY <1>1 DEF Engage, phases, hosts
<1>3. RP!RendezvousInv'
  BY <1>2, SomeNone, RP!RendezvousStep DEF EngagedInv, Engage
<1>4. \A x \in net : Meant(x)'
  BY <1>2, MeantLasts, MessageTypes DEF EngagedInv, HandshakeInv
<1>5. \A s \in Socks : \A x \in MessagesOf(sock[s], outq[s], sentq[s]) : Meant(x)'
  BY <1>2, MeantLasts, MessageTypes DEF EngagedInv, HandshakeInv
<1> QED
  BY <1>1, <1>2, <1>3, <1>4, <1>5 DEF EngagedInv, EngagedStep

\* A program that calls connect() only on a closed socket with no request under
\* way: the code's own condition in MSG_CONNECT, which tells
\* any other program EOPNOTSUPP and then connects all the same.
ConnectsUnused ==
  \A s, d \in Socks : Connect(s, d) => sock[s].state = "CLOSE" /\ sock[s].loctrl = "NONE"

LEMMA InitEngaged == Init => EngagedInv
<1> SUFFICES ASSUME Init PROVE EngagedInv
  OBVIOUS
<1>1. HandshakeInv
  BY InitOwnership, HandshakeAssumption
<1>2. RP!RendezvousInit
  BY DEF Init, NewSock, RP!RendezvousInit, phases, hosts, Phase
<1>3. RP!RendezvousInv
  BY <1>2, SomeNone, RP!RendezvousInitInv
<1>4. ASSUME NEW s \in Socks  PROVE Sound(s, sock[s], open[s], owed[s], requests[s])
  BY DEF Init, NewSock, Sound
<1>5. ASSUME NEW s \in Socks  PROVE MessagesOf(sock[s], outq[s], sentq[s]) = {}
  <2>1. Carried(<<>>) = {}
    BY DEF Carried
  <2>2. sock[s] = NewSock /\ outq[s] = <<>> /\ sentq[s] = <<>>
    BY DEF Init
  <2> QED
    BY <2>1, <2>2 DEF MessagesOf, NewSock
<1>6. net = {}
  BY DEF Init
<1> QED
  BY <1>1, <1>3, <1>4, <1>5, <1>6 DEF EngagedInv

LEMMA NextEngaged == EngagedInv /\ [Next]_vars /\ [ConnectsUnused]_vars => EngagedStep
<1> SUFFICES ASSUME EngagedInv, [Next]_vars, [ConnectsUnused]_vars  PROVE EngagedStep
  OBVIOUS
<1>1. HandshakeInv'
  BY NextInv DEF EngagedInv
<1>2. CASE UNCHANGED vars
  <2>1. UNCHANGED <<sock, outq, sentq, net, open, owed, requests, phases, hosts>>
    BY <1>2 DEF vars, phases, hosts
  <2>2. Engage
    BY <2>1 DEF Engage
  <2>3. RP!RendezvousInv'
    BY <2>2, SomeNone, RP!RendezvousStep DEF EngagedInv, Engage
  <2>4. \A x \in net : Meant(x)'
    BY <2>2, MeantLasts, MessageTypes DEF EngagedInv, HandshakeInv
  <2>5. \A s \in Socks : \A x \in MessagesOf(sock[s], outq[s], sentq[s]) : Meant(x)'
    BY <2>2, MeantLasts, MessageTypes DEF EngagedInv, HandshakeInv
  <2> QED
    BY <1>1, <2>1, <2>2, <2>3, <2>4, <2>5 DEF EngagedInv, EngagedStep
<1>3. CASE Next /\ ConnectsUnused
  <2>1. CASE Network
    BY <1>1, <2>1, LoseEngaged, ReceiveEngaged DEF Network
  <2>2. ASSUME NEW s \in Socks, Client(s)  PROVE EngagedStep
    BY <1>1, <1>3, <2>2, ClientEngaged DEF ConnectsUnused
  <2>3. ASSUME NEW s \in Socks, Daemon(s)  PROVE EngagedStep
    BY <1>1, <2>3, SendEngaged, SentEngaged, ExpireEngaged DEF Daemon
  <2> QED
    BY <1>3, <2>1, <2>2, <2>3 DEF Next
<1> QED
  BY <1>2, <1>3

\* The two instances of the rendezvous, of its specification and of its proofs,
\* are the same.
LEMMA SameRendezvous ==
  /\ Init => R!RendezvousInit
  /\ Engage => [R!RendezvousNext]_<<phases, hosts>>
  /\ EngagedInv => R!Agreement /\ R!Exclusive
<1>1. Init => R!RendezvousInit
  BY DEF Init, NewSock, R!RendezvousInit, phases, hosts, Phase
<1>2. Engage => [R!RendezvousNext]_<<phases, hosts>>
  BY DEF Engage, RP!RendezvousNext, RP!Call, RP!Promise, RP!GiveUp, RP!Open, RP!Enter,
         R!RendezvousNext, R!Call, R!Promise, R!GiveUp, R!Open, R!Enter
<1>3. EngagedInv => R!Agreement /\ R!Exclusive
  BY DEF EngagedInv, RP!RendezvousInv, RP!Agreement, R!Agreement, R!Exclusive
<1> QED
  BY <1>1, <1>2, <1>3

LEMMA EngagedAlways == Spec /\ [][ConnectsUnused]_vars => []EngagedInv
<1>1. EngagedInv /\ [Next]_vars /\ [ConnectsUnused]_vars => EngagedInv'
  BY NextEngaged DEF EngagedStep
<1> QED
  BY <1>1, InitEngaged, PTL DEF Spec

\* The handshake implements the rendezvous, whatever is lost, repeated, reordered
\* or cannot be sent and whenever timers expire, as long as no program calls
\* connect() on a socket that is in use; that a program may is the slip in
\* MSG_CONNECT.
THEOREM HandshakeImplementsRendezvous == Spec /\ [][ConnectsUnused]_vars => Rendezvous
<1>1. EngagedInv /\ [Next]_vars /\ [ConnectsUnused]_vars => [R!RendezvousNext]_<<phases, hosts>>
  BY NextEngaged, SameRendezvous DEF EngagedStep
<1>2. Init => R!RendezvousInit
  BY SameRendezvous
<1> QED
  BY <1>1, <1>2, EngagedAlways, PTL DEF Spec, Rendezvous, R!RendezvousSpec

\* Under the same premise no established socket has a peer that promised nothing,
\* and of two callers of one listener at most one is established.
THEOREM EstablishedTogether == Spec /\ [][ConnectsUnused]_vars => [](R!Agreement /\ R!Exclusive)
<1>1. EngagedInv => R!Agreement /\ R!Exclusive
  BY SameRendezvous
<1> QED
  BY <1>1, EngagedAlways, PTL

\* Under the same premise no client gets two replies to a request, nor one that
\* it never asked for.
THEOREM RepliesCorrect == Spec /\ [][ConnectsUnused]_vars => []RepliesAnswerRequests
<1>1. EngagedInv => RepliesAnswerRequests
  BY DEF EngagedInv, Sound, RepliesAnswerRequests
<1> QED
  BY <1>1, EngagedAlways, PTL

\* Programs that meet the premise by themselves: whoever connects makes no other
\* request.  Its socket is as new when it does.
OneConnect == \A s \in Socks : "connect" \in Calls[s] => MaxRequests[s] <= 1

LEMMA OneConnectUnused ==
  ASSUME OneConnect
  PROVE  EngagedInv /\ [Next]_vars => [ConnectsUnused]_vars
<1> SUFFICES ASSUME EngagedInv, NEW s \in Socks, NEW d \in Socks, Connect(s, d)
             PROVE  sock[s].state = "CLOSE" /\ sock[s].loctrl = "NONE"
  BY DEF ConnectsUnused
<1>1. /\ "connect" \in Calls[s] /\ requests[s] < MaxRequests[s]
      /\ requests[s] \in Nat /\ MaxRequests[s] \in Nat
      /\ Sound(s, sock[s], open[s], owed[s], requests[s])
  BY HandshakeAssumption
     DEF Connect, Request, HandshakeAssumption, EngagedInv, HandshakeInv, TypeOK
<1>2. MaxRequests[s] <= 1
  BY <1>1 DEF OneConnect
<1>3. requests[s] = 0
  BY <1>1, <1>2
<1> QED
  BY <1>1, <1>3 DEF Sound

\* Then the handshake implements the rendezvous without a premise.
THEOREM ConnectOnceRendezvous == ASSUME OneConnect PROVE Spec => Rendezvous
<1>1. EngagedInv /\ [Next]_vars => EngagedInv' /\ [ConnectsUnused]_vars
  BY NextEngaged, OneConnectUnused DEF EngagedStep
<1>2. Spec => [][ConnectsUnused]_vars
  BY <1>1, InitEngaged, PTL DEF Spec
<1> QED
  BY <1>2, HandshakeImplementsRendezvous, PTL

\* And no client gets a reply too many.
THEOREM ConnectOnceReplies == ASSUME OneConnect PROVE Spec => []RepliesAnswerRequests
<1>1. EngagedInv /\ [Next]_vars => EngagedInv' /\ [ConnectsUnused]_vars
  BY NextEngaged, OneConnectUnused DEF EngagedStep
<1>2. Spec => [][ConnectsUnused]_vars
  BY <1>1, InitEngaged, PTL DEF Spec
<1> QED
  BY <1>2, RepliesCorrect, PTL
=============================================================================
