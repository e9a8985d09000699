---------------------------- MODULE BuffersProofs ----------------------------
(***************************************************************************)
(* A buffer has one owner, and every buffer that is lost is paid for by a  *)
(* call of a program or by a socket, for any amount of memory, any number  *)
(* of sockets and calls, and whatever calloc() refuses.                    *)
(***************************************************************************)
EXTENDS Buffers, FiniteSetTheorems, TLAPS

-----------------------------------------------------------------------------
(* OneOwner, owner by owner: without the set of used buffers. *)

Free(h) == h.mbuff \cup h.fresh

HeldApart ==
  /\ \A c, d \in held : c.mb = d.mb => c = d
  /\ \A c \in held : c.mb # input /\ c.mb \notin Free(heap)
InputApart == input \notin Free(heap)
RequestsApart ==
  \A s \in Pending :
    /\ \A t \in Pending : sock[s].connReq = sock[t].connReq => s = t
    /\ \A c \in held : c.mb # sock[s].connReq
    /\ sock[s].connReq \notin Free(heap) \cup {input, None}

BuffersInv == TypeOK /\ HeldApart /\ InputApart /\ RequestsApart

LEMMA ApartIsOneOwner == BuffersInv => OneOwner
  BY DEF BuffersInv, OneOwner, HeldApart, InputApart, RequestsApart, Free, Used, TypeOK

-----------------------------------------------------------------------------
(* heap.c and kernel_tx.c *)

\* What is taken comes from the free lists or from calloc(), and what stays free
\* is all the rest: no outcome of Prepare loses or doubles a buffer.
LEMMA PrepareTakes ==
  ASSUME BuffersAssumption, NEW h \in HeapType, NEW p \in Prepare(h)
  PROVE  /\ p.heap \in HeapType
         /\ p.mb \in Mbuffs \cup {None}
         /\ p.mb # None => p.mb \in Free(h)
         /\ Free(p.heap) = Free(h) \ {p.mb}
<1>1. CASE p \in {[mb |-> None, oom |-> TRUE, heap |-> h] : b \in MayAllocMbuff(h) \cap {None}}
  BY <1>1 DEF HeapType, Free, BuffersAssumption
<1> DEFINE bs == MayAllocMbuff(h) \ {None}
<1>2. bs \subseteq Free(h) /\ Free(h) \subseteq Mbuffs /\ None \notin Mbuffs
  BY DEF MayAllocMbuff, Free, HeapType, BuffersAssumption
<1> HIDE DEF bs
<1>3. ASSUME NEW b \in bs, TRUE \in MayAllocMsg(h),
             p = [mb |-> b, oom |-> FALSE, heap |-> TakeMsg(TakeMbuff(h, b))]
      PROVE  /\ p.heap \in HeapType /\ p.mb = b
             /\ Free(p.heap) = Free(h) \ {b}
  <2>1. TakeMbuff(h, b) \in HeapType
    BY DEF TakeMbuff, HeapType
  <2>2. TakeMbuff(h, b).msg = h.msg /\ TakeMbuff(h, b).freshMsg = h.freshMsg
    BY DEF TakeMbuff, HeapType
  <2>3. h.msg > 0 \/ h.freshMsg > 0
    BY <1>3 DEF MayAllocMsg
  <2>4. Free(TakeMbuff(h, b)) = Free(h) \ {b}
    BY DEF TakeMbuff, HeapType, Free
  <2> DEFINE g == TakeMbuff(h, b)
  <2>5. g \in HeapType /\ (g.msg > 0 \/ g.freshMsg > 0)
    BY <2>1, <2>2, <2>3
  <2> HIDE DEF g
  <2>6. TakeMsg(g) \in HeapType /\ Free(TakeMsg(g)) = Free(g)
    BY <2>5 DEF TakeMsg, HeapType, Free
  <2> QED
    BY <1>3, <2>4, <2>6 DEF g
<1>4. ASSUME NEW b \in bs,
             p = [mb |-> None, oom |-> FALSE, heap |-> free_mbuff(TakeMbuff(h, b), b)]
      PROVE  /\ p.heap \in HeapType /\ p.mb = None
             /\ Free(p.heap) = Free(h)
  BY <1>2, <1>4 DEF free_mbuff, TakeMbuff, HeapType, Free
<1> QED
  BY <1>1, <1>2, <1>3, <1>4 DEF Prepare, bs

LEMMA FreeMsgTypes ==
  ASSUME NEW h \in HeapType
  PROVE  free_msg(h) \in HeapType /\ Free(free_msg(h)) = Free(h)
  BY DEF free_msg, HeapType, Free

LEMMA FreeMsgAndPrepareTakes ==
  ASSUME BuffersAssumption, NEW h \in HeapType, NEW p \in FreeMsgAndPrepare(h)
  PROVE  /\ p.heap \in HeapType
         /\ p.mb \in Mbuffs \cup {None}
         /\ p.mb # None => p.mb \in Free(h)
         /\ Free(p.heap) = Free(h) \ {p.mb}
<1>1. CASE p \in Prepare(free_msg(h))
  BY <1>1, PrepareTakes, FreeMsgTypes
<1>2. ASSUME NEW q \in Prepare(h), p = [q EXCEPT !.heap = free_msg(q.heap)]
      PROVE  p.heap = free_msg(q.heap) /\ p.mb = q.mb
  BY <1>2 DEF Prepare
<1> QED
  BY <1>1, <1>2, PrepareTakes, FreeMsgTypes DEF FreeMsgAndPrepare

LEMMA FreeMbuffTypes ==
  ASSUME NEW h \in HeapType, NEW b \in Mbuffs
  PROVE  /\ free_mbuff(h, b) \in HeapType /\ Free(free_mbuff(h, b)) = Free(h) \cup {b}
         /\ FreeBoth(h, b) \in HeapType /\ Free(FreeBoth(h, b)) = Free(h) \cup {b}
<1>1. free_mbuff(h, b) \in HeapType /\ Free(free_mbuff(h, b)) = Free(h) \cup {b}
  BY DEF free_mbuff, HeapType, Free
<1> QED
  BY <1>1, FreeMsgTypes DEF FreeBoth

\* An acknowledgement gives back at most one message, with its buffer.
LEMMA ReleaseTypes ==
  ASSUME TypeOK, NEW s \in Socks, NEW kind, NEW A \in Acked(s, kind), NEW h \in HeapType
  PROVE  /\ A \subseteq held
         /\ Release(h, A) \in HeapType
         /\ Free(Release(h, A)) = Free(h) \cup {a.mb : a \in A}
<1> DEFINE bs == {a.mb : a \in A}
           n == Cardinality(A)
<1>1. A = {} \/ \E a \in held : A = {a}
  BY DEF Acked
<1>2. A \subseteq held /\ bs \subseteq Mbuffs
  BY <1>1 DEF TypeOK, Carriers
<1>3. n \in Nat
  <2>1. CASE A = {}
    <3>1. Cardinality({}) = 0
      BY FS_EmptySet
    <3> QED
      BY <2>1, <3>1
  <2>2. ASSUME NEW a \in held, A = {a} PROVE n \in Nat
    <3>1. Cardinality({a}) = 1
      BY FS_Singleton
    <3> QED
      BY <2>2, <3>1
  <2> QED
    BY <1>1, <2>1, <2>2
<1>4. Release(h, A) = [h EXCEPT !.mbuff = h.mbuff \cup bs, !.msg = h.msg + n]
  BY DEF Release
<1> HIDE DEF bs, n
<1>5. h.msg + n \in Nat /\ h.mbuff \cup bs \in SUBSET Mbuffs
  BY <1>2, <1>3 DEF HeapType
<1> DEFINE k == h.msg + n
           m == h.mbuff \cup bs
<1> HIDE DEF k, m
<1>6. /\ [h EXCEPT !.mbuff = m, !.msg = k] \in HeapType
      /\ Free([h EXCEPT !.mbuff = m, !.msg = k]) = m \cup h.fresh
  BY <1>5 DEF HeapType, Free, k, m
<1>7. A \subseteq held /\ Release(h, A) \in HeapType /\ Free(Release(h, A)) = Free(h) \cup bs
  BY <1>2, <1>4, <1>6 DEF k, m, Free
<1> QED
  BY <1>7 DEF bs

-----------------------------------------------------------------------------
(* Every step keeps the owners apart. *)

\* A step gives back the buffers of the carriers D and lets the carriers N
\* go on with at most one of these or of the free ones.
HandedOver(D, N) ==
  /\ D \subseteq held
  /\ held' = (held \ D) \cup N
  /\ \A m, n \in N : m = n
  /\ \A n \in N :
       /\ n.mb \in Mbuffs
       /\ n.mb \notin Free(heap')
       /\ n.mb \in Free(heap) \/ \E d \in D : n.mb = d.mb
  /\ \A b \in Free(heap') : b \in Free(heap) \/ \E d \in D : b = d.mb

\* No socket comes to keep a request.
NoNewRequest ==
  \A s \in Pending' : s \in Pending /\ sock'[s].connReq = sock[s].connReq

LEMMA HandOverQueues ==
  ASSUME BuffersInv, NEW D, NEW N, HandedOver(D, N), input' = input
  PROVE  HeldApart' /\ InputApart'
<1> USE DEF BuffersInv
<1>a. \A c \in held' : (c \in held /\ c \notin D) \/ c \in N
  BY DEF HandedOver
<1>b. \A n \in N : n.mb \in Free(heap) \/ \E d \in held : d \in D /\ n.mb = d.mb
  BY DEF HandedOver
<1>c. \A b \in Free(heap') : b \in Free(heap) \/ \E d \in held : d \in D /\ b = d.mb
  BY DEF HandedOver
<1>1. HeldApart'
  <2>1. ASSUME NEW c \in held', NEW d \in held', c.mb = d.mb PROVE c = d
    BY <1>a, <1>b, <2>1 DEF HeldApart, HandedOver
  <2>2. ASSUME NEW c \in held' PROVE c.mb # input' /\ c.mb \notin Free(heap')
    <3>1. CASE c \in held /\ c \notin D
      <4>1. c.mb # input'
        BY <3>1 DEF HeldApart
      <4>2. \A d \in held : d \in D => c.mb # d.mb
        BY <3>1 DEF HeldApart
      <4>3. c.mb \notin Free(heap)
        BY <3>1 DEF HeldApart
      <4> QED
        BY <4>1, <4>2, <4>3, <1>c
    <3>2. CASE c \in N
      BY <3>2, <1>b DEF HeldApart, InputApart, HandedOver
    <3> QED
      BY <1>a, <3>1, <3>2
  <2> QED
    BY <2>1, <2>2 DEF HeldApart
<1>2. InputApart'
  BY DEF HeldApart, InputApart, HandedOver
<1> QED
  BY <1>1, <1>2

LEMMA HandOver ==
  ASSUME BuffersInv, NEW D, NEW N, HandedOver(D, N), NoNewRequest, input' = input
  PROVE  HeldApart' /\ InputApart' /\ RequestsApart'
<1>1. HeldApart' /\ InputApart'
  BY HandOverQueues
<1>2. RequestsApart'
  BY DEF BuffersInv, RequestsApart, HeldApart, HandedOver, NoNewRequest
<1> QED
  BY <1>1, <1>2

\* The same step when nothing is prepared.
LEMMA NothingPrepared ==
  ASSUME BuffersInv, held' = held, heap' = heap, input' = input, NoNewRequest
  PROVE  HeldApart' /\ InputApart' /\ RequestsApart'
<1>1. HandedOver({}, {})
  BY DEF HandedOver
<1> QED
  BY <1>1, HandOver

\* What Prepare() returned, on its way to output().
LEMMA PreparedIsOutput ==
  ASSUME BuffersAssumption, NEW s \in Socks, NEW p, p.mb \in Mbuffs \cup {None},
         NEW kind \in Kinds, NEW discard \in BOOLEAN
  PROVE  /\ ToOutput(s, p, kind, discard) \subseteq {c \in Carriers : c.sk \in Socks}
         /\ \A n \in ToOutput(s, p, kind, discard) : n.mb = p.mb /\ p.mb # None
         /\ \A m, n \in ToOutput(s, p, kind, discard) : m = n
<1> DEFINE c == Carrier("output", s, p.mb, kind, discard, TRUE)
<1>1. ToOutput(s, p, kind, discard) = IF p.mb = None THEN {} ELSE {c}
  BY DEF ToOutput
<1>2. p.mb # None => c \in Carriers /\ c.sk = s /\ c.mb = p.mb
  BY DEF Carrier, Carriers
<1> HIDE DEF c
<1> QED
  BY <1>1, <1>2

\* A step of this form keeps the types as well, as long as the parts it
\* changes keep theirs.
OutCarriers == {c \in Carriers : c.sk \in Socks}

Plain ==
  /\ input' = input
  /\ up' = up
  /\ alive' \in BOOLEAN
  /\ calls' \in [Socks -> 0 .. MaxCalls]

LEMMA StepInv ==
  ASSUME BuffersAssumption, BuffersInv, NEW D, NEW N, HandedOver(D, N), NoNewRequest, Plain,
         N \subseteq OutCarriers, unacked' \subseteq Socks,
         heap' \in HeapType, sock' \in [Socks -> SocketType]
  PROVE  BuffersInv'
<1>1. HeldApart' /\ InputApart' /\ RequestsApart'
  BY HandOver DEF Plain
<1>2. held' \subseteq held \cup N
  BY DEF HandedOver
<1>3. TypeOK'
  BY <1>2 DEF BuffersInv, TypeOK, Plain, OutCarriers
<1> QED
  BY <1>1, <1>3 DEF BuffersInv

LEMMA UpdateTypes ==
  ASSUME TypeOK, NEW s \in Socks, NEW k \in SocketType, Update(s, k), unacked' = unacked,
         \/ k.state # "CONNECT_RCVD"
         \/ k.state = sock[s].state /\ k.connReq = sock[s].connReq
  PROVE  sock' \in [Socks -> SocketType] /\ NoNewRequest
<1>1. sock' \in [Socks -> SocketType] /\ sock'[s] = k /\ \A t \in Socks : t # s => sock'[t] = sock[t]
  BY DEF Update, TypeOK
<1> QED
  BY <1>1 DEF NoNewRequest, Pending

LEMMA SameSockets ==
  ASSUME TypeOK, sock' = sock, unacked' = unacked
  PROVE  sock' \in [Socks -> SocketType] /\ NoNewRequest
  BY DEF NoNewRequest, Pending, TypeOK

\* Crash changes nothing but `alive', and the call that was its cause.
LEMMA CrashInv ==
  ASSUME BuffersAssumption, BuffersInv, Crash, calls' \in [Socks -> 0 .. MaxCalls]
  PROVE  BuffersInv'
<1>1. NoNewRequest /\ Plain /\ HandedOver({}, {})
  BY DEF Crash, inputVars, NoNewRequest, Pending, Plain, HandedOver
<1> QED
  BY <1>1, StepInv DEF BuffersInv, TypeOK, Crash

-----------------------------------------------------------------------------
(* do_socket_request() *)

LEMMA RequestTypes ==
  ASSUME BuffersAssumption, TypeOK, NEW s \in Socks, Request(s)
  PROVE  calls' \in [Socks -> 0 .. MaxCalls] /\ alive \in BOOLEAN
<1>1. calls[s] + 1 \in 0 .. MaxCalls
  BY DEF BuffersAssumption, TypeOK, Request
<1> QED
  BY <1>1 DEF Request, TypeOK

\* What Prepare() took goes on in the one carrier it made.
LEMMA PreparedHandedOver ==
  ASSUME BuffersAssumption, TypeOK, NEW s \in Socks, NEW p \in Prepare(heap),
         NEW kind \in Kinds, NEW discard \in BOOLEAN,
         heap' = p.heap, held' = held \cup ToOutput(s, p, kind, discard)
  PROVE  /\ HandedOver({}, ToOutput(s, p, kind, discard))
         /\ ToOutput(s, p, kind, discard) \subseteq OutCarriers
         /\ heap' \in HeapType
<1> DEFINE N == ToOutput(s, p, kind, discard)
<1>1. heap \in HeapType
  BY DEF TypeOK
<1>2. /\ p.heap \in HeapType /\ p.mb \in Mbuffs \cup {None}
      /\ p.mb # None => p.mb \in Free(heap)
      /\ Free(p.heap) = Free(heap) \ {p.mb}
  BY <1>1, PrepareTakes
<1>3. /\ N \subseteq OutCarriers
      /\ \A n \in N : n.mb = p.mb /\ p.mb # None
      /\ \A m, n \in N : m = n
  BY <1>2, PreparedIsOutput DEF OutCarriers
<1> HIDE DEF N
<1>4. HandedOver({}, N)
  <2>1. held' = (held \ {}) \cup N
    BY DEF N
  <2>2. \A n \in N : n.mb \in Mbuffs /\ n.mb \notin Free(heap') /\ n.mb \in Free(heap)
    BY <1>2, <1>3
  <2> QED
    BY <1>2, <1>3, <2>1, <2>2 DEF HandedOver
<1> QED
  BY <1>2, <1>3, <1>4 DEF N

LEMMA SocketEdits ==
  ASSUME BuffersAssumption, TypeOK, NEW s \in Socks
  PROVE  /\ sock[s] \in SocketType
         /\ OneMore(sock[s].attempts) \in Nat
  BY DEF TypeOK, SocketType, OneMore, BuffersAssumption

LEMMA ConnectInv ==
  ASSUME BuffersAssumption, BuffersInv, NEW s \in Socks, Connect(s)
  PROVE  BuffersInv'
<1>1. PICK p \in Prepare(heap) :
        /\ heap' = p.heap
        /\ held' = held \cup ToOutput(s, p, "connect", FALSE)
        /\ Update(s, IF p.mb # None
                       THEN [sock[s] EXCEPT !.state = "CONNECT_SENT",
                                            !.loctrl = "CONNECT_REQUEST", !.attempts = 1]
                       ELSE [sock[s] EXCEPT !.attempts = IF p.oom THEN @ ELSE 1])
  BY DEF Connect
<1> DEFINE k == IF p.mb # None
                  THEN [sock[s] EXCEPT !.state = "CONNECT_SENT",
                                       !.loctrl = "CONNECT_REQUEST", !.attempts = 1]
                  ELSE [sock[s] EXCEPT !.attempts = IF p.oom THEN @ ELSE 1]
<1>2. TypeOK
  BY DEF BuffersInv
<1>3. /\ k \in SocketType
      /\ \/ k.state # "CONNECT_RCVD"
         \/ k.state = sock[s].state /\ k.connReq = sock[s].connReq
  BY <1>2, SocketEdits DEF SocketType
<1>4. Update(s, k)
  BY <1>1
<1> HIDE DEF k
<1>5. unacked' = unacked /\ Plain
  BY <1>2, RequestTypes DEF Connect, Plain, inputVars
<1>6. sock' \in [Socks -> SocketType] /\ NoNewRequest
  BY <1>2, <1>3, <1>4, <1>5, UpdateTypes
<1>7. /\ HandedOver({}, ToOutput(s, p, "connect", FALSE))
      /\ ToOutput(s, p, "connect", FALSE) \subseteq OutCarriers
      /\ heap' \in HeapType
  BY <1>1, <1>2, PreparedHandedOver DEF Kinds
<1> QED
  BY <1>2, <1>5, <1>6, <1>7, StepInv DEF TypeOK

LEMMA ListenInv ==
  ASSUME BuffersAssumption, BuffersInv, NEW s \in Socks, Listen(s)
  PROVE  BuffersInv'
<1> DEFINE k == [sock[s] EXCEPT !.state = "LISTEN"]
<1>1. TypeOK
  BY DEF BuffersInv
<1>2. k \in SocketType /\ k.state # "CONNECT_RCVD"
  BY <1>1, SocketEdits DEF SocketType
<1>3. Update(s, k)
  BY DEF Listen
<1> HIDE DEF k
<1>4. unacked' = unacked /\ Plain /\ HandedOver({}, {})
  BY <1>1 DEF Listen, Plain, inputVars, HandedOver, TypeOK
<1>5. sock' \in [Socks -> SocketType] /\ NoNewRequest
  BY <1>1, <1>2, <1>3, <1>4, UpdateTypes
<1>6. heap' \in HeapType
  BY <1>1 DEF Listen, TypeOK
<1> QED
  BY <1>1, <1>4, <1>5, <1>6, StepInv DEF TypeOK

\* do_accept_connection() never comes to keep a request.
LEMMA AcceptedTypes ==
  ASSUME BuffersAssumption, TypeOK, NEW s \in Socks, NEW p, Accepted(s, p), unacked' = unacked
  PROVE  sock' \in [Socks -> SocketType] /\ NoNewRequest
<1> DEFINE k == IF p.mb # None
                  THEN [sock[s] EXCEPT !.state = "ACCEPT_SENT", !.loctrl = "ACCEPT_REQUEST",
                                       !.connReq = None, !.attempts = OneMore(@)]
                  ELSE [sock[s] EXCEPT !.attempts = OneMore(@)]
<1>1. /\ k \in SocketType
      /\ \/ k.state # "CONNECT_RCVD"
         \/ k.state = sock[s].state /\ k.connReq = sock[s].connReq
  BY SocketEdits DEF SocketType
<1>2. Update(s, k)
  BY DEF Accepted
<1> HIDE DEF k
<1> QED
  BY <1>1, <1>2, UpdateTypes

LEMMA AcceptPendingInv ==
  ASSUME BuffersAssumption, BuffersInv, NEW s \in Socks, AcceptPending(s)
  PROVE  BuffersInv'
<1>1. TypeOK
  BY DEF BuffersInv
<1>2. calls' \in [Socks -> 0 .. MaxCalls]
  BY <1>1, RequestTypes DEF AcceptPending
<1>3. ASSUME NEW p \in Prepare(heap), heap' = p.heap,
             held' = held \cup ToOutput(s, p, "accept", FALSE),
             Accepted(s, p), UNCHANGED <<inputVars, alive, unacked>>
      PROVE  BuffersInv'
  <2>1. unacked' = unacked /\ Plain
    BY <1>1, <1>2, <1>3 DEF Plain, inputVars, TypeOK
  <2>2. sock' \in [Socks -> SocketType] /\ NoNewRequest
    BY <1>1, <1>3, <2>1, AcceptedTypes
  <2>3. /\ HandedOver({}, ToOutput(s, p, "accept", FALSE))
        /\ ToOutput(s, p, "accept", FALSE) \subseteq OutCarriers
        /\ heap' \in HeapType
    BY <1>1, <1>3, PreparedHandedOver DEF Kinds
  <2> QED
    BY <1>1, <2>1, <2>2, <2>3, StepInv DEF TypeOK
<1> QED
  BY <1>2, <1>3, CrashInv DEF AcceptPending

LEMMA AcceptWaitingInv ==
  ASSUME BuffersAssumption, BuffersInv, NEW s \in Socks, AcceptWaiting(s)
  PROVE  BuffersInv'
<1> DEFINE k == [sock[s] EXCEPT !.loctrl = "ACCEPT_REQUEST"]
<1>1. TypeOK
  BY DEF BuffersInv
<1>2. k \in SocketType /\ k.state = sock[s].state /\ k.connReq = sock[s].connReq
  BY <1>1, SocketEdits DEF SocketType
<1>3. Update(s, k) \/ sock' = sock
  BY DEF AcceptWaiting
<1> HIDE DEF k
<1>4. unacked' = unacked /\ Plain /\ HandedOver({}, {})
  BY <1>1, RequestTypes DEF AcceptWaiting, Plain, inputVars, HandedOver
<1>5. sock' \in [Socks -> SocketType] /\ NoNewRequest
  BY <1>1, <1>2, <1>3, <1>4, UpdateTypes, SameSockets
<1>6. heap' \in HeapType
  BY <1>1 DEF AcceptWaiting, TypeOK
<1> QED
  BY <1>1, <1>4, <1>5, <1>6, StepInv DEF TypeOK

-----------------------------------------------------------------------------
(* input() *)

LEMMA TakenTypes ==
  ASSUME NEW h \in HeapType, NEW b \in MayAllocMbuff(h), TRUE \in MayAllocMsg(h), b # None
  PROVE  /\ TakeMsg(TakeMbuff(h, b)) \in HeapType
         /\ Free(TakeMsg(TakeMbuff(h, b))) = Free(h) \ {b}
         /\ b \in Free(h)
<1> DEFINE g == TakeMbuff(h, b)
<1>1. g \in HeapType /\ (g.msg > 0 \/ g.freshMsg > 0) /\ Free(g) = Free(h) \ {b}
  BY DEF MayAllocMsg, TakeMbuff, HeapType, Free
<1> HIDE DEF g
<1>2. TakeMsg(g) \in HeapType /\ Free(TakeMsg(g)) = Free(g)
  BY <1>1 DEF TakeMsg, HeapType, Free
<1> QED
  BY <1>1, <1>2 DEF g, MayAllocMbuff, Free

LEMMA InputAllocInv ==
  ASSUME BuffersAssumption, BuffersInv, InputAlloc
  PROVE  BuffersInv'
<1> USE DEF BuffersInv
<1>1. heap \in HeapType /\ TRUE \in MayAllocMsg(heap)
  BY DEF InputAlloc, TypeOK
<1>2. PICK b \in MayAllocMbuff(heap) :
        /\ input' = b
        /\ heap' = IF b = None THEN TakeMsg(heap) ELSE TakeMsg(TakeMbuff(heap, b))
  BY DEF InputAlloc
<1>3. /\ heap' \in HeapType
      /\ Free(heap') = Free(heap) \ {b}
      /\ b # None => b \in Free(heap)
  <2>1. CASE b = None
    <3>1. heap.msg > 0 \/ heap.freshMsg > 0
      BY <1>1 DEF MayAllocMsg
    <3>2. TakeMsg(heap) \in HeapType /\ Free(TakeMsg(heap)) = Free(heap)
      BY <1>1, <3>1 DEF TakeMsg, HeapType, Free
    <3>3. None \notin Free(heap)
      BY <1>1 DEF Free, HeapType, BuffersAssumption
    <3> QED
      BY <1>2, <2>1, <3>2, <3>3
  <2>2. CASE b # None
    BY <1>1, <1>2, <2>2, TakenTypes
  <2> QED
    BY <2>1, <2>2
<1>4. Free(heap) \subseteq Mbuffs /\ None \notin Mbuffs
  BY <1>1 DEF Free, HeapType, BuffersAssumption
<1>5. \A c \in held : c.mb \in Mbuffs
  BY DEF TypeOK, Carriers
<1>6. UNCHANGED <<sock, held, up, alive, calls, unacked>>
  BY DEF InputAlloc
<1>7. HeldApart'
  BY <1>2, <1>3, <1>4, <1>5, <1>6 DEF HeldApart
<1>8. InputApart'
  BY <1>2, <1>3 DEF InputApart
<1>9. RequestsApart'
  BY <1>2, <1>3, <1>4, <1>6 DEF RequestsApart, Pending
<1>10. TypeOK'
  BY <1>2, <1>3, <1>4, <1>6 DEF TypeOK
<1> QED
  BY <1>7, <1>8, <1>9, <1>10

LEMMA InputReceiveInv ==
  ASSUME BuffersAssumption, BuffersInv, NEW s \in Socks \cup {None}, NEW kind \in Kinds,
         InputReceive(s, kind)
  PROVE  BuffersInv'
<1> USE DEF BuffersInv
<1> DEFINE c == Carrier("kernel", s, input, kind, FALSE, TRUE)
<1>1. c.mb = input /\ c \in Carriers /\ c.at = "kernel"
  BY DEF Carrier, Carriers, InputReceive, TypeOK
<1>2. held' = held \cup {c} /\ input' = None
  BY DEF InputReceive
<1> HIDE DEF c
<1>3. UNCHANGED <<heap, sock, up, alive, calls, unacked>>
  BY DEF InputReceive
<1>4. None \notin Free(heap) /\ \A d \in held : d.mb # None
  BY DEF Free, HeapType, BuffersAssumption, TypeOK, Carriers
<1>5. c.mb # None
  BY <1>1 DEF InputReceive
<1>6. HeldApart'
  BY <1>1, <1>2, <1>3, <1>4, <1>5 DEF HeldApart, InputApart
<1>7. InputApart'
  BY <1>2, <1>3, <1>4 DEF InputApart
<1>8. RequestsApart'
  BY <1>1, <1>2, <1>3, <1>4 DEF RequestsApart, Pending
<1>9. TypeOK'
  BY <1>1, <1>2, <1>3 DEF TypeOK
<1> QED
  BY <1>6, <1>7, <1>8, <1>9

LEMMA InputDiscardInv ==
  ASSUME BuffersAssumption, BuffersInv, InputDiscard
  PROVE  BuffersInv'
<1> USE DEF BuffersInv
<1>1. heap \in HeapType /\ input \in Mbuffs /\ input # None
  BY DEF InputDiscard, TypeOK
<1>2. heap' \in HeapType /\ Free(heap') = Free(heap) \cup {input} /\ input' = None
  BY <1>1, FreeMbuffTypes DEF InputDiscard
<1>3. UNCHANGED <<sock, held, up, alive, calls, unacked>>
  BY DEF InputDiscard
<1>4. Free(heap) \subseteq Mbuffs /\ None \notin Mbuffs
  BY <1>1 DEF Free, HeapType, BuffersAssumption
<1>5. \A d \in held : d.mb # None
  BY <1>4 DEF TypeOK, Carriers
<1>6. HeldApart'
  BY <1>2, <1>3, <1>5 DEF HeldApart
<1>7. InputApart'
  BY <1>1, <1>2, <1>4 DEF InputApart
<1>8. RequestsApart'
  BY <1>2, <1>3 DEF RequestsApart, Pending
<1>9. TypeOK'
  BY <1>2, <1>3 DEF TypeOK
<1> QED
  BY <1>6, <1>7, <1>8, <1>9

LEMMA InputPanicInv ==
  ASSUME BuffersAssumption, BuffersInv, InputPanic
  PROVE  BuffersInv'
  BY DEF InputPanic, BuffersInv, TypeOK, HeldApart, InputApart, RequestsApart, Pending

-----------------------------------------------------------------------------
(* do_process_input() *)

\* c was received, and A is what it acknowledges: after Release(), the heap h.
Releases(c, A, h) ==
  /\ A \subseteq held
  /\ c \notin A
  /\ h \in HeapType
  /\ Free(h) = Free(heap) \cup {a.mb : a \in A}

LEMMA AckedReleases ==
  ASSUME BuffersAssumption, TypeOK, NEW c \in held, Received(c), NEW A \in Acked(c.sk, c.kind)
  PROVE  Releases(c, A, Release(heap, A))
<1>1. c.sk \in Socks /\ heap \in HeapType
  BY DEF Received, TypeOK
<1>2. /\ A \subseteq held
      /\ Release(heap, A) \in HeapType
      /\ Free(Release(heap, A)) = Free(heap) \cup {a.mb : a \in A}
  BY <1>1, ReleaseTypes
<1>3. c \notin A
  BY DEF Received, Acked
<1> QED
  BY <1>2, <1>3 DEF Releases

\* Nothing is answered.
LEMMA DroppedHandedOver ==
  ASSUME TypeOK, NEW c \in held, NEW A, NEW h, Releases(c, A, h),
         heap' = FreeBoth(h, c.mb), held' = held \ ({c} \cup A)
  PROVE  HandedOver({c} \cup A, {}) /\ heap' \in HeapType
<1>1. c.mb \in Mbuffs
  BY DEF TypeOK, Carriers
<1>2. FreeBoth(h, c.mb) \in HeapType /\ Free(FreeBoth(h, c.mb)) = Free(h) \cup {c.mb}
  BY <1>1, FreeMbuffTypes DEF Releases
<1>3. \A b \in Free(heap') : b \in Free(heap) \/ \E d \in {c} \cup A : b = d.mb
  BY <1>2 DEF Releases
<1> QED
  BY <1>2, <1>3 DEF HandedOver, Releases

\* An answer is prepared while the buffer of the question is still in use.
LEMMA AnsweredHandedOver ==
  ASSUME BuffersAssumption, BuffersInv, NEW c \in held, c.sk \in Socks,
         NEW A, NEW h, Releases(c, A, h),
         NEW p \in FreeMsgAndPrepare(h), NEW kind \in Kinds, NEW discard \in BOOLEAN,
         heap' = free_mbuff(p.heap, c.mb),
         held' = (held \ ({c} \cup A)) \cup ToOutput(c.sk, p, kind, discard)
  PROVE  /\ HandedOver({c} \cup A, ToOutput(c.sk, p, kind, discard))
         /\ ToOutput(c.sk, p, kind, discard) \subseteq OutCarriers
         /\ heap' \in HeapType
<1> DEFINE N == ToOutput(c.sk, p, kind, discard)
<1>1. /\ p.heap \in HeapType /\ p.mb \in Mbuffs \cup {None}
      /\ p.mb # None => p.mb \in Free(h)
      /\ Free(p.heap) = Free(h) \ {p.mb}
  BY FreeMsgAndPrepareTakes DEF Releases
<1>2. /\ N \subseteq OutCarriers
      /\ \A n \in N : n.mb = p.mb /\ p.mb # None
      /\ \A m, n \in N : m = n
  BY <1>1, PreparedIsOutput DEF OutCarriers
<1>3. c.mb \in Mbuffs
  BY DEF BuffersInv, TypeOK, Carriers
<1>4. heap' \in HeapType /\ Free(heap') = Free(p.heap) \cup {c.mb}
  BY <1>1, <1>3, FreeMbuffTypes
<1>5. held' = (held \ ({c} \cup A)) \cup N
  OBVIOUS
<1> HIDE DEF N
<1>6. c.mb \notin Free(h)
  BY DEF Releases, BuffersInv, HeldApart
<1>7. \A n \in N : n.mb \in Mbuffs /\ n.mb \notin Free(heap') /\ n.mb \in Free(h)
  BY <1>1, <1>2, <1>4, <1>6
<1>8. \A b \in Free(h) : b \in Free(heap) \/ \E d \in {c} \cup A : b = d.mb
  BY DEF Releases
<1>9. \A b \in Free(heap') : b \in Free(h) \/ b = c.mb
  BY <1>1, <1>4
<1>10. {c} \cup A \subseteq held
  BY DEF Releases
<1>11. HandedOver({c} \cup A, N)
  <2>1. \A n \in N : n.mb \in Free(heap) \/ \E d \in {c} \cup A : n.mb = d.mb
    BY <1>7, <1>8
  <2>2. \A b \in Free(heap') : b \in Free(heap) \/ \E d \in {c} \cup A : b = d.mb
    BY <1>8, <1>9
  <2> QED
    BY <1>2, <1>5, <1>7, <1>10, <2>1, <2>2 DEF HandedOver
<1> QED
  BY <1>2, <1>4, <1>11 DEF N

LEMMA NoneReleased ==
  ASSUME TypeOK, NEW c \in held
  PROVE  Releases(c, {}, heap)
  BY DEF Releases, TypeOK

LEMMA ReceiveConnectAckInv ==
  ASSUME BuffersAssumption, BuffersInv, NEW c \in held, ReceiveConnectAck(c)
  PROVE  BuffersInv'
<1>1. TypeOK
  BY DEF BuffersInv
<1>2. PICK A \in Acked(c.sk, c.kind) :
        held' = held \ ({c} \cup A) /\ heap' = FreeBoth(Release(heap, A), c.mb)
  BY DEF ReceiveConnectAck
<1>3. Releases(c, A, Release(heap, A))
  BY <1>1, AckedReleases DEF ReceiveConnectAck
<1>4. HandedOver({c} \cup A, {}) /\ heap' \in HeapType
  BY <1>1, <1>2, <1>3, DroppedHandedOver
<1>5. unacked' = unacked /\ sock' = sock /\ Plain
  BY <1>1 DEF ReceiveConnectAck, Plain, inputVars, TypeOK
<1> QED
  BY <1>1, <1>4, <1>5, SameSockets, StepInv DEF TypeOK

LEMMA ReceiveAcceptInv ==
  ASSUME BuffersAssumption, BuffersInv, NEW c \in held, ReceiveAccept(c)
  PROVE  BuffersInv'
<1>1. TypeOK /\ c.sk \in Socks
  BY DEF BuffersInv, ReceiveAccept, Received
<1>2. PICK A \in Acked(c.sk, c.kind) : \E p \in FreeMsgAndPrepare(Release(heap, A)) :
        /\ held' = (held \ ({c} \cup A)) \cup ToOutput(c.sk, p, "ctrlack", TRUE)
        /\ heap' = free_mbuff(p.heap, c.mb)
  BY DEF ReceiveAccept
<1>3. PICK p \in FreeMsgAndPrepare(Release(heap, A)) :
        /\ held' = (held \ ({c} \cup A)) \cup ToOutput(c.sk, p, "ctrlack", TRUE)
        /\ heap' = free_mbuff(p.heap, c.mb)
  BY <1>2
<1>4. Releases(c, A, Release(heap, A))
  BY <1>1, AckedReleases DEF ReceiveAccept
<1>5. /\ HandedOver({c} \cup A, ToOutput(c.sk, p, "ctrlack", TRUE))
      /\ ToOutput(c.sk, p, "ctrlack", TRUE) \subseteq OutCarriers
      /\ heap' \in HeapType
  BY <1>1, <1>3, <1>4, AnsweredHandedOver DEF Kinds
<1> DEFINE k == [sock[c.sk] EXCEPT !.state = "ESTABLISHED"]
<1>6. k \in SocketType /\ k.state # "CONNECT_RCVD"
  BY <1>1, SocketEdits DEF SocketType
<1>7. Update(c.sk, k)
  BY DEF ReceiveAccept
<1> HIDE DEF k
<1>8. unacked' = unacked /\ Plain
  BY <1>1 DEF ReceiveAccept, Plain, inputVars, TypeOK
<1>9. sock' \in [Socks -> SocketType] /\ NoNewRequest
  BY <1>1, <1>6, <1>7, <1>8, UpdateTypes
<1> QED
  BY <1>1, <1>5, <1>8, <1>9, StepInv DEF TypeOK

LEMMA ReceiveConnectAcceptingInv ==
  ASSUME BuffersAssumption, BuffersInv, NEW c \in held, ReceiveConnectAccepting(c)
  PROVE  BuffersInv'
<1>1. TypeOK /\ c.sk \in Socks
  BY DEF BuffersInv, ReceiveConnectAccepting, Received
<1>2. calls' = calls /\ calls \in [Socks -> 0 .. MaxCalls] /\ alive \in BOOLEAN
  BY <1>1 DEF ReceiveConnectAccepting, TypeOK
<1>3. ASSUME NEW p \in FreeMsgAndPrepare(heap), heap' = free_mbuff(p.heap, c.mb),
             held' = (held \ {c}) \cup ToOutput(c.sk, p, "acceptack", FALSE),
             Accepted(c.sk, p), UNCHANGED <<inputVars, alive, unacked>>
      PROVE  BuffersInv'
  <2>1. unacked' = unacked /\ Plain
    BY <1>2, <1>3 DEF Plain, inputVars
  <2>2. sock' \in [Socks -> SocketType] /\ NoNewRequest
    BY <1>1, <1>3, <2>1, AcceptedTypes
  <2>3. held' = (held \ ({c} \cup {})) \cup ToOutput(c.sk, p, "acceptack", FALSE)
    BY <1>3
  <2>4. /\ HandedOver({c} \cup {}, ToOutput(c.sk, p, "acceptack", FALSE))
        /\ ToOutput(c.sk, p, "acceptack", FALSE) \subseteq OutCarriers
        /\ heap' \in HeapType
    BY <1>1, <1>3, <2>3, NoneReleased, AnsweredHandedOver DEF Kinds
  <2> QED
    BY <1>1, <2>1, <2>2, <2>4, StepInv DEF TypeOK
<1> QED
  BY <1>2, <1>3, CrashInv DEF ReceiveConnectAccepting

LEMMA ReceiveAcceptAckInv ==
  ASSUME BuffersAssumption, BuffersInv, NEW c \in held, ReceiveAcceptAck(c)
  PROVE  BuffersInv'
<1>1. TypeOK /\ c.sk \in Socks
  BY DEF BuffersInv, ReceiveAcceptAck, Received
<1>2. PICK A \in Acked(c.sk, c.kind) :
        held' = held \ ({c} \cup A) /\ heap' = FreeBoth(Release(heap, A), c.mb)
  BY DEF ReceiveAcceptAck
<1>3. Releases(c, A, Release(heap, A))
  BY <1>1, AckedReleases DEF ReceiveAcceptAck
<1>4. HandedOver({c} \cup A, {}) /\ heap' \in HeapType
  BY <1>1, <1>2, <1>3, DroppedHandedOver
<1> DEFINE k == [sock[c.sk] EXCEPT !.state = "ESTABLISHED"]
<1>5. k \in SocketType /\ k.state # "CONNECT_RCVD"
  BY <1>1, SocketEdits DEF SocketType
<1>6. Update(c.sk, k)
  BY DEF ReceiveAcceptAck
<1> HIDE DEF k
<1>7. unacked' = unacked /\ Plain
  BY <1>1 DEF ReceiveAcceptAck, Plain, inputVars, TypeOK
<1>8. sock' \in [Socks -> SocketType] /\ NoNewRequest
  BY <1>1, <1>5, <1>6, <1>7, UpdateTypes
<1> QED
  BY <1>1, <1>4, <1>7, <1>8, StepInv DEF TypeOK

LEMMA ReceiveOtherInv ==
  ASSUME BuffersAssumption, BuffersInv, NEW c \in held, ReceiveOther(c)
  PROVE  BuffersInv'
<1>1. TypeOK
  BY DEF BuffersInv
<1>2. held' = held \ ({c} \cup {}) /\ heap' = FreeBoth(heap, c.mb)
  BY DEF ReceiveOther
<1>3. HandedOver({c} \cup {}, {}) /\ heap' \in HeapType
  BY <1>1, <1>2, NoneReleased, DroppedHandedOver
<1>4. unacked' = unacked /\ sock' = sock /\ Plain
  BY <1>1 DEF ReceiveOther, Plain, inputVars, TypeOK
<1> QED
  BY <1>1, <1>3, <1>4, SameSockets, StepInv DEF TypeOK

\* The one step by which a socket comes to keep a request: its buffer, which
\* no queue points at any more, is not free and stays with the socket.
LEMMA ReceiveConnectEarlyInv ==
  ASSUME BuffersAssumption, BuffersInv, NEW c \in held, ReceiveConnectEarly(c)
  PROVE  BuffersInv'
<1>1. TypeOK /\ c.sk \in Socks /\ c.mb \in Mbuffs /\ heap \in HeapType
  BY DEF BuffersInv, ReceiveConnectEarly, Received, TypeOK, Carriers
<1> DEFINE k == [sock[c.sk] EXCEPT !.state = "CONNECT_RCVD", !.connReq = c.mb]
<1>2. k \in SocketType /\ k.connReq = c.mb
  BY <1>1, SocketEdits DEF SocketType
<1>3. Update(c.sk, k)
  BY DEF ReceiveConnectEarly
<1> HIDE DEF k
<1>4. /\ sock' \in [Socks -> SocketType]
      /\ sock'[c.sk].connReq = c.mb
      /\ \A t \in Socks : t # c.sk => sock'[t] = sock[t]
  BY <1>1, <1>2, <1>3 DEF Update, TypeOK
<1>5. PICK p \in FreeMsgAndPrepare(heap) :
        /\ held' = (held \ {c}) \cup ToOutput(c.sk, p, "ctrlack", TRUE)
        /\ heap' = IF p.mb # None THEN p.heap ELSE free_mbuff(p.heap, c.mb)
        /\ unacked' = IF p.mb # None THEN unacked ELSE unacked \cup {c.sk}
  BY DEF ReceiveConnectEarly
<1> DEFINE N == ToOutput(c.sk, p, "ctrlack", TRUE)
<1>6. /\ p.heap \in HeapType /\ p.mb \in Mbuffs \cup {None}
      /\ p.mb # None => p.mb \in Free(heap)
      /\ Free(p.heap) = Free(heap) \ {p.mb}
  BY <1>1, FreeMsgAndPrepareTakes
<1>7. /\ N \subseteq OutCarriers
      /\ \A n \in N : n.mb = p.mb /\ p.mb # None
      /\ \A m, n \in N : m = n
  BY <1>1, <1>6, PreparedIsOutput DEF OutCarriers, Kinds
<1>8. unacked' \subseteq Socks /\ Plain
  BY <1>1, <1>5 DEF ReceiveConnectEarly, Plain, inputVars, TypeOK
<1>9. held' = (held \ {c}) \cup N
  BY <1>5
<1> HIDE DEF N
<1>10. CASE p.mb = None
  <2>1. heap' \in HeapType /\ Free(heap') = Free(p.heap) \cup {c.mb}
    BY <1>1, <1>5, <1>6, <1>10, FreeMbuffTypes
  <2>2. N = {}
    BY <1>7, <1>10
  <2>3. HandedOver({c}, {})
    <3>1. \A b \in Free(heap') : b \in Free(heap) \/ b = c.mb
      BY <1>6, <2>1
    <3> QED
      BY <1>9, <2>2, <3>1 DEF HandedOver
  <2>4. NoNewRequest
    BY <1>4, <1>5, <1>10 DEF NoNewRequest, Pending
  <2> QED
    BY <1>4, <1>8, <2>1, <2>3, <2>4, StepInv
<1>11. CASE p.mb # None
  <2>1. heap' \in HeapType /\ unacked' = unacked
        /\ p.mb \in Free(heap) /\ Free(heap') = Free(heap) \ {p.mb}
    BY <1>5, <1>6, <1>11
  <2>2. \A n \in N : n.mb \in Mbuffs /\ n.mb \notin Free(heap') /\ n.mb \in Free(heap)
    BY <1>6, <1>7, <2>1
  <2>3. HandedOver({c}, N)
    BY <1>7, <1>9, <2>1, <2>2 DEF HandedOver
  <2>4. HeldApart' /\ InputApart'
    BY <1>8, <2>3, HandOverQueues DEF Plain
  <2>5. c.mb # input /\ c.mb # None /\ c.mb \notin Free(heap)
    BY <1>1 DEF BuffersInv, HeldApart, BuffersAssumption
  <2>6. \A d \in held' : d.mb # c.mb
    BY <1>9, <2>2, <2>5 DEF BuffersInv, HeldApart
  <2>7. \A t \in Pending' : t # c.sk => t \in Pending /\ sock'[t] = sock[t]
    BY <1>4, <2>1 DEF Pending
  <2>8. \A t \in Pending :
          /\ sock[t].connReq # c.mb
          /\ \A d \in held' : d.mb # sock[t].connReq
          /\ sock[t].connReq \notin Free(heap') \cup {input, None}
    BY <1>9, <2>1, <2>2 DEF BuffersInv, RequestsApart
  <2>9. RequestsApart'
    <3> SUFFICES ASSUME NEW s \in Pending'
                 PROVE  /\ \A t \in Pending' : sock'[s].connReq = sock'[t].connReq => s = t
                        /\ \A d \in held' : d.mb # sock'[s].connReq
                        /\ sock'[s].connReq \notin Free(heap') \cup {input', None}
      BY DEF RequestsApart
    <3>1. input' = input
      BY <1>8 DEF Plain
    <3>2. CASE s = c.sk
      BY <1>4, <2>1, <2>5, <2>6, <2>7, <2>8, <3>1, <3>2
    <3>3. CASE s # c.sk
      <4>1. s \in Pending /\ sock'[s] = sock[s]
        BY <2>7, <3>3
      <4>2. ASSUME NEW t \in Pending', sock'[s].connReq = sock'[t].connReq PROVE s = t
        <5>1. t # c.sk
          BY <1>4, <2>8, <4>1, <4>2
        <5>2. t \in Pending /\ sock'[t] = sock[t]
          BY <2>7, <5>1
        <5> QED
          BY <4>1, <4>2, <5>2 DEF BuffersInv, RequestsApart
      <4>3. \A d \in held' : d.mb # sock'[s].connReq
        BY <2>8, <4>1
      <4>4. sock'[s].connReq \notin Free(heap') \cup {input', None}
        BY <2>8, <3>1, <4>1
      <4> QED
        BY <4>2, <4>3, <4>4
    <3> QED
      BY <3>2, <3>3
  <2>10. TypeOK'
    BY <1>4, <1>7, <1>8, <1>9, <2>1 DEF BuffersInv, TypeOK, Plain, OutCarriers
  <2> QED
    BY <2>4, <2>9, <2>10 DEF BuffersInv
<1> QED
  BY <1>10, <1>11

LEMMA ReceiveInv ==
  ASSUME BuffersAssumption, BuffersInv, NEW c \in held, Receive(c)
  PROVE  BuffersInv'
  BY ReceiveConnectAckInv, ReceiveAcceptInv, ReceiveConnectAcceptingInv,
     ReceiveConnectEarlyInv, ReceiveAcceptAckInv, ReceiveOtherInv DEF Receive

-----------------------------------------------------------------------------
(* flushqueue(), do_process_sent_msg() and do_process_expired() *)

\* A message goes from one queue to the next.
LEMMA MoveInv ==
  ASSUME BuffersAssumption, BuffersInv, NEW c \in held, c.at # "kernel",
         NEW at \in {"back", "sent"}, NEW ok \in BOOLEAN, MoveTo(c, at, ok),
         UNCHANGED <<heap, sock, inputVars, alive, calls, unacked>>
  PROVE  BuffersInv'
<1> DEFINE d == [c EXCEPT !.at = at, !.ok = ok]
<1>1. TypeOK
  BY DEF BuffersInv
<1>2. c \in Carriers /\ c.sk \in Socks
  BY <1>1 DEF TypeOK
<1>3. d \in Carriers /\ d.sk = c.sk /\ d.mb = c.mb /\ d.mb \in Mbuffs
  BY <1>2 DEF Carriers
<1>4. held' = (held \ {c}) \cup {d}
  BY DEF MoveTo
<1> HIDE DEF d
<1>5. HandedOver({c}, {d}) /\ {d} \subseteq OutCarriers
  BY <1>2, <1>3, <1>4 DEF HandedOver, OutCarriers, BuffersInv, HeldApart
<1>6. Plain /\ heap' \in HeapType
  BY <1>1 DEF Plain, inputVars, TypeOK
<1> QED
  BY <1>1, <1>5, <1>6, SameSockets, StepInv DEF TypeOK

LEMMA ErrorResponseTypes ==
  ASSUME BuffersAssumption, TypeOK, NEW s \in Socks, ErrorResponse(s), unacked' = unacked
  PROVE  sock' \in [Socks -> SocketType] /\ NoNewRequest
<1> DEFINE k == [sock[s] EXCEPT !.state = "CLOSE", !.loctrl = "NONE", !.open = FALSE]
<1>1. k \in SocketType /\ k.state # "CONNECT_RCVD"
  BY SocketEdits DEF SocketType
<1>2. Update(s, k) \/ sock' = sock
  BY DEF ErrorResponse
<1> HIDE DEF k
<1> QED
  BY <1>1, <1>2, UpdateTypes, SameSockets

LEMMA SendDiscardInv ==
  ASSUME BuffersAssumption, BuffersInv, NEW c \in held, SendDiscard(c)
  PROVE  BuffersInv'
<1>1. TypeOK
  BY DEF BuffersInv
<1>2. held' = held \ ({c} \cup {}) /\ heap' = FreeBoth(heap, c.mb)
  BY DEF SendDiscard
<1>3. HandedOver({c} \cup {}, {}) /\ heap' \in HeapType
  BY <1>1, <1>2, NoneReleased, DroppedHandedOver
<1>4. unacked' = unacked /\ sock' = sock /\ Plain
  BY <1>1 DEF SendDiscard, Plain, inputVars, TypeOK
<1> QED
  BY <1>1, <1>3, <1>4, SameSockets, StepInv DEF TypeOK

LEMMA OutputPanicInv ==
  ASSUME BuffersAssumption, BuffersInv, NEW c \in held, OutputPanic(c)
  PROVE  BuffersInv'
  BY DEF OutputPanic, BuffersInv, TypeOK, HeldApart, InputApart, RequestsApart, Pending

LEMMA SentErrorInv ==
  ASSUME BuffersAssumption, BuffersInv, NEW c \in held, SentError(c)
  PROVE  BuffersInv'
<1>1. TypeOK /\ c.sk \in Socks
  BY DEF BuffersInv, SentError, TypeOK
<1>2. held' = held \ ({c} \cup {}) /\ heap' = FreeBoth(heap, c.mb)
  BY DEF SentError
<1>3. HandedOver({c} \cup {}, {}) /\ heap' \in HeapType
  BY <1>1, <1>2, NoneReleased, DroppedHandedOver
<1>4. unacked' = unacked /\ Plain /\ ErrorResponse(c.sk)
  BY <1>1 DEF SentError, Plain, inputVars, TypeOK
<1> QED
  BY <1>1, <1>3, <1>4, ErrorResponseTypes, StepInv DEF TypeOK

LEMMA ExpireRetryInv ==
  ASSUME BuffersAssumption, BuffersInv, NEW c \in held, ExpireRetry(c)
  PROVE  BuffersInv'
<1>1. TypeOK /\ c.sk \in Socks /\ c.kind \in Kinds
  BY DEF BuffersInv, ExpireRetry, Expiring, TypeOK, Carriers
<1>2. calls' = calls /\ calls \in [Socks -> 0 .. MaxCalls] /\ alive \in BOOLEAN
  BY <1>1 DEF ExpireRetry, TypeOK
<1>3. ASSUME NEW p \in Prepare(heap), heap' = p.heap,
             held' = held \cup ToOutput(c.sk, p, c.kind, TRUE),
             Update(c.sk, [sock[c.sk] EXCEPT !.attempts = OneMore(@)]),
             UNCHANGED <<inputVars, alive, unacked>>
      PROVE  BuffersInv'
  <2> DEFINE k == [sock[c.sk] EXCEPT !.attempts = OneMore(@)]
  <2>1. k \in SocketType /\ k.state = sock[c.sk].state /\ k.connReq = sock[c.sk].connReq
    BY <1>1, SocketEdits DEF SocketType
  <2>2. Update(c.sk, k)
    BY <1>3
  <2> HIDE DEF k
  <2>3. unacked' = unacked /\ Plain
    BY <1>2, <1>3 DEF Plain, inputVars
  <2>4. sock' \in [Socks -> SocketType] /\ NoNewRequest
    BY <1>1, <2>1, <2>2, <2>3, UpdateTypes
  <2>5. /\ HandedOver({}, ToOutput(c.sk, p, c.kind, TRUE))
        /\ ToOutput(c.sk, p, c.kind, TRUE) \subseteq OutCarriers
        /\ heap' \in HeapType
    BY <1>1, <1>3, PreparedHandedOver
  <2> QED
    BY <1>1, <2>3, <2>4, <2>5, StepInv DEF TypeOK
<1> QED
  BY <1>2, <1>3, CrashInv DEF ExpireRetry

\* The buffer of a message that is given up is lost: it gets no second owner.
LEMMA ExpireGiveUpInv ==
  ASSUME BuffersAssumption, BuffersInv, NEW c \in held, ExpireGiveUp(c)
  PROVE  BuffersInv'
<1>1. TypeOK /\ c.sk \in Socks
  BY DEF BuffersInv, ExpireGiveUp, Expiring, TypeOK
<1>2. HandedOver({c}, {}) /\ heap' \in HeapType
  BY <1>1 DEF ExpireGiveUp, HandedOver, TypeOK
<1>3. unacked' = unacked /\ Plain /\ ErrorResponse(c.sk)
  BY <1>1 DEF ExpireGiveUp, Plain, inputVars, TypeOK
<1> QED
  BY <1>1, <1>2, <1>3, ErrorResponseTypes, StepInv DEF TypeOK

LEMMA CarryInv ==
  ASSUME BuffersAssumption, BuffersInv, NEW c \in held, Carry(c)
  PROVE  BuffersInv'
<1>1. ASSUME NEW ok \in BOOLEAN, SendBack(c, ok) PROVE BuffersInv'
  BY <1>1, MoveInv DEF SendBack
<1>2. CASE SentSuccess(c)
  BY <1>2, MoveInv DEF SentSuccess
<1> QED
  BY <1>1, <1>2, SendDiscardInv, OutputPanicInv, SentErrorInv, ExpireRetryInv, ExpireGiveUpInv DEF Carry

-----------------------------------------------------------------------------

LEMMA InitInv == BuffersAssumption /\ Init => BuffersInv
<1> SUFFICES ASSUME BuffersAssumption, Init PROVE BuffersInv
  OBVIOUS
<1>1. PICK S \in SUBSET Mbuffs :
        heap = [mbuff |-> S, fresh |-> Mbuffs \ S,
                msg |-> START_HEAP, freshMsg |-> MaxMsgs - START_HEAP]
  BY DEF Init
<1>2. START_HEAP \in Nat /\ MaxMsgs - START_HEAP \in Nat
  BY DEF BuffersAssumption
<1>3. heap \in HeapType /\ Free(heap) = Mbuffs
  BY <1>1, <1>2 DEF HeapType, Free
<1>4. NewSock \in SocketType
  BY DEF NewSock, SocketType
<1>5. TypeOK
  BY <1>3, <1>4 DEF TypeOK, Init, BuffersAssumption
<1>6. Pending = {}
  BY DEF Init, NewSock, Pending
<1>7. InputApart
  BY <1>3 DEF InputApart, Init, BuffersAssumption
<1>8. HeldApart /\ RequestsApart
  BY <1>6 DEF HeldApart, RequestsApart, Init
<1> QED
  BY <1>5, <1>7, <1>8 DEF BuffersInv

LEMMA NextInv == BuffersAssumption /\ BuffersInv /\ [Next]_vars => BuffersInv'
<1> SUFFICES ASSUME BuffersAssumption, BuffersInv, [Next]_vars PROVE BuffersInv'
  OBVIOUS
<1>1. ASSUME NEW s \in Socks, Program(s) PROVE BuffersInv'
  BY <1>1, ConnectInv, ListenInv, AcceptPendingInv, AcceptWaitingInv DEF Program
<1>2. CASE Input
  BY <1>2, InputAllocInv, InputDiscardInv, InputPanicInv, InputReceiveInv DEF Input
<1>3. ASSUME NEW c \in held, Receive(c) \/ Carry(c) PROVE BuffersInv'
  BY <1>3, ReceiveInv, CarryInv
<1>4. CASE UNCHANGED vars
  BY <1>4 DEF vars, inputVars, BuffersInv, TypeOK, HeldApart, InputApart, RequestsApart, Pending
<1> QED
  BY <1>1, <1>2, <1>3, <1>4 DEF Next

LEMMA InvAlways == Spec => []BuffersInv
<1>1. Init => BuffersInv
  BY InitInv, BuffersAssumption
<1>2. BuffersInv /\ [Next]_vars => BuffersInv'
  BY NextInv, BuffersAssumption
<1> QED
  BY <1>1, <1>2, PTL DEF Spec

\* The heap, the queues and the sockets keep their types, whatever calloc()
\* refuses.
THEOREM BuffersTypeCorrect == Spec => []TypeOK
<1>1. BuffersInv => TypeOK
  BY DEF BuffersInv
<1> QED
  BY <1>1, InvAlways, PTL

\* No buffer is freed twice, reused while a queue or a socket points at it, or
\* received into while another datagram is in it, for any amount of memory, any
\* number of sockets, datagrams and calls, and any failure of calloc().
THEOREM OneOwnerCorrect == Spec => []OneOwner
<1>1. BuffersInv => OneOwner
  BY ApartIsOneOwner
<1> QED
  BY <1>1, InvAlways, PTL

-----------------------------------------------------------------------------
(* What is leaked is paid for.  Every buffer that is lost, and every buffer   *)
(* that may still get lost, holds a receipt of its own: a call of its         *)
(* program, or the one request its socket ever kept.  That the receipts are   *)
(* different ones is an injection, which every step can extend; a count of    *)
(* the leaks alone is not inductive, because a leak is paid long before.      *)

\* A message that is sent again or given up rather than freed.
Awaited(c) == c.at # "kernel" /\ ~c.discard

Charged ==
  {c.mb : c \in {d \in held : Awaited(d)}} \cup {sock[s].connReq : s \in Pending}

Owed == Leaked \cup Charged

Receipts == CallsMade \cup (Socks \X {0})

\* The sockets that may still come to keep a request, and those that may still
\* answer one because of an accept() that made no message itself.
MayKeep(s) == sock[s].open /\ sock[s].state \in {"CLOSE", "LISTEN"}
MayAnswer(s) == sock[s].state = "LISTEN" /\ sock[s].loctrl = "ACCEPT_REQUEST"

PaidBy(f) ==
  /\ f \in [Owed -> Receipts]
  /\ \A a, b \in Owed : f[a] = f[b] => a = b
  /\ \A s \in Socks : MayKeep(s) => \A b \in Owed : f[b] # <<s, 0>>
  /\ \A s \in Socks : MayAnswer(s) => \E n \in 1 .. calls[s] : \A b \in Owed : f[b] # <<s, n>>

SocketFacts ==
  \A s \in Socks :
    /\ sock[s].state = "CLOSE" => sock[s].loctrl = "NONE"
    /\ sock[s].state = "LISTEN" => sock[s].open

\* A message marked DISCARD_TRUE never waits for an acknowledgement.
CarrierFacts ==
  \A c \in held : c.at = "sent" \/ (c.at = "back" /\ c.ok) => ~c.discard

LeakInv == BuffersInv /\ SocketFacts /\ CarrierFacts /\ \E f : PaidBy(f)

-----------------------------------------------------------------------------
(* The two ways to go on paying.                                              *)

\* A step that owes nothing new.  An accept() that waits is its own receipt.
OwesNoMore ==
  /\ Owed' \subseteq Owed
  /\ \A s \in Socks : calls[s] <= calls'[s]
  /\ \A s \in Socks : MayKeep(s)' => MayKeep(s)
  /\ \A s \in Socks : MayAnswer(s)' => MayAnswer(s) \/ calls'[s] # calls[s]

\* A step that owes one more buffer, and has the receipt r for it.
Owes(b, r) ==
  /\ Owed' \subseteq Owed \cup {b}
  /\ r \in Receipts'
  /\ \A s \in Socks : calls[s] <= calls'[s]
  /\ \A s \in Socks : MayKeep(s)' => MayKeep(s) /\ r # <<s, 0>>
  /\ \A s \in Socks : MayAnswer(s)' => MayAnswer(s) /\ \A n \in 1 .. calls[s] : r # <<s, n>>

\* Receipts stay valid, and a call that was not made yet has none.
LEMMA ReceiptsKept ==
  ASSUME TypeOK, TypeOK', \A s \in Socks : calls[s] <= calls'[s]
  PROVE  Receipts \subseteq Receipts'
<1>1. calls \in [Socks -> 0 .. MaxCalls] /\ calls' \in [Socks -> 0 .. MaxCalls]
  BY DEF TypeOK
<1>2. ASSUME NEW p \in CallsMade PROVE p \in CallsMade'
  <2>1. p \in Socks \X (1 .. MaxCalls) /\ p[2] <= calls[p[1]] /\ p[1] \in Socks /\ p[2] \in 1 .. MaxCalls
    BY DEF CallsMade
  <2>2. calls[p[1]] \in 0 .. MaxCalls /\ calls'[p[1]] \in 0 .. MaxCalls /\ calls[p[1]] <= calls'[p[1]]
    BY <1>1, <2>1
  <2>3. p[2] <= calls'[p[1]]
    BY <2>1, <2>2
  <2> QED
    BY <2>1, <2>3 DEF CallsMade
<1> QED
  BY <1>2 DEF Receipts

LEMMA NextReceipt ==
  ASSUME BuffersAssumption, TypeOK, NEW s \in Socks, Request(s)
  PROVE  /\ calls[s] + 1 \in 1 .. MaxCalls
         /\ calls'[s] = calls[s] + 1
         /\ \A t \in Socks : calls[t] <= calls'[t]
         /\ <<s, calls[s] + 1>> \in Receipts' /\ <<s, calls[s] + 1>> \notin Receipts
<1>1. /\ calls \in [Socks -> 0 .. MaxCalls] /\ MaxCalls \in Nat /\ calls[s] < MaxCalls
      /\ calls' = [calls EXCEPT ![s] = calls[s] + 1]
  BY DEF TypeOK, Request, BuffersAssumption
<1>2. calls[s] \in 0 .. MaxCalls
  BY <1>1
<1>3. calls[s] + 1 \in 1 .. MaxCalls /\ calls'[s] = calls[s] + 1
  BY <1>1, <1>2
<1>4. ASSUME NEW t \in Socks PROVE calls[t] <= calls'[t]
  <2>1. calls[t] \in 0 .. MaxCalls
    BY <1>1
  <2> QED
    BY <1>1, <1>2, <2>1
<1> DEFINE n == calls[s] + 1
<1>5. n \in 1 .. MaxCalls /\ n \in Nat /\ n # 0 /\ ~(n <= calls[s]) /\ n <= calls'[s]
  BY <1>2, <1>3
<1> HIDE DEF n
<1>6. <<s, n>> \in CallsMade'
  BY <1>5 DEF CallsMade
<1>7. <<s, n>> \notin CallsMade
  BY <1>5 DEF CallsMade
<1>8. <<s, n>> \notin Socks \X {0}
  BY <1>5
<1> QED
  BY <1>3, <1>4, <1>6, <1>7, <1>8 DEF Receipts, n

LEMMA StillPaid ==
  ASSUME TypeOK, TypeOK', OwesNoMore, NEW f, PaidBy(f)
  PROVE  \E g : PaidBy(g)'
<1>1. PICK g : g = [x \in Owed' |-> f[x]]
  OBVIOUS
<1>2. Owed' \subseteq Owed /\ Receipts \subseteq Receipts' /\ f \in [Owed -> Receipts]
  BY ReceiptsKept DEF OwesNoMore, PaidBy
<1>3. g \in [Owed' -> Receipts'] /\ \A x \in Owed' : g[x] = f[x]
  BY <1>1, <1>2
<1>4. \A a, b \in Owed' : g[a] = g[b] => a = b
  BY <1>2, <1>3 DEF PaidBy
<1>5. \A s \in Socks : MayKeep(s)' => \A b \in Owed' : g[b] # <<s, 0>>
  BY <1>2, <1>3 DEF PaidBy, OwesNoMore
<1>6. ASSUME NEW s \in Socks, MayAnswer(s)'
      PROVE  \E n \in 1 .. calls'[s] : \A b \in Owed' : g[b] # <<s, n>>
  <2>1. calls[s] \in 0 .. MaxCalls /\ calls'[s] \in 0 .. MaxCalls /\ calls[s] <= calls'[s]
    BY DEF TypeOK, OwesNoMore
  <2>2. CASE MayAnswer(s)
    <3>1. PICK n \in 1 .. calls[s] : \A b \in Owed : f[b] # <<s, n>>
      BY <2>2 DEF PaidBy
    <3>2. n \in 1 .. calls'[s]
      BY <2>1
    <3> QED
      BY <1>2, <1>3, <3>1, <3>2
  <2>3. CASE calls'[s] # calls[s]
    <3> DEFINE n == calls'[s]
    <3>1. n \in 1 .. calls'[s] /\ ~(n <= calls[s]) /\ n # 0
      BY <2>1, <2>3
    <3> HIDE DEF n
    <3>2. <<s, n>> \notin CallsMade
      BY <3>1 DEF CallsMade
    <3>3. <<s, n>> \notin Receipts
      BY <3>1, <3>2 DEF Receipts
    <3>4. \A b \in Owed' : g[b] # <<s, n>>
      BY <1>2, <1>3, <3>3
    <3> QED
      BY <3>1, <3>4
  <2> QED
    BY <1>6, <2>2, <2>3 DEF OwesNoMore
<1>7. PaidBy(g)'
  BY <1>3, <1>4, <1>5, <1>6 DEF PaidBy
<1> QED
  BY <1>7

LEMMA NewlyPaid ==
  ASSUME TypeOK, TypeOK', NEW b, NEW r, Owes(b, r), NEW f, PaidBy(f),
         \A x \in Owed : f[x] # r
  PROVE  \E g : PaidBy(g)'
<1>1. PICK g : g = [x \in Owed' |-> IF x \in Owed THEN f[x] ELSE r]
  OBVIOUS
<1>2. Owed' \subseteq Owed \cup {b} /\ Receipts \subseteq Receipts' /\ f \in [Owed -> Receipts] /\ r \in Receipts'
  BY ReceiptsKept DEF Owes, PaidBy
<1>3. /\ g \in [Owed' -> Receipts']
      /\ \A x \in Owed' : g[x] = IF x \in Owed THEN f[x] ELSE r
  BY <1>1, <1>2
<1>4. \A x, y \in Owed' : g[x] = g[y] => x = y
  BY <1>2, <1>3 DEF PaidBy
<1>5. \A s \in Socks : MayKeep(s)' => \A x \in Owed' : g[x] # <<s, 0>>
  BY <1>3 DEF PaidBy, Owes
<1>6. ASSUME NEW s \in Socks, MayAnswer(s)'
      PROVE  \E n \in 1 .. calls'[s] : \A x \in Owed' : g[x] # <<s, n>>
  <2>1. calls[s] \in 0 .. MaxCalls /\ calls'[s] \in 0 .. MaxCalls /\ calls[s] <= calls'[s]
    BY DEF TypeOK, Owes
  <2>2. MayAnswer(s) /\ \A n \in 1 .. calls[s] : r # <<s, n>>
    BY <1>6 DEF Owes
  <2>3. PICK n \in 1 .. calls[s] : \A x \in Owed : f[x] # <<s, n>>
    BY <2>2 DEF PaidBy
  <2>4. n \in 1 .. calls'[s]
    BY <2>1
  <2> QED
    BY <1>3, <2>2, <2>3, <2>4
<1>7. PaidBy(g)'
  BY <1>3, <1>4, <1>5, <1>6 DEF PaidBy
<1> QED
  BY <1>7

-----------------------------------------------------------------------------
(* What a step comes to owe.                                                  *)

\* Whatever was free, in the hands of input(), or in a carrier that nobody
\* awaits, is so still: then only the buffers N are newly owed.
LEMMA OwedStep ==
  ASSUME TypeOK, TypeOK', NEW N,
         \A b \in Free(heap) : b \in Free(heap') \/ b \in Used',
         input # None => input \in Free(heap') \/ input \in Used',
         \A c \in held : ~Awaited(c) => c.mb \in Free(heap') \/ c.mb \in Used' \/ c.mb \in N,
         Charged' \subseteq Charged \cup N
  PROVE  Owed' \subseteq Owed \cup N
<1> SUFFICES ASSUME NEW b \in Leaked' PROVE b \in Owed \cup N
  BY DEF Owed
<1>1. b \in Mbuffs /\ b \notin Free(heap') /\ b \notin Used'
  BY DEF Leaked, Free
<1>2. CASE b \in Leaked
  BY <1>2 DEF Owed
<1>3. CASE b \in Free(heap)
  BY <1>1, <1>3
<1>4. CASE b \in Used
  <2>1. \/ b = input /\ input # None
        \/ \E c \in held : b = c.mb
        \/ \E s \in Pending : b = sock[s].connReq
    BY <1>4 DEF Used
  <2>2. ~(b = input /\ input # None)
    BY <1>1
  <2>3. ASSUME NEW c \in held, b = c.mb PROVE b \in Charged \cup N
    BY <1>1, <2>3 DEF Charged
  <2>4. ASSUME NEW s \in Pending, b = sock[s].connReq PROVE b \in Charged
    BY <2>4 DEF Charged
  <2> QED
    BY <2>1, <2>2, <2>3, <2>4 DEF Owed
<1> QED
  BY <1>1, <1>2, <1>3, <1>4 DEF Leaked, Free

\* The same for a step that hands buffers over from queue to queue.
LEMMA OwedHandOver ==
  ASSUME TypeOK, TypeOK', NEW D, NEW N, HandedOver(D, N), NoNewRequest, input' = input,
         \A b \in Free(heap) : b \in Free(heap') \/ \E n \in N : n.mb = b,
         \A d \in D : \/ Awaited(d) \/ d.mb \in Free(heap')
                      \/ \E n \in N : n.mb = d.mb
  PROVE  Owed' \subseteq Owed \cup {n.mb : n \in {m \in N : Awaited(m)}}
<1> DEFINE M == {n.mb : n \in {m \in N : Awaited(m)}}
<1>1. held' = (held \ D) \cup N
  BY DEF HandedOver
<1>2. \A c \in held' : c.mb \in Used'
  BY DEF Used
<1>3. \A b \in Free(heap) : b \in Free(heap') \/ b \in Used'
  BY <1>1, <1>2
<1>4. input # None => input \in Used'
  BY DEF Used
<1>5. \A c \in held : ~Awaited(c) => c.mb \in Free(heap') \/ c.mb \in Used'
  BY <1>1, <1>2
<1>6. Charged' \subseteq Charged \cup M
  <2>1. ASSUME NEW c \in held', Awaited(c) PROVE c.mb \in Charged \cup M
    <3>1. CASE c \in held
      BY <2>1, <3>1 DEF Charged
    <3>2. CASE c \in N
      BY <2>1, <3>2
    <3> QED
      BY <1>1, <3>1, <3>2
  <2>2. ASSUME NEW s \in Pending' PROVE sock'[s].connReq \in Charged
    BY DEF NoNewRequest, Charged
  <2> HIDE DEF M
  <2>3. \A x \in Charged' : (\E c \in held' : Awaited(c) /\ x = c.mb) \/ \E s \in Pending' : x = sock'[s].connReq
    BY DEF Charged, Awaited
  <2> QED
    BY <2>1, <2>2, <2>3
<1> HIDE DEF M
<1>7. Owed' \subseteq Owed \cup M
  BY <1>3, <1>4, <1>5, <1>6, OwedStep
<1> QED
  BY <1>7 DEF M

\* A step that owes nothing new although it hands buffers over.
LEMMA OwedNoMore ==
  ASSUME TypeOK, TypeOK', NEW D, NEW N, HandedOver(D, N), NoNewRequest, input' = input,
         \A b \in Free(heap) : b \in Free(heap') \/ \E n \in N : n.mb = b,
         \A d \in D : \/ Awaited(d) \/ d.mb \in Free(heap')
                      \/ \E n \in N : n.mb = d.mb,
         \A n \in N : Awaited(n) => n.mb \in Charged
  PROVE  Owed' \subseteq Owed
  BY OwedHandOver DEF Owed

\* What becomes of the sockets: s takes the value k.
LEMMA SocketStep ==
  ASSUME TypeOK, SocketFacts, NEW s \in Socks, NEW k \in SocketType, Update(s, k),
         \/ k.state \notin {"CLOSE", "LISTEN"}
         \/ k.state = "CLOSE" /\ k.loctrl = "NONE" /\ ~k.open
         \/ k.state = sock[s].state /\ k.loctrl = sock[s].loctrl /\ k.open = sock[s].open
  PROVE  /\ SocketFacts'
         /\ \A t \in Socks : (MayKeep(t)' => MayKeep(t)) /\ (MayAnswer(t)' => MayAnswer(t))
         /\ k.state \notin {"CLOSE", "LISTEN"} => ~MayKeep(s)' /\ ~MayAnswer(s)'
<1>1. sock'[s] = k /\ \A t \in Socks : t # s => sock'[t] = sock[t]
  BY DEF Update, TypeOK
<1> QED
  BY <1>1 DEF SocketFacts, MayKeep, MayAnswer

LEMMA SocketsSame ==
  ASSUME SocketFacts, sock' = sock
  PROVE  /\ SocketFacts'
         /\ \A t \in Socks : (MayKeep(t)' => MayKeep(t)) /\ (MayAnswer(t)' => MayAnswer(t))
  BY DEF SocketFacts, MayKeep, MayAnswer

\* New carriers start on the way to output().
LEMMA CarrierStep ==
  ASSUME CarrierFacts, NEW D, NEW N, held' = (held \ D) \cup N, \A n \in N : n.at \in {"output", "kernel"}
  PROVE  CarrierFacts'
  BY DEF CarrierFacts

LEMMA ToOutputIs ==
  ASSUME NEW s, NEW p, NEW kind, NEW discard
  PROVE  \A n \in ToOutput(s, p, kind, discard) :
           n.at = "output" /\ n.mb = p.mb /\ p.mb # None /\ n.discard = discard
  BY DEF ToOutput, Carrier

LEMMA ToOutputSome ==
  ASSUME NEW s, NEW p, NEW kind, NEW discard, p.mb # None
  PROVE  \E n \in ToOutput(s, p, kind, discard) : n.mb = p.mb
<1>1. Carrier("output", s, p.mb, kind, discard, TRUE) \in ToOutput(s, p, kind, discard)
  BY DEF ToOutput
<1> QED
  BY <1>1 DEF Carrier

\* A step that owes nothing new keeps the invariant.
LEMMA PaidStep ==
  ASSUME LeakInv, BuffersInv', SocketFacts', CarrierFacts', OwesNoMore
  PROVE  LeakInv'
<1>1. PICK f : PaidBy(f)
  BY DEF LeakInv
<1>2. TypeOK /\ TypeOK'
  BY DEF LeakInv, BuffersInv
<1>3. \E g : PaidBy(g)'
  BY <1>1, <1>2, StillPaid
<1> QED
  BY <1>3 DEF LeakInv

\* A crash is such a step.
LEMMA CrashPaid ==
  ASSUME LeakInv, BuffersInv', Crash, \A s \in Socks : calls[s] <= calls'[s]
  PROVE  LeakInv'
<1>1. UNCHANGED <<heap, sock, held, input, unacked>>
  BY DEF Crash, inputVars
<1>2. Owed' = Owed
  BY <1>1 DEF Owed, Leaked, Used, Charged, Awaited, Pending
<1>3. SocketFacts' /\ CarrierFacts' /\ OwesNoMore
  BY <1>1, <1>2, SocketsSame DEF LeakInv, CarrierFacts, OwesNoMore
<1> QED
  BY <1>3, PaidStep

-----------------------------------------------------------------------------
(* do_socket_request(): a call is the receipt of the message it sends.        *)

LEMMA PreparedOwes ==
  ASSUME BuffersAssumption, LeakInv, TypeOK', NEW s \in Socks, NEW p \in Prepare(heap),
         NEW kind \in Kinds, NEW discard \in BOOLEAN,
         heap' = p.heap, held' = held \cup ToOutput(s, p, kind, discard),
         NoNewRequest, input' = input
  PROVE  /\ Owed' \subseteq Owed \cup {p.mb}
         /\ (p.mb = None \/ discard) => Owed' \subseteq Owed
         /\ CarrierFacts'
<1> DEFINE N == ToOutput(s, p, kind, discard)
<1>1. TypeOK /\ heap \in HeapType
  BY DEF LeakInv, BuffersInv, TypeOK
<1>2. HandedOver({}, N)
  BY <1>1, PreparedHandedOver
<1>3. Free(heap') = Free(heap) \ {p.mb} /\ (p.mb # None => p.mb \in Free(heap)) /\ None \notin Free(heap)
  BY <1>1, PrepareTakes DEF Free, HeapType, BuffersAssumption
<1>4. \A b \in Free(heap) : b \in Free(heap') \/ \E n \in N : n.mb = b
  BY <1>3, ToOutputSome
<1>5. \A n \in N : n.at = "output" /\ n.mb = p.mb /\ p.mb # None /\ n.discard = discard
  BY ToOutputIs
<1> HIDE DEF N
<1>6. Owed' \subseteq Owed \cup {n.mb : n \in {m \in N : Awaited(m)}}
  BY <1>1, <1>2, <1>4, OwedHandOver
<1>7. {n.mb : n \in {m \in N : Awaited(m)}} \subseteq {p.mb}
  BY <1>5
<1>8. (p.mb = None \/ discard) => {m \in N : Awaited(m)} = {}
  BY <1>5 DEF Awaited
<1>9. held' = (held \ {}) \cup N
  BY DEF N
<1>10. CarrierFacts'
  BY <1>5, <1>9, CarrierStep DEF LeakInv
<1> QED
  BY <1>6, <1>7, <1>8, <1>10

LEMMA ConnectPaid ==
  ASSUME BuffersAssumption, LeakInv, BuffersInv', NEW s \in Socks, Connect(s)
  PROVE  LeakInv'
<1>1. TypeOK /\ TypeOK' /\ SocketFacts /\ CarrierFacts
  BY DEF LeakInv, BuffersInv
<1>2. PICK p \in Prepare(heap) :
        /\ heap' = p.heap
        /\ held' = held \cup ToOutput(s, p, "connect", FALSE)
        /\ Update(s, IF p.mb # None
                       THEN [sock[s] EXCEPT !.state = "CONNECT_SENT",
                                            !.loctrl = "CONNECT_REQUEST", !.attempts = 1]
                       ELSE [sock[s] EXCEPT !.attempts = IF p.oom THEN @ ELSE 1])
  BY DEF Connect
<1> DEFINE k == IF p.mb # None
                  THEN [sock[s] EXCEPT !.state = "CONNECT_SENT",
                                       !.loctrl = "CONNECT_REQUEST", !.attempts = 1]
                  ELSE [sock[s] EXCEPT !.attempts = IF p.oom THEN @ ELSE 1]
           r == <<s, calls[s] + 1>>
<1>3. /\ k \in SocketType
      /\ p.mb # None => k.state = "CONNECT_SENT"
      /\ p.mb = None => /\ k.state = sock[s].state /\ k.loctrl = sock[s].loctrl
                        /\ k.open = sock[s].open /\ k.connReq = sock[s].connReq
  BY <1>1, SocketEdits DEF SocketType
<1>4. Update(s, k)
  BY <1>2
<1> HIDE DEF k
<1>5. unacked' = unacked /\ input' = input /\ Request(s)
  BY DEF Connect, inputVars
<1>6. NoNewRequest
  BY <1>1, <1>3, <1>4, <1>5, UpdateTypes
<1>7. /\ Owed' \subseteq Owed \cup {p.mb}
      /\ p.mb = None => Owed' \subseteq Owed
      /\ CarrierFacts'
  BY <1>1, <1>2, <1>5, <1>6, PreparedOwes DEF Kinds
<1>8. /\ \A t \in Socks : calls[t] <= calls'[t]
      /\ r \in Receipts' /\ r \notin Receipts /\ \A n \in 1 .. calls[s] : r # <<s, n>>
  <2>1. /\ calls[s] \in 0 .. MaxCalls /\ \A t \in Socks : calls[t] <= calls'[t]
        /\ r \in Receipts' /\ r \notin Receipts
    BY <1>1, <1>5, NextReceipt DEF TypeOK
  <2> QED
    BY <2>1
<1>9. /\ SocketFacts'
      /\ \A t \in Socks : (MayKeep(t)' => MayKeep(t)) /\ (MayAnswer(t)' => MayAnswer(t))
      /\ p.mb # None => ~MayKeep(s)' /\ ~MayAnswer(s)'
  <2>1. \/ k.state \notin {"CLOSE", "LISTEN"}
        \/ k.state = sock[s].state /\ k.loctrl = sock[s].loctrl /\ k.open = sock[s].open
    BY <1>3
  <2> QED
    BY <1>1, <1>3, <1>4, <2>1, SocketStep
<1>10. CASE p.mb = None
  <2>1. OwesNoMore
    BY <1>7, <1>8, <1>9, <1>10 DEF OwesNoMore
  <2> QED
    BY <1>7, <1>9, <2>1, PaidStep
<1>11. CASE p.mb # None
  <2>1. Owes(p.mb, r)
    BY <1>7, <1>8, <1>9, <1>11 DEF Owes
  <2>2. PICK f : PaidBy(f)
    BY DEF LeakInv
  <2>3. \A x \in Owed : f[x] # r
    BY <1>8, <2>2 DEF PaidBy
  <2> HIDE DEF r
  <2>4. \E g : PaidBy(g)'
    BY <1>1, <2>1, <2>2, <2>3, NewlyPaid
  <2> QED
    BY <1>7, <1>9, <2>4 DEF LeakInv
<1> QED
  BY <1>10, <1>11

LEMMA ListenPaid ==
  ASSUME BuffersAssumption, LeakInv, BuffersInv', NEW s \in Socks, Listen(s)
  PROVE  LeakInv'
<1> DEFINE k == [sock[s] EXCEPT !.state = "LISTEN"]
<1>1. /\ TypeOK /\ SocketFacts /\ CarrierFacts
      /\ UNCHANGED <<heap, held, input, calls, unacked>> /\ Update(s, k)
      /\ sock[s].open /\ sock[s].state = "CLOSE"
  BY DEF LeakInv, BuffersInv, Listen, inputVars
<1>2. sock[s] \in SocketType /\ sock \in [Socks -> SocketType] /\ calls \in [Socks -> 0 .. MaxCalls]
  BY <1>1 DEF TypeOK
<1>3. k.state = "LISTEN" /\ k.loctrl = "NONE" /\ k.open = sock[s].open
  BY <1>1, <1>2 DEF SocketType, SocketFacts
<1> HIDE DEF k
<1>4. sock'[s] = k /\ \A t \in Socks : t # s => sock'[t] = sock[t]
  BY <1>1, <1>2 DEF Update
<1>5. Owed' = Owed
  <2>1. Pending' = Pending /\ \A t \in Pending : sock'[t] = sock[t]
    BY <1>1, <1>3, <1>4 DEF Pending
  <2> QED
    BY <1>1, <2>1 DEF Owed, Leaked, Used, Charged, Awaited
<1>6. SocketFacts' /\ CarrierFacts'
  BY <1>1, <1>3, <1>4 DEF SocketFacts, CarrierFacts
<1>7. OwesNoMore
  <2>1. \A t \in Socks : calls[t] <= calls'[t]
    BY <1>1, <1>2
  <2> QED
    BY <1>1, <1>3, <1>4, <1>5, <2>1 DEF OwesNoMore, MayKeep, MayAnswer
<1> QED
  BY <1>6, <1>7, PaidStep

\* do_accept_connection(), as far as the receipts go.
LEMMA AcceptedSockets ==
  ASSUME BuffersAssumption, LeakInv, NEW s \in Socks, NEW p, Accepted(s, p), unacked' = unacked
  PROVE  /\ NoNewRequest /\ SocketFacts'
         /\ \A t \in Socks : (MayKeep(t)' => MayKeep(t)) /\ (MayAnswer(t)' => MayAnswer(t))
         /\ p.mb # None => ~MayKeep(s)' /\ ~MayAnswer(s)'
<1> DEFINE k == IF p.mb # None
                  THEN [sock[s] EXCEPT !.state = "ACCEPT_SENT", !.loctrl = "ACCEPT_REQUEST",
                                       !.connReq = None, !.attempts = OneMore(@)]
                  ELSE [sock[s] EXCEPT !.attempts = OneMore(@)]
<1>1. TypeOK /\ SocketFacts
  BY DEF LeakInv, BuffersInv
<1>2. /\ k \in SocketType
      /\ p.mb # None => k.state = "ACCEPT_SENT"
      /\ p.mb = None => /\ k.state = sock[s].state /\ k.loctrl = sock[s].loctrl
                        /\ k.open = sock[s].open
  BY <1>1, SocketEdits DEF SocketType
<1>3. Update(s, k)
  BY DEF Accepted
<1>4. NoNewRequest
  BY <1>1, AcceptedTypes
<1> HIDE DEF k
<1>5. \/ k.state \notin {"CLOSE", "LISTEN"}
      \/ k.state = sock[s].state /\ k.loctrl = sock[s].loctrl /\ k.open = sock[s].open
  BY <1>2
<1> QED
  BY <1>1, <1>2, <1>3, <1>4, <1>5, SocketStep

LEMMA AcceptPendingPaid ==
  ASSUME BuffersAssumption, LeakInv, BuffersInv', NEW s \in Socks, AcceptPending(s)
  PROVE  LeakInv'
<1> DEFINE r == <<s, calls[s] + 1>>
<1>1. TypeOK /\ TypeOK' /\ SocketFacts /\ CarrierFacts /\ Request(s)
  BY DEF LeakInv, BuffersInv, AcceptPending
<1>2. /\ \A t \in Socks : calls[t] <= calls'[t]
      /\ r \in Receipts' /\ r \notin Receipts
  BY <1>1, NextReceipt
<1>3. CASE Crash
  BY <1>2, <1>3, CrashPaid
<1>4. ASSUME NEW p \in Prepare(heap), heap' = p.heap,
             held' = held \cup ToOutput(s, p, "accept", FALSE),
             Accepted(s, p), UNCHANGED <<inputVars, alive, unacked>>
      PROVE  LeakInv'
  <2>1. unacked' = unacked /\ input' = input
    BY <1>4 DEF inputVars
  <2>2. /\ NoNewRequest /\ SocketFacts'
        /\ \A t \in Socks : (MayKeep(t)' => MayKeep(t)) /\ (MayAnswer(t)' => MayAnswer(t))
        /\ p.mb # None => ~MayKeep(s)' /\ ~MayAnswer(s)'
    BY <1>4, <2>1, AcceptedSockets
  <2>3. /\ Owed' \subseteq Owed \cup {p.mb}
        /\ p.mb = None => Owed' \subseteq Owed
        /\ CarrierFacts'
    BY <1>1, <1>4, <2>1, <2>2, PreparedOwes DEF Kinds
  <2>4. CASE p.mb = None
    <3>1. OwesNoMore
      BY <1>2, <2>2, <2>3, <2>4 DEF OwesNoMore
    <3> QED
      BY <2>2, <2>3, <3>1, PaidStep
  <2>5. CASE p.mb # None
    <3>1. Owes(p.mb, r)
      BY <1>2, <2>2, <2>3, <2>5 DEF Owes
    <3>2. PICK f : PaidBy(f)
      BY DEF LeakInv
    <3>3. \A x \in Owed : f[x] # r
      BY <1>2, <3>2 DEF PaidBy
    <3> HIDE DEF r
    <3>4. \E g : PaidBy(g)'
      BY <1>1, <3>1, <3>2, <3>3, NewlyPaid
    <3> QED
      BY <2>2, <2>3, <3>4 DEF LeakInv
  <2> QED
    BY <2>4, <2>5
<1> QED
  BY <1>3, <1>4 DEF AcceptPending

LEMMA AcceptWaitingPaid ==
  ASSUME BuffersAssumption, LeakInv, BuffersInv', NEW s \in Socks, AcceptWaiting(s)
  PROVE  LeakInv'
<1> DEFINE k == [sock[s] EXCEPT !.loctrl = "ACCEPT_REQUEST"]
<1>1. /\ TypeOK /\ SocketFacts /\ CarrierFacts /\ Request(s)
      /\ UNCHANGED <<heap, held, input, unacked>>
      /\ (sock[s].state = "LISTEN" /\ Update(s, k)) \/ sock' = sock
  BY DEF LeakInv, BuffersInv, AcceptWaiting, inputVars
<1>2. sock[s] \in SocketType /\ sock \in [Socks -> SocketType]
  BY <1>1 DEF TypeOK
<1>3. k.state = sock[s].state /\ k.open = sock[s].open /\ k.connReq = sock[s].connReq
  BY <1>2 DEF SocketType
<1> HIDE DEF k
<1>4. /\ \A t \in Socks : calls[t] <= calls'[t]
      /\ calls'[s] # calls[s]
  <2>1. calls[s] \in 0 .. MaxCalls /\ calls'[s] = calls[s] + 1 /\ \A t \in Socks : calls[t] <= calls'[t]
    BY <1>1, NextReceipt DEF TypeOK
  <2> QED
    BY <2>1
<1>5. CASE sock' = sock
  <2>1. Owed' = Owed
    BY <1>1, <1>5 DEF Owed, Leaked, Used, Charged, Awaited, Pending
  <2>2. SocketFacts' /\ CarrierFacts' /\ OwesNoMore
    BY <1>1, <1>4, <1>5, <2>1, SocketsSame DEF CarrierFacts, OwesNoMore
  <2> QED
    BY <2>2, PaidStep
<1>6. CASE sock[s].state = "LISTEN" /\ Update(s, k)
  <2>1. sock'[s] = k /\ \A t \in Socks : t # s => sock'[t] = sock[t]
    BY <1>2, <1>6 DEF Update
  <2>2. Owed' = Owed
    <3>1. Pending' = Pending /\ \A t \in Pending : sock'[t].connReq = sock[t].connReq
      BY <1>1, <1>3, <2>1 DEF Pending
    <3> QED
      BY <1>1, <3>1 DEF Owed, Leaked, Used, Charged, Awaited
  <2>3. SocketFacts' /\ CarrierFacts'
    BY <1>1, <1>3, <1>6, <2>1 DEF SocketFacts, CarrierFacts
  <2>4. OwesNoMore
    BY <1>3, <1>4, <2>1, <2>2 DEF OwesNoMore, MayKeep, MayAnswer
  <2> QED
    BY <2>3, <2>4, PaidStep
<1> QED
  BY <1>1, <1>5, <1>6

-----------------------------------------------------------------------------
(* input(): no datagram owes anything.                                        *)

\* A step that changes neither the sockets nor the calls.
LEMMA QuietStep ==
  ASSUME LeakInv, BuffersInv', UNCHANGED <<sock, calls>>, CarrierFacts', Owed' \subseteq Owed
  PROVE  LeakInv'
<1>1. SocketFacts' /\ \A t \in Socks : (MayKeep(t)' => MayKeep(t)) /\ (MayAnswer(t)' => MayAnswer(t))
  BY SocketsSame DEF LeakInv
<1>2. \A t \in Socks : calls[t] <= calls'[t]
  <2>1. calls \in [Socks -> 0 .. MaxCalls]
    BY DEF LeakInv, BuffersInv, TypeOK
  <2> QED
    BY <2>1
<1>3. OwesNoMore
  BY <1>1, <1>2 DEF OwesNoMore
<1> QED
  BY <1>1, <1>3, PaidStep

LEMMA InputAllocPaid ==
  ASSUME BuffersAssumption, LeakInv, BuffersInv', InputAlloc
  PROVE  LeakInv'
<1>1. TypeOK /\ TypeOK' /\ heap \in HeapType /\ TRUE \in MayAllocMsg(heap) /\ input = None
  BY DEF LeakInv, BuffersInv, InputAlloc, TypeOK
<1>2. UNCHANGED <<sock, held, calls, unacked>>
  BY DEF InputAlloc
<1>3. PICK b \in MayAllocMbuff(heap) :
        /\ input' = b
        /\ heap' = IF b = None THEN TakeMsg(heap) ELSE TakeMsg(TakeMbuff(heap, b))
  BY DEF InputAlloc
<1>4. \A x \in Free(heap) : x \in Free(heap') \/ (x = b /\ b # None)
  <2>1. CASE b = None
    <3>1. Free(heap') = Free(heap)
      BY <1>1, <1>3, <2>1 DEF TakeMsg, HeapType, Free
    <3> QED
      BY <3>1
  <2>2. CASE b # None
    <3>1. Free(heap') = Free(heap) \ {b}
      BY <1>1, <1>3, <2>2, TakenTypes
    <3> QED
      BY <2>2, <3>1
  <2> QED
    BY <2>1, <2>2
<1>5. \A x \in Free(heap) : x \in Free(heap') \/ x \in Used'
  BY <1>3, <1>4 DEF Used
<1>6. \A c \in held : c.mb \in Used'
  BY <1>2 DEF Used
<1>7. Charged' \subseteq Charged
  BY <1>2 DEF Charged, Awaited, Pending
<1>8. Owed' \subseteq Owed \cup {}
  BY <1>1, <1>5, <1>6, <1>7, OwedStep
<1>9. CarrierFacts'
  BY <1>2 DEF LeakInv, CarrierFacts
<1> QED
  BY <1>2, <1>8, <1>9, QuietStep

LEMMA InputReceivePaid ==
  ASSUME BuffersAssumption, LeakInv, BuffersInv', NEW s \in Socks \cup {None}, NEW kind \in Kinds,
         InputReceive(s, kind)
  PROVE  LeakInv'
<1> DEFINE c == Carrier("kernel", s, input, kind, FALSE, TRUE)
<1>1. TypeOK /\ TypeOK' /\ CarrierFacts
  BY DEF LeakInv, BuffersInv
<1>2. c.mb = input /\ c.at = "kernel"
  BY DEF Carrier
<1>3. UNCHANGED <<heap, sock, calls, unacked>> /\ held' = held \cup {c}
  BY DEF InputReceive
<1> HIDE DEF c
<1>4. \A d \in held' : d.mb \in Used'
  BY DEF Used
<1>5. input \in Used' /\ \A d \in held : d.mb \in Used'
  BY <1>2, <1>3, <1>4
<1>6. Charged' \subseteq Charged
  BY <1>2, <1>3 DEF Charged, Awaited, Pending
<1>7. Owed' \subseteq Owed \cup {}
  BY <1>1, <1>3, <1>5, <1>6, OwedStep
<1>8. CarrierFacts'
  BY <1>1, <1>2, <1>3 DEF CarrierFacts
<1> QED
  BY <1>3, <1>7, <1>8, QuietStep

LEMMA InputDiscardPaid ==
  ASSUME BuffersAssumption, LeakInv, BuffersInv', InputDiscard
  PROVE  LeakInv'
<1>1. TypeOK /\ TypeOK' /\ heap \in HeapType /\ input \in Mbuffs
  BY DEF LeakInv, BuffersInv, InputDiscard, TypeOK
<1>2. UNCHANGED <<sock, held, calls, unacked>>
  BY DEF InputDiscard
<1>3. Free(heap') = Free(heap) \cup {input}
  BY <1>1, FreeMbuffTypes DEF InputDiscard
<1>4. \A c \in held : c.mb \in Used'
  BY <1>2 DEF Used
<1>5. Charged' \subseteq Charged
  BY <1>2 DEF Charged, Awaited, Pending
<1>6. Owed' \subseteq Owed \cup {}
  BY <1>1, <1>3, <1>4, <1>5, OwedStep
<1>7. CarrierFacts'
  BY <1>2 DEF LeakInv, CarrierFacts
<1> QED
  BY <1>2, <1>6, <1>7, QuietStep

LEMMA InputPanicPaid ==
  ASSUME LeakInv, BuffersInv', InputPanic
  PROVE  LeakInv'
<1>1. UNCHANGED <<heap, sock, held, input, calls, unacked>>
  BY DEF InputPanic
<1>2. Owed' = Owed /\ CarrierFacts'
  BY <1>1 DEF Owed, Leaked, Used, Charged, Awaited, Pending, LeakInv, CarrierFacts
<1> QED
  BY <1>1, <1>2, QuietStep

-----------------------------------------------------------------------------
(* do_process_input(): an answer that must be acknowledged is paid by the     *)
(* accept() that waits, a request that is kept by its socket, once.           *)

LEMMA DroppedOwes ==
  ASSUME BuffersAssumption, LeakInv, TypeOK', NEW c \in held, NEW A, NEW h, Releases(c, A, h),
         heap' = FreeBoth(h, c.mb), held' = held \ ({c} \cup A), NoNewRequest, input' = input
  PROVE  Owed' \subseteq Owed /\ CarrierFacts'
<1>1. TypeOK /\ c.mb \in Mbuffs
  BY DEF LeakInv, BuffersInv, TypeOK, Carriers
<1>2. HandedOver({c} \cup A, {})
  BY <1>1, DroppedHandedOver
<1>3. Free(heap') = Free(heap) \cup {a.mb : a \in A} \cup {c.mb}
  BY <1>1, FreeMbuffTypes DEF Releases
<1>4. /\ \A b \in Free(heap) : b \in Free(heap')
      /\ \A d \in {c} \cup A : d.mb \in Free(heap')
  BY <1>3
<1>5. Owed' \subseteq Owed
  BY <1>1, <1>2, <1>4, OwedNoMore
<1> QED
  BY <1>5 DEF LeakInv, CarrierFacts

LEMMA AnsweredOwes ==
  ASSUME BuffersAssumption, LeakInv, TypeOK', NEW c \in held, c.sk \in Socks,
         NEW A, NEW h, Releases(c, A, h),
         NEW p \in FreeMsgAndPrepare(h), NEW kind \in Kinds, NEW discard \in BOOLEAN,
         heap' = free_mbuff(p.heap, c.mb),
         held' = (held \ ({c} \cup A)) \cup ToOutput(c.sk, p, kind, discard),
         NoNewRequest, input' = input
  PROVE  /\ Owed' \subseteq Owed \cup {p.mb}
         /\ (p.mb = None \/ discard) => Owed' \subseteq Owed
         /\ CarrierFacts'
<1> DEFINE N == ToOutput(c.sk, p, kind, discard)
<1>1. BuffersInv /\ TypeOK /\ c.mb \in Mbuffs /\ h \in HeapType /\ CarrierFacts
  BY DEF LeakInv, BuffersInv, TypeOK, Carriers, Releases
<1>2. HandedOver({c} \cup A, N)
  BY <1>1, AnsweredHandedOver
<1>3. /\ p.heap \in HeapType
      /\ Free(p.heap) = Free(h) \ {p.mb}
      /\ p.mb # None => p.mb \in Free(h)
      /\ None \notin Free(h)
  BY <1>1, FreeMsgAndPrepareTakes DEF Free, HeapType, BuffersAssumption
<1>4. Free(heap') = Free(p.heap) \cup {c.mb}
  BY <1>1, <1>3, FreeMbuffTypes
<1>5. p.mb # None => \E n \in N : n.mb = p.mb
  BY ToOutputSome
<1>6. \A n \in N : n.at = "output" /\ n.mb = p.mb /\ p.mb # None /\ n.discard = discard
  BY ToOutputIs
<1>7. held' = (held \ ({c} \cup A)) \cup N
  OBVIOUS
<1> HIDE DEF N
<1>8. \A b \in Free(h) : b \in Free(heap') \/ \E n \in N : n.mb = b
  BY <1>3, <1>4, <1>5
<1>9. \A b \in Free(heap) : b \in Free(h)
  BY DEF Releases
<1>10. \A d \in {c} \cup A : d.mb \in Free(h) \/ d.mb \in Free(heap')
  BY <1>4 DEF Releases
<1>11. /\ \A b \in Free(heap) : b \in Free(heap') \/ \E n \in N : n.mb = b
       /\ \A d \in {c} \cup A : d.mb \in Free(heap') \/ \E n \in N : n.mb = d.mb
  BY <1>8, <1>9, <1>10
<1>12. Owed' \subseteq Owed \cup {n.mb : n \in {m \in N : Awaited(m)}}
  BY <1>1, <1>2, <1>11, OwedHandOver
<1>13. {n.mb : n \in {m \in N : Awaited(m)}} \subseteq {p.mb}
  BY <1>6
<1>14. (p.mb = None \/ discard) => {m \in N : Awaited(m)} = {}
  BY <1>6 DEF Awaited
<1>15. CarrierFacts'
  BY <1>1, <1>6, <1>7, CarrierStep
<1> QED
  BY <1>12, <1>13, <1>14, <1>15

LEMMA ReceiveConnectAckPaid ==
  ASSUME BuffersAssumption, LeakInv, BuffersInv', NEW c \in held, ReceiveConnectAck(c)
  PROVE  LeakInv'
<1>1. TypeOK /\ TypeOK'
  BY DEF LeakInv, BuffersInv
<1>2. PICK A \in Acked(c.sk, c.kind) :
        held' = held \ ({c} \cup A) /\ heap' = FreeBoth(Release(heap, A), c.mb)
  BY DEF ReceiveConnectAck
<1>3. Releases(c, A, Release(heap, A))
  BY <1>1, AckedReleases DEF ReceiveConnectAck
<1>4. UNCHANGED <<sock, calls>> /\ input' = input /\ NoNewRequest
  BY <1>1, SameSockets DEF ReceiveConnectAck, inputVars
<1>5. Owed' \subseteq Owed /\ CarrierFacts'
  BY <1>1, <1>2, <1>3, <1>4, DroppedOwes
<1> QED
  BY <1>4, <1>5, QuietStep

\* A socket that is established.
LEMMA EstablishedSockets ==
  ASSUME BuffersAssumption, LeakInv, NEW s \in Socks,
         Update(s, [sock[s] EXCEPT !.state = "ESTABLISHED"]), unacked' = unacked
  PROVE  /\ NoNewRequest /\ SocketFacts'
         /\ \A t \in Socks : (MayKeep(t)' => MayKeep(t)) /\ (MayAnswer(t)' => MayAnswer(t))
<1> DEFINE k == [sock[s] EXCEPT !.state = "ESTABLISHED"]
<1>1. TypeOK /\ SocketFacts
  BY DEF LeakInv, BuffersInv
<1>2. k \in SocketType /\ k.state = "ESTABLISHED"
  BY <1>1, SocketEdits DEF SocketType
<1>3. Update(s, k)
  OBVIOUS
<1> HIDE DEF k
<1>4. NoNewRequest
  BY <1>1, <1>2, <1>3, UpdateTypes
<1> QED
  BY <1>1, <1>2, <1>3, <1>4, SocketStep

\* A step of the socket's owner that owes nothing more.
LEMMA SocketPaid ==
  ASSUME LeakInv, BuffersInv', calls' = calls, SocketFacts', CarrierFacts', Owed' \subseteq Owed,
         \A t \in Socks : (MayKeep(t)' => MayKeep(t)) /\ (MayAnswer(t)' => MayAnswer(t))
  PROVE  LeakInv'
<1>1. calls \in [Socks -> 0 .. MaxCalls]
  BY DEF LeakInv, BuffersInv, TypeOK
<1>2. \A t \in Socks : calls[t] <= calls'[t]
  BY <1>1
<1>3. OwesNoMore
  BY <1>2 DEF OwesNoMore
<1> QED
  BY <1>3, PaidStep

LEMMA ReceiveAcceptPaid ==
  ASSUME BuffersAssumption, LeakInv, BuffersInv', NEW c \in held, ReceiveAccept(c)
  PROVE  LeakInv'
<1>1. TypeOK /\ TypeOK' /\ c.sk \in Socks
  BY DEF LeakInv, BuffersInv, ReceiveAccept, Received
<1>2. PICK A \in Acked(c.sk, c.kind) : \E p \in FreeMsgAndPrepare(Release(heap, A)) :
        /\ held' = (held \ ({c} \cup A)) \cup ToOutput(c.sk, p, "ctrlack", TRUE)
        /\ heap' = free_mbuff(p.heap, c.mb)
  BY DEF ReceiveAccept
<1>3. PICK p \in FreeMsgAndPrepare(Release(heap, A)) :
        /\ held' = (held \ ({c} \cup A)) \cup ToOutput(c.sk, p, "ctrlack", TRUE)
        /\ heap' = free_mbuff(p.heap, c.mb)
  BY <1>2
<1>4. Releases(c, A, Release(heap, A))
  BY <1>1, AckedReleases DEF ReceiveAccept
<1>5. /\ Update(c.sk, [sock[c.sk] EXCEPT !.state = "ESTABLISHED"])
      /\ calls' = calls /\ input' = input /\ unacked' = unacked
  BY DEF ReceiveAccept, inputVars
<1>6. /\ NoNewRequest /\ SocketFacts'
      /\ \A t \in Socks : (MayKeep(t)' => MayKeep(t)) /\ (MayAnswer(t)' => MayAnswer(t))
  BY <1>1, <1>5, EstablishedSockets
<1>7. "ctrlack" \in Kinds /\ TRUE \in BOOLEAN
  BY DEF Kinds
<1>8. Owed' \subseteq Owed /\ CarrierFacts'
  BY <1>1, <1>3, <1>4, <1>5, <1>6, <1>7, AnsweredOwes
<1> QED
  BY <1>5, <1>6, <1>8, SocketPaid

LEMMA ReceiveAcceptAckPaid ==
  ASSUME BuffersAssumption, LeakInv, BuffersInv', NEW c \in held, ReceiveAcceptAck(c)
  PROVE  LeakInv'
<1>1. TypeOK /\ TypeOK' /\ c.sk \in Socks
  BY DEF LeakInv, BuffersInv, ReceiveAcceptAck, Received
<1>2. PICK A \in Acked(c.sk, c.kind) :
        held' = held \ ({c} \cup A) /\ heap' = FreeBoth(Release(heap, A), c.mb)
  BY DEF ReceiveAcceptAck
<1>3. Releases(c, A, Release(heap, A))
  BY <1>1, AckedReleases DEF ReceiveAcceptAck
<1>4. /\ Update(c.sk, [sock[c.sk] EXCEPT !.state = "ESTABLISHED"])
      /\ calls' = calls /\ input' = input /\ unacked' = unacked
  BY DEF ReceiveAcceptAck, inputVars
<1>5. /\ NoNewRequest /\ SocketFacts'
      /\ \A t \in Socks : (MayKeep(t)' => MayKeep(t)) /\ (MayAnswer(t)' => MayAnswer(t))
  BY <1>1, <1>4, EstablishedSockets
<1>6. Owed' \subseteq Owed /\ CarrierFacts'
  BY <1>1, <1>2, <1>3, <1>4, <1>5, DroppedOwes
<1> QED
  BY <1>4, <1>5, <1>6, SocketPaid

LEMMA ReceiveOtherPaid ==
  ASSUME BuffersAssumption, LeakInv, BuffersInv', NEW c \in held, ReceiveOther(c)
  PROVE  LeakInv'
<1>1. TypeOK /\ TypeOK'
  BY DEF LeakInv, BuffersInv
<1>2. held' = held \ ({c} \cup {}) /\ heap' = FreeBoth(heap, c.mb)
  BY DEF ReceiveOther
<1>3. UNCHANGED <<sock, calls>> /\ input' = input /\ NoNewRequest
  BY <1>1, SameSockets DEF ReceiveOther, inputVars
<1>4. Owed' \subseteq Owed /\ CarrierFacts'
  BY <1>1, <1>2, <1>3, NoneReleased, DroppedOwes
<1> QED
  BY <1>3, <1>4, QuietStep

LEMMA ReceiveConnectAcceptingPaid ==
  ASSUME BuffersAssumption, LeakInv, BuffersInv', NEW c \in held, ReceiveConnectAccepting(c)
  PROVE  LeakInv'
<1>1. TypeOK /\ TypeOK' /\ c.sk \in Socks /\ MayAnswer(c.sk) /\ calls' = calls
  BY DEF LeakInv, BuffersInv, ReceiveConnectAccepting, Received, MayAnswer
<1>2. calls \in [Socks -> 0 .. MaxCalls]
  BY <1>1 DEF TypeOK
<1>3. \A t \in Socks : calls[t] <= calls'[t]
  BY <1>1, <1>2
<1>4. CASE Crash
  BY <1>3, <1>4, CrashPaid
<1>5. ASSUME NEW p \in FreeMsgAndPrepare(heap), heap' = free_mbuff(p.heap, c.mb),
             held' = (held \ {c}) \cup ToOutput(c.sk, p, "acceptack", FALSE),
             Accepted(c.sk, p), UNCHANGED <<inputVars, alive, unacked>>
      PROVE  LeakInv'
  <2>1. unacked' = unacked /\ input' = input
    BY <1>5 DEF inputVars
  <2>2. /\ NoNewRequest /\ SocketFacts'
        /\ \A t \in Socks : (MayKeep(t)' => MayKeep(t)) /\ (MayAnswer(t)' => MayAnswer(t))
        /\ p.mb # None => ~MayKeep(c.sk)' /\ ~MayAnswer(c.sk)'
    BY <1>1, <1>5, <2>1, AcceptedSockets
  <2>3. held' = (held \ ({c} \cup {})) \cup ToOutput(c.sk, p, "acceptack", FALSE)
    BY <1>5
  <2>4. "acceptack" \in Kinds /\ FALSE \in BOOLEAN /\ Releases(c, {}, heap)
    BY <1>1, NoneReleased DEF Kinds
  <2>5. /\ Owed' \subseteq Owed \cup {p.mb}
        /\ p.mb = None => Owed' \subseteq Owed
        /\ CarrierFacts'
    BY <1>1, <1>5, <2>1, <2>2, <2>3, <2>4, AnsweredOwes
  <2>6. CASE p.mb = None
    BY <1>1, <2>2, <2>5, <2>6, SocketPaid
  <2>7. CASE p.mb # None
    <3>1. PICK f : PaidBy(f)
      BY DEF LeakInv
    <3>2. PICK n \in 1 .. calls[c.sk] : \A b \in Owed : f[b] # <<c.sk, n>>
      BY <1>1, <3>1 DEF PaidBy
    <3> DEFINE r == <<c.sk, n>>
    <3>3. n \in 1 .. MaxCalls /\ n # 0 /\ n <= calls[c.sk]
      <4>1. calls[c.sk] \in 0 .. MaxCalls /\ MaxCalls \in Nat
        BY <1>1, <1>2 DEF BuffersAssumption
      <4> QED
        BY <3>2, <4>1
    <3>4. r \in Receipts'
      BY <1>1, <3>3 DEF Receipts, CallsMade
    <3>5. Owes(p.mb, r)
      <4>1. \A t \in Socks : MayKeep(t)' => MayKeep(t) /\ r # <<t, 0>>
        BY <2>2, <3>3
      <4>2. \A t \in Socks : MayAnswer(t)' => MayAnswer(t) /\ \A m \in 1 .. calls[t] : r # <<t, m>>
        BY <2>2, <2>7
      <4> QED
        BY <1>3, <2>5, <3>4, <4>1, <4>2 DEF Owes
    <3> HIDE DEF r
    <3>6. \A x \in Owed : f[x] # r
      BY <3>2 DEF r
    <3>7. \E g : PaidBy(g)'
      BY <1>1, <3>1, <3>5, <3>6, NewlyPaid
    <3> QED
      BY <2>2, <2>5, <3>7 DEF LeakInv
  <2> QED
    BY <2>6, <2>7
<1> QED
  BY <1>4, <1>5 DEF ReceiveConnectAccepting

\* The one step by which a socket comes to keep a request, which it does once:
\* it had not kept one before, and never listens again.
LEMMA ReceiveConnectEarlyPaid ==
  ASSUME BuffersAssumption, LeakInv, BuffersInv', NEW c \in held, ReceiveConnectEarly(c)
  PROVE  LeakInv'
<1> DEFINE s == c.sk
           r == <<s, 0>>
           k == [sock[s] EXCEPT !.state = "CONNECT_RCVD", !.connReq = c.mb]
<1>1. /\ TypeOK /\ TypeOK' /\ SocketFacts /\ CarrierFacts
      /\ s \in Socks /\ c.mb \in Mbuffs /\ heap \in HeapType
      /\ sock[s].state = "LISTEN" /\ calls' = calls /\ input' = input
  BY DEF LeakInv, BuffersInv, ReceiveConnectEarly, Received, TypeOK, Carriers, inputVars
<1>2. MayKeep(s)
  BY <1>1 DEF SocketFacts, MayKeep
<1>3. k \in SocketType /\ k.state = "CONNECT_RCVD" /\ k.connReq = c.mb
  <2>1. sock[s] \in SocketType
    BY <1>1, SocketEdits
  <2> QED
    BY <1>1, <2>1 DEF SocketType
<1>4. Update(s, k)
  BY DEF ReceiveConnectEarly
<1> HIDE DEF k
<1>5. PICK p \in FreeMsgAndPrepare(heap) :
        /\ held' = (held \ {c}) \cup ToOutput(s, p, "ctrlack", TRUE)
        /\ heap' = IF p.mb # None THEN p.heap ELSE free_mbuff(p.heap, c.mb)
        /\ unacked' = IF p.mb # None THEN unacked ELSE unacked \cup {s}
  BY DEF ReceiveConnectEarly
<1> DEFINE N == ToOutput(s, p, "ctrlack", TRUE)
<1>6. /\ p.heap \in HeapType /\ Free(p.heap) = Free(heap) \ {p.mb}
      /\ None \notin Free(heap)
  BY <1>1, FreeMsgAndPrepareTakes DEF Free, HeapType, BuffersAssumption
<1>7. /\ \A n \in N : n.at = "output" /\ n.mb = p.mb /\ n.discard = TRUE
      /\ p.mb # None => \E n \in N : n.mb = p.mb
  <2> DEFINE n == Carrier("output", s, p.mb, "ctrlack", TRUE, TRUE)
  <2>1. n.at = "output" /\ n.mb = p.mb /\ n.discard = TRUE
    BY DEF Carrier
  <2>2. N = IF p.mb = None THEN {} ELSE {n}
    BY DEF ToOutput
  <2> HIDE DEF n, N
  <2> QED
    BY <2>1, <2>2
<1>8. held' = (held \ {c}) \cup N
  BY <1>5
<1> HIDE DEF N, s, r
<1>9. /\ SocketFacts'
      /\ \A t \in Socks : (MayKeep(t)' => MayKeep(t)) /\ (MayAnswer(t)' => MayAnswer(t))
      /\ ~MayKeep(s)' /\ ~MayAnswer(s)'
  BY <1>1, <1>3, <1>4, SocketStep
<1>10. Owed' \subseteq Owed \cup {c.mb}
  <2>1. Free(p.heap) \subseteq Free(heap')
    <3>1. CASE p.mb # None
      BY <1>5, <3>1
    <3>2. CASE p.mb = None
      BY <1>1, <1>5, <1>6, <3>2, FreeMbuffTypes
    <3> QED
      BY <3>1, <3>2
  <2>2. \A d \in held' : d.mb \in Used'
    BY DEF Used
  <2>3. \A b \in Free(heap) : b \in Free(heap') \/ b \in Used'
    BY <1>6, <1>7, <1>8, <2>1, <2>2
  <2>4. input # None => input \in Used'
    BY <1>1 DEF Used
  <2>5. \A d \in held : d.mb \in Used' \/ d.mb \in {c.mb}
    BY <1>8, <2>2
  <2>6. Charged' \subseteq Charged \cup {c.mb}
    <3>1. ASSUME NEW d \in held', Awaited(d) PROVE d.mb \in Charged
      BY <1>7, <1>8, <3>1 DEF Charged, Awaited
    <3>2. ASSUME NEW t \in Pending' PROVE sock'[t].connReq \in Charged \cup {c.mb}
      <4>1. sock'[s] = k /\ \A u \in Socks : u # s => sock'[u] = sock[u]
        BY <1>1, <1>4 DEF Update, TypeOK
      <4>2. t # s => t \in Pending /\ sock'[t] = sock[t]
        BY <1>5, <4>1 DEF Pending
      <4> QED
        BY <1>3, <4>1, <4>2 DEF Charged
    <3>3. \A x \in Charged' : (\E d \in held' : Awaited(d) /\ x = d.mb) \/ \E t \in Pending' : x = sock'[t].connReq
      BY DEF Charged, Awaited
    <3> QED
      BY <3>1, <3>2, <3>3
  <2> QED
    BY <1>1, <2>3, <2>4, <2>5, <2>6, OwedStep
<1>11. CarrierFacts'
  BY <1>1, <1>7, <1>8, CarrierStep
<1>12. Owes(c.mb, r)
  <2>1. calls \in [Socks -> 0 .. MaxCalls]
    BY <1>1 DEF TypeOK
  <2>2. \A t \in Socks : calls[t] <= calls'[t]
    BY <1>1, <2>1
  <2>3. r \in Receipts'
    BY <1>1 DEF r, Receipts
  <2>4. \A t \in Socks : MayKeep(t)' => MayKeep(t) /\ r # <<t, 0>>
    BY <1>9 DEF r
  <2>5. \A t \in Socks : MayAnswer(t)' => MayAnswer(t) /\ \A n \in 1 .. calls[t] : r # <<t, n>>
    BY <1>9 DEF r
  <2> QED
    BY <1>10, <2>2, <2>3, <2>4, <2>5 DEF Owes
<1>13. PICK f : PaidBy(f)
  BY DEF LeakInv
<1>14. \A x \in Owed : f[x] # r
  BY <1>1, <1>2, <1>13 DEF PaidBy, r
<1>15. \E g : PaidBy(g)'
  BY <1>1, <1>12, <1>13, <1>14, NewlyPaid
<1> QED
  BY <1>9, <1>11, <1>15 DEF LeakInv

-----------------------------------------------------------------------------
(* flushqueue(), do_process_sent_msg() and do_process_expired(): what is sent *)
(* again owes nothing, because a clone is discarded after it was sent.        *)

LEMMA MovePaid ==
  ASSUME BuffersAssumption, LeakInv, BuffersInv', NEW c \in held, c.at # "kernel",
         NEW at \in {"back", "sent"}, NEW ok \in BOOLEAN, MoveTo(c, at, ok),
         at = "sent" \/ ok => ~c.discard,
         UNCHANGED <<heap, sock, inputVars, alive, calls, unacked>>
  PROVE  LeakInv'
<1> DEFINE d == [c EXCEPT !.at = at, !.ok = ok]
<1>1. BuffersInv /\ TypeOK /\ TypeOK' /\ CarrierFacts /\ input' = input
  BY DEF LeakInv, BuffersInv, inputVars
<1>2. c \in Carriers /\ c.mb \notin Free(heap)
  BY <1>1 DEF TypeOK, BuffersInv, HeldApart
<1>3. d.mb = c.mb /\ d.mb \in Mbuffs /\ d.at = at /\ d.ok = ok /\ d.discard = c.discard
  BY <1>2 DEF Carriers
<1>4. held' = (held \ {c}) \cup {d}
  BY DEF MoveTo
<1> HIDE DEF d
<1>5. HandedOver({c}, {d}) /\ NoNewRequest
  BY <1>1, <1>2, <1>3, <1>4, SameSockets DEF HandedOver
<1>6. Awaited(d) => d.mb \in Charged
  BY <1>3 DEF Awaited, Charged
<1>7. Owed' \subseteq Owed
  <2>1. \A b \in Free(heap) : b \in Free(heap')
    OBVIOUS
  <2>2. \A x \in {c} : \E n \in {d} : n.mb = x.mb
    BY <1>3
  <2>3. \A n \in {d} : Awaited(n) => n.mb \in Charged
    BY <1>6
  <2> QED
    BY <1>1, <1>5, <2>1, <2>2, <2>3, OwedNoMore
<1>8. CarrierFacts'
  BY <1>1, <1>3, <1>4 DEF CarrierFacts
<1> QED
  BY <1>7, <1>8, QuietStep

LEMMA SendDiscardPaid ==
  ASSUME BuffersAssumption, LeakInv, BuffersInv', NEW c \in held, SendDiscard(c)
  PROVE  LeakInv'
<1>1. TypeOK /\ TypeOK'
  BY DEF LeakInv, BuffersInv
<1>2. held' = held \ ({c} \cup {}) /\ heap' = FreeBoth(heap, c.mb)
  BY DEF SendDiscard
<1>3. UNCHANGED <<sock, calls>> /\ input' = input /\ NoNewRequest
  BY <1>1, SameSockets DEF SendDiscard, inputVars
<1>4. Owed' \subseteq Owed /\ CarrierFacts'
  BY <1>1, <1>2, <1>3, NoneReleased, DroppedOwes
<1> QED
  BY <1>3, <1>4, QuietStep

LEMMA ErrorResponseSockets ==
  ASSUME BuffersAssumption, LeakInv, NEW s \in Socks, ErrorResponse(s), unacked' = unacked
  PROVE  /\ NoNewRequest /\ SocketFacts'
         /\ \A t \in Socks : (MayKeep(t)' => MayKeep(t)) /\ (MayAnswer(t)' => MayAnswer(t))
<1> DEFINE k == [sock[s] EXCEPT !.state = "CLOSE", !.loctrl = "NONE", !.open = FALSE]
<1>1. TypeOK /\ SocketFacts
  BY DEF LeakInv, BuffersInv
<1>2. k \in SocketType /\ k.state = "CLOSE" /\ k.loctrl = "NONE" /\ ~k.open
  BY <1>1, SocketEdits DEF SocketType
<1>3. Update(s, k) \/ sock' = sock
  BY DEF ErrorResponse
<1> HIDE DEF k
<1>4. NoNewRequest
  BY <1>1, ErrorResponseTypes
<1>5. CASE Update(s, k)
  BY <1>1, <1>2, <1>4, <1>5, SocketStep
<1>6. CASE sock' = sock
  BY <1>1, <1>4, <1>6, SocketsSame
<1> QED
  BY <1>3, <1>5, <1>6

LEMMA OutputPanicPaid ==
  ASSUME LeakInv, BuffersInv', NEW c \in held, OutputPanic(c)
  PROVE  LeakInv'
<1>1. UNCHANGED <<heap, sock, held, input, calls, unacked>>
  BY DEF OutputPanic
<1>2. Owed' = Owed /\ CarrierFacts'
  BY <1>1 DEF Owed, Leaked, Used, Charged, Awaited, Pending, LeakInv, CarrierFacts
<1> QED
  BY <1>1, <1>2, QuietStep

LEMMA SentErrorPaid ==
  ASSUME BuffersAssumption, LeakInv, BuffersInv', NEW c \in held, SentError(c)
  PROVE  LeakInv'
<1>1. TypeOK /\ TypeOK' /\ c.sk \in Socks
  BY DEF LeakInv, BuffersInv, SentError, TypeOK
<1>2. held' = held \ ({c} \cup {}) /\ heap' = FreeBoth(heap, c.mb)
  BY DEF SentError
<1>3. calls' = calls /\ input' = input /\ unacked' = unacked /\ ErrorResponse(c.sk)
  BY DEF SentError, inputVars
<1>4. /\ NoNewRequest /\ SocketFacts'
      /\ \A t \in Socks : (MayKeep(t)' => MayKeep(t)) /\ (MayAnswer(t)' => MayAnswer(t))
  BY <1>1, <1>3, ErrorResponseSockets
<1>5. Owed' \subseteq Owed /\ CarrierFacts'
  BY <1>1, <1>2, <1>3, <1>4, NoneReleased, DroppedOwes
<1> QED
  BY <1>3, <1>4, <1>5, SocketPaid

LEMMA ExpireRetryPaid ==
  ASSUME BuffersAssumption, LeakInv, BuffersInv', NEW c \in held, ExpireRetry(c)
  PROVE  LeakInv'
<1>1. TypeOK /\ TypeOK' /\ SocketFacts /\ c.sk \in Socks /\ c.kind \in Kinds
  BY DEF LeakInv, BuffersInv, ExpireRetry, Expiring, TypeOK, Carriers
<1>2. calls' = calls /\ calls \in [Socks -> 0 .. MaxCalls]
  BY <1>1 DEF ExpireRetry, TypeOK
<1>3. \A t \in Socks : calls[t] <= calls'[t]
  BY <1>2
<1>4. CASE Crash
  BY <1>3, <1>4, CrashPaid
<1>5. ASSUME NEW p \in Prepare(heap), heap' = p.heap,
             held' = held \cup ToOutput(c.sk, p, c.kind, TRUE),
             Update(c.sk, [sock[c.sk] EXCEPT !.attempts = OneMore(@)]),
             UNCHANGED <<inputVars, alive, unacked>>
      PROVE  LeakInv'
  <2> DEFINE k == [sock[c.sk] EXCEPT !.attempts = OneMore(@)]
  <2>1. /\ k \in SocketType /\ k.state = sock[c.sk].state /\ k.loctrl = sock[c.sk].loctrl
        /\ k.open = sock[c.sk].open /\ k.connReq = sock[c.sk].connReq
    BY <1>1, SocketEdits DEF SocketType
  <2>2. Update(c.sk, k) /\ unacked' = unacked /\ input' = input
    BY <1>5 DEF inputVars
  <2> HIDE DEF k
  <2>3. NoNewRequest
    BY <1>1, <2>1, <2>2, UpdateTypes
  <2>4. /\ SocketFacts'
        /\ \A t \in Socks : (MayKeep(t)' => MayKeep(t)) /\ (MayAnswer(t)' => MayAnswer(t))
    BY <1>1, <2>1, <2>2, SocketStep
  <2>5. TRUE \in BOOLEAN
    OBVIOUS
  <2>6. Owed' \subseteq Owed /\ CarrierFacts'
    BY <1>1, <1>5, <2>2, <2>3, <2>5, PreparedOwes
  <2> QED
    BY <1>2, <2>4, <2>6, SocketPaid
<1> QED
  BY <1>4, <1>5 DEF ExpireRetry

\* A message that is given up is lost, and was paid for while it was awaited.
LEMMA ExpireGiveUpPaid ==
  ASSUME BuffersAssumption, LeakInv, BuffersInv', NEW c \in held, ExpireGiveUp(c)
  PROVE  LeakInv'
<1>1. TypeOK /\ TypeOK' /\ CarrierFacts /\ c.sk \in Socks /\ c.at = "sent"
  BY DEF LeakInv, BuffersInv, ExpireGiveUp, Expiring, TypeOK
<1>2. /\ calls' = calls /\ input' = input /\ unacked' = unacked /\ heap' = heap
      /\ ErrorResponse(c.sk) /\ held' = held \ {c}
  BY DEF ExpireGiveUp, inputVars
<1>3. /\ NoNewRequest /\ SocketFacts'
      /\ \A t \in Socks : (MayKeep(t)' => MayKeep(t)) /\ (MayAnswer(t)' => MayAnswer(t))
  BY <1>1, <1>2, ErrorResponseSockets
<1>4. Awaited(c)
  BY <1>1 DEF CarrierFacts, Awaited
<1>5. HandedOver({c}, {})
  BY <1>2 DEF HandedOver
<1>6. \A d \in {c} : Awaited(d)
  BY <1>4
<1>7. Owed' \subseteq Owed
  <2>1. \A b \in Free(heap) : b \in Free(heap')
    BY <1>2
  <2> QED
    BY <1>1, <1>2, <1>3, <1>5, <1>6, <2>1, OwedNoMore
<1>8. CarrierFacts'
  BY <1>1, <1>2 DEF CarrierFacts
<1> QED
  BY <1>2, <1>3, <1>7, <1>8, SocketPaid

-----------------------------------------------------------------------------

LEMMA LeakInit == BuffersAssumption /\ Init => LeakInv
<1> SUFFICES ASSUME BuffersAssumption, Init PROVE LeakInv
  OBVIOUS
<1>1. BuffersInv
  BY InitInv
<1>2. SocketFacts /\ CarrierFacts /\ held = {} /\ Pending = {}
  BY DEF Init, NewSock, SocketFacts, CarrierFacts, Pending
<1>3. Free(heap) = Mbuffs
  BY DEF Init, Free
<1>4. Owed = {}
  BY <1>2, <1>3 DEF Owed, Leaked, Free, Charged
<1>5. PICK f : f = [x \in Owed |-> <<>>]
  OBVIOUS
<1>6. \A s \in Socks : sock[s].state = "CLOSE"
  BY DEF Init, NewSock
<1>7. PaidBy(f)
  BY <1>4, <1>5, <1>6 DEF PaidBy, MayAnswer
<1> QED
  BY <1>1, <1>2, <1>7 DEF LeakInv

LEMMA LeakNext == BuffersAssumption /\ LeakInv /\ [Next]_vars => LeakInv'
<1> SUFFICES ASSUME BuffersAssumption, LeakInv, [Next]_vars PROVE LeakInv'
  OBVIOUS
<1>1. BuffersInv'
  BY NextInv DEF LeakInv
<1>2. ASSUME NEW s \in Socks, Program(s) PROVE LeakInv'
  BY <1>1, <1>2, ConnectPaid, ListenPaid, AcceptPendingPaid, AcceptWaitingPaid DEF Program
<1>3. CASE Input
  BY <1>1, <1>3, InputAllocPaid, InputDiscardPaid, InputPanicPaid, InputReceivePaid DEF Input
<1>4. ASSUME NEW c \in held, Receive(c) PROVE LeakInv'
  BY <1>1, <1>4, ReceiveConnectAckPaid, ReceiveAcceptPaid, ReceiveConnectAcceptingPaid,
     ReceiveConnectEarlyPaid, ReceiveAcceptAckPaid, ReceiveOtherPaid DEF Receive
<1>5. ASSUME NEW c \in held, Carry(c) PROVE LeakInv'
  <2>1. ASSUME NEW ok \in BOOLEAN, SendBack(c, ok) PROVE LeakInv'
    BY <1>1, <2>1, MovePaid DEF SendBack
  <2>2. CASE SentSuccess(c)
    <3>1. ~c.discard
      BY <2>2 DEF LeakInv, CarrierFacts, SentSuccess
    <3> QED
      BY <1>1, <2>2, <3>1, MovePaid DEF SentSuccess
  <2> QED
    BY <1>1, <1>5, <2>1, <2>2, SendDiscardPaid, OutputPanicPaid, SentErrorPaid, ExpireRetryPaid,
       ExpireGiveUpPaid DEF Carry
<1>6. CASE UNCHANGED vars
  <2>1. UNCHANGED <<heap, sock, held, input, calls, unacked>>
    BY <1>6 DEF vars, inputVars
  <2>2. Owed' = Owed /\ CarrierFacts'
    BY <2>1 DEF Owed, Leaked, Used, Charged, Awaited, Pending, LeakInv, CarrierFacts
  <2> QED
    BY <1>1, <2>1, <2>2, QuietStep
<1> QED
  BY <1>2, <1>3, <1>4, <1>5, <1>6 DEF Next

\* There are as many receipts as calls and sockets.
LEMMA ReceiptsCounted ==
  ASSUME BuffersAssumption
  PROVE  /\ IsFiniteSet(Receipts)
         /\ Cardinality(Receipts) = Cardinality(CallsMade) + Cardinality(Socks)
         /\ Cardinality(Receipts) \in Nat
<1>1. IsFiniteSet(Socks) /\ MaxCalls \in Nat
  BY DEF BuffersAssumption
<1>2. IsFiniteSet(1 .. MaxCalls)
  BY <1>1, FS_Interval
<1>3. IsFiniteSet(Socks \X (1 .. MaxCalls))
  BY <1>1, <1>2, FS_Product
<1>4. CallsMade \subseteq Socks \X (1 .. MaxCalls)
  BY DEF CallsMade
<1>5. IsFiniteSet(CallsMade)
  BY <1>3, <1>4, FS_Subset
<1>6. IsFiniteSet({0}) /\ Cardinality({0}) = 1
  BY FS_Singleton
<1>7. IsFiniteSet(Socks \X {0}) /\ Cardinality(Socks \X {0}) = Cardinality(Socks) * Cardinality({0})
  BY <1>1, <1>6, FS_Product
<1>8. Cardinality(Socks) \in Nat /\ Cardinality(CallsMade) \in Nat
  BY <1>1, <1>5, FS_CardinalityType
<1>9. Cardinality(Socks \X {0}) = Cardinality(Socks)
  BY <1>6, <1>7, <1>8
<1>10. CallsMade \cap (Socks \X {0}) = {}
  <2> SUFFICES ASSUME NEW p \in CallsMade, p \in Socks \X {0} PROVE FALSE
    OBVIOUS
  <2>1. p[2] \in 1 .. MaxCalls /\ p[2] = 0
    BY <1>4
  <2> QED
    BY <1>1, <2>1
<1>11. Cardinality({}) = 0
  BY FS_EmptySet
<1>12. /\ IsFiniteSet(CallsMade \cup (Socks \X {0}))
       /\ Cardinality(CallsMade \cup (Socks \X {0}))
            = Cardinality(CallsMade) + Cardinality(Socks \X {0})
              - Cardinality(CallsMade \cap (Socks \X {0}))
  BY <1>5, <1>7, FS_Union
<1>13. Cardinality(CallsMade \cap (Socks \X {0})) = 0
  BY <1>10, <1>11
<1>14. /\ IsFiniteSet(Receipts)
       /\ Cardinality(Receipts) = Cardinality(CallsMade) + Cardinality(Socks) - 0
  BY <1>9, <1>12, <1>13 DEF Receipts
<1> DEFINE m == Cardinality(CallsMade)
           n == Cardinality(Socks)
<1> HIDE DEF m, n
<1>15. m \in Nat /\ n \in Nat /\ Cardinality(Receipts) = m + n - 0
  BY <1>8, <1>14 DEF m, n
<1>16. Cardinality(Receipts) = m + n /\ Cardinality(Receipts) \in Nat
  BY <1>15
<1> QED
  BY <1>14, <1>16 DEF m, n

\* An injection into the receipts bounds the leaks by their number.
LEMMA LeaksCounted == BuffersAssumption /\ LeakInv => LeaksPaidFor
<1> SUFFICES ASSUME BuffersAssumption, LeakInv PROVE LeaksPaidFor
  OBVIOUS
<1>1. PICK f : PaidBy(f)
  BY DEF LeakInv
<1>2. Leaked \subseteq Owed /\ Leaked \subseteq Mbuffs
  BY DEF Owed, Leaked
<1>3. IsFiniteSet(Leaked) /\ Cardinality(Leaked) \in Nat
  BY <1>2, FS_Subset, FS_CardinalityType DEF BuffersAssumption
<1>4. PICK g : g = [x \in Leaked |-> f[x]]
  OBVIOUS
<1>5. g \in [Leaked -> Receipts] /\ \A x \in Leaked : g[x] = f[x]
  BY <1>1, <1>2, <1>4 DEF PaidBy
<1>6. \A x, y \in Leaked : x # y => g[x] # g[y]
  BY <1>1, <1>2, <1>5 DEF PaidBy
<1>7. /\ IsFiniteSet(Receipts) /\ Cardinality(Receipts) \in Nat
      /\ Cardinality(Receipts) = Cardinality(CallsMade) + Cardinality(Socks)
  BY ReceiptsCounted
<1>8. Cardinality(Leaked) <= Cardinality(Receipts)
  <2> SUFFICES ASSUME Cardinality(Receipts) < Cardinality(Leaked) PROVE FALSE
    BY <1>3, <1>7
  <2>1. \E x, y \in Leaked : x # y /\ g[x] = g[y]
    BY <1>3, <1>5, <1>7, FS_PigeonHole
  <2> QED
    BY <1>6, <2>1
<1> QED
  BY <1>7, <1>8 DEF LeaksPaidFor

\* The network cannot exhaust the memory, whatever it sends, loses or repeats
\* and whatever calloc() refuses: what is lost is at most one buffer for each
\* connect() and accept(), and one request for each socket.
THEOREM LeaksPaidForCorrect == Spec => []LeaksPaidFor
<1>1. Init => LeakInv
  BY LeakInit, BuffersAssumption
<1>2. LeakInv /\ [Next]_vars => LeakInv'
  BY LeakNext, BuffersAssumption
<1>3. LeakInv => LeaksPaidFor
  BY LeaksCounted, BuffersAssumption
<1> QED
  BY <1>1, <1>2, <1>3, PTL DEF Spec
=============================================================================
