------------------------------ MODULE Buffers ------------------------------
(***************************************************************************)
(* The buffer heap (heap.c) and the life of a buffer in the daemon: the    *)
(* input thread takes a struct msg and a struct mbuff for a datagram, the  *)
(* kernel thread takes a pair for every control message it prepares and    *)
(* every clone it retries, the output thread and the kernel give them      *)
(* back.  The heap grows with calloc(), and calloc() may fail.             *)
(*                                                                         *)
(* Structures hold pointers: `held' is who points at which buffer, and     *)
(* nothing in the model keeps two of them from pointing at the same one.   *)
(* What decides nothing about that is left out: the order of the queues,   *)
(* ports and replies, and the clock, so that a message may expire as soon  *)
(* as it waits for its acknowledgement.  The programs and the other        *)
(* daemons are arbitrary.                                                  *)
(***************************************************************************)
EXTENDS Integers, FiniteSets

CONSTANTS
  Socks,              \* the sockets of this daemon
  Mbuffs,             \* the memory there is for struct mbuff
  None,               \* NULL
  MaxMsgs,            \* the memory there is for struct msg
  START_HEAP,         \* defs.h: how many of both init_heap() makes
  MAX_CONN_ATTEMPTS,  \* defs.h
  MaxCalls            \* a bound: connect() and accept() calls per program

ASSUME BuffersAssumption ==
  /\ None \notin Mbuffs \cup Socks
  /\ IsFiniteSet(Mbuffs)
  /\ IsFiniteSet(Socks)
  /\ MaxMsgs \in Nat
  /\ START_HEAP \in 0 .. MaxMsgs
  /\ MAX_CONN_ATTEMPTS \in Nat
  /\ MaxCalls \in Nat

VARIABLES
  heap,    \* the free lists, and what calloc() has left
  sock,    \* struct sock, as far as it decides what becomes of a buffer
  held,    \* the carriers: which queue points at which mbuff
  input,   \* the mbuff input() receives into, or None
  up,      \* the threads at the network that have not ended in PANIC
  alive,   \* FALSE after a NULL dereference
  calls,   \* how many connect() and accept() calls each program made
  unacked  \* history: sockets whose early CONNECT could not be acknowledged

inputVars == <<input, up>>
vars == <<heap, sock, held, input, up, alive, calls, unacked>>

NewSock == [state |-> "CLOSE", loctrl |-> "NONE", attempts |-> 0, connReq |-> None, open |-> TRUE]

\* init_heap(): START_HEAP of each on the free lists.
Init ==
  /\ \E S \in SUBSET Mbuffs :
       /\ Cardinality(S) = START_HEAP
       /\ heap = [mbuff |-> S, fresh |-> Mbuffs \ S,
                  msg |-> START_HEAP, freshMsg |-> MaxMsgs - START_HEAP]
  /\ sock = [s \in Socks |-> NewSock]
  /\ held = {}
  /\ input = None
  /\ up = {"input", "output"}
  /\ alive = TRUE
  /\ calls = [s \in Socks |-> 0]
  /\ unacked = {}

-----------------------------------------------------------------------------
(* heap.c *)

\* alloc_mbuff() and alloc_msg(): from the free list, from calloc() when that
\* is empty, NULL when calloc() fails.  Messages need no names.
MayAllocMbuff(h) == IF h.mbuff # {} THEN h.mbuff ELSE h.fresh \cup {None}
TakeMbuff(h, b) == [h EXCEPT !.mbuff = @ \ {b}, !.fresh = @ \ {b}]

\* A slip: nobody looks whether calloc() failed.
MayAllocMsgUnchecked(h) == {TRUE}

MayAllocMsg(h) == IF h.msg > 0 THEN {TRUE} ELSE {got \in BOOLEAN : got => h.freshMsg > 0}
TakeMsg(h) ==
  IF h.msg > 0 THEN [h EXCEPT !.msg = @ - 1] ELSE [h EXCEPT !.freshMsg = @ - 1]

free_mbuff(h, b) == [h EXCEPT !.mbuff = @ \cup {b}]
free_msg(h) == [h EXCEPT !.msg = @ + 1]
FreeBoth(h, b) == free_msg(free_mbuff(h, b))

\* The outcomes of prepare_connect(), prepare_accept(), prepare_ctrl_ack() and
\* clone_msg_carrier(), which take an mbuff and then a msg to carry it: no
\* mbuff, a message with mbuff `mb', or the mbuff freed for want of a msg.
Prepare(h) ==
  LET bs == MayAllocMbuff(h) \ {None}
  IN {[mb |-> None, oom |-> TRUE, heap |-> h] : b \in MayAllocMbuff(h) \cap {None}}
       \cup {[mb |-> b, oom |-> FALSE, heap |-> TakeMsg(TakeMbuff(h, b))] :
               b \in {x \in bs : TRUE \in MayAllocMsg(h)}}
       \cup {[mb |-> None, oom |-> FALSE, heap |-> free_mbuff(TakeMbuff(h, b), b)] :
               b \in {x \in bs : FALSE \in MayAllocMsg(h)}}

\* The same after the msg of a received datagram was freed, unless the input
\* thread is quicker to take that one.
FreeMsgAndPrepare(h) ==
  Prepare(free_msg(h)) \cup {[p EXCEPT !.heap = free_msg(@)] : p \in Prepare(h)}

-----------------------------------------------------------------------------
\* struct msg with MSG_MBUFF_CARRIER, and the queue it is in: "kernel" on the
\* way from input(), "output" on the way to output(), "back" from it, "sent"
\* in so_ctrl_sent.  `ok' is sent_result.
Carrier(at, s, b, kind, discard, ok) ==
  [at |-> at, sk |-> s, mb |-> b, kind |-> kind, discard |-> discard, ok |-> ok]

\* msg_enqueue(ctrq, ...) of what Prepare() returned, if anything.
ToOutput(s, p, kind, discard) ==
  {Carrier("output", s, b, kind, discard, TRUE) : b \in {p.mb} \ {None}}

Update(s, k) == sock' = [sock EXCEPT ![s] = k]

\* The whole daemon is gone.
Crash ==
  /\ alive' = FALSE
  /\ UNCHANGED <<heap, sock, held, inputVars, unacked>>

-----------------------------------------------------------------------------
(* do_socket_request(): only connect() and accept() touch buffers; bind() and
   listen() are one step that opens the socket passively. *)

Request(s) ==
  /\ alive
  /\ sock[s].open
  /\ calls[s] < MaxCalls
  /\ calls' = [calls EXCEPT ![s] = @ + 1]

\* MSG_CONNECT, in any state; without a message nothing else happens.
Connect(s) ==
  /\ Request(s)
  /\ \E p \in Prepare(heap) :
       /\ heap' = p.heap
       /\ held' = held \cup ToOutput(s, p, "connect", FALSE)
       /\ Update(s, IF p.mb # None
                      THEN [sock[s] EXCEPT !.state = "CONNECT_SENT",
                                           !.loctrl = "CONNECT_REQUEST", !.attempts = 1]
                      ELSE [sock[s] EXCEPT !.attempts = IF p.oom THEN @ ELSE 1])
  /\ UNCHANGED <<inputVars, alive, unacked>>

Listen(s) ==
  /\ alive
  /\ sock[s].open
  /\ sock[s].state = "CLOSE"
  /\ Update(s, [sock[s] EXCEPT !.state = "LISTEN"])
  /\ UNCHANGED <<heap, held, inputVars, alive, calls, unacked>>

\* so_conn_attempts, which only matters up to MAX_CONN_ATTEMPTS.
OneMore(n) == IF n < MAX_CONN_ATTEMPTS THEN n + 1 ELSE n

\* do_accept_connection() and what its two callers do with its result.
\* prepare_accept() writes to the mbuff before it looks whether there is one.
Accepted(s, p) ==
  Update(s, IF p.mb # None
              THEN [sock[s] EXCEPT !.state = "ACCEPT_SENT", !.loctrl = "ACCEPT_REQUEST",
                                   !.connReq = None, !.attempts = OneMore(@)]
              ELSE [sock[s] EXCEPT !.attempts = OneMore(@)])

\* MSG_ACCEPT after a CONNECT, which is not needed any more: nobody frees it.
AcceptPending(s) ==
  /\ Request(s)
  /\ sock[s].state = "CONNECT_RCVD"
  /\ \E p \in Prepare(heap) :
       IF p.oom THEN Crash
       ELSE /\ heap' = p.heap
            /\ held' = held \cup ToOutput(s, p, "accept", FALSE)
            /\ Accepted(s, p)
            /\ UNCHANGED <<inputVars, alive, unacked>>

\* Before one, and in the states that refuse.
AcceptWaiting(s) ==
  /\ Request(s)
  /\ sock[s].state # "CONNECT_RCVD"
  /\ IF sock[s].state = "LISTEN"
       THEN Update(s, [sock[s] EXCEPT !.loctrl = "ACCEPT_REQUEST"])
       ELSE UNCHANGED sock
  /\ UNCHANGED <<heap, held, inputVars, alive, unacked>>

Program(s) == Connect(s) \/ Listen(s) \/ AcceptPending(s) \/ AcceptWaiting(s)

-----------------------------------------------------------------------------
(* input() *)

Kinds == {"connect", "accept", "acceptack", "ctrlack"}

\* The pair for the next datagram; a msg that gets no mbuff is forgotten.
InputAlloc ==
  /\ alive /\ "input" \in up
  /\ input = None
  /\ TRUE \in MayAllocMsg(heap)
  /\ \E b \in MayAllocMbuff(heap) :
       /\ input' = b
       /\ heap' = IF b = None THEN TakeMsg(heap) ELSE TakeMsg(TakeMbuff(heap, b))
  /\ UNCHANGED <<sock, held, up, alive, calls, unacked>>

\* A datagram for a socket or for a port that nobody has; one whose length is
\* not the one it tells; an error of recvmsg().
InputReceive(s, kind) ==
  /\ alive /\ "input" \in up
  /\ input # None
  /\ held' = held \cup {Carrier("kernel", s, input, kind, FALSE, TRUE)}
  /\ input' = None
  /\ UNCHANGED <<heap, sock, up, alive, calls, unacked>>

InputDiscard ==
  /\ alive /\ "input" \in up
  /\ input # None
  /\ heap' = FreeBoth(heap, input)
  /\ input' = None
  /\ UNCHANGED <<sock, held, up, alive, calls, unacked>>

InputPanic ==
  /\ alive /\ "input" \in up
  /\ input # None
  /\ up' = up \ {"input"}
  /\ UNCHANGED <<heap, sock, held, input, alive, calls, unacked>>

Input ==
  \/ InputAlloc \/ InputDiscard \/ InputPanic
  \/ \E s \in Socks \cup {None}, kind \in Kinds : InputReceive(s, kind)

-----------------------------------------------------------------------------
(* do_process_input_bulk() and do_process_input() *)

\* The kernel takes c from the queue of the input thread.
Received(c) == alive /\ c.at = "kernel" /\ c.sk \in Socks

\* do_rx_ctrl_ack(): an acknowledgement releases the message of s it names, if
\* that has come back from output().
Acked(s, kind) ==
  {{}} \cup IF kind \in {"ctrlack", "acceptack"}
              THEN {{a} : a \in {x \in held : x.at = "sent" /\ x.sk = s}}
              ELSE {}

Release(h, A) == [h EXCEPT !.mbuff = @ \cup {a.mb : a \in A}, !.msg = @ + Cardinality(A)]

\* GV_CONNECT_SENT, an acknowledgement alone; from another host it does nothing.
ReceiveConnectAck(c) ==
  /\ Received(c)
  /\ sock[c.sk].state = "CONNECT_SENT"
  /\ c.kind = "ctrlack"
  /\ \E A \in Acked(c.sk, c.kind) :
       /\ held' = held \ ({c} \cup A)
       /\ heap' = FreeBoth(Release(heap, A), c.mb)
  /\ UNCHANGED <<sock, inputVars, alive, calls, unacked>>

\* GV_CONNECT_SENT, the ACCEPT: established with or without a CTRL_ACK.
ReceiveAccept(c) ==
  /\ Received(c)
  /\ sock[c.sk].state = "CONNECT_SENT"
  /\ c.kind \in {"accept", "acceptack"}
  /\ \E A \in Acked(c.sk, c.kind) : \E p \in FreeMsgAndPrepare(Release(heap, A)) :
       /\ held' = (held \ ({c} \cup A)) \cup ToOutput(c.sk, p, "ctrlack", TRUE)
       /\ heap' = free_mbuff(p.heap, c.mb)
  /\ Update(c.sk, [sock[c.sk] EXCEPT !.state = "ESTABLISHED"])
  /\ UNCHANGED <<inputVars, alive, calls, unacked>>

\* GV_LISTEN with an accept() waiting; without a message the socket listens on.
ReceiveConnectAccepting(c) ==
  /\ Received(c)
  /\ sock[c.sk].state = "LISTEN"
  /\ sock[c.sk].loctrl = "ACCEPT_REQUEST"
  /\ c.kind = "connect"
  /\ \E p \in FreeMsgAndPrepare(heap) :
       IF p.oom THEN Crash
       ELSE /\ heap' = free_mbuff(p.heap, c.mb)
            /\ held' = (held \ {c}) \cup ToOutput(c.sk, p, "acceptack", FALSE)
            /\ Accepted(c.sk, p)
            /\ UNCHANGED <<inputVars, alive, unacked>>
  /\ UNCHANGED calls

\* A slip: the request is dropped after it was kept, as the other requests are.
ReceiveConnectEarlyDrops(c) ==
  /\ Received(c)
  /\ sock[c.sk].state = "LISTEN"
  /\ sock[c.sk].loctrl # "ACCEPT_REQUEST"
  /\ c.kind = "connect"
  /\ Update(c.sk, [sock[c.sk] EXCEPT !.state = "CONNECT_RCVD", !.connReq = c.mb])
  /\ \E p \in FreeMsgAndPrepare(heap) :
       /\ held' = (held \ {c}) \cup ToOutput(c.sk, p, "ctrlack", TRUE)
       /\ heap' = free_mbuff(p.heap, c.mb)
       /\ unacked' = IF p.mb # None THEN unacked ELSE unacked \cup {c.sk}
  /\ UNCHANGED <<inputVars, alive, calls>>

\* GV_LISTEN without: the request is kept and acknowledged.  When it cannot be
\* acknowledged it is kept and freed.
ReceiveConnectEarly(c) ==
  /\ Received(c)
  /\ sock[c.sk].state = "LISTEN"
  /\ sock[c.sk].loctrl # "ACCEPT_REQUEST"
  /\ c.kind = "connect"
  /\ Update(c.sk, [sock[c.sk] EXCEPT !.state = "CONNECT_RCVD", !.connReq = c.mb])
  /\ \E p \in FreeMsgAndPrepare(heap) :
       /\ held' = (held \ {c}) \cup ToOutput(c.sk, p, "ctrlack", TRUE)
       /\ heap' = IF p.mb # None THEN p.heap ELSE free_mbuff(p.heap, c.mb)
       /\ unacked' = IF p.mb # None THEN unacked ELSE unacked \cup {c.sk}
  /\ UNCHANGED <<inputVars, alive, calls>>

\* GV_ACCEPT_SENT
ReceiveAcceptAck(c) ==
  /\ Received(c)
  /\ sock[c.sk].state = "ACCEPT_SENT"
  /\ \E A \in Acked(c.sk, c.kind) \ {{}} :
       /\ held' = held \ ({c} \cup A)
       /\ heap' = FreeBoth(Release(heap, A), c.mb)
  /\ Update(c.sk, [sock[c.sk] EXCEPT !.state = "ESTABLISHED"])
  /\ UNCHANGED <<inputVars, alive, calls, unacked>>

\* A slip: the message goes back to the heap and the mbuff does not.
ReceiveOtherKeeps(c) ==
  /\ alive
  /\ c.at = "kernel"
  /\ c.sk \in Socks => sock[c.sk].state # "LISTEN" \/ c.kind # "connect"
  /\ held' = held \ {c}
  /\ heap' = free_msg(heap)
  /\ UNCHANGED <<sock, inputVars, alive, calls, unacked>>

\* Everything that is dropped: no socket at the port, an unexpected kind, a
\* foreign source, an acknowledgement of nothing, the other states.
ReceiveOther(c) ==
  /\ alive
  /\ c.at = "kernel"
  /\ c.sk \in Socks => sock[c.sk].state # "LISTEN" \/ c.kind # "connect"
  /\ held' = held \ {c}
  /\ heap' = FreeBoth(heap, c.mb)
  /\ UNCHANGED <<sock, inputVars, alive, calls, unacked>>

Receive(c) ==
  \/ ReceiveConnectAck(c) \/ ReceiveAccept(c) \/ ReceiveConnectAccepting(c)
  \/ ReceiveConnectEarly(c) \/ ReceiveAcceptAck(c) \/ ReceiveOther(c)

-----------------------------------------------------------------------------
(* flushqueue(), do_process_sent_msg(), do_process_expired() *)

MoveTo(c, at, ok) == held' = (held \ {c}) \cup {[c EXCEPT !.at = at, !.ok = ok]}

\* A message that may be needed again goes back, and so does one that failed.
SendDiscard(c) ==
  /\ alive /\ "output" \in up
  /\ c.at = "output"
  /\ c.discard
  /\ held' = held \ {c}
  /\ heap' = FreeBoth(heap, c.mb)
  /\ UNCHANGED <<sock, inputVars, alive, calls, unacked>>

SendBack(c, ok) ==
  /\ alive /\ "output" \in up
  /\ c.at = "output"
  /\ ok => ~c.discard
  /\ MoveTo(c, "back", ok)
  /\ UNCHANGED <<heap, sock, inputVars, alive, calls, unacked>>

\* An error of sendmmsg(), for any message there is to send: the thread ends,
\* and what it was sending, and what comes after, stays where it is.
OutputPanic(c) ==
  /\ alive /\ "output" \in up
  /\ c.at = "output"
  /\ up' = up \ {"output"}
  /\ UNCHANGED <<heap, sock, held, input, alive, calls, unacked>>

\* SENT_SUCCESS: the message waits for its acknowledgement.
SentSuccess(c) ==
  /\ alive
  /\ c.at = "back"
  /\ c.ok
  /\ MoveTo(c, "sent", TRUE)
  /\ UNCHANGED <<heap, sock, inputVars, alive, calls, unacked>>

\* do_socket_error_response()
ErrorResponse(s) ==
  IF sock[s].state = "CONNECT_SENT"
    THEN Update(s, [sock[s] EXCEPT !.state = "CLOSE", !.loctrl = "NONE", !.open = FALSE])
    ELSE UNCHANGED sock

\* SENT_ERROR
SentError(c) ==
  /\ alive
  /\ c.at = "back"
  /\ ~c.ok
  /\ ErrorResponse(c.sk)
  /\ held' = held \ {c}
  /\ heap' = FreeBoth(heap, c.mb)
  /\ UNCHANGED <<inputVars, alive, calls, unacked>>

\* The two states that send again, each only its own kind of message.
Retrying(c) ==
  LET k == sock[c.sk] IN
    \/ k.state = "CONNECT_SENT" /\ k.loctrl = "CONNECT_REQUEST" /\ c.kind = "connect"
    \/ k.state = "ACCEPT_SENT" /\ k.loctrl = "ACCEPT_REQUEST" /\ c.kind \in {"accept", "acceptack"}

Expiring(c) == alive /\ c.at = "sent"

\* A clone goes out; msg_enqueue() dereferences the NULL that
\* clone_msg_carrier() returns when it gets no memory.
ExpireRetry(c) ==
  /\ Expiring(c)
  /\ Retrying(c)
  /\ sock[c.sk].attempts < MAX_CONN_ATTEMPTS
  /\ \E p \in Prepare(heap) :
       IF p.mb = None THEN Crash
       ELSE /\ heap' = p.heap
            /\ held' = held \cup ToOutput(c.sk, p, c.kind, TRUE)
            /\ Update(c.sk, [sock[c.sk] EXCEPT !.attempts = OneMore(@)])
            /\ UNCHANGED <<inputVars, alive, unacked>>
  /\ UNCHANGED calls

\* Attempts exhausted, EBADE, or a state that does nothing: msg_search() has
\* taken the message out of so_ctrl_sent, and nobody frees it.
ExpireGiveUp(c) ==
  /\ Expiring(c)
  /\ Retrying(c) => sock[c.sk].attempts >= MAX_CONN_ATTEMPTS
  /\ ErrorResponse(c.sk)
  /\ held' = held \ {c}
  /\ UNCHANGED <<heap, inputVars, alive, calls, unacked>>

Carry(c) ==
  \/ SendDiscard(c) \/ SendBack(c, TRUE) \/ SendBack(c, FALSE) \/ OutputPanic(c)
  \/ SentSuccess(c) \/ SentError(c)
  \/ ExpireRetry(c) \/ ExpireGiveUp(c)

Next ==
  \/ \E s \in Socks : Program(s)
  \/ Input
  \/ \E c \in held : Receive(c) \/ Carry(c)

Spec == Init /\ [][Next]_vars

-----------------------------------------------------------------------------
Carriers ==
  [at : {"kernel", "output", "back", "sent"}, sk : Socks \cup {None}, mb : Mbuffs,
   kind : Kinds, discard : BOOLEAN, ok : BOOLEAN]
HeapType == [mbuff : SUBSET Mbuffs, fresh : SUBSET Mbuffs, msg : Nat, freshMsg : Nat]
SocketType ==
  [state : {"CLOSE", "LISTEN", "CONNECT_SENT", "CONNECT_RCVD", "ACCEPT_SENT", "ESTABLISHED"},
   loctrl : {"NONE", "CONNECT_REQUEST", "ACCEPT_REQUEST"},
   attempts : Nat, connReq : Mbuffs \cup {None}, open : BOOLEAN]

\* Type invariant.
TypeOK ==
  /\ heap \in HeapType
  /\ sock \in [Socks -> SocketType]
  /\ held \subseteq Carriers
  /\ \A c \in held : c.at # "kernel" => c.sk \in Socks
  /\ input \in Mbuffs \cup {None}
  /\ up \subseteq {"input", "output"}
  /\ alive \in BOOLEAN
  /\ calls \in [Socks -> 0 .. MaxCalls]
  /\ unacked \subseteq Socks

\* The mbuffs that somebody may still read, write or free: those in a queue,
\* that of input(), and the request of a socket in GV_CONNECT_RCVD, which
\* reads it in accept().
Pending == {s \in Socks \ unacked : sock[s].state = "CONNECT_RCVD"}
Used ==
  {c.mb : c \in held} \cup ({input} \ {None}) \cup {sock[s].connReq : s \in Pending}

\* A buffer has one owner at a time, whatever fails, arrives late, is answered
\* twice or runs out of memory: two structures never point at the same one and
\* what is on the free list nobody points at, so that no buffer is freed twice
\* and no datagram is overwritten.  The one exception is a request that could
\* not be acknowledged: it is freed and so_conn_req keeps pointing at it.
OneOwner ==
  /\ \A c, d \in held : c.mb = d.mb => c = d
  /\ \A c \in held : c.mb # input
  /\ \A s, t \in Pending : sock[s].connReq = sock[t].connReq => s = t
  /\ \A s \in Pending :
       sock[s].connReq \notin {c.mb : c \in held} \cup {input, None}
  /\ (heap.mbuff \cup heap.fresh) \cap Used = {}

\* The mbuffs in nobody's hands: they are lost until the daemon ends.  What a
\* thread holds when it ends in PANIC is lost too, once, and not counted here.
Leaked == Mbuffs \ (heap.mbuff \cup heap.fresh \cup Used)

CallsMade == {p \in Socks \X (1 .. MaxCalls) : p[2] <= calls[p[1]]}

\* The network cannot exhaust the memory: datagrams and retries leak nothing,
\* and what is leaked is at most one message for each connect() and accept(),
\* and one request for each socket.
LeaksPaidFor == Cardinality(Leaked) <= Cardinality(CallsMade) + Cardinality(Socks)
=============================================================================
