----------------------------- MODULE Handshake -----------------------------
(***************************************************************************)
(* Connection establishment: the kernel's handlers of API requests         *)
(* (kernel_api.c), of received control messages, of messages returned by   *)
(* the output thread and of expired timers (kernel_util.c), the messages   *)
(* they prepare (kernel_tx.c), and what stands between two daemons: the    *)
(* path through the output thread and a network that loses, repeats and    *)
(* reorders datagrams.                                                     *)
(*                                                                         *)
(* Each socket lives in a daemon of its own.  The handlers run in the      *)
(* kernel thread one after the other, so that each is one step; the        *)
(* output thread, the network and the clock run in between.                *)
(***************************************************************************)
EXTENDS Integers, Sequences, FiniteSets

CONSTANTS
  Socks,              \* the Gaver sockets
  None,               \* no socket, no message
  Calls,              \* [Socks -> SUBSET ...]: the API calls a client makes
  Threaded,           \* the sockets whose client calls without waiting for replies
  Rate,               \* [Socks -> Nat]: so_mtu, and likewise so_speed
  MAX_CONN_ATTEMPTS,  \* defs.h
  MaxRequests,        \* [Socks -> Nat], a bound: API calls per client
  Losable,            \* the kinds of datagram the network may lose
  MaxLosses,          \* a bound: datagrams lost
  Duplicates,         \* may the network deliver a datagram twice?
  SendErrors,         \* may sendmsg() fail?
  Timely              \* do 2 seconds always outlast what is in flight?

ApiCalls == {"connect", "bind", "listen", "accept"}
Kinds == {"connect", "accept", "acceptack", "ctrlack"}
Msgs == [kind : Kinds, src : Socks, dst : Socks, seq : Nat, ack : Nat, rate : Nat]

ASSUME HandshakeAssumption ==
  /\ None \notin Socks \cup Msgs
  /\ Calls \in [Socks -> SUBSET ApiCalls]
  /\ Threaded \subseteq Socks
  /\ Rate \in [Socks -> Nat]
  /\ MAX_CONN_ATTEMPTS \in Nat \ {0}
  /\ MaxRequests \in [Socks -> Nat]
  /\ Losable \subseteq Kinds
  /\ MaxLosses \in Nat
  /\ {Duplicates, SendErrors, Timely} \subseteq BOOLEAN

VARIABLES
  sock,      \* struct sock, and the timers registered for it
  outq,      \* carriers on their way to the output thread
  sentq,     \* carriers on their way back to the kernel
  net,       \* datagrams in the network
  open,      \* is so_loctrl open?
  owed,      \* requests the client wrote minus replies the daemon wrote
  requests,  \* how many requests the client made
  acked,     \* history: sequence numbers whose acknowledgement was processed
  failed,    \* history: sequence numbers whose transmission failed
  losses     \* how many datagrams were lost

clientVars == <<open, owed, requests>>
historyVars == <<acked, failed>>
vars == <<sock, outq, sentq, net, open, owed, requests, acked, failed, losses>>

\* START_CTRLSEQ, renumbered from 1: 0 is the sequence number of a CTRL_ACK.
START_CTRLSEQ == 1

NewSock ==
  [state |-> "CLOSE", loctrl |-> "NONE", bound |-> FALSE, host |-> None, committed |-> 0,
   attempts |-> 0, cseq |-> START_CTRLSEQ, connReq |-> None, ctrlSent |-> {}, timers |-> {}]

Init ==
  /\ sock = [s \in Socks |-> NewSock]
  /\ outq = [s \in Socks |-> <<>>]
  /\ sentq = [s \in Socks |-> <<>>]
  /\ net = {}
  /\ open = [s \in Socks |-> TRUE]
  /\ owed = [s \in Socks |-> 0]
  /\ requests = [s \in Socks |-> 0]
  /\ acked = [s \in Socks |-> {}]
  /\ failed = [s \in Socks |-> {}]
  /\ losses = 0

-----------------------------------------------------------------------------
(* kernel_tx.c *)

\* A control message: ack is ctrl_seq_ack, rate the payload of struct gvconn.
Message(kind, s, d, seq, ack, rate) ==
  [kind |-> kind, src |-> s, dst |-> d, seq |-> seq, ack |-> ack, rate |-> rate]

prepare_connect(s, d) == Message("connect", s, d, sock[s].cseq, 0, Rate[s])

\* With or without the acknowledgement of the CONNECT it answers.
prepare_accept(s, req, ctrl_ack) ==
  Message(IF ctrl_ack THEN "acceptack" ELSE "accept", s, req.src, sock[s].cseq,
          IF ctrl_ack THEN req.seq ELSE 0, Rate[s])

prepare_ctrl_ack(s, m) == Message("ctrlack", s, m.src, 0, m.seq, 0)

IsAccept(m) == m.kind \in {"accept", "acceptack"}
IsAck(m) == m.kind \in {"ctrlack", "acceptack"}

\* msg_enqueue(ctrq, ...) and the flush at the end of the kernel's loop; a
\* carrier marked DISCARD_TRUE does not come back.
Transmit(s, m, discard) ==
  outq' = [outq EXCEPT ![s] = Append(@, [msg |-> m, discard |-> discard])]

Update(s, k) == sock' = [sock EXCEPT ![s] = k]

\* write_msg() of a reply, read_msg() of a request that gets none yet.
Reply(s) == owed' = [owed EXCEPT ![s] = @ - 1]
Ask(s) == owed' = [owed EXCEPT ![s] = @ + 1]

-----------------------------------------------------------------------------
(* do_socket_request() *)

\* A client that waits for its replies has none outstanding when it calls.
Request(s, call) ==
  /\ open[s]
  /\ call \in Calls[s]
  /\ requests[s] < MaxRequests[s]
  /\ owed[s] <= 0 \/ s \in Threaded
  /\ requests' = [requests EXCEPT ![s] = @ + 1]

\* MSG_CONNECT.  A socket that is not in GV_CLOSE is told EOPNOTSUPP, and then
\* the request is carried out as well.
Connect(s, d) ==
  /\ Request(s, "connect")
  /\ Update(s, [sock[s] EXCEPT !.state = "CONNECT_SENT", !.loctrl = "CONNECT_REQUEST",
                               !.bound = TRUE, !.host = d, !.attempts = 1, !.cseq = @ + 1,
                               !.timers = @ \cup {sock[s].cseq}])
  /\ Transmit(s, prepare_connect(s, d), FALSE)
  /\ IF sock[s].state # "CLOSE" \/ sock[s].loctrl # "NONE" THEN UNCHANGED owed ELSE Ask(s)
  /\ UNCHANGED <<sentq, net, open, historyVars, losses>>

\* MSG_BIND: the port may belong to another socket.
Bind(s) ==
  /\ Request(s, "bind")
  /\ \/ /\ ~sock[s].bound
        /\ sock[s].state = "CLOSE"
        /\ Update(s, [sock[s] EXCEPT !.bound = TRUE])
     \/ UNCHANGED sock
  /\ UNCHANGED <<outq, sentq, net, open, owed, historyVars, losses>>

\* MSG_LISTEN
Listen(s) ==
  /\ Request(s, "listen")
  /\ IF sock[s].bound /\ sock[s].state = "CLOSE"
       THEN Update(s, [sock[s] EXCEPT !.state = "LISTEN"])
       ELSE UNCHANGED sock
  /\ UNCHANGED <<outq, sentq, net, open, owed, historyVars, losses>>

\* do_accept_connection() and what its two callers do with its result.
Lower(a, b) == IF a < b THEN a ELSE b

Accepting(s, req) ==
  [sock[s] EXCEPT !.host = req.src, !.committed = Lower(req.rate, Rate[s]),
                  !.attempts = @ + 1, !.cseq = @ + 1, !.timers = @ \cup {sock[s].cseq},
                  !.state = "ACCEPT_SENT", !.loctrl = "ACCEPT_REQUEST", !.connReq = None]

\* MSG_ACCEPT before, after and without a CONNECT; the last case prepares a
\* COMMAND_FAIL and never writes it.
AcceptListening(s) ==
  /\ Request(s, "accept")
  /\ sock[s].state = "LISTEN"
  /\ Update(s, [sock[s] EXCEPT !.loctrl = "ACCEPT_REQUEST"])
  /\ Ask(s)
  /\ UNCHANGED <<outq, sentq, net, open, historyVars, losses>>

AcceptPending(s) ==
  /\ Request(s, "accept")
  /\ sock[s].state = "CONNECT_RCVD"
  /\ Update(s, Accepting(s, sock[s].connReq))
  /\ Transmit(s, prepare_accept(s, sock[s].connReq, FALSE), FALSE)
  /\ Ask(s)
  /\ UNCHANGED <<sentq, net, open, historyVars, losses>>

AcceptRefused(s) ==
  /\ Request(s, "accept")
  /\ sock[s].state \notin {"LISTEN", "CONNECT_RCVD"}
  /\ Ask(s)
  /\ UNCHANGED <<sock, outq, sentq, net, open, historyVars, losses>>

Client(s) ==
  \/ \E d \in Socks \ {s} : Connect(s, d)
  \/ Bind(s) \/ Listen(s)
  \/ AcceptListening(s) \/ AcceptPending(s) \/ AcceptRefused(s)

-----------------------------------------------------------------------------
(* do_process_input() *)

\* The network hands a datagram over, and may keep a copy of it.
Deliver(m) == m \in net /\ (net' = net \ {m} \/ (Duplicates /\ UNCHANGED net))

\* do_check_source()
FromHost(s, m) == sock[s].host = m.src

\* do_rx_ctrl_ack(): the message that m acknowledges, once it has come back
\* from the output thread, is released with its timer.
Acknowledged(s, m) == {c \in sock[s].ctrlSent : IsAck(m) /\ c.seq = m.ack}

\* A slip: no remove_et().
ReleaseKeepsTimer(k, done) == [k EXCEPT !.ctrlSent = @ \ done]

\* A slip: msg_search_custom() finds the message and leaves it in the queue.
ReleaseKeepsMessage(k, done) == [k EXCEPT !.timers = @ \ {c.seq : c \in done}]

Release(k, done) ==
  [k EXCEPT !.ctrlSent = @ \ done, !.timers = @ \ {c.seq : c \in done}]

NoteAck(s, done) == acked' = [acked EXCEPT ![s] = @ \cup {c.seq : c \in done}]

\* GV_CONNECT_SENT, an acknowledgement alone.
ReceiveConnectAck(s, m) ==
  /\ Deliver(m)
  /\ sock[s].state = "CONNECT_SENT"
  /\ FromHost(s, m)
  /\ m.kind = "ctrlack"
  /\ Update(s, Release(sock[s], Acknowledged(s, m)))
  /\ NoteAck(s, Acknowledged(s, m))
  /\ UNCHANGED <<outq, sentq, clientVars, failed, losses>>

\* GV_CONNECT_SENT, the ACCEPT: commit, acknowledge once, report.
ReceiveAccept(s, m) ==
  /\ Deliver(m)
  /\ sock[s].state = "CONNECT_SENT"
  /\ FromHost(s, m)
  /\ IsAccept(m)
  /\ Update(s, [Release(sock[s], Acknowledged(s, m))
                  EXCEPT !.committed = m.rate, !.state = "ESTABLISHED"])
  /\ NoteAck(s, Acknowledged(s, m))
  /\ Transmit(s, prepare_ctrl_ack(s, m), TRUE)
  /\ Reply(s)
  /\ UNCHANGED <<sentq, open, requests, failed, losses>>

\* A slip: any state with an accept() waiting answers a CONNECT.
ReceiveConnectAnyState(s, m) ==
  /\ Deliver(m)
  /\ sock[s].loctrl = "ACCEPT_REQUEST"
  /\ m.kind = "connect"
  /\ Update(s, Accepting(s, m))
  /\ Transmit(s, prepare_accept(s, m, TRUE), FALSE)
  /\ UNCHANGED <<sentq, clientVars, historyVars, losses>>

\* GV_LISTEN with an accept() waiting.
ReceiveConnectAccepting(s, m) ==
  /\ Deliver(m)
  /\ sock[s].state = "LISTEN"
  /\ sock[s].loctrl = "ACCEPT_REQUEST"
  /\ m.kind = "connect"
  /\ Update(s, Accepting(s, m))
  /\ Transmit(s, prepare_accept(s, m, TRUE), FALSE)
  /\ UNCHANGED <<sentq, clientVars, historyVars, losses>>

\* A slip: the request is not kept.
ReceiveConnectEarlyForgets(s, m) ==
  /\ Deliver(m)
  /\ sock[s].state = "LISTEN"
  /\ sock[s].loctrl # "ACCEPT_REQUEST"
  /\ m.kind = "connect"
  /\ Update(s, [sock[s] EXCEPT !.state = "CONNECT_RCVD"])
  /\ Transmit(s, prepare_ctrl_ack(s, m), TRUE)
  /\ UNCHANGED <<sentq, clientVars, historyVars, losses>>

\* GV_LISTEN without: the request is kept and acknowledged.
ReceiveConnectEarly(s, m) ==
  /\ Deliver(m)
  /\ sock[s].state = "LISTEN"
  /\ sock[s].loctrl # "ACCEPT_REQUEST"
  /\ m.kind = "connect"
  /\ Update(s, [sock[s] EXCEPT !.state = "CONNECT_RCVD", !.connReq = m])
  /\ Transmit(s, prepare_ctrl_ack(s, m), TRUE)
  /\ UNCHANGED <<sentq, clientVars, historyVars, losses>>

\* GV_ACCEPT_SENT: established only by an acknowledgement that finds its message.
ReceiveAcceptAck(s, m) ==
  /\ Deliver(m)
  /\ sock[s].state = "ACCEPT_SENT"
  /\ FromHost(s, m)
  /\ Acknowledged(s, m) # {}
  /\ Update(s, [Release(sock[s], Acknowledged(s, m)) EXCEPT !.state = "ESTABLISHED"])
  /\ NoteAck(s, Acknowledged(s, m))
  /\ Reply(s)
  /\ UNCHANGED <<outq, sentq, open, requests, failed, losses>>

\* Everything else is dropped: no socket at the port, an unexpected kind, a
\* foreign source, an acknowledgement of nothing, any message in the other states.
Expected(s, m) ==
  CASE sock[s].state = "CONNECT_SENT" -> FromHost(s, m) /\ m.kind # "connect"
    [] sock[s].state = "LISTEN" -> m.kind = "connect"
    [] sock[s].state = "ACCEPT_SENT" -> FromHost(s, m) /\ Acknowledged(s, m) # {}
    [] OTHER -> FALSE

ReceiveUnexpected(s, m) ==
  /\ Deliver(m)
  /\ ~Expected(s, m)
  /\ UNCHANGED <<sock, outq, sentq, clientVars, historyVars, losses>>

Receive(s, m) ==
  /\ m.dst = s
  /\ \/ /\ sock[s].bound
        /\ \/ ReceiveConnectAck(s, m) \/ ReceiveAccept(s, m) \/ ReceiveConnectAccepting(s, m)
           \/ ReceiveConnectEarly(s, m) \/ ReceiveAcceptAck(s, m)
     \/ ReceiveUnexpected(s, m)

-----------------------------------------------------------------------------
(* The output thread, do_process_sent_msg(), do_process_expired() *)

\* A slip: the reply is written in every state.
ErrorReplyAlways(s, k) ==
  /\ IF k.state = "CONNECT_SENT"
       THEN /\ Update(s, [k EXCEPT !.state = "CLOSE", !.loctrl = "NONE"])
            /\ open' = [open EXCEPT ![s] = FALSE]
       ELSE Update(s, k) /\ UNCHANGED open
  /\ Reply(s)

\* do_socket_error_response() has an effect in GV_CONNECT_SENT only; so_loctrl
\* is closed.
ErrorResponse(s, k) ==
  IF k.state = "CONNECT_SENT"
    THEN /\ Update(s, [k EXCEPT !.state = "CLOSE", !.loctrl = "NONE"])
         /\ open' = [open EXCEPT ![s] = FALSE]
         /\ Reply(s)
    ELSE Update(s, k) /\ UNCHANGED <<open, owed>>

\* A carrier with its sent_result.
Returned(c, sent) == [msg |-> c.msg, discard |-> c.discard, sent |-> sent]

\* The output thread sends the first carrier: a message that may be needed
\* again goes back to the kernel, and so does every message that failed.
Send(s) ==
  /\ outq[s] # <<>>
  /\ outq' = [outq EXCEPT ![s] = Tail(@)]
  /\ LET c == Head(outq[s]) IN
       \/ /\ net' = net \cup {c.msg}
          /\ sentq' = IF c.discard THEN sentq
                      ELSE [sentq EXCEPT ![s] = Append(@, Returned(c, TRUE))]
       \/ /\ SendErrors
          /\ sentq' = [sentq EXCEPT ![s] = Append(@, Returned(c, FALSE))]
          /\ UNCHANGED net
  /\ UNCHANGED <<sock, clientVars, historyVars, losses>>

\* do_process_sent_msg(): SENT_SUCCESS keeps the message until it is
\* acknowledged; SENT_ERROR frees it and leaves its timer behind.
SentSuccess(s) ==
  /\ sentq[s] # <<>>
  /\ Head(sentq[s]).sent
  /\ sentq' = [sentq EXCEPT ![s] = Tail(@)]
  /\ Update(s, [sock[s] EXCEPT !.ctrlSent = @ \cup {Head(sentq[s]).msg}])
  /\ UNCHANGED <<outq, net, clientVars, historyVars, losses>>

SentError(s) ==
  /\ sentq[s] # <<>>
  /\ ~Head(sentq[s]).sent
  /\ sentq' = [sentq EXCEPT ![s] = Tail(@)]
  /\ ErrorResponse(s, sock[s])
  /\ failed' = IF Head(sentq[s]).discard THEN failed
               ELSE [failed EXCEPT ![s] = @ \cup {Head(sentq[s]).msg.seq}]
  /\ UNCHANGED <<outq, net, requests, acked, losses>>

\* do_process_expired() for the timer of message q.
Expired(s, q) == {c \in sock[s].ctrlSent : c.seq = q}

\* The environment assumption Timely: a timer only expires when nothing is in
\* flight and no returned message waits to be processed.
MayExpire == Timely => net = {} /\ \A s \in Socks : outq[s] = <<>> /\ sentq[s] = <<>>

\* The message has not come back yet, or is gone: the timer is freed.
ExpireUnknown(s, q) ==
  /\ Expired(s, q) = {}
  /\ Update(s, [sock[s] EXCEPT !.timers = @ \ {q}])
  /\ UNCHANGED <<outq, clientVars>>

\* The two states that send again, each only its own kind of message.
Retrying(s, m) ==
  \/ sock[s].state = "CONNECT_SENT" /\ m.kind = "connect"
  \/ sock[s].state = "ACCEPT_SENT" /\ IsAccept(m)

\* A slip: no refresh_et().
ExpireRetryOnce(s, q) ==
  \E m \in Expired(s, q) :
    /\ Retrying(s, m)
    /\ sock[s].attempts < MAX_CONN_ATTEMPTS
    /\ Update(s, [sock[s] EXCEPT !.attempts = @ + 1, !.timers = @ \ {q}])
    /\ Transmit(s, m, TRUE)
    /\ UNCHANGED clientVars

ExpireRetry(s, q) ==
  \E m \in Expired(s, q) :
    /\ Retrying(s, m)
    /\ sock[s].attempts < MAX_CONN_ATTEMPTS
    /\ Update(s, [sock[s] EXCEPT !.attempts = @ + 1])
    /\ Transmit(s, m, TRUE)
    /\ UNCHANGED clientVars

\* Attempts exhausted, EBADE, or a state that does nothing: the message is
\* dropped from so_ctrl_sent and the timer is gone.
ExpireGiveUp(s, q) ==
  \E m \in Expired(s, q) :
    /\ Retrying(s, m) => sock[s].attempts >= MAX_CONN_ATTEMPTS
    /\ ErrorResponse(s, Release(sock[s], {m}))
    /\ UNCHANGED <<outq, requests>>

Expire(s, q) ==
  /\ q \in sock[s].timers
  /\ MayExpire
  /\ ExpireUnknown(s, q) \/ ExpireRetry(s, q) \/ ExpireGiveUp(s, q)
  /\ UNCHANGED <<sentq, net, historyVars, losses>>

-----------------------------------------------------------------------------
Lose(m) ==
  /\ m \in net
  /\ m.kind \in Losable
  /\ losses < MaxLosses
  /\ losses' = losses + 1
  /\ net' = net \ {m}
  /\ UNCHANGED <<sock, outq, sentq, clientVars, historyVars>>

Network == \E m \in net : Lose(m) \/ \E s \in Socks : Receive(s, m)

Daemon(s) ==
  \/ Send(s) \/ SentSuccess(s) \/ SentError(s)
  \/ \E q \in sock[s].timers : Expire(s, q)

Next == Network \/ \E s \in Socks : Client(s) \/ Daemon(s)

Spec == Init /\ [][Next]_vars

\* Every thread of the daemon is scheduled, the clock runs and the network
\* delivers what it does not lose; a client need never call.
FairSpec ==
  /\ Spec
  /\ \A s \in Socks :
       /\ WF_vars(Send(s))
       /\ WF_vars(SentSuccess(s) \/ SentError(s))
       /\ WF_vars(\E q \in sock[s].timers : Expire(s, q))
       /\ WF_vars(\E m \in net : Receive(s, m))

-----------------------------------------------------------------------------
States == {"CLOSE", "LISTEN", "CONNECT_SENT", "CONNECT_RCVD", "ACCEPT_SENT", "ESTABLISHED"}

SocketType ==
  [state : States, loctrl : {"NONE", "CONNECT_REQUEST", "ACCEPT_REQUEST"}, bound : BOOLEAN,
   host : Socks \cup {None}, committed : Nat, attempts : Nat, cseq : Nat,
   connReq : Msgs \cup {None}, ctrlSent : SUBSET Msgs, timers : SUBSET Nat]

\* Type invariant: struct sock, the two queues of carriers, the network and
\* the client; so_conn_req points at a message in GV_CONNECT_RCVD, for accept().
TypeOK ==
  /\ sock \in [Socks -> SocketType]
  /\ outq \in [Socks -> Seq([msg : Msgs, discard : BOOLEAN])]
  /\ sentq \in [Socks -> Seq([msg : Msgs, discard : BOOLEAN, sent : BOOLEAN])]
  /\ net \subseteq Msgs
  /\ open \in [Socks -> BOOLEAN]
  /\ owed \in [Socks -> Int]
  /\ requests \in [Socks -> Nat]
  /\ acked \in [Socks -> SUBSET Nat]
  /\ failed \in [Socks -> SUBSET Nat]
  /\ losses \in 0 .. MaxLosses
  /\ \A s \in Socks : sock[s].state = "CONNECT_RCVD" => sock[s].connReq # None

\* The sequence numbers of the messages that a queue holds themselves, rather
\* than clones of them, and those that the socket holds anywhere.
Owning(q) == {q[i].msg.seq : i \in {j \in DOMAIN q : ~q[j].discard}}
OwnedBySock(k) == {m.seq : m \in k.ctrlSent}
Held(s) == Owning(outq[s]) \cup Owning(sentq[s]) \cup OwnedBySock(sock[s])

\* A queue holds no message twice.
Once(q) ==
  \A i, j \in DOMAIN q :
    ~q[i].discard /\ ~q[j].discard /\ q[i].msg.seq = q[j].msg.seq => i = j

\* A control message has one owner from prepare_connect() or prepare_accept()
\* on, the way to the output thread, the way back or so_ctrl_sent, and none once
\* it was acknowledged (do_rx_ctrl_ack() frees it) or its transmission failed: it
\* is freed once and never looked up afterwards.
OwnedOnce ==
  \A s \in Socks :
    /\ Once(outq[s]) /\ Once(sentq[s])
    /\ \A m, n \in sock[s].ctrlSent : m.seq = n.seq => m = n
    /\ Owning(outq[s]) \cap Owning(sentq[s]) = {}
    /\ (Owning(outq[s]) \cup Owning(sentq[s])) \cap OwnedBySock(sock[s]) = {}
    /\ (acked[s] \cup failed[s]) \cap Held(s) = {}

\* A registered timer points at a message that some queue still holds, so that
\* et_mb never compares equal to a recycled buffer; the failed transmission,
\* which frees the message and keeps the timer, is the one exception.
TimersHaveMessages ==
  \A s \in Socks : sock[s].timers \subseteq Held(s) \cup failed[s]

\* A client gets at most one reply for each request, whatever fails, expires or
\* arrives late in between, and also when its threads share the connection.
RepliesAnswerRequests == \A s \in Socks : owed[s] >= 0

\* What the two daemons achieve together: the phases of Rendezvous.tla, where
\* so_state and so_host_* say how far a socket got and with whom.
Phase(k) ==
  CASE k.state = "CONNECT_SENT" -> "calling"
    [] k.state = "ACCEPT_SENT" -> "promised"
    [] k.state = "ESTABLISHED" -> "open"
    [] k.state = "CLOSE" /\ k.host # None -> "closed"
    [] OTHER -> "idle"

phases == [s \in Socks |-> Phase(sock[s])]
hosts == [s \in Socks |-> sock[s].host]

R == INSTANCE Rendezvous WITH phase <- phases, peer <- hosts

\* The three-way exchange of CONNECT, ACCEPT and CTRL_ACK implements the
\* rendezvous: nobody is established with a peer that has not promised, or not
\* completed, this very connection, through losses, copies and late datagrams.
Rendezvous == R!RendezvousSpec

\* The CONNECT of s waits in a listener whose program has not called accept().
Waiting(s) == \E b \in Socks : sock[b].connReq # None /\ sock[b].connReq.src = s

\* A connect() is answered, by success or ETIMEDOUT, unless the other program
\* leaves the request waiting: do_process_expired() sends again or gives up.
ConnectAnswered ==
  \A s \in Socks :
    sock[s].state = "CONNECT_SENT" ~> sock[s].state # "CONNECT_SENT" \/ Waiting(s)

\* As the comment in MSG_CONNECT has it: connect() on a socket that is in use
\* fails.
ConnectFailsUnlessClosed ==
  [][\A s \in Socks : sock[s].state # "CLOSE" /\ sock'[s].state = "CONNECT_SENT"
                        => UNCHANGED sock[s].cseq]_vars

\* As the comment in MSG_CONNECT has it: a timer is registered to send the
\* CONNECT again, for as long as nobody has acknowledged it.
RetryArmed ==
  \A s \in Socks :
    sock[s].state = "CONNECT_SENT" =>
      LET q == sock[s].cseq - 1 IN q \in sock[s].timers \cup acked[s] \cup failed[s]
=============================================================================
