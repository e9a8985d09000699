------------------------------- MODULE DataIo -------------------------------
(***************************************************************************)
(* The data I/O thread (dataio.c): it moves the bytes between mbuffs and   *)
(* the stream sockets of the programs, so that the kernel thread never     *)
(* waits for one.  The kernel asks with MSG_IO_REQUEST and is answered     *)
(* with MSG_IO_REPLY.                                                      *)
(*                                                                         *)
(* This build does not start the thread, and its kernel never asks: what   *)
(* the kernel does is modelled from what dataio.c expects of it, with one  *)
(* request of each kind outstanding per socket.  Nor does a request wake   *)
(* the thread; Wakes says whether it does.  Bytes are numbered in the      *)
(* order of their stream.                                                  *)
(***************************************************************************)
EXTENDS Integers, Sequences, FiniteSets, SequencesExt

CONSTANTS
  Socks,        \* the sockets of the programs: io_socket
  Wakes,        \* whether itc_event tells of a request and a reply: in this build,
                \* where itc.c moves them with itc_readmsg(), which signals nothing,
                \* and fill_fdset() clears the bit of itc_event again, it does not
  ATOMIC_READ,  \* dataio.h, in bytes
  Chunk,        \* io_chunk_size, the payload of an mbuff
  ReadLen,      \* io_req_len of every read
  WriteLens,    \* the lengths of the writes
  Space,        \* a bound: bytes that a socket takes before the program reads
  MaxBytes,     \* a bound: bytes of a stream
  MaxFailures   \* a bound: failures of memory and of system calls

ASSUME DataIoAssumption ==
  /\ Wakes \in BOOLEAN
  /\ {ATOMIC_READ, Chunk, Space} \subseteq Nat \ {0}
  /\ ReadLen \in Nat \ {0}
  /\ WriteLens \subseteq Nat \ {0}
  /\ {MaxBytes, MaxFailures} \subseteq Nat

VARIABLES
  pc,        \* where the loop of dataio() is
  rset,      \* the sockets that select() found readable
  wset,      \* and those that it found writable
  noticed,   \* FD_ISSET(itc_event, &rset)
  wpenq,     \* writes pending
  rpenq,     \* reads pending
  again,     \* tmp: what of the queue stays pending
  toKrn,     \* to_krn: the replies of this round
  requests,  \* the ITC queue from the kernel
  replies,   \* the ITC queue to the kernel
  asked,     \* [Socks -> SUBSET {"read", "write"}]: outstanding
  written,   \* [Socks -> Nat]: bytes the kernel asked to write, and was not refused
  sent,      \* [Socks -> Seq(Nat)]: the bytes handed to the program
  unread,    \* [Socks -> Nat]: how many of them it has not read
  arrived,   \* [Socks -> Nat]: bytes the program wrote
  taken,     \* [Socks -> Nat]: how many of them recvmsg() took
  got,       \* [Socks -> Seq(Nat)]: the bytes the kernel was given
  closed,    \* the sockets whose program has gone
  mbuffs,    \* mbuffs that are allocated
  failures   \* how often memory or a socket failed

threadVars == <<pc, rset, wset, noticed, wpenq, rpenq, again, toKrn>>
kernelVars == <<requests, replies, asked, written, got>>
programVars == <<sent, unread, arrived, taken, closed>>
memoryVars == <<mbuffs, failures>>
vars == <<pc, rset, wset, noticed, wpenq, rpenq, again, toKrn, requests, replies, asked, written, got,
          sent, unread, arrived, taken, closed, mbuffs, failures>>

Init ==
  /\ pc = "select"
  /\ rset = {} /\ wset = {} /\ noticed = FALSE
  /\ wpenq = <<>> /\ rpenq = <<>> /\ again = <<>> /\ toKrn = <<>>
  /\ requests = <<>> /\ replies = <<>>
  /\ asked = [s \in Socks |-> {}]
  /\ written = [s \in Socks |-> 0]
  /\ sent = [s \in Socks |-> <<>>]
  /\ unread = [s \in Socks |-> 0]
  /\ arrived = [s \in Socks |-> 0]
  /\ taken = [s \in Socks |-> 0]
  /\ got = [s \in Socks |-> <<>>]
  /\ closed = {}
  /\ mbuffs = 0
  /\ failures = 0

-----------------------------------------------------------------------------
(* Bytes in mbuffs *)

Lower(a, b) == IF a < b THEN a ELSE b

\* n bytes of a stream from `first' on, in mbuffs of Chunk bytes, the last of
\* which need not be full.
InMbuffs(first, n) ==
  [i \in 1 .. (n + Chunk - 1) \div Chunk |->
     [k \in 1 .. Lower(Chunk, n - (i - 1) * Chunk) |-> first + (i - 1) * Chunk + k - 1]]

Upto(q, i) == Len(FlattenSeq(SubSeq(q, 1, i)))
SentWhole(q, n) == Cardinality({i \in 1 .. Len(q) : Upto(q, i) <= n})

\* A slip: no memmove().
UnsentUnmoved(q, n) ==
  LET d == SentWhole(q, n) IN
  IF Upto(q, d) = n THEN SubSeq(q, d + 1, Len(q))
  ELSE <<SubSeq(q[d + 1], 1, Len(q[d + 1]) - (n - Upto(q, d)))>> \o SubSeq(q, d + 2, Len(q))

\* What of the mbuffs q is left when n bytes were sent: the mbuff that was sent
\* in part is moved to its start.
Unsent(q, n) ==
  LET d == SentWhole(q, n) IN
  IF Upto(q, d) = n THEN SubSeq(q, d + 1, Len(q))
  ELSE <<SubSeq(q[d + 1], n - Upto(q, d) + 1, Len(q[d + 1]))>> \o SubSeq(q, d + 2, Len(q))

-----------------------------------------------------------------------------
\* struct msg with MSG_IO_REQUEST, or with MSG_IO_REPLY and io_ret.  `first' and
\* `len' say which bytes of the stream the kernel put into a write.
Request(opt, s, first, len) ==
  [opt |-> opt, sk |-> s, first |-> first, len |-> len, ret |-> "none", rep_len |-> 0,
   mbq |-> IF opt = "write" THEN InMbuffs(first, len) ELSE <<>>]

Ask(s, m) ==
  /\ m.opt \notin asked[s]
  /\ requests' = Append(requests, m)
  /\ asked' = [asked EXCEPT ![s] = @ \cup {m.opt}]
  /\ mbuffs' = mbuffs + Len(m.mbq)
  /\ UNCHANGED <<threadVars, programVars, replies, got, failures>>

AskWrite(s) ==
  \E n \in WriteLens :
    /\ written[s] + n <= MaxBytes
    /\ written' = [written EXCEPT ![s] = @ + n]
    /\ Ask(s, Request("write", s, written[s] + 1, n))

AskRead(s) == Ask(s, Request("read", s, 0, ReadLen)) /\ UNCHANGED written

\* The kernel, once it is told of a reply, takes it and frees its mbuffs: after
\* a write that failed it goes on with the bytes that were not sent.
TakeReply ==
  /\ Wakes
  /\ replies # <<>>
  /\ LET m == Head(replies) IN
     /\ asked' = [asked EXCEPT ![m.sk] = @ \ {m.opt}]
     /\ got' = IF m.opt = "read" THEN [got EXCEPT ![m.sk] = @ \o FlattenSeq(m.mbq)] ELSE got
     /\ written' = IF m.opt = "write" THEN [written EXCEPT ![m.sk] = m.first + m.rep_len - 1] ELSE written
     /\ mbuffs' = mbuffs - Len(m.mbq)
  /\ replies' = Tail(replies)
  /\ UNCHANGED <<threadVars, programVars, requests, failures>>

\* The program reads, writes and goes.
ProgramReads(s) ==
  /\ s \notin closed
  /\ unread[s] > 0
  /\ unread' = [unread EXCEPT ![s] = @ - 1]
  /\ UNCHANGED <<threadVars, kernelVars, sent, arrived, taken, closed, memoryVars>>

ProgramWrites(s) ==
  /\ s \notin closed
  /\ arrived[s] < MaxBytes
  /\ arrived' = [arrived EXCEPT ![s] = @ + 1]
  /\ UNCHANGED <<threadVars, kernelVars, sent, unread, taken, closed, memoryVars>>

ProgramCloses(s) ==
  /\ closed' = closed \cup {s}
  /\ UNCHANGED <<threadVars, kernelVars, sent, unread, arrived, taken, memoryVars>>

-----------------------------------------------------------------------------
(* dataio() *)

Readable(s) == arrived[s] > taken[s] \/ s \in closed
Writable(s) == unread[s] < Space \/ s \in closed
SocketsOf(q) == {q[i].sk : i \in DOMAIN q}

\* fill_fdset() twice, and select(), which a request ends only if it Wakes.
Select ==
  /\ pc = "select"
  /\ rset' = {s \in SocketsOf(rpenq) : Readable(s)}
  /\ wset' = {s \in SocketsOf(wpenq) : Writable(s)}
  /\ noticed' = (Wakes /\ requests # <<>>)
  /\ rset' \cup wset' # {} \/ noticed'
  /\ pc' = "write"
  /\ UNCHANGED <<wpenq, rpenq, again, toKrn, kernelVars, programVars, memoryVars>>

Requeue(m) == again' = Append(again, m) /\ UNCHANGED toKrn
Answer(m, ret) == toKrn' = Append(toKrn, [m EXCEPT !.ret = ret]) /\ UNCHANGED again

Fail == failures < MaxFailures /\ failures' = failures + 1

\* A slip: io_rep_len is what the last sendmsg() took.
WriteSentCountsLast(m) ==
  \E n \in 1 .. Lower(Space - unread[m.sk], Len(FlattenSeq(m.mbq))) :
    LET left == Unsent(m.mbq, n)
        rest == [m EXCEPT !.mbq = left, !.rep_len = n]
    IN /\ sent' = [sent EXCEPT ![m.sk] = @ \o SubSeq(FlattenSeq(m.mbq), 1, n)]
       /\ unread' = [unread EXCEPT ![m.sk] = @ + n]
       /\ mbuffs' = mbuffs - (Len(m.mbq) - Len(left))
       /\ IF left = <<>> THEN Answer(rest, "success") ELSE Requeue(rest)
       /\ UNCHANGED <<arrived, taken, closed, failures>>

\* senddata(): some of the bytes, then the reply or the next round.
WriteSent(m) ==
  \E n \in 1 .. Lower(Space - unread[m.sk], Len(FlattenSeq(m.mbq))) :
    LET left == Unsent(m.mbq, n)
        rest == [m EXCEPT !.mbq = left, !.rep_len = @ + n]
    IN /\ sent' = [sent EXCEPT ![m.sk] = @ \o SubSeq(FlattenSeq(m.mbq), 1, n)]
       /\ unread' = [unread EXCEPT ![m.sk] = @ + n]
       /\ mbuffs' = mbuffs - (Len(m.mbq) - Len(left))
       /\ IF left = <<>> THEN Answer(rest, "success") ELSE Requeue(rest)
       /\ UNCHANGED <<arrived, taken, closed, failures>>

\* No room after all, or no memory for the vector.
WriteNothing(m) ==
  /\ \/ m.sk \notin closed /\ unread[m.sk] = Space /\ UNCHANGED failures
     \/ Fail
  /\ Requeue(m)
  /\ UNCHANGED <<programVars, mbuffs>>

\* A slip: no_sent is not put back.
WriteFailedDrops(m) ==
  /\ (m.sk \in closed /\ UNCHANGED failures) \/ Fail
  /\ Answer([m EXCEPT !.mbq = <<>>], "failure")
  /\ UNCHANGED <<programVars, mbuffs>>

\* The program has gone, or sendmsg() has no memory: the rest of the mbuffs goes
\* back to the kernel.
WriteFailed(m) ==
  /\ (m.sk \in closed /\ UNCHANGED failures) \/ Fail
  /\ Answer(m, "failure")
  /\ UNCHANGED <<programVars, mbuffs>>

WriteOne ==
  /\ pc = "write"
  /\ wpenq # <<>>
  /\ wpenq' = Tail(wpenq)
  /\ LET m == Head(wpenq) IN
     IF m.sk \notin wset
       THEN Requeue(m) /\ UNCHANGED <<programVars, memoryVars>>
       ELSE WriteFailed(m) \/ WriteNothing(m) \/ (m.sk \notin closed /\ WriteSent(m))
  /\ UNCHANGED <<pc, rset, wset, noticed, rpenq, kernelVars>>

WriteEnd ==
  /\ pc = "write"
  /\ wpenq = <<>>
  /\ wpenq' = again
  /\ again' = <<>>
  /\ pc' = "read"
  /\ UNCHANGED <<rset, wset, noticed, rpenq, toKrn, kernelVars, programVars, memoryVars>>

\* A slip: a round-up in alloc_mbuff_payload().
ToReadUp(m) ==
  (Lower(Lower(ATOMIC_READ, m.len), arrived[m.sk] - taken[m.sk]) + Chunk - 1) \div Chunk

\* recvdata(): the whole mbuffs that the bytes in the socket fill, up to what
\* was asked for and ATOMIC_READ.
ToRead(m) == Lower(Lower(ATOMIC_READ, m.len), arrived[m.sk] - taken[m.sk]) \div Chunk

\* All of them are filled, or as many as there was memory for.
ReadSome(m) ==
  \E n \in 1 .. ToRead(m) :
    /\ IF n < ToRead(m) THEN Fail ELSE UNCHANGED failures
    /\ mbuffs' = mbuffs + n
    /\ taken' = [taken EXCEPT ![m.sk] = @ + n * Chunk]
    /\ Answer([m EXCEPT !.mbq = InMbuffs(taken[m.sk] + 1, n * Chunk), !.rep_len = n * Chunk], "success")
    /\ UNCHANGED <<sent, unread, arrived, closed>>

\* Not even one, for want of bytes, also at their end, or of memory.
ReadNothing(m) ==
  /\ IF ToRead(m) = 0 THEN UNCHANGED failures ELSE Fail
  /\ Requeue(m)
  /\ UNCHANGED <<programVars, mbuffs>>

\* A slip: the request is forgotten.
ReadLeaksForgets(m) ==
  /\ ToRead(m) > 0
  /\ Fail
  /\ mbuffs' = mbuffs + ToRead(m)
  /\ UNCHANGED <<programVars, again, toKrn>>

\* No memory for the vector, or an error of recvmsg(): the mbuffs are lost.
ReadLeaks(m) ==
  /\ ToRead(m) > 0
  /\ Fail
  /\ mbuffs' = mbuffs + ToRead(m)
  /\ Requeue(m) \/ Answer(m, "failure")
  /\ UNCHANGED programVars

\* An error of ioctl(): nothing is allocated yet.
ReadFailed(m) ==
  /\ Fail
  /\ Answer(m, "failure")
  /\ UNCHANGED <<programVars, mbuffs>>

ReadOne ==
  /\ pc = "read"
  /\ rpenq # <<>>
  /\ rpenq' = Tail(rpenq)
  /\ LET m == Head(rpenq) IN
     IF m.sk \notin rset
       THEN Requeue(m) /\ UNCHANGED <<programVars, memoryVars>>
       ELSE ReadSome(m) \/ ReadNothing(m) \/ ReadLeaks(m) \/ ReadFailed(m)
  /\ UNCHANGED <<pc, rset, wset, noticed, wpenq, kernelVars>>

ReadEnd ==
  /\ pc = "read"
  /\ rpenq = <<>>
  /\ rpenq' = again
  /\ again' = <<>>
  /\ pc' = "requests"
  /\ UNCHANGED <<rset, wset, noticed, wpenq, toKrn, kernelVars, programVars, memoryVars>>

\* The loop over the new requests enqueues each of them with its kind.
Enqueued(q, opt) ==
  LET f[i \in 0 .. Len(q)] == IF i = 0 THEN <<>>
                              ELSE IF q[i].opt = opt THEN Append(f[i - 1], q[i]) ELSE f[i - 1]
  IN f[Len(q)]

\* The new requests, if select() told of one, with those that came since; and the
\* replies of this round.
Exchange ==
  /\ pc = "requests"
  /\ IF noticed
       THEN /\ wpenq' = wpenq \o Enqueued(requests, "write")
            /\ rpenq' = rpenq \o Enqueued(requests, "read")
            /\ requests' = <<>>
       ELSE UNCHANGED <<wpenq, rpenq, requests>>
  /\ replies' = replies \o toKrn
  /\ toKrn' = <<>>
  /\ pc' = "select"
  /\ UNCHANGED <<rset, wset, noticed, again, asked, written, got, programVars, memoryVars>>

Thread == Select \/ WriteOne \/ WriteEnd \/ ReadOne \/ ReadEnd \/ Exchange

Next ==
  \/ Thread
  \/ TakeReply
  \/ \E s \in Socks :
       AskWrite(s) \/ AskRead(s) \/ ProgramReads(s) \/ ProgramWrites(s) \/ ProgramCloses(s)

\* The thread and the kernel run, and the programs read what they are sent.
Spec ==
  /\ Init /\ [][Next]_vars
  /\ WF_vars(Thread) /\ WF_vars(TakeReply)
  /\ \A s \in Socks : WF_vars(ProgramReads(s))

-----------------------------------------------------------------------------
(* Properties *)

Iota(n) == [k \in 1 .. n |-> k]

\* The requests and the replies on their way, in either direction.
Pending == Range(requests) \cup Range(wpenq) \cup Range(rpenq) \cup Range(again)
Replied == Range(toKrn) \cup Range(replies)
Bytes(m) == Len(FlattenSeq(m.mbq))

Message ==
  [opt : {"read", "write"}, sk : Socks, first : Nat, len : Nat, ret : {"none", "success", "failure"},
   rep_len : Nat, mbq : Seq(Seq(Nat))]

\* The fields have their types, no more is taken from a socket than there was
\* in it or put into it than there is room for, and what was asked is in one place.
TypeOK ==
  /\ pc \in {"select", "write", "read", "requests"}
  /\ rset \cup wset \cup closed \subseteq Socks /\ noticed \in BOOLEAN
  /\ asked \in [Socks -> SUBSET {"read", "write"}]
  /\ written \in [Socks -> 0 .. MaxBytes] /\ arrived \in [Socks -> 0 .. MaxBytes]
  /\ taken \in [Socks -> Nat] /\ unread \in [Socks -> 0 .. Space]
  /\ sent \in [Socks -> Seq(Nat)] /\ got \in [Socks -> Seq(Nat)]
  /\ \A s \in Socks : taken[s] <= arrived[s] /\ Len(got[s]) <= taken[s]
  /\ mbuffs \in Nat
  /\ failures \in 0 .. MaxFailures
  /\ LET q == requests \o wpenq \o rpenq \o again \o toKrn \o replies IN
       /\ q \in Seq(Message)
       /\ \A i, j \in DOMAIN q : i # j => <<q[i].sk, q[i].opt>> # <<q[j].sk, q[j].opt>>
       /\ \A s \in Socks : asked[s] = {q[i].opt : i \in {j \in DOMAIN q : q[j].sk = s}}

\* What sendmsg() takes in part, in the middle of an mbuff or between two, and
\* what recvmsg() brings in several replies, is one stream: no byte is lost,
\* doubled or out of order, in either direction, whatever fails.
StreamsInOrder ==
  \A s \in Socks :
    /\ sent[s] = Iota(Len(sent[s]))
    /\ got[s] = Iota(Len(got[s]))
    /\ \A m \in Replied :
         m.sk = s /\ m.opt = "read" =>
           FlattenSeq(m.mbq) = [k \in 1 .. taken[s] - Len(got[s]) |-> Len(got[s]) + k]

\* io_rep_len and the mbuffs of a write say between them what became of it: the
\* mbuffs hold the bytes that follow the first io_rep_len ones, which are all
\* the program has of it, and a write that succeeded has none left.
RestIsUnsent ==
  \A m \in Pending \cup Replied :
    m.opt = "write" =>
      /\ FlattenSeq(m.mbq) = [k \in 1 .. m.len - m.rep_len |-> m.first + m.rep_len + k - 1]
      /\ Len(sent[m.sk]) = m.first + m.rep_len - 1
      /\ m.ret = "success" => m.mbq = <<>>

\* The mbuffs that are allocated are those of a request or a reply: one that is
\* in neither was lost to a failure, at most what ATOMIC_READ bytes need for each.
MbuffsAccounted ==
  LET held == UNION {{<<m.sk, m.opt, i>> : i \in DOMAIN m.mbq} : m \in Pending \cup Replied}
      lost == mbuffs - Cardinality(held)
  IN lost >= 0 /\ lost <= failures * (ATOMIC_READ \div Chunk)

InHand(s, opt) ==
  \E m \in Range(wpenq) \cup Range(rpenq) \cup Range(again) : m.sk = s /\ m.opt = opt
IsAnswered(s, opt) == \E m \in Range(replies) : m.sk = s /\ m.opt = opt

\* A write that the thread has taken is answered, also one to a program that goes
\* or takes it piecemeal, and so is a read once there is a whole mbuff to read; not
\* one of the rest of a stream, or at its end, which alloc_mbuff_payload() finds
\* no mbuff for.
PendingAreAnswered ==
  \A s \in Socks :
    /\ InHand(s, "write") ~> IsAnswered(s, "write")
    /\ InHand(s, "read") /\ arrived[s] - taken[s] >= Chunk ~> IsAnswered(s, "read")

\* "Look for new request": what the kernel asks for is read.
RequestsAreRead == requests # <<>> ~> requests = <<>>
=============================================================================
