# A verification of gaver

`gvd` is a daemon that runs the GaVer transport protocol over UDP.  Local
programs reach it through `libgv.so` and a UNIX socket; two daemons reach each
other through UDP datagrams.  This directory holds TLA+ models of the daemon,
TLC configurations that check them on small instances, and TLAPS proofs.  The
paths below are relative to `src/src/`.

    tlasany SockTable.tla                                    # parse
    tlc -workers 2 -config SockTable.cfg MCSockTable         # check one run
    tlapm SockTableProofs.tla                                # check the proofs

## 1. The system

### Threads and what they share

`gvd.c` opens the sockets and timers, writes its pid and calls `kernel()`, which
starts two more threads.  A script (`gaverd.sh`) starts and stops the daemon by
its pid file.

| thread | code | waits for | does |
|---|---|---|---|
| kernel | `kernel.c`, `kernel_util.c`, `kernel_api.c`, `kernel_tx.c`, `sock.c`, `timers.c` | epoll: API socket, clients, refresh timer, signalfd | all protocol work: requests, received messages, returned messages, expired timers |
| output | `output.c` | signalfd, and `output_timer` when something is to be paced | sends: control at once, the rest one message per expiration |
| input | `input.c` | the UDP socket | receives one datagram, hands it to the kernel |

They share the lists of `itc.c` under mutexes, the signals that announce them,
and the buffer heap (`heap.c`).  The socket table, the port table and the
timers belong to the kernel thread alone.

### Components

| component | state | operations | what makes it correct | model |
|---|---|---|---|---|
| inter-thread communication (`itc.c`) | shared list, mutex and signal per channel | write, read, read event | no message lost, repeated or overtaken; no wake-up lost | `Itc`, `Mailbox` |
| kernel loop (`kernel.c`) | private lists, epoll set | wait, dispatch, flush | each event is dealt with by the right handler, in an order that the handlers can stand | `Itc`, `SockTable` |
| output thread (`output.c`) | three lists, two remembered events | receive event, timer, flush | nothing it was told of stays behind | `Itc`, `Handshake` |
| input thread (`input.c`) | one list | receive, write | every datagram reaches the kernel | `Itc` |
| API requests (`kernel_api.c`) | `so_state`, `so_loctrl_state` | connect, bind, listen, accept | at most one reply per request; replies go to the right client | `Handshake`, `SockTable` |
| control messages (`kernel_util.c`, `kernel_tx.c`) | `so_ctrl_sent`, `so_conn_req`, sequence numbers | receive, returned, expired | both ends agree; one connection per listener; buffers freed once | `Handshake`, `Rendezvous` |
| expiration timers (`timers.c`) | sorted list | register, remove, get expired, refresh, free | none lost, earliest first | `Timers` |
| socket table (`sock.c`, `new_sk()`) | two queues, port table, `free_bps` | new socket, bind, search | one owner per port, one socket per client, speed adds up | `SockTable` |
| message queues (`mbuff_queue.c`) | linked lists | enqueue, dequeue, move, search | order and content kept | sequences in `Itc`, sets in `Handshake` and `Buffers` |
| buffer heap (`heap.c`) and its users | two free lists, `calloc()` | alloc, free | a buffer has one owner; what leaks is bounded | `Buffers` |
| data I/O (`dataio.c`) | two lists of pending requests | read, write, exchange | two byte streams kept, requests answered | `DataIo` |
| start-up (`gvd.c`, `configk.c`, `sockopt.c`) | UDP port, API path, pid file | the steps of `main()` | a start-up fails for a cause; what a crash leaves behind does no harm | `Service` |
| script (`gaverd.sh`) | pid file | start, stop | it finds the daemon that runs | `Service` |
| client library (`libgv.c`, `common.c`) | none | one request, one reply | the kernel gets round to every accepted client | the client of `Handshake` and of `Service` |
| data path (`kernel_util.c`, `util.c`) | tokens, `so_wmemq`, `so_data_sent` | refresh tokens, collect | never more than the speed | not modelled |
| dump, debug output, unused sources | none | | | not modelled |

### What is hard in it

* **Interleaving**: a list changes hands inside a mutex, its signal is sent
  after it; `output()` remembers events in flags; three threads do so at once.
* **Ordering**: the kernel handles input before the messages that come back
  from the output thread; `dataio()` goes through its requests in passes.
* **Unreliable delivery**: CONNECT, ACCEPT and CTRL_ACK are lost, repeated,
  delayed; the clock runs on while they are under way.
* **Partial failure**: a transmission fails while its timer is armed; memory runs
  out in the middle of a handler; `sendmsg()` takes half of a write.
* **Stale state**: `so_loctrl` keeps the number of a closed descriptor, a timer
  and `so_conn_req` point at a buffer, a pid file names a process that is gone.
* **Crash and restart**: every exit path leaves the API socket and the pid file
  behind, and the next daemon meets them.
* **Limits**: sockets, descriptors, ports, speed and memory are used up; most of
  it is never given back.

`PROJECT.json` lists each hazard at its line, with the property that covers it
or the reason why none does.

## 2. The modules

    Mailbox     <--implements, once per channel--  Itc  <-- ItcProofs
    Rendezvous  <--implements--  Handshake              <-- HandshakeProofs
       ^-- RendezvousProofs, which HandshakeProofs instantiates with the mapping
    Timers      <-- TimersProofs        SockTable  <-- SockTableProofs
    Buffers     <-- BuffersProofs       Service    <-- ServiceProofs
    DataIo      <-- DataIoProofs
    MCItc MCHandshake MCTimers MCSockTable MCBuffers MCService MCDataIo   bounds for TLC

`Itc` composes the three threads and their channels, `Handshake` any number of
daemons and the network between them, `Buffers` the kernel's handlers with the
threads that allocate and free for them, `Service` several daemons in turn, the
script and the clients.

Definitions that start with "A slip" in their comment are not part of a model:
each is a plausible mistake in one definition, and shows that a property
would notice it.  `PROJECT.json` pairs them.

### Itc: three threads and five channels

One action per critical section, per `pthread_sigqueue` and per read of the
signalfd; what a thread does to its private lists is folded into the neighbouring
step.  `pc` follows the three loops, `queue` holds the shared lists, `pending`
the signals that were not read, `sendq` and `readq` the private lists at the two
ends, `msgPending` the flags of `output()`.  Messages are numbers, so that order
and loss show.  `NetoutPanic` is the `PANIC` of `flushqueue()`, after which the
output thread is gone and the other two go on.

*Mailbox* is what a channel promises: first in first out, once each, and nothing
stays inside for ever.  `Mailboxes` states that each of the five channels
implements it; a channel to or from the output thread is excused once that
thread ended.

### Handshake: connection establishment

Each socket lives in a daemon of its own.  `sock[s]` is `struct sock` with the
timers registered for it.  Between two sockets stand the way through the output
thread (`outq`, `sentq`) and a network that is a set of datagrams: delivery may
leave a copy, so repetition and reordering need no more.  Handlers are single
steps because they run one after the other in the kernel thread.

| action | code |
|---|---|
| `Connect`, `Bind`, `Listen`, `Accept*` | the cases of `do_socket_request()` |
| `Receive*` | the states in `do_process_input()`, with `do_rx_ctrl_ack()` (`Release`) |
| `SentSuccess`, `SentError` | `do_process_sent_msg()`, `do_distribute_sent_msg()` |
| `Expire*` | `do_process_expired()`: retry, give up, or free an unknown timer |
| `Send` | `flushqueue()`, message by message, with success or failure |
| `Lose` | the network |

Two abstractions: a sequence number starts at 1 rather than 2000, and a timer is
named by the sequence number of its message rather than by its address.  The
clock is the question of which timer may expire: any, or (`Timely`) only one
whose message is not in flight.  `Threaded` sockets belong to programs whose
threads call without waiting for each other's replies.

*Rendezvous* is the same without messages: a caller calls, a listener promises,
the caller opens, the listener opens.  `Handshake!Rendezvous` is the refinement,
with the phase read off `so_state` and the peer off `so_host_*`.  It carries the
two facts a user of the protocol relies on: `Agreement` (nobody is established
against a peer that is not engaged with it) and `Exclusive` (of two callers of
one listener at most one is established).

### Timers

The list of `timers.c` and its `tail`, which `et_insert()` loses when it walks to
the last timer.  The next call that follows the lost tail ends the daemon
(`alive`).  The walk goes from the tail while the timers are later; `Walk` gives
the places where it may stop, which is one in a sorted list.  A timer is known by
the memory it is in (`Cells`), because a message may have several: when its
transmission fails the mbuff goes back to the heap and the timer stays.  `armed`
is a history variable, what should be in the list.

### SockTable: sockets, ports, descriptors, speed

One action per event of the kernel loop.  Descriptors are numbers of which the
lowest closed one is handed out, as the operating system does; `file` says what
is open behind each.  The handshake is cut down to the four states that matter
to descriptors and ports.  Two things that the code does and a reader may not
expect:

* `new_sk()` without speed closes the client's descriptor and goes on.  The
  socket is made, with the number of the closed descriptor and with a `speed`
  nobody set: any word, in the model.  The next client gets the same number, and
  its requests reach this socket.
* `sk_gvport` has 65535 entries and `bind()` takes 65536 port numbers.  Entry
  65535 is read and written behind the array; in the binary that the Makefile
  builds this is padding in front of `so_used` (`nm table.o`), which starts as
  zero.  The model has that entry.

### Buffers: the heap and the life of a buffer

Structures hold pointers, and the code moves pointers from queue to queue.
`held` is the set of those that a queue holds (`at` says which: to the kernel, to
the output thread, on the way back, in `so_ctrl_sent`), `input` that of the input
thread, `so_conn_req` that of a listener; nothing in the model keeps two from
naming the same buffer.  `heap` is the two free lists and what `calloc()` has
left; messages, of which none is kept, are counted.

Each handler that prepares a message takes an mbuff, then a message for it, and
gives the mbuff back when there is no message (`Prepare`); what it does with a
failure is the code's: an error reply, a state that is left as it was, or, in
`accept()` and in a retry, a NULL that is dereferenced (`alive`).  The programs
and the other daemons are arbitrary: a datagram of any kind may arrive at any
time.  That is more than the protocol allows and what a buffer must survive.
A thread that ends in PANIC leaves `up`: what the input thread has received, or the
output thread was sending, stays with it, and is not counted among what leaks.

`unacked` is a history variable: a CONNECT that came before `accept()` and could
not be acknowledged for want of memory is freed while `so_conn_req` goes on
pointing at it.  `OneOwner` excepts these sockets, and only these.

### Service: start-up, files, script and clients

`stage` is how far `main()` of each daemon got: `ApiSocket` (which reads the
command line and unlinks whatever is at the API path), `UdpSocket`, `Timers`,
`WritePid`, with the exits of each.  A crash may come between any two of them
and leaves both files.  `pidFile` is a sequence of digits, because `writepid()`
writes over what is there and does not truncate: the pid 3 written over 12 gives
32, and the script then finds nobody.  `Named` is what `start-stop-daemon` finds.

The script's stop is one step, the signal and the `rm`.  Between the two nobody
reads or writes the pid file: the administrator who stops starts nothing in the
meantime, a daemon that is being stopped writes nothing more, and no start-up is
under way while one that serves is stopped, because the script that began it found
nobody (`StartingUnnamed` in the proof).

`PANIC()` prints and returns: the kernel thread is gone and `main()` sleeps on,
with the port, the path and the pid file (`deaf`).

A client dials the API path and waits in the backlog, `new_sk()` accepts it as
long as there are descriptors, and its request is written in two pieces, between
which the kernel that reads it blocks (`ReadBegin`, `ReadEnd`).  What comes of a
complete request is open: some are answered at once, some by the handshake, some
never (`do_socket_request`).  A connection that
ends while a reply is awaited is answered for the library: `read_msg()` returns
0, and the cleared reply is the number of success (`ConnectionLost`).

### DataIo: reads and writes of data

The loop of `dataio()`: `select()`, the writes of the sockets that are writable,
one by one, the reads, then the exchange with the kernel.  A write takes any part
of its vector, drops the mbuffs that were sent and keeps the rest; a read takes
as many whole mbuffs as fit what the socket holds and at most `ATOMIC_READ`.
Bytes are numbered in the order of their stream, so that order, loss and
repetition show.  `sendmsg()` may fail on a socket that is well, for want of memory;
the kernel then goes on with the bytes that the reply says were not sent
(`TakeReply`).

This build starts no such thread and its kernel never asks, so that the requests
are modelled from what `dataio.c` expects of them, with one of each kind
outstanding per socket.  That is an assumption: with two writes of one socket
`dataio()` would try the second in the pass that left a rest of the first.

Nor could it ask.  Both sides write to the DATAIO channels with `itc_readmsg()`,
which sends no signal, and `fill_fdset()` clears the set in which `dataio()` has
put its signalfd.  `Wakes` says whether these two are repaired.  Without, requests
are never read (`dataio_wakeup`); with, a request wakes `Select`, which remembers
it in `noticed`, and `Exchange` reads requests only then.  What the thread does
with a request it has is the same in both.

## 3. What TLC checks

| run | instance | shows |
|---|---|---|
| `itc` | 2 messages in the normal and the input channel, 1 in the others; 2 expirations; 2 messages per pass | `WakeupExactlyOne`: exactly one wake-up is on its way for a list with messages, none for an empty one; `Mailboxes`: refinement with liveness |
| `handshake` | two connectors of one listener whose threads call in any order, 2 attempts, repetition, any delay, failed transmissions, timers early and late | `OwnedOnce`, `TimersHaveMessages`, `RepliesAnswerRequests`, refinement of `Rendezvous` (thus `Agreement`, `Exclusive`) |
| `handshake_live` | a connector and a listener, 3 attempts, 2 losses, timers that wait for what is in flight | `ConnectAnswered` |
| `handshake_connect_twice` | a second `connect()` | finding: it is refused and carried out |
| `handshake_retry` | no losses | finding: an early timer is freed and nothing sends again |
| `timers` | two messages, four timers, timeout 3, time up to 10 | `ListIsArmed`, `EarliestFirst` |
| `timers_tail` | as above | finding: the list loses its tail, the next registration follows NULL |
| `sock_table` | 3 sockets, 4 ports and the one behind, 4 descriptors, words of 3 bits, a configuration in which speed runs out and one in which it does not | `PortsOwned`, `ControlOwned`, `EventsServed`, `SpeedAccounted`, `BusyHasPort` |
| `buffers` | a socket, a heap of one that may grow to four buffers of each kind, 2 attempts, 2 calls | `OneOwner`, `LeaksPaidFor` |
| `service` | 3 start-ups with pids 23, 1 and 13, 2 clients, 2 descriptors, 5 command lines | `PidFileKept`, `NamedIsReached`, `FailsForCause`, `AcceptedAreRead` |
| `dataio` | a socket that holds 2 bytes, mbuffs of 2, reads of 4, writes of 3, streams of 6 bytes, one failure | `StreamsInOrder`, `RestIsUnsent`, `MbuffsAccounted`, `PendingAreAnswered` |
| `dataio_wakeup` | the same, without `Wakes` | finding: no request of the kernel is ever read |

The bounds are the smallest in which the interesting cases happen.  A second
message in a channel lets one pass the other and lets a list be refilled between
a write and its signal; two paced channels with two expirations reach the join
of `msgmove()`.  Three attempts with two losses lose each kind of datagram on
one attempt and let the last one through; where no progress is asked for, a
datagram that is never delivered is a lost one, so that `handshake` has no losses
of its own, and two attempts already race a retry with a late acknowledgement.
The third socket is the rival; the two connectors are alike, which is the symmetry.  Four
timers give insertions at the head, the tail, and at two places in between, and
two messages have two timers each.
Three sockets are what it takes for one to be closed, one to reuse its
descriptor, and a third to interfere; the ports are one more than the sockets,
the least the code's own argument allows.

In `buffers` one socket is enough, because a buffer changes hands through one
socket or through the threads that all sockets share (the proof is for any
number); four buffers are one each for the input thread, `so_conn_req`, the
message in `so_ctrl_sent` and its clone, and a fifth would only postpone the
failure of `calloc()`.  Mbuffs are interchangeable, which is the symmetry.  Three
start-ups are one that leaves something behind, one that runs, and one that
tries to; 1 written over 23 gives 13, the pid of the third.  Two clients and two descriptors fill a
daemon; of the five command lines one has all, with a speed
just above two packets per second, and the others lack the port, the pid file or
the speed, or are just below.  In `dataio` a write of 3 bytes in mbuffs of
2 is cut at a byte and between mbuffs, and a read of 4 comes in one reply or two.

Checking for deadlock is off where the bounds, or the protocol itself, really
end: the clients have made their calls, the clock has stopped, the descriptors,
the start-ups or the bytes are used up, a NULL was dereferenced.  It is on in
`itc`, where the kernel's refresh timer always comes again; that the threads do
not wait for each other there is the liveness in `Mailboxes`.

### Fairness

* `Itc`: weak fairness of each thread's steps, which is that the operating
  system schedules threads; the wait of the output thread ends because
  `output_timer` is periodic and armed whenever a paced list has messages or a
  remembered event.  Input and requests need never come.
* `Handshake`: weak fairness of sending, of the return of messages, of the
  expiry of timers and of the delivery of each datagram that is not lost.  Loss
  is bounded by the number of attempts, as no retry can help otherwise.  Clients
  need never call, and an `accept()` that never comes is the exception that
  `ConnectAnswered` makes.  `Timely` assumes that two seconds outlast what is in
  flight; `handshake_retry` shows what happens otherwise.

* `Service`: weak fairness of the steps of `main()`; strong fairness of the turn
  of each client, since `epoll_wait()` returns all connections that are ready and
  the loop serves them all before it waits again; weak fairness of the end of a
  read.  No client need write the rest of its request: that a pausing one stops
  the kernel is the exception `AcceptedAreRead` makes.
* `DataIo`: weak fairness of the thread, which `select()` blocks only as long as
  nothing is ready, and of the kernel that takes its replies.
  That a program reads what it is sent is an assumption about the program,
  without which a write waits for ever; a program that ends needs no reading.
* `Timers`, `SockTable` and `Buffers` have no liveness.

### Findings

Each is a disagreement of the code with its own comment and has a run:
`kernel_api.c:107` on a second connect, `kernel_api.c:139` on the timer of a
CONNECT, twice (the timer is freed; the list of timers is broken), and
`dataio.c:193` on new requests, which a thread of this build would never see.

Met while reading, without a comment to contradict:

* When the one CTRL_ACK of an ACCEPT is lost, or is handled before the ACCEPT
  has come back from the output thread, the acceptor stays in `GV_ACCEPT_SENT`
  and its client waits for ever; the connector is established.
* When the CTRL_ACK of an early CONNECT is lost, the connector times out although
  its request waits in the listener.
* The two ends may commit to different speeds: the connector takes the
  acceptor's values as they are, `sock.h` calls both "real".
* `accept()` in another state prepares a failure and does not write it.
* Nothing gives back sockets, ports, speed, or the descriptor of a client that
  hung up.
* `so_host_win` is never set, so that no data is ever sent.
* `libgv.c` takes the end of the connection for success, as 0 is both the result
  of `read_msg()` at the end and the number of `COMMAND_SUCCESS`.
* The pid file is not truncated, so that after a crash a shorter pid is followed
  by digits of the longer one; the script then finds nobody, or the process that
  happens to have that number.
* The check of the pid file compares an array with NULL, so that a missing `-P`
  fails only at `writepid()`; `usage()` has the meanings of `-S` and `-s` swapped.
* A second daemon unlinks the API path of the first before it fails on the UDP
  port.  The script prevents it, as long as the pid file names the first.
* Less than one packet per second is a division by zero in `pktime()`.
* A CONNECT that cannot be acknowledged is freed while `so_conn_req` keeps it;
  messages whose attempts are exhausted, and the request that `accept()` took, are
  never freed; `accept()` and a retry dereference the NULL of a failed allocation.
* `alloc_msg_chain()` and `alloc_mbuff_chain()` run to `len - 1` of an unsigned
  word, which is a long way for 0; they have no caller.
* The rest of a stream that fills no mbuff, and its end, are never reported by
  `dataio.c`; mbuffs are lost when `recvmsg()` fails.

## 4. What is proved

For every value of the constants that the `ASSUME`s allow.

| module | theorem | of | inductive invariant |
|---|---|---|---|
| `ItcProofs` | `TypeCorrect`, `WakeupCorrect` | `Itc` | `WakeupInv`: types, a thread about to write has something to write (`WriteNonempty`), `WakeupExactlyOne` |
| | `NothingLost`, `ChannelsAreMailboxes` | `Itc` | types, private lists that are empty where they must be (`NothingKept`), `AllAccounted`: what was taken out of a channel, followed by what is inside it from end to end, is 1, 2, 3 and so on up to the last message made |
| `RendezvousProofs` | `RendezvousTypeCorrect`, `AgreementCorrect`, `ExclusiveCorrect` | `Rendezvous` | types and `Agreement`; `Exclusive` follows: two callers that are open have each a peer engaged with *it* |
| `SockTableProofs` | `SockTableTypeCorrect`, `PortsCorrect`, `ControlCorrect`, `EventsCorrect`, `BusyCorrect` | `SockTable` | the conjunction of the five properties |
| | `SpeedCorrect` | `SockTable` | the conjunction of the five properties and `SpeedAccounted` |
| `HandshakeProofs` | `HandshakeTypeCorrect`, `OwnershipCorrect`, `TimersCorrect` | `Handshake` | `HandshakeInv`: types, `OwnedOnce`, `TimersHaveMessages`, the sequence numbers in use are below `so_cseq`, what returns as sent was not to be discarded |
| | `HandshakeImplementsRendezvous`, `EstablishedTogether`, `RepliesCorrect`, `ConnectOnceRendezvous`, `ConnectOnceReplies` | `Handshake` | `EngagedInv`: `HandshakeInv`, `RendezvousInv` of the mapped state, what each message proves of its two sockets (`Meant`), what each state promises the client (`Sound`) |
| `BuffersProofs` | `BuffersTypeCorrect`, `OneOwnerCorrect` | `Buffers` | `BuffersInv`: `OneOwner`, owner by owner |
| | `LeaksPaidForCorrect` | `Buffers` | `LeakInv`: `BuffersInv`, and an injection from the buffers that are or may get lost into calls (`PaidBy`) |
| `TimersProofs` | `TimersTypeCorrect`, `ListCorrect`, `EarliestCorrect` | `Timers` | `TimersInv`: types, `ListIsArmed`, the list is sorted, what left it was due |
| `ServiceProofs` | `ServiceTypeCorrect`, `NamedCorrect`, `PidFileCorrect`, `FailsCorrect` | `Service` | `ServiceInv`: types, `NamedIsReached`, one holder of the port, one start-up at a time, which has the path and is not named |
| `DataIoProofs` | `DataTypeCorrect`, `StreamsCorrect`, `RestCorrect` | `DataIo` | `DataInv`: types (`Fields`), what is asked for is in one queue (`Places`), what a stream is while nothing is under way to it (`Idle`), what each message says of its stream (`Good`) |
| | `MbuffsCorrect` | `DataIo` | `DataInv` and `MbuffsAccounted` |

The theorems rest on the `ASSUME` of each module, which say little more than that
bounds are numbers and `None` is no socket, daemon or buffer, and on two hypotheses
of their own: that `None` is no socket, in `RendezvousProofs`, and `ConnectsUnused`, in
the theorems on the refinement and the replies of `Handshake`, which is explained
below.

*WakeupCorrect.*  `WakeupExactlyOne` alone is not inductive: a writer with an
empty private list would announce an empty list.  `WriteNonempty` excludes it,
because every path to a write fills the list first.  The proof has one lemma per
kind of step (critical section, signal, read of the signalfd, read of the list)
and one case per action.

*NothingLost* and *ChannelsAreMailboxes.*  What a channel holds is the
concatenation of up to three lists, in the order in which messages pass through
them: the private list at the far end, the shared one, the private one at the near
end.  A step appends to the end (`Filled`), moves messages from one list to
the next, or takes a first part (`Emptied`); the concatenation is what shows that
moves change nothing.  `msgmove()` needs that the part moved and the part that
stays are `SubSeq`s of one list that join.  That a channel is a mailbox then
follows: put and taken are the two ends of 1, 2, 3 and so on.

*ControlCorrect.*  The search of `getsockbysoctrl()` finds at most one socket
for a descriptor (`FoundOnce`).  A socket in use is the one found for its
descriptor, so that closing it takes the descriptor from no other; a new socket
goes to the end of the queue and can hide none; a descriptor given out anew was
closed and so belonged to no socket in use.

*BusyCorrect.*  The comment in MSG_CONNECT argues that a free port always exists
because there are more ports than sockets.  The argument needs `PortsOwned`, that
no socket holds two ports: then the ports taken map one to one into the other
sockets, and the pigeonhole principle leaves one free (`PortIsFree`); that the
walk of `bind_free_gvport()` finds it is the least-number principle.  The only
assumption is `MAX_SOCKETS < MAX_PORTS`, which holds with 256 and 65535.

*OwnershipCorrect.*  A message is named by its sequence number, so that a new one
must have a new number: all numbers in use, those acknowledged and those that
failed included, are below `so_cseq`.  Queues of carriers are compared by the set
of numbers they own and the absence of repetition; appending and taking the head
are lemmas about these two, and every handler moves one carrier from one owner
to at most one other.

*HandshakeImplementsRendezvous.*  `Rendezvous` has no messages, so that the proof
has to say what a message is worth that was sent long ago.  `Meant` does: a CONNECT
anywhere, in a queue, in the network or in `so_conn_req`, proves that its sender
has called its destination, an ACCEPT that its sender has promised, a CTRL_ACK
that its sender opened or was called.  `HasCalled`, `HasPromised` and `HasOpened`
are facts that no step undoes, a timeout included, so that losses, copies, delays
and the sequence numbers do not matter.  A handler then takes a step of
`Rendezvous` or none, case by case.  This needs `ConnectsUnused`: `connect()` is
called on closed sockets with no request under way.  That is the code's own
condition, which it checks (`kernel_api.c:107`) but does not enforce, the finding
of `handshake_connect_twice`: a program that connects again changes the peer under
messages that were sent to the old one.  Programs that connect each socket once
meet it (`ConnectOnceRendezvous`, `ConnectOnceReplies`), as those of the run
`handshake` do; `EstablishedTogether` is `Agreement` and `Exclusive` in
terms of `Handshake`.  *RepliesCorrect* rests on the same invariant: a state that
will answer has a client that waits, so that `owed` is not driven below zero.

*OneOwnerCorrect.*  Every step gives back some carriers, and puts in at most one
new one, whose buffer is one of those or comes from the free list or from
`calloc()` (`HandedOver`, `PrepareTakes`).  Such a step keeps the owners apart
whatever the handler decides, so that each handler needs only be shown to be one.
The steps of the input thread and the CONNECT that is kept in `so_conn_req`, whose
buffers are in no queue, are treated on their own.

*LeaksPaidForCorrect.*  A count of the lost buffers is not inductive: a buffer is
lost long after the call that brought it about.  So each buffer that is lost, and
each that may still get lost (a message that waits for its acknowledgement, a
request kept for `accept()`), holds a receipt of its own from the start: a
call of its program, or the one request that its socket ever kept.  `PaidBy` says
that the receipts are different ones.  A step either owes nothing new
(`OwesNoMore`) or owes one more buffer and has a receipt that no other holds
(`Owes`).  An injection into a finite set bounds the number.

*SpeedCorrect.*  `SpeedAccounted` adds up over the sockets with a fold of the
community modules.  The fold is a recursive function with a CHOOSE in it: that such a function
exists, and that the order in which it takes the sockets does not matter
(`SumIs`, `SumAny`, `SumLast`), is an induction over the size of the set.  The
library's induction theorems take an operator as a parameter; the least-number
principle for a set of numbers does not, and `Induct` is derived from it.  Then
each case of `new_sk()` adds to the sum what it takes from `free_bps`, and
`Wrap` says that the two still add up when the subtraction wraps around.

*EarliestCorrect.*  The list is sorted because `et_insert()` stops at the first
timer that is not later, walking from the tail; what was taken from the head is
then no later than all that stays.  The lemmas are about the indexes of
`InsertAt` and of a list from which a timer is dropped.

*NamedCorrect* and *PidFileCorrect.*  A start-up unlinks the API path while another
daemon may serve.  The script starts nobody while the pid file names a daemon
that is alive; whoever fills the file reached `WritePid` and holds the port, and
the one start-up at a time took the path before it.

That the pid of the daemon that serves is at the beginning of the file is no
invariant, for any pids: what is left of an older pid behind a new one may be the
pid of a later start-up (1 written over 23 is 13); a stop then ends that start-up
and removes the file, and the daemon that serves has none.  `PidFileKept` is the
action property that holds: every step keeps the pid where it is but such a stop.
A write comes from the holder of the port, of whom there is one; a stop removes
the file when it names nobody or ends whom it names, and who ends is the daemon
itself, or one that does not hold the port, which is a start-up.

*StreamsCorrect* and *RestCorrect.*  That the streams are in order follows from
what each message says of them.  A write of which the thread has sent a part holds
exactly what follows the first `io_rep_len` bytes, and unless the program has
gone, those are the last it has received (`WriteIs`); a read that is answered holds
exactly what `recvmsg()` took and the kernel has not seen (`ReadIs`).  Both are facts
about one message of its kind, so that the proof needs that there is no other:
`Places` says that a socket and a kind of request are in one of the six queues,
and once in it, however the queues are passed on.  The lemmas are about bytes:
`UnsentIs` says that what `senddata()` leaves of any mbuffs holds what
follows the bytes sent, wherever the cut falls, `InMbuffsAre` that mbuffs filled
one by one hold the part of the stream they were filled with, the last one
included, which need not be full, and `PartsJoin` that parts join.  `FlattenSeq` and
`Enqueued` are recursive functions; that they exist, and what they return, is an
induction over the places of a sequence with the `Induct` of *SpeedCorrect*.

*MbuffsCorrect.*  Every step of the thread turns one message into another with the
same key and loses d mbuffs (`MbuffsMoved`), the kernel adds or takes a message
(`MbuffsCame`, `MbuffsWent`); messages with different keys hold different mbuffs, so
that the count changes by those of that message.

Model-checked only: what needs fairness, which is out of the prover's reach
(`ConnectAnswered`, `AcceptedAreRead`, `PendingAreAnswered`, and the half of
`Mailboxes` that says that nothing stays inside for ever).  The disagreements of
section 3 are counterexamples and have nothing to prove.

## 5. What is not modelled, and why

* The data path: tokens are computed in floating point, and as `so_host_win` is
  never set they are zero whatever is computed; `so_wmemq` stays empty.
* `MSG_CLOSE` and unknown requests: the code does nothing for them.
* `clear_exp` and the batches of ten in `flushqueue()`: a batch is a loop over
  single messages.
* The kernel reads `netout_kernel_queue` with `itc_writemsg()` and signal -1: the
  list moves as with `itc_readmsg()`, and `pthread_sigqueue()` refuses the
  signal.  `Itc` has a plain read.
* The mutexes of the DATAIO channels of `itc.c`: no thread is created for them; in
  `DataIo` a write and a read of their lists are parts of one step each.
* A message with a lower number of its signal is announced first, which is the
  reverse of the priorities in `itc.h`; in this build only control messages are
  produced, so that no two lists compete.
* `sendmsg()` and `recvmsg()` of nothing: a request of length 0 makes the loops of
  `dataio.c` spin.  Requests in `DataIo` are not empty.
* `remove_et(sk, NULL)`, `mbuff_insert()`, `alloc_*_chain()`,
  `close_gvport_sk()`, `close_gvport_gvport()`, `getsockbysodata()` and
  `getsockbygvport()`: no caller.
* Failures of the operating system in `main()` that have nothing to do with what
  the daemon or its predecessors did (`signalfd()`, `daemon()`, the error file).
* The parsing of numbers in the command line, and the ini file that the script
  turns into one: `Service` starts from what `loadcfgk()` asks of the result.
* Memory that fails in `Handshake`, and ends of clients there: `Buffers` and
  `SockTable` have them.
* Debug output and sources that are not part of the build.

## 6. Plan

Done: `Itc` with `Mailbox`, `Handshake` with `Rendezvous`, `Timers`, `SockTable`,
`Buffers`, `Service`, `DataIo`, the proofs of all their safety properties and the
two refinements.  Left:

1. `Timers` and `Handshake` composed: the timer of a message as an entry of the
   list, with times instead of the question of what may expire; the retries that
   one late pass sends.
