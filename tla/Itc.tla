-------------------------------- MODULE Itc --------------------------------
(***************************************************************************)
(* Inter-thread communication of the daemon (itc.c) together with the      *)
(* three thread loops that use it: kernel() in kernel.c, output() in       *)
(* output.c and input() in input.c.                                        *)
(*                                                                         *)
(* A channel is a list of messages shared under a mutex plus a real-time   *)
(* signal number.  The writer moves its private list to the shared one     *)
(* inside the mutex, and only when the shared list was empty it sends the  *)
(* signal, AFTER the mutex is released.  The reader takes one signal from  *)
(* the signalfd and later moves the whole shared list to a private one.    *)
(* Every critical section, every pthread_sigqueue and every read of the    *)
(* signalfd is a step of its own here; work on a thread's private lists is *)
(* folded into the neighbouring step.                                      *)
(*                                                                         *)
(* What the messages carry is abstracted away: the messages a thread puts  *)
(* in a channel are numbered 1, 2, 3...                                    *)
(***************************************************************************)
EXTENDS Naturals, Sequences

CONSTANTS
  MaxMade,     \* [Channels -> Nat], a bound: messages made for each channel
  MaxBatch,    \* a bound: messages one pass of the kernel makes per channel
  MaxExp,      \* a bound: expirations reported by one read of output_timer
  KernelTx     \* the transmission lists of kernel() that its handlers fill

\* The three priorities of kernel_netout_queue, then netinp_kernel_queue and
\* netout_kernel_queue.
ToNetout == {"ctr", "ret", "nor"}
ToKernel == {"in", "out"}
Channels == ToNetout \cup ToKernel

\* The priorities that output() sends at the pace of output_timer.
Paced == {"ret", "nor"}

Threads == {"kernel", "netout", "netinp"}

ASSUME ItcAssumption ==
  /\ MaxMade \in [Channels -> Nat]
  /\ MaxBatch \in Nat
  /\ MaxExp \in Nat \ {0}
  /\ KernelTx \subseteq ToNetout

Writer(c) == IF c \in ToNetout THEN "kernel" ELSE IF c = "in" THEN "netinp" ELSE "netout"
Reader(c) == IF c \in ToNetout THEN "netout" ELSE "kernel"

\* SE_* minus SIGRTMIN: among its pending real-time signals a thread is given
\* the one with the lowest number.
SignalNumber ==
  [c \in Channels |->
     CASE c = "nor" -> 1 [] c = "ret" -> 2 [] c = "ctr" -> 3 [] c = "in" -> 4 [] c = "out" -> 7]

VARIABLES
  pc,          \* where each thread is
  chan,        \* the channel each thread is working on
  queue,       \* the shared lists
  pending,     \* signals sent for each channel that its reader did not read
  sendq,       \* the writers' private lists: tx_*_queue, rxq, kernelq
  readq,       \* the readers' private lists: outputq[], rx_queue, tx_input_queue
  msgPending,  \* msg_ret_pending and msg_nor_pending of output()
  exp,         \* n of output(): messages the timer still allows in this pass
  txq,         \* how many messages output() is about to send
  made,        \* how many messages were made for each channel
  done         \* history: the messages consumed from each channel

threadVars == <<pc, chan>>
sharedVars == <<queue, pending>>
netoutVars == <<msgPending, exp, txq>>
vars == <<pc, chan, queue, pending, sendq, readq, msgPending, exp, txq, made, done>>

Init ==
  /\ pc = [t \in Threads |-> "wait"]
  /\ chan = [t \in Threads |-> IF t = "netinp" THEN "in" ELSE IF t = "netout" THEN "out" ELSE "nor"]
  /\ queue = [c \in Channels |-> <<>>]
  /\ pending = [c \in Channels |-> 0]
  /\ sendq = [c \in Channels |-> <<>>]
  /\ readq = [c \in Channels |-> <<>>]
  /\ msgPending = [c \in Paced |-> FALSE]
  /\ exp = 0
  /\ txq = 0
  /\ made = [c \in Channels |-> 0]
  /\ done = [c \in Channels |-> <<>>]

Goto(t, loc, c) ==
  /\ pc' = [pc EXCEPT ![t] = loc]
  /\ chan' = [chan EXCEPT ![t] = c]

\* The next n messages of channel c.
Fresh(c, n) == [i \in 1..n |-> made[c] + i]

-----------------------------------------------------------------------------
(* itc.c *)

\* itc_read_event(): the thread takes its lowest pending signal, which names
\* the channel it will read.
Ready(t) == {c \in Channels : Reader(c) = t /\ pending[c] > 0}

\* A slip: a thread that finds no signal pending goes on as if it had one.
ReadEventUnchecked(t, c) ==
  /\ Reader(c) = t
  /\ pending' = [pending EXCEPT ![c] = @ - 1]

ReadEvent(t, c) ==
  /\ c \in Ready(t)
  /\ \A d \in Ready(t) : SignalNumber[c] <= SignalNumber[d]
  /\ pending' = [pending EXCEPT ![c] = @ - 1]

\* itc_writemsg(): the critical section, then back to the caller at once or
\* after the signal.  ReturnWrite is where the caller goes on.
ReturnWrite(t, c) ==
  \/ c = "ctr" /\ Goto(t, "flush", "ret")
  \/ c = "ret" /\ Goto(t, "flush", "nor")
  \/ c \notin {"ctr", "ret"} /\ Goto(t, "wait", c)

WriteMsg(t, c) ==
  /\ queue' = [queue EXCEPT ![c] = @ \o sendq[c]]
  /\ sendq' = [sendq EXCEPT ![c] = <<>>]
  /\ IF queue[c] = <<>> THEN Goto(t, "signal", c) ELSE ReturnWrite(t, c)

SendSignal(t) ==
  /\ pc[t] = "signal"
  /\ pending' = [pending EXCEPT ![chan[t]] = @ + 1]
  /\ ReturnWrite(t, chan[t])
  /\ UNCHANGED <<queue, sendq, readq, netoutVars, made, done>>

-----------------------------------------------------------------------------
(* kernel(): wait, read what the signal announces, process, flush *)

\* kevent_wait() reports the signalfd whenever a signal is pending; every
\* other event of the batch is served in KernelProcess.
KernelReadEvent ==
  /\ pc["kernel"] = "wait"
  /\ \E c \in ToKernel : ReadEvent("kernel", c) /\ Goto("kernel", "read", c)
  /\ UNCHANGED <<queue, sendq, readq, netoutVars, made, done>>

\* The refresh timer, the API sockets and their server.
KernelOtherEvent ==
  /\ pc["kernel"] = "wait"
  /\ Ready("kernel") = {}
  /\ Goto("kernel", "process", "nor")
  /\ UNCHANGED <<sharedVars, sendq, readq, netoutVars, made, done>>

\* itc_readfrom()
KernelRead ==
  /\ pc["kernel"] = "read"
  /\ LET c == chan["kernel"] IN
       /\ readq' = [readq EXCEPT ![c] = @ \o queue[c]]
       /\ queue' = [queue EXCEPT ![c] = <<>>]
       /\ Goto("kernel", "process", "nor")
  /\ UNCHANGED <<pending, sendq, netoutVars, made, done>>

\* The handlers of the batch, do_process_input_bulk(), do_process_sent_msg(),
\* do_process_expired() and do_collect_mbuff_to_transmit(): they consume all
\* that was read and leave any number of messages in the transmission lists.
KernelProcess ==
  /\ pc["kernel"] = "process"
  /\ done' = [c \in Channels |-> IF c \in ToKernel THEN done[c] \o readq[c] ELSE done[c]]
  /\ readq' = [c \in Channels |-> IF c \in ToKernel THEN <<>> ELSE readq[c]]
  /\ \E n \in [KernelTx -> 0..MaxBatch] :
       /\ \A c \in KernelTx : made[c] + n[c] <= MaxMade[c]
       /\ made' = [c \in Channels |-> IF c \in KernelTx THEN made[c] + n[c] ELSE made[c]]
       /\ sendq' = [c \in Channels |->
                      IF c \in KernelTx THEN sendq[c] \o Fresh(c, n[c]) ELSE sendq[c]]
  /\ Goto("kernel", "flush", "ctr")
  /\ UNCHANGED <<sharedVars, netoutVars>>

\* "if (tx_..._queue.size) itc_writeto(...)", one list after the other.
KernelFlush ==
  /\ pc["kernel"] = "flush"
  /\ sendq[chan["kernel"]] # <<>>
  /\ WriteMsg("kernel", chan["kernel"])
  /\ UNCHANGED <<pending, readq, netoutVars, made, done>>

KernelFlushEmpty ==
  /\ pc["kernel"] = "flush"
  /\ sendq[chan["kernel"]] = <<>>
  /\ ReturnWrite("kernel", chan["kernel"])
  /\ UNCHANGED <<sharedVars, sendq, readq, netoutVars, made, done>>

KernelSignal == SendSignal("kernel")

Kernel ==
  \/ KernelReadEvent \/ KernelOtherEvent \/ KernelRead \/ KernelProcess
  \/ KernelFlush \/ KernelFlushEmpty \/ KernelSignal

-----------------------------------------------------------------------------
(* output(): wait, serve one signal, serve the timer, flush, return *)

\* output_timer takes part in wait_event() only when a paced list has work.
TimerArmed == \E c \in Paced : readq[c] # <<>> \/ msgPending[c]

\* The first half of the loop: what wait_event() reports and what is read of
\* the signalfd and of the timer, n being the expirations (0: no timer event).
NetoutWait ==
  /\ pc["netout"] = "wait"
  /\ \E n \in 0..MaxExp :
       /\ n > 0 => TimerArmed
       /\ exp' = n
       /\ \/ \E c \in ToNetout : ReadEvent("netout", c) /\ Goto("netout", "event", c)
          \/ /\ Ready("netout") = {}
             /\ n > 0
             /\ Goto("netout", "timer", "ret")
             /\ UNCHANGED pending
  /\ UNCHANGED <<queue, sendq, readq, msgPending, txq, made, done>>

AfterEvent == IF exp > 0 THEN Goto("netout", "timer", "ret") ELSE Goto("netout", "flush", "out")

\* A control event: the list is read and goes to txq as a whole.
NetoutControlEvent ==
  /\ pc["netout"] = "event"
  /\ chan["netout"] = "ctr"
  /\ queue' = [queue EXCEPT !["ctr"] = <<>>]
  /\ done' = [done EXCEPT !["ctr"] = @ \o queue["ctr"]]
  /\ txq' = txq + Len(queue["ctr"])
  /\ AfterEvent
  /\ UNCHANGED <<pending, sendq, readq, msgPending, exp, made>>

\* A paced event: read at once, or remembered while the private list lasts.
NetoutPacedEvent ==
  /\ pc["netout"] = "event"
  /\ chan["netout"] \in Paced
  /\ LET c == chan["netout"] IN
       \/ /\ readq[c] # <<>>
          /\ msgPending' = [msgPending EXCEPT ![c] = TRUE]
          /\ UNCHANGED <<queue, readq>>
       \/ /\ readq[c] = <<>>
          /\ readq' = [readq EXCEPT ![c] = queue[c]]
          /\ queue' = [queue EXCEPT ![c] = <<>>]
          /\ UNCHANGED msgPending
  /\ AfterEvent
  /\ UNCHANGED <<pending, sendq, exp, txq, made, done>>

\* One half of the timer block: the remembered event is honoured when the
\* private list does not cover the expirations, and msgnmove() hands over as
\* many messages as there are expirations left.
\*
\* A slip: the remembered event is honoured without having happened.
ReadNowUnasked(c) == Len(readq[c]) < exp

ReadNow(c) == msgPending[c] /\ Len(readq[c]) < exp

\* A slip: what is read goes to the front of what waits.
BacklogFront(c) == IF ReadNow(c) THEN queue[c] \o readq[c] ELSE readq[c]

Backlog(c) == IF ReadNow(c) THEN readq[c] \o queue[c] ELSE readq[c]
Handed(c) == IF exp < Len(Backlog(c)) THEN exp ELSE Len(Backlog(c))

NetoutTimer ==
  /\ pc["netout"] = "timer"
  /\ LET c == chan["netout"] IN
       /\ queue' = [queue EXCEPT ![c] = IF ReadNow(c) THEN <<>> ELSE @]
       /\ msgPending' = [msgPending EXCEPT ![c] = @ /\ ~ReadNow(c)]
       /\ readq' = [readq EXCEPT ![c] = SubSeq(Backlog(c), Handed(c) + 1, Len(Backlog(c)))]
       /\ done' = [done EXCEPT ![c] = @ \o SubSeq(Backlog(c), 1, Handed(c))]
       /\ txq' = txq + Handed(c)
       /\ IF c = "ret"
            THEN exp' = exp - Handed(c) /\ Goto("netout", "timer", "nor")
            ELSE exp' = 0 /\ Goto("netout", "flush", "out")
  /\ UNCHANGED <<pending, sendq, made>>

\* flushqueue(): of the messages sent, those not marked DISCARD_TRUE and those
\* that failed go back to the kernel, the others are freed.
NetoutFlush ==
  /\ pc["netout"] = "flush"
  /\ \E n \in 0..txq :
       /\ made["out"] + n <= MaxMade["out"]
       /\ made' = [made EXCEPT !["out"] = @ + n]
       /\ sendq' = [sendq EXCEPT !["out"] = Fresh("out", n)]
       /\ Goto("netout", IF n > 0 THEN "write" ELSE "wait", "out")
  /\ txq' = 0
  /\ UNCHANGED <<sharedVars, readq, msgPending, exp, done>>

\* sendmmsg() fails, which it is only called for when two or more messages
\* wait: the thread reports it with PANIC(), which does not exit, and ends.
NetoutPanic ==
  /\ pc["netout"] = "flush"
  /\ txq > 1
  /\ Goto("netout", "dead", "out")
  /\ UNCHANGED <<sharedVars, sendq, readq, netoutVars, made, done>>

NetoutWrite ==
  /\ pc["netout"] = "write"
  /\ WriteMsg("netout", "out")
  /\ UNCHANGED <<pending, readq, netoutVars, made, done>>

NetoutSignal == SendSignal("netout")

NetoutLive ==
  \/ NetoutWait \/ NetoutControlEvent \/ NetoutPacedEvent \/ NetoutTimer
  \/ NetoutFlush \/ NetoutWrite \/ NetoutSignal

Netout == NetoutLive \/ NetoutPanic

-----------------------------------------------------------------------------
(* input(): one datagram, one message, one write *)

NetinpReceive ==
  /\ pc["netinp"] = "wait"
  /\ made["in"] < MaxMade["in"]
  /\ made' = [made EXCEPT !["in"] = @ + 1]
  /\ sendq' = [sendq EXCEPT !["in"] = @ \o Fresh("in", 1)]
  /\ Goto("netinp", "write", "in")
  /\ UNCHANGED <<sharedVars, readq, netoutVars, done>>

NetinpWrite ==
  /\ pc["netinp"] = "write"
  /\ WriteMsg("netinp", "in")
  /\ UNCHANGED <<pending, readq, netoutVars, made, done>>

NetinpSignal == SendSignal("netinp")

Netinp == NetinpReceive \/ NetinpWrite \/ NetinpSignal

-----------------------------------------------------------------------------
Next == Kernel \/ Netout \/ Netinp

Spec == Init /\ [][Next]_vars

\* A thread that can run does run.  output_timer is periodic, so that a wait
\* that includes it returns; nothing forces a datagram to arrive.
Fairness ==
  /\ WF_vars(Kernel)
  /\ WF_vars(NetoutLive)
  /\ WF_vars(NetinpWrite \/ NetinpSignal)

FairSpec == Spec /\ Fairness

-----------------------------------------------------------------------------
(* Properties *)

Locations ==
  {"wait", "read", "process", "flush", "event", "timer", "write", "signal", "dead"}

\* Every variable has its type, and the channel a thread is about to signal,
\* read or serve is one of its own.
TypeOK ==
  /\ pc \in [Threads -> Locations]
  /\ chan \in [Threads -> Channels]
  /\ queue \in [Channels -> Seq(Nat)]
  /\ pending \in [Channels -> Nat]
  /\ sendq \in [Channels -> Seq(Nat)]
  /\ readq \in [Channels -> Seq(Nat)]
  /\ msgPending \in [Paced -> BOOLEAN]
  /\ exp \in Nat
  /\ txq \in Nat
  /\ made \in [Channels -> Nat]
  /\ done \in [Channels -> Seq(Nat)]
  /\ pc["kernel"] \in {"wait", "read", "process", "flush", "signal"}
  /\ pc["netout"] \in {"wait", "event", "timer", "flush", "write", "signal", "dead"}
  /\ pc["netinp"] \in {"wait", "write", "signal"}
  /\ pc["kernel"] \in {"flush", "signal"} => chan["kernel"] \in ToNetout
  /\ pc["kernel"] = "read" => chan["kernel"] \in ToKernel
  /\ pc["netout"] = "event" => chan["netout"] \in ToNetout
  /\ pc["netout"] = "timer" => chan["netout"] \in Paced
  /\ pc["netout"] \in {"write", "signal"} => chan["netout"] = "out"
  /\ chan["netinp"] = "in"

\* The wake-ups of a channel that are on their way: the signal its writer has
\* decided to send, the signals sent, the signal its reader has taken without
\* reading the list yet, and the event that output() remembers.
Signalling(c) == pc[Writer(c)] = "signal" /\ chan[Writer(c)] = c
Serving(c) == pc[Reader(c)] \in {"read", "event"} /\ chan[Reader(c)] = c
Remembered(c) == c \in Paced /\ msgPending[c]

One(b) == IF b THEN 1 ELSE 0
Wakeups(c) == One(Signalling(c)) + pending[c] + One(Serving(c)) + One(Remembered(c))

\* No wake-up is lost and none is spurious: exactly one is on its way for a
\* list with messages, none for an empty one.  This is the claim of the comment
\* in itc_writemsg(): a signal is sent only when the list is empty because
\* otherwise one was already sent and the data was not consumed yet.
WakeupExactlyOne ==
  \A c \in Channels : Wakeups(c) = One(queue[c] # <<>>)

\* Each channel of the two loops and itc.c is a mailbox: it keeps the order,
\* loses and repeats nothing, and every message reaches the thread that
\* consumes it unless the output thread ended.
Inside(c) == readq[c] \o queue[c] \o sendq[c]

NetoutEnded == pc["netout"] = "dead"

CtrBox == INSTANCE Mailbox WITH
  Message <- Nat, inside <- Inside("ctr"), taken <- done["ctr"], closed <- NetoutEnded
RetBox == INSTANCE Mailbox WITH
  Message <- Nat, inside <- Inside("ret"), taken <- done["ret"], closed <- NetoutEnded
NorBox == INSTANCE Mailbox WITH
  Message <- Nat, inside <- Inside("nor"), taken <- done["nor"], closed <- NetoutEnded
InBox == INSTANCE Mailbox WITH
  Message <- Nat, inside <- Inside("in"), taken <- done["in"], closed <- FALSE
OutBox == INSTANCE Mailbox WITH
  Message <- Nat, inside <- Inside("out"), taken <- done["out"], closed <- NetoutEnded

Mailboxes ==
  /\ CtrBox!MailboxSpec
  /\ RetBox!MailboxSpec
  /\ NorBox!MailboxSpec
  /\ InBox!MailboxSpec
  /\ OutBox!MailboxSpec
=============================================================================
