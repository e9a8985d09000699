----------------------------- MODULE ItcProofs -----------------------------
(***************************************************************************)
(* Proofs about Itc.tla, for any number of messages and expirations: every *)
(* variable keeps its type, exactly one wake-up is on its way for each     *)
(* list that holds messages, and each channel is a mailbox that loses,     *)
(* repeats and reorders nothing.                                           *)
(***************************************************************************)
EXTENDS Itc, SequenceTheorems, TLAPS

\* What the wake-up argument needs besides types: a thread that is about to
\* enter the critical section of a write has something to write, otherwise it
\* would announce an empty list.
WriteNonempty ==
  /\ pc["netinp"] = "write" => sendq["in"] # <<>>
  /\ pc["netout"] = "write" => sendq["out"] # <<>>

WakeupInv == TypeOK /\ WriteNonempty /\ WakeupExactlyOne

LEMMA FreshType ==
  ASSUME NEW c \in Channels, NEW n \in Nat, made \in [Channels -> Nat]
  PROVE  Fresh(c, n) \in Seq(Nat) /\ Len(Fresh(c, n)) = n
  <1>1. \A i \in 1..n : made[c] + i \in Nat
    OBVIOUS
  <1> QED
    BY <1>1, IsASeq, LenProperties DEF Fresh

LEMMA TypeInit == Init => TypeOK
  BY ItcAssumption DEF Init, TypeOK, Threads, Locations, Channels, ToNetout, ToKernel, Paced

LEMMA GotoType ==
  ASSUME TypeOK, NEW t \in Threads, NEW loc \in Locations, NEW c \in Channels, Goto(t, loc, c)
  PROVE  /\ pc' \in [Threads -> Locations]
         /\ chan' \in [Threads -> Channels]
         /\ pc'[t] = loc /\ chan'[t] = c
         /\ \A u \in Threads : u # t => pc'[u] = pc[u] /\ chan'[u] = chan[u]
  BY DEF TypeOK, Goto

LEMMA ReturnWriteType ==
  ASSUME TypeOK, NEW t \in Threads, NEW c \in Channels, ReturnWrite(t, c)
  PROVE  /\ pc' \in [Threads -> Locations]
         /\ chan' \in [Threads -> Channels]
         /\ pc'[t] = (IF c \in {"ctr", "ret"} THEN "flush" ELSE "wait")
         /\ c = "ctr" => chan'[t] = "ret"
         /\ c = "ret" => chan'[t] = "nor"
         /\ c \notin {"ctr", "ret"} => chan'[t] = c
         /\ \A u \in Threads : u # t => pc'[u] = pc[u] /\ chan'[u] = chan[u]
  BY DEF TypeOK, ReturnWrite, Goto, Locations, Channels, ToNetout, ToKernel

-----------------------------------------------------------------------------
(* The three ways a thread touches a channel, each with its effect on the   *)
(* wake-ups of every channel.                                               *)

\* Taking a signal turns a pending wake-up into one being served.
LEMMA ReadEventStep ==
  ASSUME WakeupInv, NEW t \in {"kernel", "netout"}, NEW c \in Channels,
         NEW loc \in {"read", "event"},
         pc[t] = "wait", ReadEvent(t, c), Goto(t, loc, c), UNCHANGED <<queue, msgPending>>
  PROVE  pending' \in [Channels -> Nat] /\ WakeupExactlyOne'
  <1>1. pending[c] > 0 /\ Reader(c) = t /\ pending' = [pending EXCEPT ![c] = pending[c] - 1]
    BY DEF ReadEvent, Ready
  <1>2. pending' \in [Channels -> Nat]
    <2>1. pending \in [Channels -> Nat]
      BY DEF WakeupInv, TypeOK
    <2>2. pending[c] - 1 \in Nat
      BY <1>1, <2>1
    <2> QED
      BY <1>1, <2>1, <2>2
  <1>3. pc' = [pc EXCEPT ![t] = loc] /\ chan' = [chan EXCEPT ![t] = c]
    BY DEF Goto
  <1>4. ASSUME NEW d \in Channels
        PROVE  Wakeups(d)' = One(queue[d] # <<>>)'
    <2>1. Wakeups(d) = One(queue[d] # <<>>)
      BY DEF WakeupInv, WakeupExactlyOne
    <2>2. One(Signalling(d))' = One(Signalling(d))
      BY <1>3 DEF WakeupInv, TypeOK, Signalling, Writer, One, Threads
    <2>3. One(Remembered(d))' = One(Remembered(d))
      BY DEF Remembered, One
    <2>4. One(Serving(d)) \in Nat /\ One(Signalling(d)) \in Nat /\ One(Remembered(d)) \in Nat
      BY DEF One
    <2>5. CASE d = c
      <3>1. One(Serving(d)) = 0 /\ One(Serving(d))' = 1
        BY <1>1, <1>3, <2>5 DEF WakeupInv, TypeOK, Serving, One, Threads
      <3> QED
        BY <1>1, <2>1, <2>2, <2>3, <2>4, <2>5, <3>1 DEF WakeupInv, TypeOK, Wakeups, One
    <2>6. CASE d # c
      <3>1. One(Serving(d))' = One(Serving(d))
        BY <1>3, <2>6 DEF WakeupInv, TypeOK, Serving, One, Threads, Reader
      <3> QED
        BY <1>1, <2>1, <2>2, <2>3, <2>6, <3>1 DEF WakeupInv, TypeOK, Wakeups, One
    <2> QED
      BY <2>5, <2>6
  <1> QED
    BY <1>2, <1>4 DEF WakeupExactlyOne

\* The critical section of a write decides to signal exactly when it fills an
\* empty list.
LEMMA WriteMsgStep ==
  ASSUME WakeupInv, NEW t \in Threads, NEW c \in Channels, Writer(c) = t,
         pc[t] \in {"flush", "write"}, sendq[c] # <<>>,
         WriteMsg(t, c), UNCHANGED <<pending, msgPending>>
  PROVE  WakeupExactlyOne'
  <1>1. pc \in [Threads -> Locations] /\ queue \in [Channels -> Seq(Nat)] /\ sendq \in [Channels -> Seq(Nat)]
    BY DEF WakeupInv, TypeOK
  <1>2. queue' = [queue EXCEPT ![c] = queue[c] \o sendq[c]]
    BY DEF WriteMsg
  <1>3. queue'[c] # <<>>
    BY <1>1, <1>2, ConcatEqualIffEmpty
  <1>4. \A d \in Channels : d # c => queue'[d] = queue[d]
    BY <1>1, <1>2
  <1>5. /\ pc' \in [Threads -> Locations]
        /\ \A u \in Threads : u # t => pc'[u] = pc[u] /\ chan'[u] = chan[u]
        /\ queue[c] = <<>> => pc'[t] = "signal" /\ chan'[t] = c
        /\ queue[c] # <<>> => pc'[t] \in {"flush", "wait"}
    <2>1. CASE queue[c] = <<>>
      <3>1. Goto(t, "signal", c) /\ "signal" \in Locations
        BY <2>1 DEF WriteMsg, Locations
      <3> QED
        BY <2>1, <3>1, GotoType DEF WakeupInv
    <2>2. CASE queue[c] # <<>>
      <3>1. ReturnWrite(t, c)
        BY <2>2 DEF WriteMsg
      <3> QED
        BY <2>2, <3>1, ReturnWriteType DEF WakeupInv
    <2> QED
      BY <2>1, <2>2
  <1>6. ASSUME NEW d \in Channels
        PROVE  Wakeups(d)' = One(queue[d] # <<>>)'
    <2>1. Wakeups(d) = One(queue[d] # <<>>)
      BY DEF WakeupInv, WakeupExactlyOne
    <2>2. One(Serving(d))' = One(Serving(d))
      BY <1>1, <1>5 DEF Serving, One, Reader, Threads
    <2>3. One(Remembered(d))' = One(Remembered(d))
      BY DEF Remembered, One
    <2>4. /\ One(Serving(d)) \in Nat /\ One(Signalling(d)) \in Nat /\ One(Remembered(d)) \in Nat
          /\ pending[d] \in Nat
      BY DEF One, WakeupInv, TypeOK
    <2>5. CASE d = c
      <3>1. One(Signalling(d)) = 0
        BY <2>5 DEF Signalling, One
      <3>2. One(Signalling(d))' = IF queue[c] = <<>> THEN 1 ELSE 0
        BY <1>5, <2>5 DEF Signalling, One
      <3> QED
        BY <1>3, <2>1, <2>2, <2>3, <2>4, <2>5, <3>1, <3>2 DEF Wakeups, One
    <2>6. CASE d # c
      <3>1. One(Signalling(d))' = One(Signalling(d))
        BY <1>1, <1>5, <2>6 DEF Signalling, One, Writer, Threads
      <3> QED
        BY <1>4, <2>1, <2>2, <2>3, <2>6, <3>1 DEF Wakeups, One
    <2> QED
      BY <2>5, <2>6
  <1> QED
    BY <1>6 DEF WakeupExactlyOne

\* Sending the signal turns the decision into a pending wake-up.
LEMMA SendSignalStep ==
  ASSUME WakeupInv, NEW t \in Threads, SendSignal(t)
  PROVE  pending' \in [Channels -> Nat] /\ WakeupExactlyOne'
  <1> DEFINE c == chan[t]
  <1>1. /\ pc \in [Threads -> Locations] /\ chan \in [Threads -> Channels]
        /\ pending \in [Channels -> Nat] /\ pc[t] = "signal"
    BY DEF WakeupInv, TypeOK, SendSignal
  <1>2. c \in Channels /\ Writer(c) = t
    BY <1>1 DEF WakeupInv, TypeOK, Writer, Threads, ToNetout
  <1>3. pending' = [pending EXCEPT ![c] = pending[c] + 1] /\ ReturnWrite(t, c)
    BY DEF SendSignal
  <1>4. pending' \in [Channels -> Nat]
    BY <1>1, <1>2, <1>3
  <1>5. /\ pc' \in [Threads -> Locations]
        /\ \A u \in Threads : u # t => pc'[u] = pc[u] /\ chan'[u] = chan[u]
        /\ pc'[t] \in {"flush", "wait"}
    BY <1>2, <1>3, ReturnWriteType DEF WakeupInv
  <1>6. ASSUME NEW d \in Channels
        PROVE  Wakeups(d)' = One(queue[d] # <<>>)'
    <2>1. Wakeups(d) = One(queue[d] # <<>>) /\ queue' = queue /\ msgPending' = msgPending
      BY DEF WakeupInv, WakeupExactlyOne, SendSignal, netoutVars
    <2>2. One(Serving(d))' = One(Serving(d))
      BY <1>1, <1>5 DEF Serving, One, Reader, Threads
    <2>3. One(Remembered(d))' = One(Remembered(d))
      BY <2>1 DEF Remembered, One
    <2>4. One(Serving(d)) \in Nat /\ One(Remembered(d)) \in Nat /\ pending[d] \in Nat
      BY <1>1 DEF One
    <2>5. CASE d = c
      <3>1. One(Signalling(d)) = 1 /\ One(Signalling(d))' = 0 /\ pending'[d] = pending[d] + 1
        BY <1>1, <1>2, <1>3, <1>5, <2>5 DEF Signalling, One
      <3> QED
        BY <2>1, <2>2, <2>3, <2>4, <3>1 DEF Wakeups, One
    <2>6. CASE d # c
      <3>1. One(Signalling(d))' = One(Signalling(d)) /\ pending'[d] = pending[d]
        BY <1>1, <1>3, <1>5, <2>6 DEF Signalling, One, Writer, Threads
      <3> QED
        BY <2>1, <2>2, <2>3, <3>1 DEF Wakeups, One
    <2> QED
      BY <2>5, <2>6
  <1> QED
    BY <1>4, <1>6 DEF WakeupExactlyOne

\* Reading the list consumes the wake-up that was being served.
LEMMA DrainStep ==
  ASSUME WakeupInv, NEW t \in {"kernel", "netout"}, NEW c \in Channels, Reader(c) = t,
         pc[t] \in {"read", "event"}, chan[t] = c,
         queue' = [queue EXCEPT ![c] = <<>>],
         pc' \in [Threads -> Locations], pc'[t] \in {"process", "timer", "flush"},
         \A u \in Threads : u # t => pc'[u] = pc[u] /\ chan'[u] = chan[u],
         UNCHANGED <<pending, msgPending>>
  PROVE  WakeupExactlyOne'
  <1>1. pc \in [Threads -> Locations] /\ queue \in [Channels -> Seq(Nat)]
    BY DEF WakeupInv, TypeOK
  <1>2. ASSUME NEW d \in Channels
        PROVE  Wakeups(d)' = One(queue[d] # <<>>)'
    <2>1. Wakeups(d) = One(queue[d] # <<>>)
      BY DEF WakeupInv, WakeupExactlyOne
    <2>2. One(Signalling(d))' = One(Signalling(d))
      BY <1>1 DEF Signalling, One, Writer, Threads
    <2>3. One(Remembered(d))' = One(Remembered(d))
      BY DEF Remembered, One
    <2>4. /\ One(Serving(d)) \in Nat /\ One(Signalling(d)) \in Nat /\ One(Remembered(d)) \in Nat
          /\ pending[d] \in Nat
      BY DEF One, WakeupInv, TypeOK
    <2>5. CASE d = c
      <3>1. One(Serving(d)) = 1 /\ One(Serving(d))' = 0
        BY <2>5 DEF Serving, One
      <3>2. queue'[d] = <<>>
        BY <1>1, <2>5
      <3> QED
        BY <2>1, <2>2, <2>3, <2>4, <3>1, <3>2 DEF Wakeups, One
    <2>6. CASE d # c
      <3>1. One(Serving(d))' = One(Serving(d)) /\ queue'[d] = queue[d]
        BY <1>1, <2>6 DEF Serving, One, Reader, Threads
      <3> QED
        BY <2>1, <2>2, <2>3, <3>1 DEF Wakeups, One
    <2> QED
      BY <2>5, <2>6
  <1> QED
    BY <1>2 DEF WakeupExactlyOne

\* A step that touches neither a list, nor a signal, nor a remembered event,
\* at places where no wake-up is in the thread's hands.
LEMMA LocalStep ==
  ASSUME WakeupInv, NEW t \in Threads,
         pc[t] \notin {"signal", "read", "event"}, pc'[t] \notin {"signal", "read", "event"},
         \A u \in Threads : u # t => pc'[u] = pc[u] /\ chan'[u] = chan[u],
         UNCHANGED <<queue, pending, msgPending>>
  PROVE  WakeupExactlyOne'
  <1> SUFFICES ASSUME NEW d \in Channels
               PROVE  Wakeups(d)' = One(queue[d] # <<>>)'
    BY DEF WakeupExactlyOne
  <1>1. Wakeups(d) = One(queue[d] # <<>>)
    BY DEF WakeupInv, WakeupExactlyOne
  <1>2. One(Signalling(d))' = One(Signalling(d))
    BY DEF Signalling, One, Writer, Threads
  <1>3. One(Serving(d))' = One(Serving(d))
    BY DEF Serving, One, Reader, Threads
  <1>4. One(Remembered(d))' = One(Remembered(d))
    BY DEF Remembered, One
  <1> QED
    BY <1>1, <1>2, <1>3, <1>4 DEF Wakeups, One

\* While a private list lasts the event is remembered instead of served.
LEMMA PacedEventStep ==
  ASSUME WakeupInv, NetoutPacedEvent
  PROVE  WakeupExactlyOne'
  <1> DEFINE c == chan["netout"]
  <1>1. c \in Paced /\ c \in Channels /\ Reader(c) = "netout" /\ pc["netout"] = "event"
    BY DEF NetoutPacedEvent, Paced, Channels, ToNetout, Reader
  <1>2. /\ pc' \in [Threads -> Locations] /\ pc'["netout"] \in {"timer", "flush"}
        /\ \A u \in Threads : u # "netout" => pc'[u] = pc[u] /\ chan'[u] = chan[u]
    BY GotoType DEF NetoutPacedEvent, AfterEvent, WakeupInv, Threads, Locations,
                    Channels, ToNetout, ToKernel
  <1>3. CASE readq[c] = <<>>
    <2>1. queue' = [queue EXCEPT ![c] = <<>>] /\ UNCHANGED <<pending, msgPending>>
      BY <1>3 DEF NetoutPacedEvent
    <2> QED
      BY <1>1, <1>2, <2>1, DrainStep
  <1>4. CASE readq[c] # <<>>
    <2>1. msgPending' = [msgPending EXCEPT ![c] = TRUE] /\ UNCHANGED <<queue, pending>>
      BY <1>4 DEF NetoutPacedEvent
    <2>2. ASSUME NEW d \in Channels
          PROVE  Wakeups(d)' = One(queue[d] # <<>>)'
      <3>1. Wakeups(d) = One(queue[d] # <<>>)
        BY DEF WakeupInv, WakeupExactlyOne
      <3>2. One(Signalling(d))' = One(Signalling(d))
        BY <1>1, <1>2 DEF Signalling, One, Writer, Threads
      <3>3. /\ One(Serving(d)) \in Nat /\ One(Signalling(d)) \in Nat /\ One(Remembered(d)) \in Nat
            /\ pending[d] \in Nat /\ msgPending \in [Paced -> BOOLEAN]
        BY DEF One, WakeupInv, TypeOK
      <3>4. CASE d = c
        <4>1. One(Serving(d)) = 1 /\ One(Serving(d))' = 0
          BY <1>1, <1>2, <3>4 DEF Serving, One
        <4>2. One(Remembered(d))' = 1
          BY <1>1, <2>1, <3>3, <3>4 DEF Remembered, One
        <4>3. One(Remembered(d)) = 0
          BY <3>1, <3>3, <4>1 DEF Wakeups, One
        <4> QED
          BY <2>1, <3>1, <3>2, <3>3, <4>1, <4>2, <4>3 DEF Wakeups, One
      <3>5. CASE d # c
        <4>1. One(Serving(d))' = One(Serving(d))
          BY <1>1, <1>2, <3>5 DEF Serving, One, Reader, Threads
        <4>2. One(Remembered(d))' = One(Remembered(d))
          BY <2>1, <3>3, <3>5 DEF Remembered, One
        <4> QED
          BY <2>1, <3>1, <3>2, <4>1, <4>2 DEF Wakeups, One
      <3> QED
        BY <3>4, <3>5
    <2> QED
      BY <2>2 DEF WakeupExactlyOne
  <1> QED
    BY <1>3, <1>4

\* The timer reads the list only for a remembered event, which it forgets.
LEMMA TimerStep ==
  ASSUME WakeupInv, NetoutTimer
  PROVE  WakeupExactlyOne'
  <1> DEFINE c == chan["netout"]
  <1>1. /\ c \in Paced /\ c \in Channels /\ pc["netout"] = "timer"
        /\ msgPending \in [Paced -> BOOLEAN] /\ queue \in [Channels -> Seq(Nat)]
    BY DEF NetoutTimer, WakeupInv, TypeOK, Paced, Channels, ToNetout
  <1>2. /\ pc' \in [Threads -> Locations] /\ pc'["netout"] \in {"timer", "flush"}
        /\ \A u \in Threads : u # "netout" => pc'[u] = pc[u] /\ chan'[u] = chan[u]
    BY GotoType DEF NetoutTimer, WakeupInv, Threads, Locations, Channels, ToNetout, ToKernel
  <1>3. CASE ~ReadNow(c)
    <2>1. queue' = queue /\ msgPending' = msgPending /\ pending' = pending
      BY <1>1, <1>3 DEF NetoutTimer
    <2> QED
      BY <1>1, <1>2, <2>1, LocalStep DEF Threads
  <1>4. CASE ReadNow(c)
    <2>1. /\ queue' = [queue EXCEPT ![c] = <<>>] /\ pending' = pending
          /\ msgPending' = [msgPending EXCEPT ![c] = FALSE] /\ msgPending[c]
      BY <1>1, <1>4 DEF NetoutTimer, ReadNow
    <2>2. ASSUME NEW d \in Channels
          PROVE  Wakeups(d)' = One(queue[d] # <<>>)'
      <3>1. Wakeups(d) = One(queue[d] # <<>>)
        BY DEF WakeupInv, WakeupExactlyOne
      <3>2. One(Signalling(d))' = One(Signalling(d))
        BY <1>1, <1>2 DEF Signalling, One, Writer, Threads
      <3>3. One(Serving(d))' = One(Serving(d))
        BY <1>1, <1>2 DEF Serving, One, Reader, Threads
      <3>4. One(Serving(d)) \in Nat /\ One(Signalling(d)) \in Nat /\ pending[d] \in Nat
        BY DEF One, WakeupInv, TypeOK
      <3>5. CASE d = c
        <4>1. One(Remembered(d)) = 1 /\ One(Remembered(d))' = 0 /\ queue'[d] = <<>>
          BY <1>1, <2>1, <3>5 DEF Remembered, One
        <4> QED
          BY <2>1, <3>1, <3>2, <3>3, <3>4, <4>1 DEF Wakeups, One
      <3>6. CASE d # c
        <4>1. One(Remembered(d))' = One(Remembered(d)) /\ queue'[d] = queue[d]
          BY <1>1, <2>1, <3>6 DEF Remembered, One
        <4> QED
          BY <2>1, <3>1, <3>2, <3>3, <4>1 DEF Wakeups, One
      <3> QED
        BY <3>5, <3>6
    <2> QED
      BY <2>2 DEF WakeupExactlyOne
  <1> QED
    BY <1>3, <1>4

-----------------------------------------------------------------------------
(* Types, one lemma per thread.                                             *)

LEMMA WriteMsgType ==
  ASSUME TypeOK, NEW t \in Threads, NEW c \in Channels, WriteMsg(t, c)
  PROVE  /\ pc' \in [Threads -> Locations]
         /\ chan' \in [Threads -> Channels]
         /\ \A u \in Threads : u # t => pc'[u] = pc[u] /\ chan'[u] = chan[u]
         /\ \/ pc'[t] = "signal" /\ chan'[t] = c
            \/ /\ pc'[t] = (IF c \in {"ctr", "ret"} THEN "flush" ELSE "wait")
               /\ c = "ctr" => chan'[t] = "ret"
               /\ c = "ret" => chan'[t] = "nor"
               /\ c \notin {"ctr", "ret"} => chan'[t] = c
         /\ queue' \in [Channels -> Seq(Nat)]
         /\ sendq' \in [Channels -> Seq(Nat)]
  <1>1. queue' \in [Channels -> Seq(Nat)] /\ sendq' \in [Channels -> Seq(Nat)]
    <2>1. queue[c] \o sendq[c] \in Seq(Nat) /\ <<>> \in Seq(Nat)
      BY ConcatProperties DEF TypeOK
    <2> QED
      BY <2>1 DEF TypeOK, WriteMsg
  <1>2. CASE queue[c] = <<>>
    <2>1. Goto(t, "signal", c) /\ "signal" \in Locations
      BY <1>2 DEF WriteMsg, Locations
    <2> QED
      BY <1>1, <2>1, GotoType
  <1>3. CASE queue[c] # <<>>
    <2>1. ReturnWrite(t, c)
      BY <1>3 DEF WriteMsg
    <2> QED
      BY <1>1, <2>1, ReturnWriteType
  <1> QED
    BY <1>2, <1>3

LEMMA SendSignalType ==
  ASSUME TypeOK, NEW t \in Threads, SendSignal(t)
  PROVE  TypeOK'
  <1> DEFINE c == chan[t]
  <1>1. c \in Channels /\ pending \in [Channels -> Nat] /\ pc[t] = "signal"
    BY DEF TypeOK, SendSignal
  <1>2. ReturnWrite(t, c) /\ pending' = [pending EXCEPT ![c] = pending[c] + 1]
    BY DEF SendSignal
  <1>3. pending' \in [Channels -> Nat]
    BY <1>1, <1>2
  <1>4. /\ pc' \in [Threads -> Locations]
        /\ chan' \in [Threads -> Channels]
        /\ pc'[t] = (IF c \in {"ctr", "ret"} THEN "flush" ELSE "wait")
        /\ c = "ctr" => chan'[t] = "ret"
        /\ c = "ret" => chan'[t] = "nor"
        /\ c \notin {"ctr", "ret"} => chan'[t] = c
        /\ \A u \in Threads : u # t => pc'[u] = pc[u] /\ chan'[u] = chan[u]
    BY <1>1, <1>2, ReturnWriteType
  <1>5. t = "netout" => c = "out"
    BY <1>1 DEF TypeOK
  <1>6. t = "netinp" => c = "in"
    BY DEF TypeOK
  <1>7. UNCHANGED <<queue, sendq, readq, msgPending, exp, txq, made, done>>
    BY DEF SendSignal, netoutVars
  <1> QED
    BY <1>3, <1>4, <1>5, <1>6, <1>7 DEF TypeOK, Threads, ToNetout

LEMMA KernelType ==
  ASSUME TypeOK, Kernel
  PROVE  TypeOK'
  <1>1. CASE KernelReadEvent
    <2>1. PICK c \in ToKernel : ReadEvent("kernel", c) /\ Goto("kernel", "read", c)
      BY <1>1 DEF KernelReadEvent
    <2>2. /\ pending \in [Channels -> Nat] /\ pending[c] > 0 /\ c \in Channels
          /\ pending' = [pending EXCEPT ![c] = pending[c] - 1]
      BY <2>1 DEF TypeOK, ReadEvent, Ready, Channels
    <2>3. pending' \in [Channels -> Nat]
      <3>1. pending[c] - 1 \in Nat
        BY <2>2
      <3> QED
        BY <2>2, <3>1
    <2> QED
      BY <1>1, <2>1, <2>2, <2>3, GotoType
      DEF TypeOK, KernelReadEvent, Threads, Locations, netoutVars
  <1>2. CASE KernelOtherEvent
    BY <1>2, GotoType
    DEF TypeOK, KernelOtherEvent, Threads, Locations, Channels, ToNetout, sharedVars, netoutVars
  <1>3. CASE KernelRead
    <2> DEFINE c == chan["kernel"]
    <2>1. c \in Channels /\ readq[c] \o queue[c] \in Seq(Nat) /\ <<>> \in Seq(Nat)
      BY ConcatProperties DEF TypeOK, Threads
    <2>2. readq' \in [Channels -> Seq(Nat)] /\ queue' \in [Channels -> Seq(Nat)]
      BY <1>3, <2>1 DEF TypeOK, KernelRead
    <2>3. Goto("kernel", "process", "nor")
      BY <1>3 DEF KernelRead
    <2> QED
      BY <1>3, <2>2, <2>3, GotoType
      DEF TypeOK, KernelRead, Threads, Locations, Channels, ToNetout, netoutVars
  <1>4. CASE KernelProcess
    <2>1. done' \in [Channels -> Seq(Nat)]
      <3>1. \A c \in Channels : done[c] \o readq[c] \in Seq(Nat) /\ done[c] \in Seq(Nat)
        BY ConcatProperties DEF TypeOK
      <3> QED
        BY <1>4, <3>1 DEF KernelProcess
    <2>2. readq' \in [Channels -> Seq(Nat)]
      BY <1>4 DEF TypeOK, KernelProcess
    <2>3. PICK n \in [KernelTx -> 0..MaxBatch] :
            /\ made' = [c \in Channels |-> IF c \in KernelTx THEN made[c] + n[c] ELSE made[c]]
            /\ sendq' = [c \in Channels |->
                           IF c \in KernelTx THEN sendq[c] \o Fresh(c, n[c]) ELSE sendq[c]]
      BY <1>4 DEF KernelProcess
    <2>4. \A c \in KernelTx : n[c] \in Nat /\ c \in Channels
      BY ItcAssumption DEF Channels
    <2>5. made' \in [Channels -> Nat]
      <3>1. ASSUME NEW c \in KernelTx
            PROVE  made[c] + n[c] \in Nat
        <4>1. made[c] \in Nat /\ n[c] \in Nat
          BY <2>4 DEF TypeOK
        <4> QED
          BY <4>1
      <3> QED
        BY <2>3, <3>1 DEF TypeOK
    <2>6. \A c \in KernelTx : sendq[c] \o Fresh(c, n[c]) \in Seq(Nat)
      BY <2>4, FreshType, ConcatProperties DEF TypeOK
    <2>7. sendq' \in [Channels -> Seq(Nat)]
      BY <2>3, <2>6 DEF TypeOK
    <2>8. Goto("kernel", "flush", "ctr")
      BY <1>4 DEF KernelProcess
    <2> QED
      BY <1>4, <2>1, <2>2, <2>5, <2>7, <2>8, GotoType
      DEF TypeOK, KernelProcess, Threads, Locations, Channels, ToNetout, sharedVars, netoutVars
  <1>5. CASE KernelFlush
    <2>1. chan["kernel"] \in ToNetout /\ WriteMsg("kernel", chan["kernel"])
      BY <1>5 DEF TypeOK, KernelFlush
    <2> QED
      BY <1>5, <2>1, WriteMsgType
      DEF TypeOK, KernelFlush, Threads, Channels, ToNetout, netoutVars
  <1>6. CASE KernelFlushEmpty
    <2>1. chan["kernel"] \in ToNetout /\ ReturnWrite("kernel", chan["kernel"])
      BY <1>6 DEF TypeOK, KernelFlushEmpty
    <2> QED
      BY <1>6, <2>1, ReturnWriteType
      DEF TypeOK, KernelFlushEmpty, Threads, Channels, ToNetout, sharedVars, netoutVars
  <1>7. CASE KernelSignal
    BY <1>7, SendSignalType DEF KernelSignal, Threads
  <1> QED
    BY <1>1, <1>2, <1>3, <1>4, <1>5, <1>6, <1>7 DEF Kernel

\* What one half of the timer block takes from a paced list.
LEMMA HandedType ==
  ASSUME TypeOK, NEW c \in Paced
  PROVE  /\ Backlog(c) \in Seq(Nat)
         /\ Handed(c) \in 0..Len(Backlog(c))
         /\ exp - Handed(c) \in Nat
         /\ SubSeq(Backlog(c), 1, Handed(c)) \in Seq(Nat)
         /\ SubSeq(Backlog(c), Handed(c) + 1, Len(Backlog(c))) \in Seq(Nat)
  <1>1. readq[c] \in Seq(Nat) /\ queue[c] \in Seq(Nat) /\ exp \in Nat
    BY DEF TypeOK, Paced, Channels, ToNetout
  <1>2. Backlog(c) \in Seq(Nat)
    BY <1>1, ConcatProperties DEF Backlog
  <1>3. Len(Backlog(c)) \in Nat
    BY <1>2, LenProperties
  <1>4. Handed(c) \in 0..Len(Backlog(c)) /\ exp - Handed(c) \in Nat
    BY <1>1, <1>3 DEF Handed
  <1>5. \A i \in 1..Len(Backlog(c)) : Backlog(c)[i] \in Nat
    BY <1>2, ElementOfSeq
  <1>6. SubSeq(Backlog(c), 1, Handed(c)) \in Seq(Nat)
    <2>1. \A i \in 1..Handed(c) : Backlog(c)[i] \in Nat
      BY <1>3, <1>4, <1>5
    <2> QED
      BY <1>4, <2>1, SubSeqProperties
  <1>7. SubSeq(Backlog(c), Handed(c) + 1, Len(Backlog(c))) \in Seq(Nat)
    <2>1. \A i \in Handed(c) + 1..Len(Backlog(c)) : Backlog(c)[i] \in Nat
      BY <1>3, <1>4, <1>5
    <2> QED
      BY <1>3, <1>4, <2>1, SubSeqProperties
  <1> QED
    BY <1>2, <1>4, <1>6, <1>7

LEMMA NetoutType ==
  ASSUME TypeOK, Netout
  PROVE  TypeOK'
  <1>1. CASE NetoutWait
    <2>1. PICK n \in 0..MaxExp :
            /\ exp' = n
            /\ \/ \E c \in ToNetout : ReadEvent("netout", c) /\ Goto("netout", "event", c)
               \/ Goto("netout", "timer", "ret") /\ UNCHANGED pending
      BY <1>1 DEF NetoutWait
    <2>2. exp' \in Nat
      BY <2>1, ItcAssumption
    <2>3. CASE \E c \in ToNetout : ReadEvent("netout", c) /\ Goto("netout", "event", c)
      <3>1. PICK c \in ToNetout : ReadEvent("netout", c) /\ Goto("netout", "event", c)
        BY <2>3
      <3>2. /\ pending \in [Channels -> Nat] /\ pending[c] > 0 /\ c \in Channels
            /\ pending' = [pending EXCEPT ![c] = pending[c] - 1]
        BY <3>1 DEF TypeOK, ReadEvent, Ready, Channels
      <3>3. pending' \in [Channels -> Nat]
        <4>1. pending[c] - 1 \in Nat
          BY <3>2
        <4> QED
          BY <3>2, <4>1
      <3> QED
        BY <1>1, <2>2, <3>1, <3>2, <3>3, GotoType DEF TypeOK, NetoutWait, Threads, Locations
    <2>4. CASE Goto("netout", "timer", "ret") /\ UNCHANGED pending
      BY <1>1, <2>2, <2>4, GotoType
      DEF TypeOK, NetoutWait, Threads, Locations, Channels, ToNetout, Paced
    <2> QED
      BY <2>1, <2>3, <2>4
  <1>2. ASSUME AfterEvent
        PROVE  /\ pc' \in [Threads -> Locations] /\ chan' \in [Threads -> Channels]
               /\ \/ pc'["netout"] = "timer" /\ chan'["netout"] = "ret"
                  \/ pc'["netout"] = "flush"
               /\ \A u \in Threads : u # "netout" => pc'[u] = pc[u] /\ chan'[u] = chan[u]
    <2>1. CASE Goto("netout", "timer", "ret")
      BY <2>1, GotoType DEF Threads, Locations, Channels, ToNetout
    <2>2. CASE Goto("netout", "flush", "out")
      BY <2>2, GotoType DEF Threads, Locations, Channels, ToKernel
    <2> QED
      BY <1>2, <2>1, <2>2 DEF AfterEvent
  <1>3. CASE NetoutControlEvent
    <2>1. /\ queue["ctr"] \in Seq(Nat) /\ done["ctr"] \in Seq(Nat) /\ txq \in Nat
          /\ <<>> \in Seq(Nat) /\ "ctr" \in Channels
      BY DEF TypeOK, Channels, ToNetout
    <2>2. done["ctr"] \o queue["ctr"] \in Seq(Nat)
      BY <2>1, ConcatProperties
    <2>3. txq' \in Nat
      BY <1>3, <2>1, LenProperties DEF NetoutControlEvent
    <2>4. queue' \in [Channels -> Seq(Nat)] /\ done' \in [Channels -> Seq(Nat)]
      BY <1>3, <2>1, <2>2 DEF TypeOK, NetoutControlEvent
    <2> QED
      BY <1>2, <1>3, <2>3, <2>4 DEF TypeOK, NetoutControlEvent, Threads, Paced
  <1>4. CASE NetoutPacedEvent
    <2> DEFINE c == chan["netout"]
    <2>1. c \in Channels /\ c \in Paced /\ <<>> \in Seq(Nat) /\ queue[c] \in Seq(Nat)
      BY <1>4 DEF TypeOK, NetoutPacedEvent, Channels, ToNetout, Paced
    <2>2. /\ queue' \in [Channels -> Seq(Nat)] /\ readq' \in [Channels -> Seq(Nat)]
          /\ msgPending' \in [Paced -> BOOLEAN]
      BY <1>4, <2>1 DEF TypeOK, NetoutPacedEvent
    <2> QED
      BY <1>2, <1>4, <2>2 DEF TypeOK, NetoutPacedEvent, Threads, Paced
  <1>5. CASE NetoutTimer
    <2> DEFINE c == chan["netout"]
    <2>1. c \in Paced /\ c \in Channels
      BY <1>5 DEF TypeOK, NetoutTimer, Channels, ToNetout, Paced
    <2>2. queue' \in [Channels -> Seq(Nat)] /\ msgPending' \in [Paced -> BOOLEAN]
      <3>1. queue' = [queue EXCEPT ![c] = IF ReadNow(c) THEN <<>> ELSE queue[c]]
        BY <1>5 DEF NetoutTimer
      <3>2. msgPending' = [msgPending EXCEPT ![c] = msgPending[c] /\ ~ReadNow(c)]
        BY <1>5 DEF NetoutTimer
      <3>3. queue' \in [Channels -> Seq(Nat)]
        BY <2>1, <3>1 DEF TypeOK
      <3>4. msgPending' \in [Paced -> BOOLEAN]
        BY <2>1, <3>2 DEF TypeOK
      <3> QED
        BY <3>3, <3>4
    <2>3. readq' \in [Channels -> Seq(Nat)]
      <3>1. readq' = [readq EXCEPT ![c] = SubSeq(Backlog(c), Handed(c) + 1, Len(Backlog(c)))]
        BY <1>5 DEF NetoutTimer
      <3> QED
        BY <2>1, <3>1, HandedType DEF TypeOK
    <2>4. done' \in [Channels -> Seq(Nat)]
      <3>1. done' = [done EXCEPT ![c] = done[c] \o SubSeq(Backlog(c), 1, Handed(c))]
        BY <1>5 DEF NetoutTimer
      <3>2. done[c] \o SubSeq(Backlog(c), 1, Handed(c)) \in Seq(Nat)
        BY <2>1, HandedType, ConcatProperties DEF TypeOK
      <3> QED
        BY <2>1, <3>1, <3>2 DEF TypeOK
    <2>5. txq' \in Nat
      <3>1. txq' = txq + Handed(c) /\ txq \in Nat
        BY <1>5 DEF NetoutTimer, TypeOK
      <3>2. Handed(c) \in Nat
        <4>1. Handed(c) \in 0..Len(Backlog(c)) /\ Backlog(c) \in Seq(Nat)
          BY <2>1, HandedType
        <4> QED
          BY <4>1, LenProperties
      <3> QED
        BY <3>1, <3>2
    <2>6. /\ exp' \in Nat
          /\ \/ c = "ret" /\ Goto("netout", "timer", "nor")
             \/ Goto("netout", "flush", "out")
      BY <1>5, <2>1, HandedType DEF NetoutTimer
    <2>7. UNCHANGED <<pending, sendq, made>>
      BY <1>5 DEF NetoutTimer
    <2>8. /\ pc' \in [Threads -> Locations] /\ chan' \in [Threads -> Channels]
          /\ \/ pc'["netout"] = "timer" /\ chan'["netout"] = "nor"
             \/ pc'["netout"] = "flush"
          /\ \A u \in Threads : u # "netout" => pc'[u] = pc[u] /\ chan'[u] = chan[u]
      BY <2>6, GotoType DEF Threads, Locations, Channels, ToNetout, ToKernel
    <2> QED
      BY <2>2, <2>3, <2>4, <2>5, <2>6, <2>7, <2>8 DEF TypeOK, Threads, Paced
  <1>6. CASE NetoutFlush
    <2>1. PICK n \in 0..txq :
            /\ made' = [made EXCEPT !["out"] = made["out"] + n]
            /\ sendq' = [sendq EXCEPT !["out"] = Fresh("out", n)]
            /\ Goto("netout", IF n > 0 THEN "write" ELSE "wait", "out")
      BY <1>6 DEF NetoutFlush
    <2>2. n \in Nat /\ "out" \in Channels /\ made \in [Channels -> Nat]
      BY DEF TypeOK, Channels, ToKernel
    <2>3. made["out"] + n \in Nat /\ Fresh("out", n) \in Seq(Nat)
      BY <2>2, FreshType
    <2>4. made' \in [Channels -> Nat] /\ sendq' \in [Channels -> Seq(Nat)]
      BY <2>1, <2>3 DEF TypeOK
    <2>5. /\ pc' \in [Threads -> Locations] /\ chan' \in [Threads -> Channels]
          /\ pc'["netout"] \in {"write", "wait"} /\ chan'["netout"] = "out"
          /\ \A u \in Threads : u # "netout" => pc'[u] = pc[u] /\ chan'[u] = chan[u]
      BY <2>1, <2>2, GotoType DEF Threads, Locations
    <2> QED
      BY <1>6, <2>4, <2>5 DEF TypeOK, NetoutFlush, Threads, sharedVars
  <1>7. CASE NetoutPanic
    BY <1>7, GotoType
    DEF TypeOK, NetoutPanic, Threads, Locations, Channels, ToKernel, sharedVars, netoutVars
  <1>8. CASE NetoutWrite
    BY <1>8, WriteMsgType
    DEF TypeOK, NetoutWrite, Threads, Channels, ToKernel, netoutVars
  <1>9. CASE NetoutSignal
    BY <1>9, SendSignalType DEF NetoutSignal, Threads
  <1> QED
    BY <1>1, <1>3, <1>4, <1>5, <1>6, <1>7, <1>8, <1>9 DEF Netout, NetoutLive

LEMMA NetinpType ==
  ASSUME TypeOK, Netinp
  PROVE  TypeOK'
  <1>1. CASE NetinpReceive
    <2>1. "in" \in Channels /\ made["in"] \in Nat
      BY DEF TypeOK, Channels, ToKernel
    <2>2. made["in"] + 1 \in Nat
      BY <2>1
    <2>3. sendq["in"] \o Fresh("in", 1) \in Seq(Nat)
      BY <2>1, FreshType, ConcatProperties DEF TypeOK
    <2>4. made' \in [Channels -> Nat] /\ sendq' \in [Channels -> Seq(Nat)]
      BY <1>1, <2>2, <2>3 DEF TypeOK, NetinpReceive
    <2>5. Goto("netinp", "write", "in")
      BY <1>1 DEF NetinpReceive
    <2> QED
      BY <1>1, <2>1, <2>4, <2>5, GotoType
      DEF TypeOK, NetinpReceive, Threads, Locations, sharedVars, netoutVars
  <1>2. CASE NetinpWrite
    BY <1>2, WriteMsgType
    DEF TypeOK, NetinpWrite, Threads, Channels, ToKernel, netoutVars
  <1>3. CASE NetinpSignal
    BY <1>3, SendSignalType DEF NetinpSignal, Threads
  <1> QED
    BY <1>1, <1>2, <1>3 DEF Netinp

\* TypeOK holds of every reachable state, for any bounds.
THEOREM TypeCorrect == Spec => []TypeOK
  <1>1. TypeOK /\ [Next]_vars => TypeOK'
    <2>1. TypeOK /\ UNCHANGED vars => TypeOK'
      BY DEF TypeOK, vars
    <2> QED
      BY <2>1, KernelType, NetoutType, NetinpType DEF Next
  <1> QED
    BY <1>1, TypeInit, PTL DEF Spec

-----------------------------------------------------------------------------
(* The wake-ups.                                                            *)

\* Before any thread runs every list is empty and nothing is on its way.
LEMMA WakeupInit == Init => WakeupInv
  <1> SUFFICES ASSUME Init PROVE WakeupInv
    OBVIOUS
  <1>1. TypeOK
    BY TypeInit
  <1>2. WriteNonempty
    BY DEF Init, WriteNonempty, Threads
  <1>3. ASSUME NEW c \in Channels
        PROVE  Wakeups(c) = One(queue[c] # <<>>)
    BY DEF Init, Wakeups, One, Signalling, Serving, Remembered, Writer, Reader, Threads
  <1> QED
    BY <1>1, <1>2, <1>3 DEF WakeupInv, WakeupExactlyOne

\* Only the thread itself fills its transmission list, before the write, and
\* only its own write empties it.
LEMMA WriteNonemptyStep ==
  ASSUME WakeupInv, Next
  PROVE  WriteNonempty'
  <1>1. pc \in [Threads -> Locations] /\ sendq \in [Channels -> Seq(Nat)] /\ WriteNonempty
    BY DEF WakeupInv, TypeOK
  <1>2. CASE Kernel
    <2>1. pc'["netinp"] = pc["netinp"] /\ pc'["netout"] = pc["netout"]
      <3>1. ASSUME NEW loc, NEW c, Goto("kernel", loc, c)
            PROVE  pc'["netinp"] = pc["netinp"] /\ pc'["netout"] = pc["netout"]
        BY <1>1, <3>1 DEF Goto, Threads
      <3> QED
        BY <1>2, <3>1
        DEF Kernel, KernelReadEvent, KernelOtherEvent, KernelRead, KernelProcess, KernelFlush,
            KernelFlushEmpty, KernelSignal, SendSignal, WriteMsg, ReturnWrite
    <2>2. sendq'["in"] = sendq["in"] /\ sendq'["out"] = sendq["out"]
      <3>1. "in" \in Channels /\ "out" \in Channels /\ "in" \notin ToNetout /\ "out" \notin ToNetout
        BY DEF Channels, ToNetout, ToKernel
      <3>2. CASE KernelProcess
        BY <3>1, <3>2, ItcAssumption DEF KernelProcess
      <3>3. CASE KernelFlush
        BY <1>1, <3>1, <3>3 DEF KernelFlush, WriteMsg, WakeupInv, TypeOK
      <3> QED
        BY <1>2, <3>2, <3>3
        DEF Kernel, KernelReadEvent, KernelOtherEvent, KernelRead, KernelFlushEmpty,
            KernelSignal, SendSignal
    <2> QED
      BY <1>1, <2>1, <2>2 DEF WriteNonempty
  <1>3. CASE Netout
    <2>1. pc'["netinp"] = pc["netinp"]
      <3>1. ASSUME NEW loc, NEW c, Goto("netout", loc, c)
            PROVE  pc'["netinp"] = pc["netinp"]
        BY <1>1, <3>1 DEF Goto, Threads
      <3> QED
        BY <1>3, <3>1
        DEF Netout, NetoutLive, NetoutWait, NetoutControlEvent, NetoutPacedEvent, NetoutTimer,
            NetoutFlush, NetoutPanic, NetoutWrite, NetoutSignal, AfterEvent, SendSignal,
            WriteMsg, ReturnWrite
    <2>2. sendq'["in"] = sendq["in"]
      BY <1>1, <1>3
      DEF Netout, NetoutLive, NetoutWait, NetoutControlEvent, NetoutPacedEvent, NetoutTimer,
          NetoutFlush, NetoutPanic, NetoutWrite, NetoutSignal, SendSignal, WriteMsg, Channels,
          ToKernel
    <2>3. pc'["netout"] = "write" => sendq'["out"] # <<>>
      <3>1. CASE NetoutFlush
        <4>1. PICK n \in 0..txq :
                /\ sendq' = [sendq EXCEPT !["out"] = Fresh("out", n)]
                /\ Goto("netout", IF n > 0 THEN "write" ELSE "wait", "out")
          BY <3>1 DEF NetoutFlush
        <4>2. n \in Nat /\ "out" \in Channels /\ made \in [Channels -> Nat]
          BY DEF WakeupInv, TypeOK, Channels, ToKernel
        <4>3. CASE n > 0
          <5>1. Len(Fresh("out", n)) = n
            BY <4>2, FreshType
          <5>2. Fresh("out", n) # <<>>
            BY <4>2, <4>3, <5>1, EmptySeq
          <5> QED
            BY <1>1, <4>1, <4>2, <5>2
        <4>4. CASE ~(n > 0)
          BY <1>1, <4>1, <4>4 DEF Goto, Threads
        <4> QED
          BY <4>3, <4>4
      <3>2. CASE ~NetoutFlush
        <4>1. ASSUME NEW loc, NEW c, loc # "write", Goto("netout", loc, c)
              PROVE  pc'["netout"] # "write"
          BY <1>1, <4>1 DEF Goto, Threads
        <4> QED
          BY <1>3, <3>2, <4>1
          DEF Netout, NetoutLive, NetoutWait, NetoutControlEvent, NetoutPacedEvent, NetoutTimer,
              NetoutPanic, NetoutWrite, NetoutSignal, AfterEvent, SendSignal, WriteMsg, ReturnWrite
      <3> QED
        BY <3>1, <3>2
    <2> QED
      BY <1>1, <2>1, <2>2, <2>3 DEF WriteNonempty
  <1>4. CASE Netinp
    <2>1. pc'["netout"] = pc["netout"] /\ sendq'["out"] = sendq["out"]
      <3>1. ASSUME NEW loc, NEW c, Goto("netinp", loc, c)
            PROVE  pc'["netout"] = pc["netout"]
        BY <1>1, <3>1 DEF Goto, Threads
      <3>2. "in" \in Channels /\ "out" \in Channels /\ chan["netinp"] = "in"
        BY DEF Channels, ToKernel, WakeupInv, TypeOK
      <3> QED
        BY <1>1, <1>4, <3>1, <3>2
        DEF Netinp, NetinpReceive, NetinpWrite, NetinpSignal, SendSignal, WriteMsg, ReturnWrite
    <2>2. pc'["netinp"] = "write" => sendq'["in"] # <<>>
      <3>1. CASE NetinpReceive
        <4>1. /\ "in" \in Channels /\ made \in [Channels -> Nat]
              /\ sendq' = [sendq EXCEPT !["in"] = sendq["in"] \o Fresh("in", 1)]
          BY <3>1 DEF NetinpReceive, WakeupInv, TypeOK, Channels, ToKernel
        <4>2. Fresh("in", 1) \in Seq(Nat) /\ Fresh("in", 1) # <<>>
          BY <4>1, FreshType, EmptySeq
        <4>3. sendq["in"] \o Fresh("in", 1) # <<>>
          BY <1>1, <4>1, <4>2, ConcatEqualIffEmpty
        <4> QED
          BY <1>1, <4>1, <4>3
      <3>2. CASE ~NetinpReceive
        <4>1. ASSUME NEW loc, NEW c, loc # "write", Goto("netinp", loc, c)
              PROVE  pc'["netinp"] # "write"
          BY <1>1, <4>1 DEF Goto, Threads
        <4> QED
          BY <1>4, <3>2, <4>1
          DEF Netinp, NetinpWrite, NetinpSignal, SendSignal, WriteMsg, ReturnWrite
      <3> QED
        BY <3>1, <3>2
    <2> QED
      BY <1>1, <2>1, <2>2 DEF WriteNonempty
  <1> QED
    BY <1>2, <1>3, <1>4 DEF Next

\* Every step keeps one wake-up on its way for each list that holds messages.
LEMMA WakeupStep ==
  ASSUME WakeupInv, Next
  PROVE  WakeupExactlyOne'
  <1>1. ASSUME NEW t \in Threads, NEW loc \in Locations, NEW c \in Channels, Goto(t, loc, c)
        PROVE  /\ pc' \in [Threads -> Locations] /\ pc'[t] = loc
               /\ \A u \in Threads : u # t => pc'[u] = pc[u] /\ chan'[u] = chan[u]
    BY <1>1, GotoType DEF WakeupInv
  <1>2. CASE Kernel
    <2>1. CASE KernelReadEvent
      <3>1. PICK c \in ToKernel : ReadEvent("kernel", c) /\ Goto("kernel", "read", c)
        BY <2>1 DEF KernelReadEvent
      <3>2. pc["kernel"] = "wait" /\ UNCHANGED <<queue, msgPending>> /\ c \in Channels
        BY <2>1 DEF KernelReadEvent, netoutVars, Channels
      <3> QED
        BY <3>1, <3>2, ReadEventStep
    <2>2. CASE KernelOtherEvent
      <3>1. pc["kernel"] = "wait" /\ Goto("kernel", "process", "nor") /\ UNCHANGED <<queue, pending, msgPending>>
        BY <2>2 DEF KernelOtherEvent, sharedVars, netoutVars
      <3> QED
        BY <1>1, <3>1, LocalStep DEF Threads, Locations, Channels, ToNetout
    <2>3. CASE KernelRead
      <3> DEFINE c == chan["kernel"]
      <3>1. /\ pc["kernel"] = "read" /\ c \in Channels /\ Reader(c) = "kernel"
            /\ queue' = [queue EXCEPT ![c] = <<>>]
            /\ Goto("kernel", "process", "nor") /\ UNCHANGED <<pending, msgPending>>
        BY <2>3 DEF KernelRead, netoutVars, WakeupInv, TypeOK, Reader, ToNetout, ToKernel, Channels
      <3> QED
        BY <1>1, <3>1, DrainStep DEF Threads, Locations, Channels, ToNetout
    <2>4. CASE KernelProcess
      <3>1. /\ pc["kernel"] = "process" /\ Goto("kernel", "flush", "ctr")
            /\ UNCHANGED <<queue, pending, msgPending>>
        BY <2>4 DEF KernelProcess, sharedVars, netoutVars
      <3> QED
        BY <1>1, <3>1, LocalStep DEF Threads, Locations, Channels, ToNetout
    <2>5. CASE KernelFlush
      <3> DEFINE c == chan["kernel"]
      <3>1. /\ pc["kernel"] = "flush" /\ c \in Channels /\ Writer(c) = "kernel" /\ sendq[c] # <<>>
            /\ WriteMsg("kernel", c) /\ UNCHANGED <<pending, msgPending>>
        BY <2>5 DEF KernelFlush, netoutVars, WakeupInv, TypeOK, Writer, ToNetout, Channels
      <3> QED
        BY <3>1, WriteMsgStep DEF Threads
    <2>6. CASE KernelFlushEmpty
      <3>1. /\ pc["kernel"] = "flush" /\ chan["kernel"] \in Channels
            /\ ReturnWrite("kernel", chan["kernel"]) /\ UNCHANGED <<queue, pending, msgPending>>
        BY <2>6 DEF KernelFlushEmpty, sharedVars, netoutVars, WakeupInv, TypeOK, Threads
      <3>2. /\ pc'["kernel"] \in {"flush", "wait"}
            /\ \A u \in Threads : u # "kernel" => pc'[u] = pc[u] /\ chan'[u] = chan[u]
        BY <3>1, ReturnWriteType DEF WakeupInv, Threads
      <3> QED
        BY <3>1, <3>2, LocalStep DEF Threads
    <2>7. CASE KernelSignal
      BY <2>7, SendSignalStep DEF KernelSignal, Threads
    <2> QED
      BY <1>2, <2>1, <2>2, <2>3, <2>4, <2>5, <2>6, <2>7 DEF Kernel
  <1>3. CASE Netout
    <2>1. CASE NetoutWait
      <3>1. /\ pc["netout"] = "wait" /\ UNCHANGED <<queue, msgPending>>
            /\ \/ \E c \in ToNetout : ReadEvent("netout", c) /\ Goto("netout", "event", c)
               \/ Goto("netout", "timer", "ret") /\ UNCHANGED pending
        BY <2>1 DEF NetoutWait
      <3>2. CASE \E c \in ToNetout : ReadEvent("netout", c) /\ Goto("netout", "event", c)
        BY <3>1, <3>2, ReadEventStep DEF Channels
      <3>3. CASE Goto("netout", "timer", "ret") /\ UNCHANGED pending
        BY <1>1, <3>1, <3>3, LocalStep DEF Threads, Locations, Channels, ToNetout
      <3> QED
        BY <3>1, <3>2, <3>3
    <2>2. CASE NetoutControlEvent
      <3>1. /\ pc["netout"] = "event" /\ chan["netout"] = "ctr" /\ Reader("ctr") = "netout"
            /\ queue' = [queue EXCEPT !["ctr"] = <<>>] /\ UNCHANGED <<pending, msgPending>>
            /\ AfterEvent
        BY <2>2 DEF NetoutControlEvent, Reader, ToNetout
      <3>2. /\ pc' \in [Threads -> Locations] /\ pc'["netout"] \in {"timer", "flush"}
            /\ \A u \in Threads : u # "netout" => pc'[u] = pc[u] /\ chan'[u] = chan[u]
        BY <1>1, <3>1 DEF AfterEvent, Threads, Locations, Channels, ToNetout, ToKernel
      <3> QED
        BY <3>1, <3>2, DrainStep DEF Channels, ToNetout
    <2>3. CASE NetoutPacedEvent
      BY <2>3, PacedEventStep
    <2>4. CASE NetoutTimer
      BY <2>4, TimerStep
    <2>5. CASE NetoutFlush
      <3>1. /\ pc["netout"] = "flush" /\ UNCHANGED <<queue, pending, msgPending>>
            /\ \E loc \in {"write", "wait"} : Goto("netout", loc, "out")
        BY <2>5 DEF NetoutFlush, sharedVars
      <3> QED
        BY <1>1, <3>1, LocalStep DEF Threads, Locations, Channels, ToKernel
    <2>6. CASE NetoutPanic
      <3>1. /\ pc["netout"] = "flush" /\ UNCHANGED <<queue, pending, msgPending>>
            /\ Goto("netout", "dead", "out")
        BY <2>6 DEF NetoutPanic, sharedVars, netoutVars
      <3> QED
        BY <1>1, <3>1, LocalStep DEF Threads, Locations, Channels, ToKernel
    <2>7. CASE NetoutWrite
      <3>1. /\ pc["netout"] = "write" /\ Writer("out") = "netout" /\ sendq["out"] # <<>>
            /\ WriteMsg("netout", "out") /\ UNCHANGED <<pending, msgPending>>
        BY <2>7 DEF NetoutWrite, netoutVars, WakeupInv, WriteNonempty, Writer, ToNetout
      <3> QED
        BY <3>1, WriteMsgStep DEF Threads, Channels, ToKernel
    <2>8. CASE NetoutSignal
      BY <2>8, SendSignalStep DEF NetoutSignal, Threads
    <2> QED
      BY <1>3, <2>1, <2>2, <2>3, <2>4, <2>5, <2>6, <2>7, <2>8 DEF Netout, NetoutLive
  <1>4. CASE Netinp
    <2>1. CASE NetinpReceive
      <3>1. /\ pc["netinp"] = "wait" /\ UNCHANGED <<queue, pending, msgPending>>
            /\ Goto("netinp", "write", "in")
        BY <2>1 DEF NetinpReceive, sharedVars, netoutVars
      <3> QED
        BY <1>1, <3>1, LocalStep DEF Threads, Locations, Channels, ToKernel
    <2>2. CASE NetinpWrite
      <3>1. /\ pc["netinp"] = "write" /\ Writer("in") = "netinp" /\ sendq["in"] # <<>>
            /\ WriteMsg("netinp", "in") /\ UNCHANGED <<pending, msgPending>>
        BY <2>2 DEF NetinpWrite, netoutVars, WakeupInv, WriteNonempty, Writer, ToNetout
      <3> QED
        BY <3>1, WriteMsgStep DEF Threads, Channels, ToKernel
    <2>3. CASE NetinpSignal
      BY <2>3, SendSignalStep DEF NetinpSignal, Threads
    <2> QED
      BY <1>4, <2>1, <2>2, <2>3 DEF Netinp
  <1> QED
    BY <1>2, <1>3, <1>4 DEF Next

\* WakeupExactlyOne holds of every reachable state: no interleaving of the
\* three threads loses a wake-up or sends a spurious one.
THEOREM WakeupCorrect == Spec => []WakeupExactlyOne
  <1>1. WakeupInv /\ [Next]_vars => WakeupInv'
    <2>1. ASSUME WakeupInv, UNCHANGED vars PROVE WakeupInv'
      BY <2>1
      DEF WakeupInv, TypeOK, WriteNonempty, WakeupExactlyOne, Wakeups, One, Signalling, Serving,
          Remembered, vars
    <2>2. ASSUME WakeupInv, Next PROVE WakeupInv'
      BY <2>2, KernelType, NetoutType, NetinpType, WriteNonemptyStep, WakeupStep DEF WakeupInv, Next
    <2> QED
      BY <2>1, <2>2
  <1>2. WakeupInv => WakeupExactlyOne
    BY DEF WakeupInv
  <1> QED
    BY <1>1, <1>2, WakeupInit, PTL DEF Spec

-----------------------------------------------------------------------------
(* Each channel is a mailbox: nothing is lost, repeated or reordered.       *)

\* What the argument needs besides types: output() keeps no control message
\* in its private list, and what it returns to the kernel leaves its list in
\* the write that follows, so that the assignment of flushqueue() to the list
\* never drops a message.
NothingKept ==
  /\ readq["ctr"] = <<>>
  /\ pc["netout"] # "write" => sendq["out"] = <<>>

MailInv == TypeOK /\ NothingKept

\* The two things a step may do to a channel: put the next messages behind
\* what is inside, or take some from the front.
Filled(c) ==
  /\ done'[c] = done[c]
  /\ \E n \in Nat : made'[c] = made[c] + n /\ Inside(c)' = Inside(c) \o Fresh(c, n)

Emptied(c) ==
  /\ made'[c] = made[c]
  /\ \E n \in 0..Len(Inside(c)) :
       /\ done'[c] = done[c] \o SubSeq(Inside(c), 1, n)
       /\ Inside(c)' = SubSeq(Inside(c), n + 1, Len(Inside(c)))

\* Lists of messages are put together in any grouping.
LEMMA Regroup == \A a, b, d \in Seq(Nat) : (a \o b) \o d = a \o (b \o d)
  BY SMTT(60)

\* What is behind the front of a concatenation.
LEMMA RestOfConcat ==
  ASSUME NEW x \in Seq(Nat), NEW y \in Seq(Nat)
  PROVE  SubSeq(x \o y, Len(x) + 1, Len(x \o y)) = y
  <1>1. Len(x) \in Nat /\ Len(y) \in Nat /\ Len(x \o y) = Len(x) + Len(y)
    BY LenProperties, ConcatProperties
  <1>2. CASE y = <<>>
    BY <1>1, <1>2, EmptySeq, SubSeqEmpty
  <1>3. CASE y # <<>>
    <2>1. Len(y) \in Nat \ {0}
      BY <1>3, EmptySeq
    <2>2. Len(x) + 1 \in Len(x) + 1..Len(x) + Len(y) /\ Len(x) + Len(y) \in Len(x) + 1..Len(x) + Len(y)
      BY <1>1, <2>1
    <2>3. SubSeq(x \o y, Len(x) + 1, Len(x) + Len(y))
            = SubSeq(y, Len(x) + 1 - Len(x), Len(x) + Len(y) - Len(x))
      BY <2>2, SubSeqOfConcat2
    <2>4. Len(x) + 1 - Len(x) = 1 /\ Len(x) + Len(y) - Len(x) = Len(y)
      BY <1>1
    <2> QED
      BY <1>1, <2>3, <2>4, SubSeqFull
  <1> QED
    BY <1>2, <1>3

\* Taking from the front of a sequence with something behind it.
LEMMA FrontOfConcat ==
  ASSUME NEW a \in Seq(Nat), NEW r \in Seq(Nat), NEW n \in 0..Len(a)
  PROVE  /\ SubSeq(a \o r, 1, n) = SubSeq(a, 1, n)
         /\ SubSeq(a \o r, n + 1, Len(a \o r)) = SubSeq(a, n + 1, Len(a)) \o r
  <1> DEFINE x == SubSeq(a, 1, n)
             b == SubSeq(a, n + 1, Len(a))
  <1>1. Len(a) \in Nat /\ n \in Nat /\ n <= Len(a)
    BY LenProperties
  <1>2. SubSeq(a \o r, 1, n) = SubSeq(a, 1, n)
    <2>1. CASE n = 0
      BY <2>1, SubSeqEmpty
    <2>2. CASE n # 0
      BY <1>1, <2>2, SubSeqOfConcat1
    <2> QED
      BY <2>1, <2>2
  <1>3. x \o b = a
    <2>1. 1 \in 1..Len(a) + 1 /\ n \in 1 - 1..Len(a) /\ Len(a) \in n..Len(a)
      BY <1>1
    <2>2. x \o b = SubSeq(a, 1, Len(a))
      BY <2>1, ConcatAdjacentSubSeq
    <2> QED
      BY <2>2, SubSeqFull
  <1>4. x \in Seq(Nat) /\ Len(x) = n
    <2>1. \A i \in 1..n : a[i] \in Nat
      BY <1>1, ElementOfSeq
    <2>2. x \in Seq(Nat) /\ Len(x) = IF 1 <= n THEN n - 1 + 1 ELSE 0
      BY <1>1, <2>1, SubSeqProperties
    <2> HIDE DEF x
    <2> QED
      BY <1>1, <2>2
  <1>5. b \in Seq(Nat)
    <2>1. \A i \in n + 1..Len(a) : a[i] \in Nat
      BY <1>1, ElementOfSeq
    <2> QED
      BY <1>1, <2>1, SubSeqProperties
  <1> HIDE DEF x, b
  <1>6. a \o r = x \o (b \o r) /\ b \o r \in Seq(Nat)
    <2>1. (x \o b) \o r = x \o (b \o r)
      BY <1>4, <1>5, Regroup
    <2>2. b \o r \in Seq(Nat)
      BY <1>5, ConcatProperties
    <2> QED
      BY <1>3, <2>1, <2>2
  <1>7. SubSeq(a \o r, n + 1, Len(a \o r)) = b \o r
    BY <1>4, <1>6, RestOfConcat
  <1> QED
    BY <1>2, <1>7 DEF b

\* The next messages continue the numbering.
LEMMA FreshContinues ==
  ASSUME NEW c \in Channels, NEW n \in Nat, made \in [Channels -> Nat]
  PROVE  [i \in 1..made[c] |-> i] \o Fresh(c, n) = [i \in 1..made[c] + n |-> i]
  <1> DEFINE m == made[c]
             a == [i \in 1..m |-> i]
             z == [i \in 1..m + n |-> i]
             f == Fresh(c, n)
  <1>1. m \in Nat
    OBVIOUS
  <1>2. a \in Seq(Nat) /\ z \in Seq(Nat) /\ f \in Seq(Nat)
    <2>1. (\A i \in 1..m : i \in Nat) /\ (\A i \in 1..m + n : i \in Nat) /\ m + n \in Nat
      BY <1>1
    <2>2. a \in Seq(Nat)
      BY <1>1, <2>1, IsASeq
    <2>3. z \in Seq(Nat)
      BY <1>1, <2>1, IsASeq
    <2> QED
      BY <2>2, <2>3, FreshType
  <1>3. /\ Len(a) = m /\ \A i \in 1..m : a[i] = i
        /\ Len(z) = m + n /\ \A i \in 1..m + n : z[i] = i
        /\ Len(f) = n /\ \A i \in 1..n : f[i] = m + i
    BY <1>1, FreshType DEF Fresh
  <1> HIDE DEF a, z, f, m
  <1>4. /\ a \o f \in Seq(Nat) /\ Len(a \o f) = m + n
        /\ \A i \in 1..m + n : (a \o f)[i] = IF i <= m THEN a[i] ELSE f[i - m]
    <2>1. /\ a \o f \in Seq(Nat) /\ Len(a \o f) = Len(a) + Len(f)
          /\ \A i \in 1..Len(a) + Len(f) :
               (a \o f)[i] = IF i <= Len(a) THEN a[i] ELSE f[i - Len(a)]
      BY <1>2, ConcatProperties
    <2> QED
      BY <1>3, <2>1
  <1>5. \A i \in 1..m + n : (a \o f)[i] = z[i]
    BY <1>1, <1>3, <1>4
  <1>6. a \o f = z
    BY <1>2, <1>3, <1>4, <1>5, SeqEqual
  <1> QED
    BY <1>6 DEF a, z, f, m

\* The parts of a channel and the channel are sequences.
LEMMA InsideType ==
  ASSUME TypeOK, NEW c \in Channels
  PROVE  /\ readq[c] \in Seq(Nat) /\ queue[c] \in Seq(Nat) /\ sendq[c] \in Seq(Nat)
         /\ done[c] \in Seq(Nat) /\ made[c] \in Nat
         /\ Inside(c) \in Seq(Nat)
         /\ Inside(c) = readq[c] \o (queue[c] \o sendq[c])
  <1>1. /\ readq[c] \in Seq(Nat) /\ queue[c] \in Seq(Nat) /\ sendq[c] \in Seq(Nat)
        /\ done[c] \in Seq(Nat) /\ made[c] \in Nat
    BY DEF TypeOK
  <1>2. readq[c] \o queue[c] \in Seq(Nat)
    BY <1>1, ConcatProperties
  <1>3. (readq[c] \o queue[c]) \o sendq[c] \in Seq(Nat)
    BY <1>1, <1>2, ConcatProperties
  <1>4. (readq[c] \o queue[c]) \o sendq[c] = readq[c] \o (queue[c] \o sendq[c])
    BY <1>1, Regroup
  <1> QED
    BY <1>1, <1>3, <1>4 DEF Inside

\* A step that leaves what is inside as it is, wherever in the channel it lies.
LEMMA Kept ==
  ASSUME TypeOK, NEW c \in Channels, Inside(c)' = Inside(c), done'[c] = done[c], made'[c] = made[c]
  PROVE  Filled(c)
  <1>1. Inside(c) \in Seq(Nat) /\ made[c] \in Nat /\ made \in [Channels -> Nat]
    BY InsideType DEF TypeOK
  <1>2. Fresh(c, 0) = <<>>
    BY <1>1, FreshType, EmptySeq
  <1>3. made'[c] = made[c] + 0 /\ Inside(c)' = Inside(c) \o Fresh(c, 0)
    BY <1>1, <1>2, ConcatEmptySeq
  <1> QED
    BY <1>3 DEF Filled

\* The critical section of a write moves the private list behind the shared one.
LEMMA WriteMsgMail ==
  ASSUME TypeOK, NEW t, NEW d \in Channels, WriteMsg(t, d), UNCHANGED <<readq, made, done>>,
         NEW c \in Channels
  PROVE  Filled(c)
  <1>1. /\ queue' = [queue EXCEPT ![d] = queue[d] \o sendq[d]]
        /\ sendq' = [sendq EXCEPT ![d] = <<>>]
    BY DEF WriteMsg
  <1>2. Inside(c)' = Inside(c)
    <2>1. CASE c = d
      <3>1. queue'[c] = queue[c] \o sendq[c] /\ sendq'[c] = <<>>
        BY <1>1, <2>1 DEF TypeOK
      <3>2. (readq[c] \o (queue[c] \o sendq[c])) \o <<>> = Inside(c)
        BY InsideType, ConcatEmptySeq
      <3> QED
        BY <3>1, <3>2 DEF Inside
    <2>2. CASE c # d
      BY <1>1, <2>2 DEF TypeOK, Inside
    <2> QED
      BY <2>1, <2>2
  <1> QED
    BY <1>2, Kept

\* What output() or the kernel takes from the front of its private list, with
\* the shared list read first (queue is then empty) or not.
LEMMA TakeFront ==
  ASSUME TypeOK, NEW c \in Channels, NEW list \in Seq(Nat), NEW rest \in Seq(Nat),
         NEW n \in 0..Len(list), Inside(c) = list \o rest,
         done'[c] = done[c] \o SubSeq(list, 1, n),
         Inside(c)' = SubSeq(list, n + 1, Len(list)) \o rest,
         made'[c] = made[c]
  PROVE  Emptied(c)
  <1>1. Len(list) \in Nat /\ Len(rest) \in Nat /\ Len(Inside(c)) = Len(list) + Len(rest)
    BY LenProperties, ConcatProperties
  <1>2. n \in 0..Len(Inside(c))
    BY <1>1
  <1>3. /\ SubSeq(list \o rest, 1, n) = SubSeq(list, 1, n)
        /\ SubSeq(list \o rest, n + 1, Len(list \o rest)) = SubSeq(list, n + 1, Len(list)) \o rest
    BY FrontOfConcat
  <1> QED
    BY <1>2, <1>3 DEF Emptied

\* Every step of the kernel fills or empties each channel, or keeps it.
LEMMA KernelMail ==
  ASSUME MailInv, Kernel, NEW c \in Channels
  PROVE  Filled(c) \/ Emptied(c)
  <1>1. TypeOK /\ pc["kernel"] \in {"wait", "read", "process", "flush", "signal"}
    BY DEF MailInv, TypeOK
  <1>2. CASE KernelReadEvent \/ KernelOtherEvent \/ KernelFlushEmpty \/ KernelSignal
    <2>1. UNCHANGED <<queue, sendq, readq, made, done>>
      BY <1>2
      DEF KernelReadEvent, KernelOtherEvent, KernelFlushEmpty, KernelSignal, SendSignal, sharedVars
    <2> QED
      BY <1>1, <2>1, Kept DEF Inside
  <1>3. CASE KernelRead
    <2> DEFINE d == chan["kernel"]
    <2>1. /\ readq' = [readq EXCEPT ![d] = readq[d] \o queue[d]]
          /\ queue' = [queue EXCEPT ![d] = <<>>]
          /\ UNCHANGED <<sendq, made, done>>
      BY <1>3 DEF KernelRead
    <2>2. Inside(c)' = Inside(c)
      <3>1. CASE c = d
        <4>1. readq'[c] = readq[c] \o queue[c] /\ queue'[c] = <<>> /\ sendq'[c] = sendq[c]
          BY <1>1, <2>1, <3>1 DEF TypeOK
        <4>2. (readq[c] \o queue[c]) \o <<>> = readq[c] \o queue[c]
          <5>1. readq[c] \in Seq(Nat) /\ queue[c] \in Seq(Nat)
            BY <1>1, InsideType
          <5>2. readq[c] \o queue[c] \in Seq(Nat)
            BY <5>1, ConcatProperties
          <5> QED
            BY <5>2, ConcatEmptySeq
        <4> QED
          BY <4>1, <4>2 DEF Inside
      <3>2. CASE c # d
        BY <1>1, <2>1, <3>2 DEF TypeOK, Inside
      <3> QED
        BY <3>1, <3>2
    <2> QED
      BY <1>1, <2>1, <2>2, Kept
  <1>4. CASE KernelProcess
    <2>1. PICK n \in [KernelTx -> 0..MaxBatch] :
            /\ made' = [d \in Channels |-> IF d \in KernelTx THEN made[d] + n[d] ELSE made[d]]
            /\ sendq' = [d \in Channels |->
                           IF d \in KernelTx THEN sendq[d] \o Fresh(d, n[d]) ELSE sendq[d]]
      BY <1>4 DEF KernelProcess
    <2>2. /\ done' = [d \in Channels |-> IF d \in ToKernel THEN done[d] \o readq[d] ELSE done[d]]
          /\ readq' = [d \in Channels |-> IF d \in ToKernel THEN <<>> ELSE readq[d]]
          /\ queue' = queue
      BY <1>4 DEF KernelProcess, sharedVars
    <2>3. /\ readq[c] \in Seq(Nat) /\ queue[c] \in Seq(Nat) /\ sendq[c] \in Seq(Nat)
          /\ Inside(c) = readq[c] \o (queue[c] \o sendq[c])
          /\ queue[c] \o sendq[c] \in Seq(Nat) /\ Inside(c) \in Seq(Nat)
      BY <1>1, InsideType, ConcatProperties
    <2>4. CASE c \in ToKernel
      <3>1. c \notin KernelTx
        BY <2>4, ItcAssumption DEF ToKernel, ToNetout
      <3>2. /\ done'[c] = done[c] \o readq[c] /\ readq'[c] = <<>>
            /\ queue'[c] = queue[c] /\ sendq'[c] = sendq[c] /\ made'[c] = made[c]
        BY <2>1, <2>2, <2>4, <3>1
      <3>3. Len(readq[c]) \in 0..Len(readq[c]) /\ Len(readq[c]) \in Nat
        BY <2>3, LenProperties
      <3>4. SubSeq(readq[c], 1, Len(readq[c])) = readq[c]
        BY <2>3, SubSeqFull
      <3>5. SubSeq(readq[c], Len(readq[c]) + 1, Len(readq[c])) = <<>>
        BY <3>3, SubSeqEmpty
      <3>6. Inside(c)' = <<>> \o (queue[c] \o sendq[c])
        <4>1. <<>> \o queue[c] = queue[c] /\ <<>> \o (queue[c] \o sendq[c]) = queue[c] \o sendq[c]
          BY <2>3, ConcatEmptySeq
        <4> QED
          BY <3>2, <4>1 DEF Inside
      <3>7. /\ done'[c] = done[c] \o SubSeq(readq[c], 1, Len(readq[c]))
            /\ Inside(c)' = SubSeq(readq[c], Len(readq[c]) + 1, Len(readq[c])) \o (queue[c] \o sendq[c])
        BY <3>2, <3>4, <3>5, <3>6
      <3>8. \A list, rest \in Seq(Nat) : \A k \in 0..Len(list) :
              (/\ Inside(c) = list \o rest /\ done'[c] = done[c] \o SubSeq(list, 1, k)
               /\ Inside(c)' = SubSeq(list, k + 1, Len(list)) \o rest) => Emptied(c)
        BY <1>1, <3>2, TakeFront
      <3> QED
        BY <2>3, <3>3, <3>7, <3>8
    <2>5. CASE c \in KernelTx
      <3>1. c \notin ToKernel /\ n[c] \in Nat /\ made \in [Channels -> Nat]
        <4>1. n[c] \in 0..MaxBatch /\ MaxBatch \in Nat
          BY <2>5, ItcAssumption
        <4>2. c \notin ToKernel
          BY <2>5, ItcAssumption DEF ToKernel, ToNetout
        <4> QED
          BY <1>1, <4>1, <4>2 DEF TypeOK
      <3>2. /\ done'[c] = done[c] /\ readq'[c] = readq[c] /\ queue'[c] = queue[c]
            /\ sendq'[c] = sendq[c] \o Fresh(c, n[c]) /\ made'[c] = made[c] + n[c]
        BY <2>1, <2>2, <2>5, <3>1
      <3>3. Fresh(c, n[c]) \in Seq(Nat)
        BY <3>1, FreshType
      <3>4. Inside(c)' = Inside(c) \o Fresh(c, n[c])
        <4>1. readq[c] \o queue[c] \in Seq(Nat)
          BY <2>3, ConcatProperties
        <4>2. ((readq[c] \o queue[c]) \o sendq[c]) \o Fresh(c, n[c])
                = (readq[c] \o queue[c]) \o (sendq[c] \o Fresh(c, n[c]))
          BY <2>3, <3>3, <4>1, Regroup
        <4> QED
          BY <3>2, <4>2 DEF Inside
      <3> QED
        BY <3>1, <3>2, <3>4 DEF Filled
    <2>6. CASE c \notin ToKernel /\ c \notin KernelTx
      <3>1. /\ done'[c] = done[c] /\ readq'[c] = readq[c] /\ queue'[c] = queue[c]
            /\ sendq'[c] = sendq[c] /\ made'[c] = made[c]
        BY <2>1, <2>2, <2>6
      <3> QED
        BY <1>1, <3>1, Kept DEF Inside
    <2> QED
      BY <2>4, <2>5, <2>6
  <1>5. CASE KernelFlush
    <2>1. chan["kernel"] \in Channels /\ WriteMsg("kernel", chan["kernel"]) /\ UNCHANGED <<readq, made, done>>
      BY <1>1, <1>5 DEF KernelFlush, TypeOK, Threads
    <2> QED
      BY <1>1, <2>1, WriteMsgMail
  <1> QED
    BY <1>2, <1>3, <1>4, <1>5 DEF Kernel

\* Every step of the output thread.  What it takes of a paced list is the
\* front of its backlog, which is the private list with or without the shared
\* one; what it takes of the control list is the shared list as a whole.
LEMMA NetoutMail ==
  ASSUME MailInv, Netout, NEW c \in Channels
  PROVE  Filled(c) \/ Emptied(c)
  <1>1. TypeOK /\ readq["ctr"] = <<>> /\ (pc["netout"] # "write" => sendq["out"] = <<>>)
    BY DEF MailInv, NothingKept
  <1>2. /\ readq[c] \in Seq(Nat) /\ queue[c] \in Seq(Nat) /\ sendq[c] \in Seq(Nat)
        /\ Inside(c) = readq[c] \o (queue[c] \o sendq[c])
        /\ queue[c] \o sendq[c] \in Seq(Nat) /\ Inside(c) \in Seq(Nat)
        /\ readq[c] \o queue[c] \in Seq(Nat)
    BY <1>1, InsideType, ConcatProperties
  <1>3. ASSUME done'[c] = done[c], made'[c] = made[c], readq'[c] = readq[c],
               queue'[c] = queue[c], sendq'[c] = sendq[c]
        PROVE  Filled(c)
    BY <1>1, <1>3, Kept DEF Inside
  <1>4. ASSUME NEW list \in Seq(Nat), NEW rest \in Seq(Nat), NEW n \in 0..Len(list),
               Inside(c) = list \o rest, done'[c] = done[c] \o SubSeq(list, 1, n),
               Inside(c)' = SubSeq(list, n + 1, Len(list)) \o rest, made'[c] = made[c]
        PROVE  Emptied(c)
    BY <1>1, <1>4, TakeFront
  <1>5. CASE NetoutWait \/ NetoutPanic \/ NetoutSignal
    <2>1. UNCHANGED <<queue, sendq, readq, made, done>>
      BY <1>5 DEF NetoutWait, NetoutPanic, NetoutSignal, SendSignal, sharedVars
    <2> QED
      BY <1>3, <2>1
  <1>6. CASE NetoutControlEvent
    <2>1. /\ queue' = [queue EXCEPT !["ctr"] = <<>>]
          /\ done' = [done EXCEPT !["ctr"] = done["ctr"] \o queue["ctr"]]
          /\ UNCHANGED <<sendq, readq, made>>
      BY <1>6 DEF NetoutControlEvent
    <2>2. CASE c = "ctr"
      <3>1. queue'[c] = <<>> /\ done'[c] = done[c] \o queue[c] /\ readq'[c] = <<>> /\ readq[c] = <<>>
        BY <1>1, <2>1, <2>2 DEF TypeOK
      <3>2. Len(queue[c]) \in Nat /\ Len(queue[c]) \in 0..Len(queue[c])
        BY <1>2, LenProperties
      <3>3. SubSeq(queue[c], 1, Len(queue[c])) = queue[c]
        BY <1>2, SubSeqFull
      <3>4. SubSeq(queue[c], Len(queue[c]) + 1, Len(queue[c])) = <<>>
        BY <3>2, SubSeqEmpty
      <3>5. Inside(c) = queue[c] \o sendq[c]
        BY <1>2, <3>1, ConcatEmptySeq
      <3>6. Inside(c)' = <<>> \o sendq[c]
        <4>1. <<>> \o <<>> = <<>>
          BY ConcatEmptySeq, EmptySeq
        <4> QED
          BY <2>1, <3>1, <4>1 DEF Inside
      <3>7. /\ done'[c] = done[c] \o SubSeq(queue[c], 1, Len(queue[c]))
            /\ Inside(c)' = SubSeq(queue[c], Len(queue[c]) + 1, Len(queue[c])) \o sendq[c]
        BY <3>1, <3>3, <3>4, <3>6
      <3> QED
        BY <1>2, <1>4, <2>1, <3>2, <3>5, <3>7
    <2>3. CASE c # "ctr"
      <3>1. queue'[c] = queue[c] /\ done'[c] = done[c]
        BY <1>1, <2>1, <2>3 DEF TypeOK
      <3> QED
        BY <1>3, <2>1, <3>1
    <2> QED
      BY <2>2, <2>3
  <1>7. CASE NetoutPacedEvent
    <2> DEFINE d == chan["netout"]
    <2>1. CASE readq[d] # <<>>
      <3>1. UNCHANGED <<queue, readq, sendq, made, done>>
        BY <1>7, <2>1 DEF NetoutPacedEvent
      <3> QED
        BY <1>3, <3>1
    <2>2. CASE readq[d] = <<>>
      <3>1. /\ readq' = [readq EXCEPT ![d] = queue[d]] /\ queue' = [queue EXCEPT ![d] = <<>>]
            /\ UNCHANGED <<sendq, made, done>>
        BY <1>7, <2>2 DEF NetoutPacedEvent
      <3>2. CASE c = d
        <4>1. readq'[c] = queue[c] /\ queue'[c] = <<>> /\ readq[c] = <<>>
          BY <1>1, <2>2, <3>1, <3>2 DEF TypeOK
        <4>2. queue[c] \o <<>> = queue[c] /\ <<>> \o queue[c] = queue[c]
          BY <1>2, ConcatEmptySeq
        <4>3. Inside(c)' = Inside(c)
          BY <3>1, <4>1, <4>2 DEF Inside
        <4> QED
          BY <1>1, <3>1, <4>3, Kept
      <3>3. CASE c # d
        <4>1. readq'[c] = readq[c] /\ queue'[c] = queue[c]
          BY <1>1, <3>1, <3>3 DEF TypeOK
        <4> QED
          BY <1>3, <3>1, <4>1
      <3> QED
        BY <3>2, <3>3
    <2> QED
      BY <2>1, <2>2
  <1>8. CASE NetoutTimer
    <2> DEFINE d == chan["netout"]
               left == SubSeq(Backlog(d), Handed(d) + 1, Len(Backlog(d)))
    <2>1. /\ d \in Paced /\ d \in Channels
          /\ queue' = [queue EXCEPT ![d] = IF ReadNow(d) THEN <<>> ELSE queue[d]]
          /\ readq' = [readq EXCEPT ![d] = left]
          /\ done' = [done EXCEPT ![d] = done[d] \o SubSeq(Backlog(d), 1, Handed(d))]
          /\ UNCHANGED <<sendq, made>>
      BY <1>1, <1>8 DEF NetoutTimer, TypeOK, Paced, Channels, ToNetout
    <2>2. CASE c = d
      <3> DEFINE list == Backlog(c)
                 behind == IF ReadNow(c) THEN sendq[c] ELSE queue[c] \o sendq[c]
                 n == Handed(c)
      <3>1. list \in Seq(Nat) /\ n \in 0..Len(list) /\ left \in Seq(Nat) /\ behind \in Seq(Nat)
        BY <1>1, <1>2, <2>1, <2>2, HandedType
      <3>2. Inside(c) = list \o behind
        BY <1>2 DEF Backlog, Inside
      <3>3. /\ queue'[c] = (IF ReadNow(c) THEN <<>> ELSE queue[c])
            /\ readq'[c] = left /\ done'[c] = done[c] \o SubSeq(list, 1, n)
            /\ sendq'[c] = sendq[c] /\ made'[c] = made[c]
        BY <1>1, <2>1, <2>2 DEF TypeOK
      <3>4. Inside(c)' = left \o behind
        <4> HIDE DEF left
        <4>1. left \o <<>> = left
          BY <3>1, ConcatEmptySeq
        <4>2. (left \o queue[c]) \o sendq[c] = left \o (queue[c] \o sendq[c])
          <5>1. left \in Seq(Nat) /\ queue[c] \in Seq(Nat) /\ sendq[c] \in Seq(Nat)
            BY <1>2, <3>1
          <5> QED
            BY <5>1, Regroup
        <4>3. Inside(c)' = (readq'[c] \o queue'[c]) \o sendq'[c]
          BY DEF Inside
        <4>4. CASE ReadNow(c)
          BY <3>3, <4>1, <4>3, <4>4
        <4>5. CASE ~ReadNow(c)
          BY <3>3, <4>2, <4>3, <4>5
        <4> QED
          BY <4>4, <4>5
      <3>5. left = SubSeq(list, n + 1, Len(list))
        BY <2>2
      <3> HIDE DEF list, n, behind, left
      <3> QED
        BY <1>4, <3>1, <3>2, <3>3, <3>4, <3>5
    <2>3. CASE c # d
      <3>1. queue'[c] = queue[c] /\ readq'[c] = readq[c] /\ done'[c] = done[c]
        BY <1>1, <2>1, <2>3 DEF TypeOK
      <3> QED
        BY <1>3, <2>1, <3>1
    <2> QED
      BY <2>2, <2>3
  <1>9. CASE NetoutFlush
    <2>1. PICK n \in 0..txq :
            /\ made' = [made EXCEPT !["out"] = made["out"] + n]
            /\ sendq' = [sendq EXCEPT !["out"] = Fresh("out", n)]
      BY <1>9 DEF NetoutFlush
    <2>2. pc["netout"] = "flush" /\ UNCHANGED <<queue, readq, done>> /\ n \in Nat
      BY <1>1, <1>9 DEF NetoutFlush, sharedVars, TypeOK
    <2>3. CASE c = "out"
      <3>1. sendq[c] = <<>> /\ made'[c] = made[c] + n /\ sendq'[c] = Fresh(c, n)
        BY <1>1, <2>1, <2>2, <2>3 DEF TypeOK
      <3>2. Inside(c)' = Inside(c) \o Fresh(c, n)
        <4>1. Inside(c) = readq[c] \o queue[c]
          BY <1>2, <3>1, ConcatEmptySeq DEF Inside
        <4> QED
          BY <2>2, <3>1, <4>1 DEF Inside
      <3> QED
        BY <2>2, <3>1, <3>2 DEF Filled
    <2>4. CASE c # "out"
      <3>1. made'[c] = made[c] /\ sendq'[c] = sendq[c]
        BY <1>1, <2>1, <2>4 DEF TypeOK
      <3> QED
        BY <1>3, <2>2, <3>1
    <2> QED
      BY <2>3, <2>4
  <1>10. CASE NetoutWrite
    <2>1. "out" \in Channels /\ WriteMsg("netout", "out") /\ UNCHANGED <<readq, made, done>>
      BY <1>10 DEF NetoutWrite, Channels, ToKernel
    <2> QED
      BY <1>1, <2>1, WriteMsgMail
  <1> QED
    BY <1>5, <1>6, <1>7, <1>8, <1>9, <1>10 DEF Netout, NetoutLive

\* Every step of the input thread.
LEMMA NetinpMail ==
  ASSUME MailInv, Netinp, NEW c \in Channels
  PROVE  Filled(c) \/ Emptied(c)
  <1>1. TypeOK
    BY DEF MailInv
  <1>2. CASE NetinpReceive
    <2>1. /\ made' = [made EXCEPT !["in"] = made["in"] + 1]
          /\ sendq' = [sendq EXCEPT !["in"] = sendq["in"] \o Fresh("in", 1)]
          /\ UNCHANGED <<queue, readq, done>>
      BY <1>2 DEF NetinpReceive, sharedVars
    <2>2. CASE c = "in"
      <3>1. made'[c] = made[c] + 1 /\ sendq'[c] = sendq[c] \o Fresh(c, 1)
        BY <1>1, <2>1, <2>2 DEF TypeOK
      <3>2. /\ readq[c] \o queue[c] \in Seq(Nat) /\ sendq[c] \in Seq(Nat)
            /\ Fresh(c, 1) \in Seq(Nat)
        <4>1. made \in [Channels -> Nat] /\ 1 \in Nat
          BY <1>1 DEF TypeOK
        <4>2. Fresh(c, 1) \in Seq(Nat)
          BY <4>1, FreshType
        <4> QED
          BY <1>1, <4>2, InsideType, ConcatProperties
      <3>3. ((readq[c] \o queue[c]) \o sendq[c]) \o Fresh(c, 1)
              = (readq[c] \o queue[c]) \o (sendq[c] \o Fresh(c, 1))
        BY <3>2, Regroup
      <3>4. Inside(c)' = Inside(c) \o Fresh(c, 1)
        BY <2>1, <3>1, <3>3 DEF Inside
      <3> QED
        BY <2>1, <3>1, <3>4 DEF Filled
    <2>3. CASE c # "in"
      <3>1. made'[c] = made[c] /\ sendq'[c] = sendq[c]
        BY <1>1, <2>1, <2>3 DEF TypeOK
      <3> QED
        BY <1>1, <2>1, <3>1, Kept DEF Inside
    <2> QED
      BY <2>2, <2>3
  <1>3. CASE NetinpWrite
    <2>1. "in" \in Channels /\ WriteMsg("netinp", "in") /\ UNCHANGED <<readq, made, done>>
      BY <1>3 DEF NetinpWrite, Channels, ToKernel
    <2> QED
      BY <1>1, <2>1, WriteMsgMail
  <1>4. CASE NetinpSignal
    <2>1. UNCHANGED <<queue, sendq, readq, made, done>>
      BY <1>4 DEF NetinpSignal, SendSignal
    <2> QED
      BY <1>1, <2>1, Kept DEF Inside
  <1> QED
    BY <1>2, <1>3, <1>4 DEF Netinp

\* The two facts of NothingKept are kept.
LEMMA NothingKeptStep ==
  ASSUME MailInv, Next
  PROVE  NothingKept'
  <1>1. TypeOK /\ readq["ctr"] = <<>> /\ (pc["netout"] # "write" => sendq["out"] = <<>>)
    BY DEF MailInv, NothingKept
  <1>2. /\ pc \in [Threads -> Locations] /\ queue \in [Channels -> Seq(Nat)]
        /\ sendq \in [Channels -> Seq(Nat)] /\ readq \in [Channels -> Seq(Nat)]
        /\ "ctr" \in Channels /\ "out" \in Channels
    BY <1>1 DEF TypeOK, Channels, ToNetout, ToKernel
  <1>3. readq'["ctr"] = <<>>
    <2>1. CASE KernelRead
      <3>1. chan["kernel"] # "ctr"
        BY <1>1, <2>1 DEF KernelRead, TypeOK, ToKernel
      <3> QED
        BY <1>1, <1>2, <2>1, <3>1 DEF KernelRead
    <2>2. CASE KernelProcess
      BY <1>1, <1>2, <2>2 DEF KernelProcess
    <2>3. CASE NetoutPacedEvent
      <3>1. chan["netout"] # "ctr"
        BY <2>3 DEF NetoutPacedEvent, Paced
      <3> QED
        BY <1>1, <1>2, <2>3, <3>1 DEF NetoutPacedEvent
    <2>4. CASE NetoutTimer
      <3>1. chan["netout"] # "ctr"
        BY <1>1, <2>4 DEF NetoutTimer, TypeOK, Paced
      <3> QED
        BY <1>1, <1>2, <2>4, <3>1 DEF NetoutTimer
    <2>5. CASE ~(KernelRead \/ KernelProcess \/ NetoutPacedEvent \/ NetoutTimer)
      <3>1. readq' = readq
        BY <2>5
        DEF Next, Kernel, KernelReadEvent, KernelOtherEvent, KernelFlush, KernelFlushEmpty,
            KernelSignal, Netout, NetoutLive, NetoutWait, NetoutControlEvent, NetoutFlush,
            NetoutPanic, NetoutWrite, NetoutSignal, Netinp, NetinpReceive, NetinpWrite,
            NetinpSignal, SendSignal
      <3> QED
        BY <1>1, <3>1
    <2> QED
      BY <2>1, <2>2, <2>3, <2>4, <2>5
  <1>4. ASSUME NEW t, NEW loc, NEW d, t # "netout", Goto(t, loc, d)
        PROVE  pc'["netout"] = pc["netout"]
    BY <1>2, <1>4 DEF Goto, Threads
  <1>5. pc'["netout"] # "write" => sendq'["out"] = <<>>
    <2>1. CASE Kernel
      <3>1. pc'["netout"] = pc["netout"]
        BY <1>4, <2>1
        DEF Kernel, KernelReadEvent, KernelOtherEvent, KernelRead, KernelProcess, KernelFlush,
            KernelFlushEmpty, KernelSignal, SendSignal, WriteMsg, ReturnWrite
      <3>2. sendq'["out"] = sendq["out"]
        <4>1. "out" \notin ToNetout
          BY DEF ToNetout
        <4>2. CASE KernelProcess
          BY <1>2, <4>1, <4>2, ItcAssumption DEF KernelProcess
        <4>3. CASE KernelFlush
          BY <1>1, <1>2, <4>1, <4>3 DEF KernelFlush, WriteMsg, TypeOK
        <4> QED
          BY <2>1, <4>2, <4>3
          DEF Kernel, KernelReadEvent, KernelOtherEvent, KernelRead, KernelFlushEmpty,
              KernelSignal, SendSignal
      <3> QED
        BY <1>1, <3>1, <3>2
    <2>2. CASE Netinp
      <3>1. pc'["netout"] = pc["netout"]
        BY <1>4, <2>2
        DEF Netinp, NetinpReceive, NetinpWrite, NetinpSignal, SendSignal, WriteMsg, ReturnWrite
      <3>2. sendq'["out"] = sendq["out"]
        BY <1>2, <2>2 DEF Netinp, NetinpReceive, NetinpWrite, NetinpSignal, SendSignal, WriteMsg
      <3> QED
        BY <1>1, <3>1, <3>2
    <2>3. CASE NetoutFlush
      <3>1. PICK n \in 0..txq :
              /\ sendq' = [sendq EXCEPT !["out"] = Fresh("out", n)]
              /\ Goto("netout", IF n > 0 THEN "write" ELSE "wait", "out")
        BY <2>3 DEF NetoutFlush
      <3>2. CASE n > 0
        <4>1. Goto("netout", "write", "out")
          BY <3>1, <3>2
        <4> QED
          BY <1>2, <4>1 DEF Goto, Threads
      <3>3. CASE ~(n > 0)
        <4>1. n = 0 /\ made \in [Channels -> Nat]
          BY <1>1, <3>3 DEF TypeOK
        <4>2. Fresh("out", n) = <<>>
          BY <1>2, <4>1, FreshType, EmptySeq
        <4> QED
          BY <1>2, <3>1, <4>2
      <3> QED
        BY <3>2, <3>3
    <2>4. CASE NetoutWrite
      BY <1>2, <2>4 DEF NetoutWrite, WriteMsg
    <2>5. CASE Netout /\ ~NetoutFlush /\ ~NetoutWrite
      <3>1. sendq' = sendq /\ pc["netout"] # "write"
        BY <2>5
        DEF Netout, NetoutLive, NetoutWait, NetoutControlEvent, NetoutPacedEvent, NetoutTimer,
            NetoutPanic, NetoutSignal, SendSignal
      <3> QED
        BY <1>1, <3>1
    <2> QED
      BY <2>1, <2>2, <2>3, <2>4, <2>5 DEF Next
  <1> QED
    BY <1>3, <1>5 DEF NothingKept

\* The output thread ends once, at a step that touches no message.
LEMMA EndedStep ==
  ASSUME TypeOK, Next
  PROVE  \/ NetoutEnded' = NetoutEnded
         \/ NetoutEnded' /\ UNCHANGED <<queue, sendq, readq, made, done>>
  <1>1. pc \in [Threads -> Locations]
    BY DEF TypeOK
  <1>2. ASSUME NEW t, NEW loc, NEW d, t # "netout", Goto(t, loc, d)
        PROVE  NetoutEnded' = NetoutEnded
    BY <1>1, <1>2 DEF Goto, Threads, NetoutEnded
  <1>3. ASSUME NEW loc, NEW d, loc # "dead", pc["netout"] # "dead", Goto("netout", loc, d)
        PROVE  NetoutEnded' = NetoutEnded
    BY <1>1, <1>3 DEF Goto, Threads, NetoutEnded
  <1>4. CASE Kernel
    BY <1>2, <1>4
    DEF Kernel, KernelReadEvent, KernelOtherEvent, KernelRead, KernelProcess, KernelFlush,
        KernelFlushEmpty, KernelSignal, SendSignal, WriteMsg, ReturnWrite
  <1>5. CASE Netinp
    BY <1>2, <1>5
    DEF Netinp, NetinpReceive, NetinpWrite, NetinpSignal, SendSignal, WriteMsg, ReturnWrite
  <1>6. CASE NetoutPanic
    <2>1. Goto("netout", "dead", "out") /\ UNCHANGED <<queue, sendq, readq, made, done>>
      BY <1>6 DEF NetoutPanic, sharedVars
    <2>2. NetoutEnded'
      BY <1>1, <2>1 DEF Goto, Threads, NetoutEnded
    <2> QED
      BY <2>1, <2>2
  <1>7. CASE NetoutLive
    BY <1>3, <1>7
    DEF NetoutLive, NetoutWait, NetoutControlEvent, NetoutPacedEvent, NetoutTimer, NetoutFlush,
        NetoutWrite, NetoutSignal, AfterEvent, SendSignal, WriteMsg, ReturnWrite
  <1> QED
    BY <1>4, <1>5, <1>6, <1>7 DEF Next, Netout

LEMMA MailInit == Init => MailInv
  BY TypeInit DEF Init, MailInv, NothingKept, Channels, ToNetout, ToKernel

LEMMA MailStep ==
  ASSUME MailInv, [Next]_vars
  PROVE  /\ MailInv'
         /\ \A c \in Channels : Filled(c) \/ Emptied(c)
         /\ \/ NetoutEnded' = NetoutEnded
            \/ NetoutEnded' /\ UNCHANGED <<queue, sendq, readq, made, done>>
  <1>1. CASE Next
    BY <1>1, KernelType, NetoutType, NetinpType, NothingKeptStep, KernelMail, NetoutMail,
       NetinpMail, EndedStep DEF MailInv, Next
  <1>2. CASE UNCHANGED vars
    <2>1. UNCHANGED <<pc, chan, queue, pending, sendq, readq, msgPending, exp, txq, made, done>>
      BY <1>2 DEF vars
    <2>2. MailInv'
      BY <2>1 DEF MailInv, TypeOK, NothingKept
    <2>3. ASSUME NEW c \in Channels PROVE Filled(c)
      BY <2>1, Kept DEF MailInv, Inside
    <2> QED
      BY <2>1, <2>2, <2>3 DEF NetoutEnded
  <1> QED
    BY <1>1, <1>2

\* What was consumed of a channel followed by what is inside it is every
\* message ever made for it, in the order they were made.
AllAccounted ==
  \A c \in Channels : done[c] \o Inside(c) = [i \in 1..made[c] |-> i]

LEMMA AccountedStep ==
  ASSUME MailInv, MailInv', AllAccounted, \A c \in Channels : Filled(c) \/ Emptied(c)
  PROVE  AllAccounted'
  <1> SUFFICES ASSUME NEW c \in Channels
               PROVE  done'[c] \o Inside(c)' = [i \in 1..made'[c] |-> i]
    BY DEF AllAccounted
  <1>1. /\ done[c] \in Seq(Nat) /\ Inside(c) \in Seq(Nat) /\ made \in [Channels -> Nat]
        /\ done[c] \o Inside(c) = [i \in 1..made[c] |-> i]
    BY InsideType DEF MailInv, TypeOK, AllAccounted
  <1>2. CASE Filled(c)
    <2>1. PICK n \in Nat : made'[c] = made[c] + n /\ Inside(c)' = Inside(c) \o Fresh(c, n)
      BY <1>2 DEF Filled
    <2>2. Fresh(c, n) \in Seq(Nat)
      BY <1>1, FreshType
    <2>3. done[c] \o (Inside(c) \o Fresh(c, n)) = (done[c] \o Inside(c)) \o Fresh(c, n)
      BY <1>1, <2>2, Regroup
    <2>4. [i \in 1..made[c] |-> i] \o Fresh(c, n) = [i \in 1..made[c] + n |-> i]
      BY <1>1, FreshContinues
    <2> QED
      BY <1>1, <1>2, <2>1, <2>3, <2>4 DEF Filled
  <1>3. CASE Emptied(c)
    <2>1. PICK n \in 0..Len(Inside(c)) :
            /\ done'[c] = done[c] \o SubSeq(Inside(c), 1, n)
            /\ Inside(c)' = SubSeq(Inside(c), n + 1, Len(Inside(c)))
      BY <1>3 DEF Emptied
    <2> DEFINE in == Inside(c)
               x == SubSeq(in, 1, n)
               b == SubSeq(in, n + 1, Len(in))
    <2>2. Len(in) \in Nat /\ n \in Nat /\ n <= Len(in) /\ in \in Seq(Nat)
      BY <1>1, LenProperties
    <2> HIDE DEF in
    <2>3. x \in Seq(Nat) /\ b \in Seq(Nat)
      <3>1. (\A i \in 1..n : in[i] \in Nat) /\ (\A i \in n + 1..Len(in) : in[i] \in Nat)
        BY <2>2, ElementOfSeq
      <3>2. x \in Seq(Nat)
        BY <2>2, <3>1, SubSeqProperties
      <3>3. b \in Seq(Nat)
        BY <2>2, <3>1, SubSeqProperties
      <3> QED
        BY <3>2, <3>3
    <2>4. x \o b = in
      <3>1. 1 \in 1..Len(in) + 1 /\ n \in 1 - 1..Len(in) /\ Len(in) \in n..Len(in)
        BY <2>2
      <3>2. x \o b = SubSeq(in, 1, Len(in))
        BY <2>2, <3>1, ConcatAdjacentSubSeq
      <3> QED
        BY <2>2, <3>2, SubSeqFull
    <2> HIDE DEF x, b
    <2>5. (done[c] \o x) \o b = done[c] \o in
      BY <1>1, <2>3, <2>4, Regroup
    <2>6. done'[c] = done[c] \o x /\ Inside(c)' = b
      BY <2>1 DEF x, b, in
    <2>7. made'[c] = made[c] /\ done[c] \o in = [i \in 1..made[c] |-> i]
      BY <1>1, <1>3 DEF Emptied, in
    <2> QED
      BY <2>5, <2>6, <2>7
  <1> QED
    BY <1>2, <1>3

\* Nothing is lost, repeated or reordered between the thread that makes a
\* message and the thread that consumes it, whatever the interleaving of the
\* three loops: the two private lists, the shared list and what was consumed
\* hold together every message made, each once, in order.
THEOREM NothingLost == Spec => []AllAccounted
  <1>1. Init => AllAccounted
    <2> SUFFICES ASSUME Init, NEW c \in Channels
                 PROVE  done[c] \o Inside(c) = [i \in 1..made[c] |-> i]
      BY DEF AllAccounted
    <2>1. done[c] = <<>> /\ readq[c] = <<>> /\ queue[c] = <<>> /\ sendq[c] = <<>> /\ made[c] = 0
      BY DEF Init
    <2>2. <<>> \o <<>> = <<>>
      BY ConcatEmptySeq, EmptySeq
    <2>3. [i \in 1..0 |-> i] = <<>>
      <3>1. [i \in 1..0 |-> i] \in Seq(Nat) /\ Len([i \in 1..0 |-> i]) = 0
        OBVIOUS
      <3> QED
        BY <3>1, EmptySeq
    <2> QED
      BY <2>1, <2>2, <2>3 DEF Inside
  <1>2. MailInv /\ AllAccounted /\ [Next]_vars => (MailInv /\ AllAccounted)'
    BY MailStep, AccountedStep
  <1> QED
    BY <1>1, <1>2, MailInit, PTL DEF Spec

\* The two things a step may do to a channel are the two of a mailbox.
LEMMA FilledPuts ==
  ASSUME NEW c \in Channels, TypeOK, Filled(c), Inside(c)' # Inside(c)
  PROVE  /\ Len(Inside(c)') > Len(Inside(c)) /\ Inside(c)' \in Seq(Nat)
         /\ SubSeq(Inside(c)', Len(Inside(c)) + 1, Len(Inside(c)')) # <<>>
         /\ Inside(c)' = Inside(c) \o SubSeq(Inside(c)', Len(Inside(c)) + 1, Len(Inside(c)'))
         /\ done'[c] = done[c]
  <1>1. PICK n \in Nat : Inside(c)' = Inside(c) \o Fresh(c, n)
    BY DEF Filled
  <1>2. /\ Inside(c) \in Seq(Nat) /\ Fresh(c, n) \in Seq(Nat)
    BY InsideType, FreshType DEF TypeOK
  <1>3. Fresh(c, n) # <<>>
    BY <1>1, <1>2, ConcatEmptySeq
  <1>4. /\ Len(Inside(c)) \in Nat /\ Len(Fresh(c, n)) \in Nat \ {0}
        /\ Len(Inside(c) \o Fresh(c, n)) = Len(Inside(c)) + Len(Fresh(c, n))
        /\ Inside(c) \o Fresh(c, n) \in Seq(Nat)
    BY <1>2, <1>3, LenProperties, EmptySeq, ConcatProperties
  <1>5. SubSeq(Inside(c) \o Fresh(c, n), Len(Inside(c)) + 1, Len(Inside(c) \o Fresh(c, n))) = Fresh(c, n)
    BY <1>2, RestOfConcat
  <1>6. Len(Inside(c)') > Len(Inside(c))
    BY <1>1, <1>4
  <1> QED
    BY <1>1, <1>3, <1>4, <1>5, <1>6 DEF Filled

LEMMA EmptiedTakes ==
  ASSUME NEW c \in Channels, TypeOK, Emptied(c)
  PROVE  \/ Inside(c)' = Inside(c) /\ done'[c] = done[c]
         \/ \E n \in 1..Len(Inside(c)) :
              /\ done'[c] = done[c] \o SubSeq(Inside(c), 1, n)
              /\ Inside(c)' = SubSeq(Inside(c), n + 1, Len(Inside(c)))
  <1>1. PICK n \in 0..Len(Inside(c)) :
          /\ done'[c] = done[c] \o SubSeq(Inside(c), 1, n)
          /\ Inside(c)' = SubSeq(Inside(c), n + 1, Len(Inside(c)))
    BY DEF Emptied
  <1>2. Inside(c) \in Seq(Nat) /\ done[c] \in Seq(Nat) /\ Len(Inside(c)) \in Nat
    BY InsideType, LenProperties
  <1>3. CASE n = 0
    <2>1. SubSeq(Inside(c), 1, n) = <<>>
      BY <1>3, SubSeqEmpty
    <2>2. SubSeq(Inside(c), n + 1, Len(Inside(c))) = Inside(c)
      BY <1>2, <1>3, SubSeqFull
    <2> QED
      BY <1>1, <1>2, <2>1, <2>2, ConcatEmptySeq
  <1>4. CASE n # 0
    <2>1. n \in 1..Len(Inside(c))
      BY <1>2, <1>4
    <2> QED
      BY <1>1, <2>1
  <1> QED
    BY <1>3, <1>4

\* A step as the mailbox of channel c sees it.
BoxStep(c) ==
  \/ /\ Len(Inside(c)') > Len(Inside(c)) /\ Inside(c)' \in Seq(Nat)
     /\ SubSeq(Inside(c)', Len(Inside(c)) + 1, Len(Inside(c)')) # <<>>
     /\ Inside(c)' = Inside(c) \o SubSeq(Inside(c)', Len(Inside(c)) + 1, Len(Inside(c)'))
     /\ done'[c] = done[c]
  \/ \E n \in 1..Len(Inside(c)) :
       /\ done'[c] = done[c] \o SubSeq(Inside(c), 1, n)
       /\ Inside(c)' = SubSeq(Inside(c), n + 1, Len(Inside(c)))
  \/ Inside(c)' = Inside(c) /\ done'[c] = done[c]

LEMMA BoxSteps ==
  ASSUME MailInv, [Next]_vars, NEW c \in Channels
  PROVE  /\ BoxStep(c)
         /\ \/ NetoutEnded' = NetoutEnded
            \/ NetoutEnded' /\ Inside(c)' = Inside(c) /\ done'[c] = done[c]
  <1>1. TypeOK /\ (Filled(c) \/ Emptied(c))
    BY MailStep DEF MailInv
  <1>2. BoxStep(c)
    <2>1. CASE Filled(c) /\ Inside(c)' = Inside(c)
      BY <2>1 DEF Filled, BoxStep
    <2>2. CASE Filled(c) /\ Inside(c)' # Inside(c)
      BY <1>1, <2>2, FilledPuts DEF BoxStep
    <2>3. CASE Emptied(c)
      BY <1>1, <2>3, EmptiedTakes DEF BoxStep
    <2> QED
      BY <1>1, <2>1, <2>2, <2>3
  <1>3. \/ NetoutEnded' = NetoutEnded
        \/ NetoutEnded' /\ Inside(c)' = Inside(c) /\ done'[c] = done[c]
    BY MailStep DEF Inside
  <1> QED
    BY <1>2, <1>3

\* The safety half of Mailboxes: each direction of the inter-thread
\* communication implements the mailbox, for any number of messages, batches
\* and expirations.
THEOREM ChannelsAreMailboxes ==
  Spec => /\ CtrBox!MailboxSafety
          /\ RetBox!MailboxSafety
          /\ NorBox!MailboxSafety
          /\ InBox!MailboxSafety
          /\ OutBox!MailboxSafety
  <1>1. ASSUME Init
        PROVE  /\ CtrBox!MailboxInit /\ RetBox!MailboxInit /\ NorBox!MailboxInit
               /\ InBox!MailboxInit /\ OutBox!MailboxInit
    <2>1. ASSUME NEW c \in Channels
          PROVE  Inside(c) = <<>> /\ done[c] = <<>>
      <3>1. <<>> \o <<>> = <<>>
        BY ConcatEmptySeq, EmptySeq
      <3> QED
        BY <1>1, <3>1 DEF Init, Inside
    <2>2. NetoutEnded = FALSE
      BY <1>1 DEF Init, NetoutEnded, Threads
    <2> QED
      BY <2>1, <2>2
      DEF CtrBox!MailboxInit, RetBox!MailboxInit, NorBox!MailboxInit, InBox!MailboxInit,
          OutBox!MailboxInit, Channels, ToNetout, ToKernel
  <1>2. ASSUME MailInv, [Next]_vars
        PROVE  /\ [CtrBox!MailboxNext]_(CtrBox!mailboxVars)
               /\ [RetBox!MailboxNext]_(RetBox!mailboxVars)
               /\ [NorBox!MailboxNext]_(NorBox!mailboxVars)
               /\ [InBox!MailboxNext]_(InBox!mailboxVars)
               /\ [OutBox!MailboxNext]_(OutBox!mailboxVars)
    <2>1. ASSUME NEW c \in Channels
          PROVE  /\ BoxStep(c)
                 /\ \/ NetoutEnded' = NetoutEnded
                    \/ NetoutEnded' = TRUE /\ Inside(c)' = Inside(c) /\ done'[c] = done[c]
      BY <1>2, BoxSteps DEF NetoutEnded
    <2>2. "ctr" \in Channels /\ "ret" \in Channels /\ "nor" \in Channels
          /\ "in" \in Channels /\ "out" \in Channels
      BY DEF Channels, ToNetout, ToKernel
    <2>3. [CtrBox!MailboxNext]_(CtrBox!mailboxVars)
      BY <2>1, <2>2
      DEF BoxStep, CtrBox!MailboxNext, CtrBox!mailboxVars, CtrBox!PutSome, CtrBox!Put,
          CtrBox!TakeSome, CtrBox!Take, CtrBox!Close
    <2>4. [RetBox!MailboxNext]_(RetBox!mailboxVars)
      BY <2>1, <2>2
      DEF BoxStep, RetBox!MailboxNext, RetBox!mailboxVars, RetBox!PutSome, RetBox!Put,
          RetBox!TakeSome, RetBox!Take, RetBox!Close
    <2>5. [NorBox!MailboxNext]_(NorBox!mailboxVars)
      BY <2>1, <2>2
      DEF BoxStep, NorBox!MailboxNext, NorBox!mailboxVars, NorBox!PutSome, NorBox!Put,
          NorBox!TakeSome, NorBox!Take, NorBox!Close
    <2>6. [InBox!MailboxNext]_(InBox!mailboxVars)
      BY <2>1, <2>2
      DEF BoxStep, InBox!MailboxNext, InBox!mailboxVars, InBox!PutSome, InBox!Put,
          InBox!TakeSome, InBox!Take, InBox!Close
    <2>7. [OutBox!MailboxNext]_(OutBox!mailboxVars)
      BY <2>1, <2>2
      DEF BoxStep, OutBox!MailboxNext, OutBox!mailboxVars, OutBox!PutSome, OutBox!Put,
          OutBox!TakeSome, OutBox!Take, OutBox!Close
    <2> QED
      BY <2>3, <2>4, <2>5, <2>6, <2>7
  <1>3. MailInv /\ [Next]_vars => MailInv'
    BY MailStep
  <1> QED
    BY <1>1, <1>2, <1>3, MailInit, PTL
    DEF Spec, CtrBox!MailboxSafety, RetBox!MailboxSafety, NorBox!MailboxSafety,
        InBox!MailboxSafety, OutBox!MailboxSafety
=============================================================================
