------------------------------ MODULE Mailbox ------------------------------
(***************************************************************************)
(* What one direction of the inter-thread communication promises: a FIFO   *)
(* between the thread that fills it and the thread that consumes it.       *)
(* Messages come out in the order they went in, each of them once, and     *)
(* none stays inside for ever unless one of the two threads has ended.     *)
(* Itc.tla implements this specification once per channel.                 *)
(***************************************************************************)
EXTENDS Naturals, Sequences

CONSTANT Message            \* what may be put in the mailbox

VARIABLES
  inside,    \* the messages that were put and not taken, oldest first
  taken,     \* history: the messages that were taken, in that order
  closed     \* a thread at one of the two ends has terminated

mailboxVars == <<inside, taken, closed>>

MailboxInit == inside = <<>> /\ taken = <<>> /\ closed = FALSE

Put(batch) ==
  /\ batch # <<>>
  /\ inside' = inside \o batch
  /\ UNCHANGED <<taken, closed>>

Take(n) ==
  /\ taken' = taken \o SubSeq(inside, 1, n)
  /\ inside' = SubSeq(inside, n + 1, Len(inside))
  /\ UNCHANGED closed

TakeSome == \E n \in 1..Len(inside) : Take(n)

Close == closed' = TRUE /\ UNCHANGED <<inside, taken>>

\* What is put is whatever extends the content: quantifying over Seq(Message)
\* is beyond TLC, so the batch is read off the next state.
PutSome ==
  /\ Len(inside') > Len(inside)
  /\ inside' \in Seq(Message)
  /\ Put(SubSeq(inside', Len(inside) + 1, Len(inside')))

MailboxNext == PutSome \/ TakeSome \/ Close

MailboxSafety == MailboxInit /\ [][MailboxNext]_mailboxVars

\* Once closed, what is inside may be taken but need not.
MailboxSpec == MailboxSafety /\ WF_mailboxVars(~closed /\ TakeSome)
=============================================================================
