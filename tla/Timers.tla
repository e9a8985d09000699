------------------------------- MODULE Timers -------------------------------
(***************************************************************************)
(* The list of expiration timers (timers.c) under the calls its users      *)
(* make: register_et() for every CONNECT and ACCEPT, remove_et() when the  *)
(* message is acknowledged, and get_expired() followed by refresh_et() or  *)
(* free_et() in do_process_expired().  All of them run in the kernel       *)
(* thread.                                                                 *)
(*                                                                         *)
(* The list is singly linked from head to tail.  et_insert() can leave     *)
(* q->tail NULL on a list that is not empty; the next call that follows    *)
(* q->tail is the end of the daemon.                                       *)
(*                                                                         *)
(* A transmission that fails gives its mbuff back while the timer stays    *)
(* registered: a message may have several timers, those of earlier uses of *)
(* its mbuff among them.                                                   *)
(***************************************************************************)
EXTENDS Integers, Sequences, FiniteSets, Functions, SequencesExt

CONSTANTS
  Cells,     \* the memory that calloc() has for struct exptimer
  Mbuffs,    \* the messages that have timers: pairs of et_sk and et_mb
  None,      \* no timer
  Timeout,   \* START_TIMEOUT_SEC, in ticks of the model
  MaxNow     \* a bound: the time when the model stops

ASSUME TimersAssumption ==
  /\ None \notin [at : Cells, mb : Mbuffs, et : Nat]
  /\ Timeout \in Nat \ {0}
  /\ MaxNow \in Nat

VARIABLES
  list,     \* etq: the timers from q->head on
  hasTail,  \* q->tail # NULL
  held,     \* the timer that get_expired() returned last, or None
  now,      \* clock_monotonic()
  alive,    \* FALSE after a NULL dereference
  armed     \* history: the timers registered and neither removed nor freed

vars == <<list, hasTail, held, now, alive, armed>>

\* struct exptimer: where it is, et_mb and et_et.
Timer(p, mb, et) == [at |-> p, mb |-> mb, et |-> et]

Init ==
  /\ list = <<>>
  /\ hasTail = FALSE
  /\ held = None
  /\ now = 0
  /\ alive = TRUE
  /\ armed = {}

\* A slip: a later timer is taken for an earlier one.
WalkReversed(t) ==
  {k \in 0 .. Len(list) : /\ \A i \in 1 .. k : list[i].et > t.et
                          /\ k < Len(list) => list[k + 1].et <= t.et}

\* How many timers the walk of et_insert() passes: it stops at the first one
\* that is not earlier.
Walk(t) ==
  {k \in 0 .. Len(list) : /\ \A i \in 1 .. k : list[i].et < t.et
                          /\ k < Len(list) => list[k + 1].et >= t.et}

\* A slip: what follows the new timer is not linked again.
InsertedLast(t, k) == Append(SubSeq(list, 1, k), t)

Inserted(t, k) == InsertAt(list, k + 1, t)

\* et_insert(): at the tail, at the head, or in between.  A walk that stops at
\* the last timer has emptied q, and copies the NULL of its q->tail.
et_insert(t) ==
  IF list # <<>> /\ ~hasTail
    THEN alive' = FALSE /\ UNCHANGED <<list, hasTail>>
    ELSE \E k \in Walk(t) :
           /\ list' = Inserted(t, k)
           /\ hasTail' = \/ k = Len(list)
                         \/ t.et < Head(list).et
                         \/ k + 1 < Len(list)
           /\ UNCHANGED alive

\* register_et(): calloc() returns memory that no other timer is in, and the
\* clock has moved on before the next reading.
RegisterTimer(p, mb) ==
  /\ alive
  /\ held = None
  /\ now < MaxNow
  /\ \A t \in armed : t.at # p
  /\ et_insert(Timer(p, mb, now + Timeout))
  /\ armed' = armed \cup {Timer(p, mb, now + Timeout)}
  /\ now' = now + 1
  /\ UNCHANGED held

\* remove_et(): the list is rebuilt with et_enqueue(), tail included, from the
\* timers of the other messages in their order.
Others(mb) == {i \in DOMAIN list : list[i].mb # mb}

RemoveTimer(mb) ==
  /\ alive
  /\ held = None
  /\ \E f \in Bijection(1 .. Cardinality(Others(mb)), Others(mb)) :
       /\ \A i, j \in DOMAIN f : i < j => f[i] < f[j]
       /\ list' = [i \in DOMAIN f |-> list[f[i]]]
  /\ hasTail' = (list' # <<>>)
  /\ armed' = {t \in armed : t.mb # mb}
  /\ UNCHANGED <<held, now, alive>>

\* A slip: et_dequeue() keeps the tail of a list it has emptied.
GetExpiredKeepsTail ==
  /\ alive
  /\ held = None
  /\ list # <<>>
  /\ now > Head(list).et
  /\ held' = Head(list)
  /\ list' = Tail(list)
  /\ UNCHANGED <<hasTail, now, alive, armed>>

\* get_expired() and its et_dequeue(), when there is a timer to return.
GetExpired ==
  /\ alive
  /\ held = None
  /\ list # <<>>
  /\ now > Head(list).et
  /\ held' = Head(list)
  /\ list' = Tail(list)
  /\ hasTail' = (hasTail /\ list' # <<>>)
  /\ UNCHANGED <<now, alive, armed>>

\* refresh_et(): from the time it was due, not from now.
RefreshTimer ==
  /\ alive
  /\ held # None
  /\ et_insert(Timer(held.at, held.mb, held.et + Timeout))
  /\ armed' = (armed \ {held}) \cup {Timer(held.at, held.mb, held.et + Timeout)}
  /\ held' = None
  /\ UNCHANGED now

\* free_et()
FreeTimer ==
  /\ alive
  /\ held # None
  /\ armed' = armed \ {held}
  /\ held' = None
  /\ UNCHANGED <<list, hasTail, now, alive>>

Tick ==
  /\ now < MaxNow
  /\ now' = now + 1
  /\ UNCHANGED <<list, hasTail, held, alive, armed>>

Next ==
  \/ \E mb \in Mbuffs : RemoveTimer(mb) \/ \E p \in Cells : RegisterTimer(p, mb)
  \/ GetExpired \/ RefreshTimer \/ FreeTimer \/ Tick

Spec == Init /\ [][Next]_vars

-----------------------------------------------------------------------------
ArmedTimers == [at : Cells, mb : Mbuffs, et : 0 .. MaxNow + Timeout]

\* Types; an empty list has no tail.
TypeOK ==
  /\ armed \subseteq ArmedTimers
  /\ list \in Seq(ArmedTimers)
  /\ hasTail \in BOOLEAN
  /\ held \in ArmedTimers \cup {None}
  /\ now \in 0 .. MaxNow
  /\ alive \in BOOLEAN
  /\ hasTail => list # <<>>

\* The list is what is armed: et_insert() and the rebuilding in remove_et()
\* lose no timer and link none twice, whatever the order of the calls and
\* however many timers a message has.
ListIsArmed ==
  alive => /\ armed = {list[i] : i \in DOMAIN list} \cup ({held} \ {None})
           /\ \A i, j \in DOMAIN list : i # j => list[i].at # list[j].at

\* get_expired() returns the timer that is due first, as the comment in it
\* says, and returns none before its time; the list is only sorted because
\* every insertion finds its place.
EarliestFirst ==
  [][held' # held /\ held' # None =>
       held'.et < now /\ \A t \in armed : held'.et <= t.et]_vars

\* As the comment in MSG_CONNECT has it, the timer of the message is registered.
RegisterSucceeds == [][armed \subseteq armed' /\ armed # armed' => alive']_vars
=============================================================================
