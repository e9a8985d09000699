---------------------------- MODULE TimersProofs ----------------------------
(***************************************************************************)
(* The list of timers is sorted and is what is armed, for any number of    *)
(* messages, any timeout and any order of the calls.                       *)
(***************************************************************************)
EXTENDS Timers, SequenceTheorems, FiniteSetTheorems, TLAPS

-----------------------------------------------------------------------------
(* What is inductive. *)

Sorted == \A i, j \in DOMAIN list : i < j => list[i].et <= list[j].et

\* Only what is due leaves the list for do_process_expired().
HeldDue == held # None => held.et < now /\ \A i \in DOMAIN list : list[i].at # held.at

TimersInv == TypeOK /\ Sorted /\ HeldDue /\ ListIsArmed

-----------------------------------------------------------------------------
(* et_insert() *)

\* A list m is the list l of n timers with t inserted after the first k.
IsInserted(l, m, n, k, t) ==
  /\ n \in Nat /\ k \in 0 .. n
  /\ \A i \in 1 .. k : m[i] = l[i]
  /\ m[k + 1] = t
  /\ \A i \in k + 1 .. n : m[i + 1] = l[i]

LEMMA InsertAtIndexes ==
  ASSUME NEW S, NEW l \in Seq(S), NEW t \in S, NEW k \in 0 .. Len(l)
  PROVE  /\ InsertAt(l, k + 1, t) \in Seq(S)
         /\ Len(InsertAt(l, k + 1, t)) = Len(l) + 1
         /\ IsInserted(l, InsertAt(l, k + 1, t), Len(l), k, t)
<1> DEFINE n == Len(l)
           a == SubSeq(l, 1, k)
           b == SubSeq(l, k + 1, n)
           c == <<t>>
<1>1. n \in Nat /\ k \in 0 .. n /\ \A i \in 1 .. n : l[i] \in S
  BY LenProperties, ElementOfSeq
<1>2. InsertAt(l, k + 1, t) = a \o c \o b
  <2>1. (k + 1) - 1 = k
    BY <1>1
  <2> QED
    BY <2>1, Zenon DEF InsertAt
<1> HIDE DEF n
<1>3. a \in Seq(S) /\ Len(a) = k /\ \A i \in 1 .. k : a[i] = l[i]
  <2>1. \A i \in 1 .. k : l[i] \in S /\ 1 + i - 1 = i
    BY <1>1
  <2>2. /\ a \in Seq(S)
        /\ Len(a) = IF 1 <= k THEN k - 1 + 1 ELSE 0
        /\ \A i \in 1 .. k - 1 + 1 : a[i] = l[1 + i - 1]
    BY <1>1, <2>1, SubSeqProperties
  <2>3. k - 1 + 1 = k /\ (IF 1 <= k THEN k - 1 + 1 ELSE 0) = k
    BY <1>1
  <2> HIDE DEF a
  <2> QED
    BY <2>1, <2>2, <2>3
<1>4. b \in Seq(S) /\ Len(b) = n - k /\ \A i \in 1 .. n - k : b[i] = l[k + i]
  <2>1. /\ b \in Seq(S)
        /\ Len(b) = IF k + 1 <= n THEN n - (k + 1) + 1 ELSE 0
        /\ \A i \in 1 .. n - (k + 1) + 1 : b[i] = l[k + 1 + i - 1]
    <3>1. k + 1 \in Int /\ n \in Int /\ \A i \in k + 1 .. n : l[i] \in S
      BY <1>1
    <3> QED
      BY <3>1, SubSeqProperties
  <2>2. /\ n - (k + 1) + 1 = n - k
        /\ (IF k + 1 <= n THEN n - (k + 1) + 1 ELSE 0) = n - k
        /\ \A i \in 1 .. n - k : k + 1 + i - 1 = k + i
    BY <1>1
  <2> HIDE DEF b
  <2> QED
    BY <2>1, <2>2
<1>5. c \in Seq(S) /\ Len(c) = 1 /\ c[1] = t
  OBVIOUS
<1> HIDE DEF a, b, c
<1> DEFINE d == a \o c
<1>6. /\ d \in Seq(S) /\ Len(d) = Len(a) + Len(c)
      /\ \A i \in 1 .. Len(a) + Len(c) :
           d[i] = IF i <= Len(a) THEN a[i] ELSE c[i - Len(a)]
  BY <1>3, <1>5, ConcatProperties
<1> HIDE DEF d
<1>7. /\ d \o b \in Seq(S) /\ Len(d \o b) = Len(d) + Len(b)
      /\ \A i \in 1 .. Len(d) + Len(b) :
           (d \o b)[i] = IF i <= Len(d) THEN d[i] ELSE b[i - Len(d)]
  <2>1. d \in Seq(S) /\ b \in Seq(S)
    BY <1>4, <1>6
  <2> QED
    BY <2>1, ConcatProperties
<1> DEFINE e == d \o b
<1>8. Len(d) = k + 1 /\ Len(e) = n + 1
  BY <1>1, <1>3, <1>4, <1>5, <1>6, <1>7
<1> HIDE DEF e
<1>9. \A i \in 1 .. k : d[i] = l[i]
  BY <1>1, <1>3, <1>5, <1>6
<1>10. d[k + 1] = t
  <2>1. k + 1 \in 1 .. k + 1 /\ ~(k + 1 <= k) /\ (k + 1) - k = 1
    BY <1>1
  <2> QED
    BY <1>3, <1>5, <1>6, <2>1
<1>11. \A i \in 1 .. k + 1 : e[i] = d[i]
  BY <1>1, <1>4, <1>7, <1>8 DEF e
<1>12. ASSUME NEW i \in k + 1 .. n PROVE e[i + 1] = l[i]
  <2>1. /\ i + 1 \in 1 .. n + 1 /\ ~(i + 1 <= k + 1)
        /\ (i + 1) - (k + 1) = i - k /\ i - k \in 1 .. n - k /\ k + (i - k) = i
    BY <1>1
  <2>2. e[i + 1] = b[i - k]
    BY <1>1, <1>4, <1>7, <1>8, <2>1 DEF e
  <2> QED
    BY <1>4, <2>1, <2>2
<1>13. InsertAt(l, k + 1, t) = e
  BY <1>2 DEF d, e
<1>14. \A i \in 1 .. k : e[i] = l[i]
  BY <1>1, <1>9, <1>11
<1>15. e[k + 1] = t
  BY <1>1, <1>10, <1>11
<1>16. e \in Seq(S)
  BY <1>7 DEF e
<1> QED
  BY <1>1, <1>8, <1>12, <1>13, <1>14, <1>15, <1>16 DEF n, IsInserted

\* Every index of m is that of t or that of a timer of l, before it or after it.
LEMMA InsertedIndexes ==
  ASSUME NEW l, NEW m, NEW n, NEW k, NEW t, IsInserted(l, m, n, k, t), NEW i \in 1 .. n + 1
  PROVE  \/ i \in 1 .. k /\ m[i] = l[i]
         \/ i = k + 1 /\ m[i] = t
         \/ i > k + 1 /\ i - 1 \in k + 1 .. n /\ m[i] = l[i - 1]
<1>1. n \in Nat /\ k \in 0 .. n /\ i \in Int
  BY DEF IsInserted
<1>2. CASE i > k + 1
  <2>1. i - 1 \in k + 1 .. n /\ (i - 1) + 1 = i
    BY <1>1, <1>2
  <2> QED
    BY <1>2, <2>1 DEF IsInserted
<1>3. CASE i <= k
  BY <1>1, <1>3 DEF IsInserted
<1>4. CASE i = k + 1
  BY <1>4 DEF IsInserted
<1> QED
  BY <1>1, <1>2, <1>3, <1>4

LEMMA InsertedSorted ==
  ASSUME NEW l, NEW m, NEW n, NEW k, NEW t, IsInserted(l, m, n, k, t),
         t.et \in Int, \A i \in 1 .. n : l[i].et \in Int,
         \A i, j \in 1 .. n : i < j => l[i].et <= l[j].et,
         \A i \in 1 .. k : l[i].et < t.et,
         k < n => l[k + 1].et >= t.et
  PROVE  \A i, j \in 1 .. n + 1 : i < j => m[i].et <= m[j].et
<1>1. n \in Nat /\ k \in 0 .. n
  BY DEF IsInserted
<1>2. ASSUME NEW p \in k + 1 .. n PROVE t.et <= l[p].et
  <2>1. k + 1 \in 1 .. n /\ p \in 1 .. n /\ k < n /\ k + 1 <= p
    BY <1>1
  <2>2. l[k + 1].et <= l[p].et
    BY <2>1
  <2> QED
    BY <2>1, <2>2
<1> SUFFICES ASSUME NEW i \in 1 .. n + 1, NEW j \in 1 .. n + 1, i < j
             PROVE  m[i].et <= m[j].et
  OBVIOUS
<1>3. /\ \/ i \in 1 .. k /\ m[i] = l[i]
         \/ i = k + 1 /\ m[i] = t
         \/ i > k + 1 /\ i - 1 \in k + 1 .. n /\ m[i] = l[i - 1]
      /\ \/ j \in 1 .. k /\ m[j] = l[j]
         \/ j = k + 1 /\ m[j] = t
         \/ j > k + 1 /\ j - 1 \in k + 1 .. n /\ m[j] = l[j - 1]
  BY InsertedIndexes
<1>4. CASE j \in 1 .. k
  BY <1>1, <1>3, <1>4
<1>5. CASE j = k + 1
  BY <1>1, <1>3, <1>5
<1>6. CASE j > k + 1
  <2>1. j - 1 \in k + 1 .. n /\ j - 1 \in 1 .. n /\ m[j] = l[j - 1]
    BY <1>1, <1>3, <1>6
  <2>2. CASE i \in 1 .. k
    <3>1. m[i] = l[i] /\ i \in 1 .. n /\ i < j - 1
      BY <1>1, <1>3, <1>6, <2>2
    <3> QED
      BY <2>1, <3>1
  <2>3. CASE i = k + 1
    <3>1. m[i] = t
      BY <1>1, <1>3, <2>3
    <3> QED
      BY <1>2, <2>1, <3>1
  <2>4. CASE i > k + 1
    <3>1. m[i] = l[i - 1] /\ i - 1 \in 1 .. n /\ i - 1 < j - 1
      BY <1>1, <1>3, <2>4
    <3> QED
      BY <2>1, <3>1
  <2> QED
    BY <1>1, <1>3, <2>2, <2>3, <2>4
<1> QED
  BY <1>1, <1>3, <1>4, <1>5, <1>6

LEMMA InsertedElements ==
  ASSUME NEW l, NEW m, NEW n, NEW k, NEW t, IsInserted(l, m, n, k, t)
  PROVE  /\ \A i \in 1 .. n + 1 : m[i] = t \/ \E p \in 1 .. n : m[i] = l[p]
         /\ \A p \in 1 .. n : \E i \in 1 .. n + 1 : m[i] = l[p]
         /\ \E i \in 1 .. n + 1 : m[i] = t
<1>1. n \in Nat /\ k \in 0 .. n
  BY DEF IsInserted
<1>2. ASSUME NEW i \in 1 .. n + 1 PROVE m[i] = t \/ \E p \in 1 .. n : m[i] = l[p]
  <2>1. \/ i \in 1 .. n /\ m[i] = l[i]
        \/ m[i] = t
        \/ i - 1 \in 1 .. n /\ m[i] = l[i - 1]
    BY <1>1, InsertedIndexes
  <2> QED
    BY <2>1
<1>3. ASSUME NEW p \in 1 .. n PROVE \E i \in 1 .. n + 1 : m[i] = l[p]
  <2>1. CASE p \in 1 .. k
    <3>1. p \in 1 .. n + 1 /\ m[p] = l[p]
      BY <1>1, <2>1 DEF IsInserted
    <3> QED
      BY <3>1
  <2>2. CASE p \in k + 1 .. n
    <3>1. p + 1 \in 1 .. n + 1 /\ m[p + 1] = l[p]
      BY <1>1, <2>2 DEF IsInserted
    <3> QED
      BY <3>1
  <2> QED
    BY <1>1, <2>1, <2>2
<1>4. k + 1 \in 1 .. n + 1 /\ m[k + 1] = t
  BY <1>1 DEF IsInserted
<1> QED
  BY <1>2, <1>3, <1>4

LEMMA InsertedDistinct ==
  ASSUME NEW l, NEW m, NEW n, NEW k, NEW t, IsInserted(l, m, n, k, t),
         \A i \in 1 .. n : l[i].at # t.at,
         \A i, j \in 1 .. n : i # j => l[i].at # l[j].at
  PROVE  \A i, j \in 1 .. n + 1 : i # j => m[i].at # m[j].at
<1>1. n \in Nat /\ k \in 0 .. n
  BY DEF IsInserted
<1> SUFFICES ASSUME NEW i \in 1 .. n + 1, NEW j \in 1 .. n + 1, i # j
             PROVE  m[i].at # m[j].at
  OBVIOUS
<1> DEFINE Old(x) == IF x <= k THEN x ELSE x - 1
<1>2. ASSUME NEW x \in 1 .. n + 1, x # k + 1
      PROVE  Old(x) \in 1 .. n /\ m[x] = l[Old(x)]
  <2>1. \/ x \in 1 .. k /\ m[x] = l[x]
        \/ x > k + 1 /\ x - 1 \in k + 1 .. n /\ m[x] = l[x - 1]
    BY <1>2, InsertedIndexes
  <2> QED
    BY <1>1, <2>1
<1>3. m[k + 1] = t
  BY DEF IsInserted
<1>4. i # k + 1 /\ j # k + 1 => Old(i) # Old(j)
  BY <1>1
<1> HIDE DEF Old
<1>5. CASE i # k + 1 /\ j # k + 1
  BY <1>2, <1>4, <1>5
<1>6. CASE i = k + 1
  BY <1>2, <1>3, <1>6
<1>7. CASE j = k + 1
  BY <1>2, <1>3, <1>7
<1> QED
  BY <1>5, <1>6, <1>7
-----------------------------------------------------------------------------
(* Every call. *)

\* What et_insert() does to a list that it survives.
LEMMA InsertKeeps ==
  ASSUME TypeOK, Sorted, NEW t \in ArmedTimers, et_insert(t)
  PROVE  /\ alive' \in BOOLEAN /\ hasTail' \in BOOLEAN
         /\ list' \in Seq(ArmedTimers)
         /\ hasTail' => list' # <<>>
         /\ Sorted'
         /\ alive' \/ list' # list =>
              /\ {list'[i] : i \in DOMAIN list'} = {list[i] : i \in DOMAIN list} \cup {t}
              /\ (\A i \in DOMAIN list : list[i].at # t.at)
                    /\ (\A i, j \in DOMAIN list : i # j => list[i].at # list[j].at)
                  => \A i, j \in DOMAIN list' : i # j => list'[i].at # list'[j].at
<1>1. CASE list # <<>> /\ ~hasTail
  BY <1>1 DEF et_insert, TypeOK, Sorted
<1>2. CASE ~(list # <<>> /\ ~hasTail)
  <2> DEFINE n == Len(list)
             m == list'
  <2>1. PICK k \in Walk(t) :
          /\ list' = Inserted(t, k)
          /\ hasTail' = (\/ k = Len(list) \/ t.et < Head(list).et \/ k + 1 < Len(list))
          /\ alive' = alive
    BY <1>2 DEF et_insert
  <2>2. /\ n \in Nat /\ DOMAIN list = 1 .. n
        /\ \A i \in 1 .. n : list[i] \in ArmedTimers
    BY LenProperties, ElementOfSeq DEF TypeOK
  <2>3. /\ k \in 0 .. n
        /\ \A i \in 1 .. k : list[i].et < t.et
        /\ k < n => list[k + 1].et >= t.et
    BY DEF Walk
  <2>4. /\ m \in Seq(ArmedTimers) /\ Len(m) = n + 1
        /\ IsInserted(list, m, n, k, t)
    <3>1. list \in Seq(ArmedTimers)
      BY DEF TypeOK
    <3>2. k \in 0 .. Len(list)
      BY <2>3
    <3>3. m = InsertAt(list, k + 1, t)
      BY <2>1 DEF Inserted
    <3> HIDE DEF m
    <3> QED
      BY <3>1, <3>2, <3>3, InsertAtIndexes
  <2>5. DOMAIN m = 1 .. n + 1 /\ m # <<>>
    BY <2>2, <2>4, LenProperties
  <2>7. alive' \in BOOLEAN /\ hasTail' \in BOOLEAN
    BY <2>1 DEF TypeOK
  <2> HIDE DEF n
  <2>8. t.et \in Int /\ \A i \in 1 .. n : list[i].et \in Int
    BY <2>2 DEF ArmedTimers
  <2>9. \A i, j \in 1 .. n + 1 : i < j => m[i].et <= m[j].et
    BY <2>2, <2>3, <2>4, <2>8, InsertedSorted DEF Sorted
  <2>10. {m[i] : i \in 1 .. n + 1} = {list[i] : i \in 1 .. n} \cup {t}
    <3>1. IsInserted(list, m, n, k, t)
      BY <2>4
    <3> HIDE DEF m
    <3>2. /\ \A i \in 1 .. n + 1 : m[i] = t \/ \E p \in 1 .. n : m[i] = list[p]
          /\ \A p \in 1 .. n : \E i \in 1 .. n + 1 : m[i] = list[p]
          /\ \E i \in 1 .. n + 1 : m[i] = t
      BY <3>1, InsertedElements
    <3> QED
      BY <3>2
  <2>11. ASSUME \A i \in 1 .. n : list[i].at # t.at,
                \A i, j \in 1 .. n : i # j => list[i].at # list[j].at
         PROVE  \A i, j \in 1 .. n + 1 : i # j => m[i].at # m[j].at
    BY <2>4, <2>11, InsertedDistinct
  <2>12. Sorted'
    BY <2>5, <2>9 DEF Sorted
  <2> QED
    BY <2>2, <2>4, <2>5, <2>7, <2>10, <2>11, <2>12
<1> QED
  BY <1>1, <1>2

LEMMA RegisterTimerInv ==
  ASSUME TimersInv, NEW p \in Cells, NEW mb \in Mbuffs, RegisterTimer(p, mb)
  PROVE  TimersInv'
<1> DEFINE t == Timer(p, mb, now + Timeout)
<1>1. t \in ArmedTimers /\ t.at = p
  BY TimersAssumption DEF RegisterTimer, Timer, ArmedTimers, TimersInv, TypeOK
<1>2. et_insert(t) /\ armed' = armed \cup {t}
  BY DEF RegisterTimer
<1>3. /\ alive /\ held = None /\ held' = None
      /\ now' \in 0 .. MaxNow
      /\ \A u \in armed : u.at # p
  BY TimersAssumption DEF RegisterTimer, TimersInv, TypeOK
<1> HIDE DEF t
<1>4. /\ armed = {list[i] : i \in DOMAIN list}
      /\ \A i, j \in DOMAIN list : i # j => list[i].at # list[j].at
  BY <1>3 DEF TimersInv, ListIsArmed
<1>5. \A i \in DOMAIN list : list[i].at # t.at
  BY <1>1, <1>3, <1>4
<1>6. /\ alive' \in BOOLEAN /\ hasTail' \in BOOLEAN
      /\ list' \in Seq(ArmedTimers) /\ (hasTail' => list' # <<>>) /\ Sorted'
      /\ alive' => /\ {list'[i] : i \in DOMAIN list'} = {list[i] : i \in DOMAIN list} \cup {t}
                   /\ \A i, j \in DOMAIN list' : i # j => list'[i].at # list'[j].at
  BY <1>1, <1>2, <1>4, <1>5, InsertKeeps DEF TimersInv
<1>7. TypeOK'
  BY <1>1, <1>2, <1>3, <1>6 DEF TimersInv, TypeOK
<1>8. HeldDue'
  BY <1>3 DEF HeldDue
<1>9. ListIsArmed'
  BY <1>2, <1>3, <1>4, <1>6 DEF ListIsArmed
<1> QED
  BY <1>6, <1>7, <1>8, <1>9 DEF TimersInv

LEMMA RefreshTimerInv ==
  ASSUME TimersInv, RefreshTimer
  PROVE  TimersInv'
<1> DEFINE t == Timer(held.at, held.mb, held.et + Timeout)
<1>1. held # None /\ alive /\ held \in ArmedTimers /\ held.et < now /\ now \in 0 .. MaxNow
  BY DEF RefreshTimer, TimersInv, TypeOK, HeldDue
<1>2. t \in ArmedTimers /\ t.at = held.at
  BY <1>1, TimersAssumption DEF Timer, ArmedTimers
<1>3. et_insert(t) /\ armed' = (armed \ {held}) \cup {t} /\ held' = None /\ now' = now
  BY DEF RefreshTimer
<1> HIDE DEF t
<1>4. /\ armed = {list[i] : i \in DOMAIN list} \cup {held}
      /\ \A i, j \in DOMAIN list : i # j => list[i].at # list[j].at
      /\ \A i \in DOMAIN list : list[i].at # held.at
  BY <1>1 DEF TimersInv, ListIsArmed, HeldDue
<1>5. /\ armed \ {held} = {list[i] : i \in DOMAIN list}
      /\ \A i \in DOMAIN list : list[i].at # t.at
  BY <1>2, <1>4
<1>6. /\ alive' \in BOOLEAN /\ hasTail' \in BOOLEAN
      /\ list' \in Seq(ArmedTimers) /\ (hasTail' => list' # <<>>) /\ Sorted'
      /\ alive' => /\ {list'[i] : i \in DOMAIN list'} = {list[i] : i \in DOMAIN list} \cup {t}
                   /\ \A i, j \in DOMAIN list' : i # j => list'[i].at # list'[j].at
  BY <1>2, <1>3, <1>4, <1>5, InsertKeeps DEF TimersInv
<1>7. TypeOK'
  BY <1>1, <1>2, <1>3, <1>6 DEF TimersInv, TypeOK
<1>8. HeldDue'
  BY <1>3 DEF HeldDue
<1>9. ListIsArmed'
  BY <1>3, <1>5, <1>6 DEF ListIsArmed
<1> QED
  BY <1>6, <1>7, <1>8, <1>9 DEF TimersInv

\* A list rebuilt in its order stays sorted and loses the timers of mb only.
LEMMA RemoveTimerInv ==
  ASSUME TimersInv, NEW mb \in Mbuffs, RemoveTimer(mb)
  PROVE  TimersInv'
<1> DEFINE O == Others(mb)
           c == Cardinality(O)
<1>1. PICK f \in Bijection(1 .. c, O) :
        /\ \A i, j \in DOMAIN f : i < j => f[i] < f[j]
        /\ list' = [i \in DOMAIN f |-> list[f[i]]]
  BY DEF RemoveTimer
<1>2. /\ Len(list) \in Nat /\ DOMAIN list = 1 .. Len(list)
      /\ \A i \in DOMAIN list : list[i] \in ArmedTimers
  BY LenProperties, ElementOfSeq DEF TimersInv, TypeOK
<1>3. c \in Nat
  <2>1. IsFiniteSet(1 .. Len(list)) /\ O \subseteq 1 .. Len(list)
    BY <1>2, FS_Interval DEF Others
  <2>2. IsFiniteSet(O)
    BY <2>1, FS_Subset
  <2> HIDE DEF O
  <2> QED
    BY <2>2, FS_CardinalityType
<1>4. O = {i \in DOMAIN list : list[i].mb # mb}
  BY DEF Others
<1> HIDE DEF O, c
<1>5. /\ DOMAIN f = 1 .. c
      /\ \A i \in 1 .. c : f[i] \in O
      /\ \A i, j \in 1 .. c : f[i] = f[j] => i = j
      /\ \A o \in O : \E i \in 1 .. c : f[i] = o
  BY DEF Bijection, Injection, Surjection, IsInjective
<1>6. /\ list' = [i \in 1 .. c |-> list[f[i]]]
      /\ list' \in Seq(ArmedTimers)
      /\ DOMAIN list' = 1 .. c
      /\ \A i \in 1 .. c : list'[i] = list[f[i]] /\ f[i] \in DOMAIN list
  BY <1>1, <1>2, <1>3, <1>4, <1>5
<1>7. UNCHANGED <<held, now, alive>> /\ held = None /\ alive
      /\ hasTail' = (list' # <<>>) /\ armed' = {t \in armed : t.mb # mb}
  BY DEF RemoveTimer
<1>8. Sorted'
  <2> SUFFICES ASSUME NEW i \in 1 .. c, NEW j \in 1 .. c, i < j
               PROVE  list'[i].et <= list'[j].et
    BY <1>6 DEF Sorted
  <2>1. f[i] < f[j]
    BY <1>1, <1>5
  <2> QED
    BY <1>6, <2>1 DEF TimersInv, Sorted
<1>9. {list'[i] : i \in 1 .. c} = {t \in {list[i] : i \in DOMAIN list} : t.mb # mb}
  <2>1. ASSUME NEW i \in 1 .. c
        PROVE  \E p \in DOMAIN list : list'[i] = list[p] /\ list[p].mb # mb
    BY <1>4, <1>5, <1>6
  <2>2. ASSUME NEW p \in DOMAIN list, list[p].mb # mb
        PROVE  \E i \in 1 .. c : list'[i] = list[p]
    <3>1. PICK i \in 1 .. c : f[i] = p
      BY <1>4, <1>5, <2>2
    <3> QED
      BY <1>6, <3>1
  <2> QED
    BY <2>1, <2>2
<1>10. ListIsArmed'
  <2>1. \A i, j \in 1 .. c : i # j => list'[i].at # list'[j].at
    BY <1>5, <1>6, <1>7 DEF TimersInv, ListIsArmed
  <2>2. armed = {list[i] : i \in DOMAIN list}
    BY <1>7 DEF TimersInv, ListIsArmed
  <2> QED
    BY <1>6, <1>7, <1>9, <2>1, <2>2 DEF ListIsArmed
<1>11. TypeOK'
  BY <1>6, <1>7 DEF TimersInv, TypeOK
<1>12. HeldDue'
  BY <1>7 DEF HeldDue
<1> QED
  BY <1>8, <1>10, <1>11, <1>12 DEF TimersInv

\* The head of a sorted list is due first.
LEMMA GetExpiredInv ==
  ASSUME TimersInv, GetExpired
  PROVE  TimersInv' /\ held' \in armed /\ held'.et < now /\ \A t \in armed : held'.et <= t.et
<1> DEFINE n == Len(list)
<1>1. /\ n \in Nat /\ DOMAIN list = 1 .. n
      /\ \A i \in DOMAIN list : list[i] \in ArmedTimers
  BY LenProperties, ElementOfSeq DEF TimersInv, TypeOK
<1>2. list # <<>> /\ held = None /\ alive
  BY DEF GetExpired
<1>3. /\ list' \in Seq(ArmedTimers) /\ Len(list') = n - 1
      /\ \A i \in 1 .. n - 1 : list'[i] = list[i + 1]
  BY <1>2, HeadTailProperties DEF GetExpired, TimersInv, TypeOK
<1>4. n >= 1
  BY <1>1, <1>2, EmptySeq DEF TimersInv, TypeOK
<1>5. held' = list[1] /\ list[1].et < now /\ UNCHANGED <<now, alive, armed>>
  <2>1. Head(list) = list[1]
    BY <1>2 DEF TimersInv, TypeOK
  <2>2. list[1].et \in Int /\ now \in Int
    BY <1>1, <1>4 DEF ArmedTimers, TimersInv, TypeOK
  <2> QED
    BY <2>1, <2>2 DEF GetExpired
<1>6. DOMAIN list' = 1 .. n - 1
  BY <1>1, <1>3, LenProperties
<1>7. hasTail' = (hasTail /\ list' # <<>>)
  BY DEF GetExpired
<1> HIDE DEF n
<1>8. \A i \in 1 .. n - 1 : i + 1 \in 1 .. n /\ i + 1 # 1
  BY <1>1
<1>9. 1 \in 1 .. n /\ list[1] \in ArmedTimers /\ list[1] # None
  <2>1. 1 \in 1 .. n /\ list[1] \in ArmedTimers
    BY <1>1, <1>4
  <2>2. ArmedTimers \subseteq [at : Cells, mb : Mbuffs, et : Nat]
    BY TimersAssumption DEF ArmedTimers
  <2> QED
    BY <2>1, <2>2, TimersAssumption
<1>10. /\ armed = {list[i] : i \in 1 .. n}
       /\ \A i, j \in 1 .. n : i # j => list[i].at # list[j].at
  BY <1>1, <1>2 DEF TimersInv, ListIsArmed
<1>11. {list[i] : i \in 1 .. n} = {list'[i] : i \in 1 .. n - 1} \cup {list[1]}
  <2>1. ASSUME NEW i \in 1 .. n
        PROVE  list[i] = list[1] \/ \E j \in 1 .. n - 1 : list[i] = list'[j]
    <3>1. CASE i # 1
      <4>1. i - 1 \in 1 .. n - 1 /\ (i - 1) + 1 = i
        BY <1>1, <3>1
      <4>2. list'[i - 1] = list[i]
        BY <1>3, <4>1
      <4> QED
        BY <4>1, <4>2
    <3> QED
      BY <3>1
  <2> QED
    BY <1>3, <1>8, <1>9, <2>1
<1>12. \A i \in 1 .. n - 1 : list'[i].at # list[1].at
  BY <1>3, <1>8, <1>9, <1>10
<1>13. \A i, j \in 1 .. n - 1 : i # j => list'[i].at # list'[j].at
  BY <1>3, <1>8, <1>10
<1>14. Sorted'
  <2> SUFFICES ASSUME NEW i \in 1 .. n - 1, NEW j \in 1 .. n - 1, i < j
               PROVE  list'[i].et <= list'[j].et
    BY <1>6 DEF Sorted
  <2>1. i + 1 < j + 1 /\ i + 1 \in 1 .. n /\ j + 1 \in 1 .. n
    BY <1>1
  <2>2. list[i + 1].et <= list[j + 1].et
    BY <1>1, <2>1 DEF TimersInv, Sorted
  <2> QED
    BY <1>3, <2>2
<1>15. \A i \in 1 .. n : list[1].et <= list[i].et
  <2>1. list[1].et \in Int
    BY <1>9 DEF ArmedTimers
  <2> QED
    BY <1>1, <1>9, <2>1 DEF TimersInv, Sorted
<1>16. TypeOK'
  BY <1>3, <1>5, <1>7, <1>9 DEF TimersInv, TypeOK
<1>17. HeldDue'
  BY <1>5, <1>6, <1>12 DEF HeldDue
<1>18. ListIsArmed'
  BY <1>2, <1>5, <1>6, <1>9, <1>10, <1>11, <1>13 DEF ListIsArmed
<1> QED
  BY <1>5, <1>9, <1>10, <1>14, <1>15, <1>16, <1>17, <1>18 DEF TimersInv

LEMMA FreeTimerInv ==
  ASSUME TimersInv, FreeTimer
  PROVE  TimersInv'
<1>1. /\ alive /\ held # None /\ armed' = armed \ {held} /\ held' = None
      /\ UNCHANGED <<list, hasTail, now, alive>>
  BY DEF FreeTimer
<1>2. armed' = {list[i] : i \in DOMAIN list}
  BY <1>1 DEF TimersInv, ListIsArmed, HeldDue
<1> QED
  BY <1>1, <1>2 DEF TimersInv, TypeOK, Sorted, HeldDue, ListIsArmed

LEMMA TickInv ==
  ASSUME TimersInv, Tick
  PROVE  TimersInv'
<1>1. now' \in 0 .. MaxNow /\ now < now' /\ UNCHANGED <<list, hasTail, held, alive, armed>>
  BY TimersAssumption DEF Tick, TimersInv, TypeOK
<1>2. HeldDue'
  <2>1. held # None => held.et \in Int
    BY DEF TimersInv, TypeOK, ArmedTimers
  <2>2. now \in Int /\ now' \in Int
    BY <1>1 DEF TimersInv, TypeOK
  <2> QED
    BY <1>1, <2>1, <2>2 DEF TimersInv, HeldDue
<1> QED
  BY <1>1, <1>2 DEF TimersInv, TypeOK, Sorted, ListIsArmed

LEMMA NextInv ==
  ASSUME TimersInv, [Next]_vars
  PROVE  TimersInv'
<1>1. CASE UNCHANGED vars
  BY <1>1 DEF vars, TimersInv, TypeOK, Sorted, HeldDue, ListIsArmed
<1> QED
  BY <1>1, RegisterTimerInv, RemoveTimerInv, GetExpiredInv, RefreshTimerInv, FreeTimerInv,
     TickInv DEF Next

LEMMA InvAlways == Spec => []TimersInv
<1>1. Init => TimersInv
  <2> SUFFICES ASSUME Init PROVE TimersInv
    OBVIOUS
  <2>1. list \in Seq(ArmedTimers) /\ DOMAIN list = {}
    BY EmptySeq DEF Init
  <2>2. TypeOK
    <3>1. hasTail = FALSE /\ held = None /\ now = 0 /\ alive = TRUE /\ armed = {}
      BY DEF Init
    <3>2. 0 \in 0 .. MaxNow
      BY TimersAssumption
    <3> QED
      BY <2>1, <3>1, <3>2 DEF TypeOK
  <2>3. ListIsArmed
    BY <2>1 DEF Init, ListIsArmed
  <2> QED
    BY <2>1, <2>2, <2>3 DEF Init, TimersInv, Sorted, HeldDue
<1>2. TimersInv /\ [Next]_vars => TimersInv'
  BY NextInv
<1> QED
  BY <1>1, <1>2, PTL DEF Spec

-----------------------------------------------------------------------------

\* The list keeps its types, and an empty list has no tail.
THEOREM TimersTypeCorrect == Spec => []TypeOK
<1>1. TimersInv => TypeOK
  BY DEF TimersInv
<1> QED
  BY <1>1, InvAlways, PTL

\* Inserting, rebuilding and refreshing lose no timer and double none, for any
\* number of messages and any timeout.
THEOREM ListCorrect == Spec => []ListIsArmed
<1>1. TimersInv => ListIsArmed
  BY DEF TimersInv
<1> QED
  BY <1>1, InvAlways, PTL

\* do_process_expired() is handed the timer that is due first and none before
\* its time, although get_expired() looks at the head of the list only.
THEOREM EarliestCorrect == Spec => EarliestFirst
<1>1. ASSUME TimersInv, [Next]_vars, held' # held, held' # None
      PROVE  held'.et < now /\ \A t \in armed : held'.et <= t.et
  <2>1. GetExpired
    BY <1>1 DEF Next, vars, RegisterTimer, RemoveTimer, RefreshTimer, FreeTimer, Tick
  <2> QED
    BY <1>1, <2>1, GetExpiredInv
<1>2. TimersInv /\ [Next]_vars
        => [held' # held /\ held' # None =>
              held'.et < now /\ \A t \in armed : held'.et <= t.et]_vars
  BY <1>1
<1> QED
  BY <1>2, InvAlways, PTL DEF Spec, EarliestFirst
=============================================================================
