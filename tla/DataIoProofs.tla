---------------------------- MODULE DataIoProofs ----------------------------
(***************************************************************************)
(* The safety properties of the data I/O thread, for any sockets, any      *)
(* sizes of writes, reads and mbuffs and any number of failures: no byte   *)
(* of a stream is lost, doubled or moved, and the mbuffs are accounted     *)
(* for.                                                                    *)
(***************************************************************************)
EXTENDS DataIo, SequenceTheorems, FiniteSetTheorems, WellFoundedInduction, TLAPS

-----------------------------------------------------------------------------
(* Induction and recursion over the places of a sequence *)

\* Induction over the numbers, for a set of them.
LEMMA Induct ==
  ASSUME NEW T \in SUBSET Nat, 0 \in T, \A n \in T : n + 1 \in T
  PROVE  T = Nat
<1> SUFFICES ASSUME Nat \ T # {} PROVE FALSE
  OBVIOUS
<1> DEFINE M == Nat \ T
<1> HIDE DEF M
<1>1. M \subseteq Nat /\ M # {}
  BY DEF M
<1>2. \E m \in M : \A n \in M : ~ n < m
  <2>1. PICK m \in M : \A n \in M : ~ (<<n, m>> \in OpToRel(<, Nat))
    BY <1>1, NatLessThanWellFounded, WFMin
  <2>2. \A n \in M : ~ n < m
    BY <1>1, <2>1 DEF OpToRel
  <2> QED
    BY <2>2
<1>3. PICK m \in M : \A n \in M : ~ n < m
  BY <1>2
<1>4. m # 0 /\ m - 1 \in Nat /\ m - 1 < m /\ m - 1 + 1 = m
  BY <1>1, <1>3 DEF M
<1>5. m - 1 \in T
  BY <1>3, <1>4 DEF M
<1> QED
  BY <1>3, <1>4, <1>5 DEF M

\* The first n places of the recursion of FlattenSeq and of Enqueued.
FlatTo(q, n, f) == [i \in 1 .. n |-> IF i = 1 THEN q[i] ELSE f[i - 1] \o q[i]]
PickTo(q, opt, n, f) ==
  [i \in 0 .. n |-> IF i = 0 THEN <<>>
                    ELSE IF q[i].opt = opt THEN Append(f[i - 1], q[i]) ELSE f[i - 1]]

LEMMA FlatExists ==
  ASSUME NEW q, NEW n \in Nat
  PROVE  \E f : f = FlatTo(q, n, f)
<1> DEFINE T == {k \in Nat : \E f : f = FlatTo(q, k, f)}
<1>1. 0 \in T
  <2>1. PICK f : f = [i \in 1 .. 0 |-> 0]
    OBVIOUS
  <2>2. f = FlatTo(q, 0, f)
    BY <2>1 DEF FlatTo
  <2> QED
    BY <2>2
<1>2. ASSUME NEW k \in T PROVE k + 1 \in T
  <2>1. PICK f : f = FlatTo(q, k, f)
    OBVIOUS
  <2>2. PICK g : g = FlatTo(q, k + 1, f)
    OBVIOUS
  <2>3. k \in Nat
    OBVIOUS
  <2> HIDE DEF T
  <2>4. \A i \in 1 .. k : f[i] = IF i = 1 THEN q[i] ELSE f[i - 1] \o q[i]
    BY <2>1 DEF FlatTo
  <2>5. \A i \in 1 .. k + 1 : g[i] = IF i = 1 THEN q[i] ELSE f[i - 1] \o q[i]
    BY <2>2 DEF FlatTo
  <2>6. \A i \in 1 .. k : g[i] = f[i]
    BY <2>3, <2>4, <2>5
  <2>7. \A i \in 1 .. k + 1 : i # 1 => i - 1 \in 1 .. k
    BY <2>3
  <2>8. \A i \in 1 .. k + 1 : g[i] = IF i = 1 THEN q[i] ELSE g[i - 1] \o q[i]
    BY <2>5, <2>6, <2>7
  <2>9. g = FlatTo(q, k + 1, g)
    BY <2>2, <2>8 DEF FlatTo
  <2> QED
    BY <2>3, <2>9 DEF T
<1>3. T = Nat
  <2> HIDE DEF T
  <2>1. T \in SUBSET Nat
    BY DEF T
  <2> QED
    BY <1>1, <1>2, <2>1, Induct
<1> QED
  BY <1>3

LEMMA PickExists ==
  ASSUME NEW q, NEW opt, NEW n \in Nat
  PROVE  \E f : f = PickTo(q, opt, n, f)
<1> DEFINE T == {k \in Nat : \E f : f = PickTo(q, opt, k, f)}
<1>1. 0 \in T
  <2>1. PICK f : f = [i \in 0 .. 0 |-> <<>>]
    OBVIOUS
  <2>2. f = PickTo(q, opt, 0, f)
    BY <2>1 DEF PickTo
  <2> QED
    BY <2>2
<1>2. ASSUME NEW k \in T PROVE k + 1 \in T
  <2>1. PICK f : f = PickTo(q, opt, k, f)
    OBVIOUS
  <2>2. PICK g : g = PickTo(q, opt, k + 1, f)
    OBVIOUS
  <2>3. k \in Nat
    OBVIOUS
  <2> HIDE DEF T
  <2>4. \A i \in 0 .. k : f[i] = IF i = 0 THEN <<>>
                  ELSE IF q[i].opt = opt THEN Append(f[i - 1], q[i]) ELSE f[i - 1]
    BY <2>1 DEF PickTo
  <2>5. \A i \in 0 .. k + 1 : g[i] = IF i = 0 THEN <<>>
                  ELSE IF q[i].opt = opt THEN Append(f[i - 1], q[i]) ELSE f[i - 1]
    BY <2>2 DEF PickTo
  <2>6. \A i \in 0 .. k : g[i] = f[i]
    BY <2>3, <2>4, <2>5
  <2>7. \A i \in 0 .. k + 1 : i # 0 => i - 1 \in 0 .. k
    BY <2>3
  <2>8. \A i \in 0 .. k + 1 : g[i] = IF i = 0 THEN <<>>
                  ELSE IF q[i].opt = opt THEN Append(g[i - 1], q[i]) ELSE g[i - 1]
    BY <2>5, <2>6, <2>7
  <2>9. g = PickTo(q, opt, k + 1, g)
    BY <2>2, <2>8 DEF PickTo
  <2> QED
    BY <2>3, <2>9 DEF T
<1>3. T = Nat
  <2> HIDE DEF T
  <2>1. T \in SUBSET Nat
    BY DEF T
  <2> QED
    BY <1>1, <1>2, <2>1, Induct
<1> QED
  BY <1>3

-----------------------------------------------------------------------------
(* The bytes of a sequence of mbuffs *)

Mbuffs == Seq(Seq(Nat))

\* f[i] holds the bytes of the first i mbuffs.
IsFlat(q, f) ==
  /\ f \in [0 .. Len(q) -> Seq(Nat)]
  /\ f[0] = <<>>
  /\ \A i \in 1 .. Len(q) : f[i] = f[i - 1] \o q[i]

\* The recursion of FlattenSeq goes through the bytes of one mbuff after another.
LEMMA FlatIs ==
  ASSUME NEW q \in Mbuffs
  PROVE  \E f : IsFlat(q, f) /\ FlattenSeq(q) = f[Len(q)]
<1> DEFINE n == Len(q)
           h == CHOOSE f : f = FlatTo(q, n, f)
<1>0. n \in Nat /\ DOMAIN q = 1 .. n /\ \A i \in 1 .. n : q[i] \in Seq(Nat)
  BY DEF Mbuffs
<1>1. h = FlatTo(q, n, h)
  BY <1>0, FlatExists
<1>2. FlattenSeq(q) = IF n = 0 THEN q ELSE h[n]
  BY DEF FlattenSeq, FlatTo
<1> HIDE DEF h, n
<1>3. \A i \in 1 .. n : h[i] = IF i = 1 THEN q[i] ELSE h[i - 1] \o q[i]
  BY <1>1 DEF FlatTo
<1>4. \A i \in 1 .. n : h[i] \in Seq(Nat)
  <2> DEFINE T == {k \in Nat : k + 1 <= n => h[k + 1] \in Seq(Nat)}
  <2>1. 0 \in T
    BY <1>0, <1>3
  <2>2. ASSUME NEW k \in T PROVE k + 1 \in T
    <3> SUFFICES ASSUME (k + 1) + 1 <= n PROVE h[(k + 1) + 1] \in Seq(Nat)
      OBVIOUS
    <3>1. k \in Nat /\ h[k + 1] \in Seq(Nat) /\ q[(k + 1) + 1] \in Seq(Nat)
      BY <1>0
    <3> HIDE DEF T
    <3>2. PICK i \in 1 .. n : i = (k + 1) + 1
      BY <1>0, <3>1
    <3>3. i # 1 /\ i - 1 = k + 1
      BY <1>0, <3>1, <3>2
    <3>4. h[i] = h[i - 1] \o q[i]
      BY <1>3, <3>3
    <3> QED
      BY <3>1, <3>2, <3>3, <3>4
  <2>3. T = Nat
    <3> HIDE DEF T
    <3>1. T \in SUBSET Nat
      BY DEF T
    <3> QED
      BY <2>1, <2>2, <3>1, Induct
  <2> QED
    <3> SUFFICES ASSUME NEW i \in 1 .. n PROVE h[i] \in Seq(Nat)
      OBVIOUS
    <3> HIDE DEF T
    <3>1. i - 1 \in T /\ (i - 1) + 1 = i /\ i <= n
      BY <1>0, <2>3
    <3> QED
      BY <3>1 DEF T
<1>5. PICK f : f = [i \in 0 .. n |-> IF i = 0 THEN <<>> ELSE h[i]]
  OBVIOUS
<1>6. IsFlat(q, f)
  <2>1. f \in [0 .. n -> Seq(Nat)] /\ f[0] = <<>>
    BY <1>0, <1>4, <1>5
  <2>2. ASSUME NEW i \in 1 .. n PROVE f[i] = f[i - 1] \o q[i]
    <3>1. CASE i = 1
      BY <3>1, <1>0, <1>3, <1>5
    <3>2. CASE i # 1
      <4>1. i - 1 \in 0 .. n /\ i - 1 # 0 /\ i \in 0 .. n /\ i # 0
        BY <3>2, <1>0
      <4>2. f[i] = h[i] /\ f[i - 1] = h[i - 1]
        BY <4>1, <1>5
      <4> QED
        BY <3>2, <4>2, <1>3
    <3> QED
      BY <3>1, <3>2
  <2> QED
    BY <2>1, <2>2 DEF IsFlat, n
<1>7. FlattenSeq(q) = f[n]
  <2>1. CASE n = 0
    <3>1. q = <<>>
      BY <2>1 DEF Mbuffs, n
    <3> QED
      BY <2>1, <3>1, <1>2, <1>5
  <2>2. CASE n # 0
    BY <2>2, <1>0, <1>2, <1>5
  <2> QED
    BY <2>1, <2>2
<1> QED
  BY <1>6, <1>7 DEF n

\* The first mbuffs alone say what their bytes are.
LEMMA FlatSame ==
  ASSUME NEW q \in Mbuffs, NEW r \in Mbuffs, NEW k \in Nat, k <= Len(q), k <= Len(r),
         \A i \in 1 .. k : q[i] = r[i],
         NEW f, IsFlat(q, f), NEW g, IsFlat(r, g)
  PROVE  f[k] = g[k]
<1> DEFINE T == {n \in Nat : n <= k => f[n] = g[n]}
<1>1. 0 \in T
  BY DEF IsFlat
<1>2. ASSUME NEW n \in T PROVE n + 1 \in T
  <2> SUFFICES ASSUME n + 1 <= k PROVE f[n + 1] = g[n + 1]
    OBVIOUS
  <2>1. n \in Nat /\ f[n] = g[n]
    OBVIOUS
  <2> HIDE DEF T
  <2>2. PICK i \in 1 .. k : i = n + 1 /\ i - 1 = n
    BY <2>1
  <2>3. Len(q) \in Nat /\ Len(r) \in Nat
    BY DEF Mbuffs
  <2>4. i \in 1 .. Len(q) /\ i \in 1 .. Len(r) /\ q[i] = r[i]
    BY <2>2, <2>3
  <2>5. f[i] = f[i - 1] \o q[i]
    BY <2>4 DEF IsFlat
  <2>6. g[i] = g[i - 1] \o r[i]
    BY <2>4 DEF IsFlat
  <2> QED
    BY <2>1, <2>2, <2>4, <2>5, <2>6
<1>3. T = Nat
  <2> HIDE DEF T
  <2>1. T \in SUBSET Nat
    BY DEF T
  <2> QED
    BY <1>1, <1>2, <2>1, Induct
<1> QED
  BY <1>3

\* One mbuff more, and at least as many bytes.
LEMMA FlatGrows ==
  ASSUME NEW q \in Mbuffs, NEW f, IsFlat(q, f), NEW i \in 1 .. Len(q)
  PROVE  /\ f[i] \in Seq(Nat) /\ f[i - 1] \in Seq(Nat) /\ q[i] \in Seq(Nat)
         /\ f[i] = f[i - 1] \o q[i] /\ Len(f[i]) = Len(f[i - 1]) + Len(q[i])
         /\ Len(f[i - 1]) \in Nat /\ Len(f[i - 1]) <= Len(f[i])
<1>1. Len(q) \in Nat /\ q[i] \in Seq(Nat) /\ i \in 0 .. Len(q) /\ i - 1 \in 0 .. Len(q)
  BY DEF Mbuffs
<1>2. f[i] \in Seq(Nat) /\ f[i - 1] \in Seq(Nat) /\ f[i] = f[i - 1] \o q[i]
  BY <1>1 DEF IsFlat
<1>3. Len(f[i]) = Len(f[i - 1]) + Len(q[i]) /\ Len(f[i - 1]) \in Nat /\ Len(q[i]) \in Nat
  BY <1>1, <1>2
<1>4. PICK x \in Nat, y \in Nat : x = Len(f[i - 1]) /\ y = Len(q[i])
  BY <1>3
<1>5. Len(f[i - 1]) <= Len(f[i])
  <2>1. Len(f[i]) = x + y
    BY <1>3, <1>4
  <2>2. x <= x + y
    OBVIOUS
  <2> QED
    BY <1>4, <2>1, <2>2
<1> QED
  BY <1>1, <1>2, <1>3, <1>5, Zenon

\* The bytes of the first mbuffs.
LEMMA UptoIs ==
  ASSUME NEW q \in Mbuffs, NEW f, IsFlat(q, f), NEW k \in 0 .. Len(q)
  PROVE  Upto(q, k) = Len(f[k])
<1> DEFINE r == SubSeq(q, 1, k)
<1>1. r \in Mbuffs /\ Len(r) = k /\ \A i \in 1 .. k : q[i] = r[i]
  BY DEF Mbuffs
<1> HIDE DEF r
<1>2. PICK g : IsFlat(r, g) /\ FlattenSeq(r) = g[Len(r)]
  BY <1>1, FlatIs
<1>3. k \in Nat /\ k <= Len(q) /\ k <= Len(r)
  BY <1>1 DEF Mbuffs
<1>4. f[k] = g[k]
  BY <1>1, <1>2, <1>3, FlatSame
<1> QED
  BY <1>1, <1>2, <1>4 DEF Upto, r

\* Of numbers that grow, those up to n come first.
LEMMA FirstOnes ==
  ASSUME NEW N \in Nat, NEW L \in [0 .. N -> Nat], \A i \in 1 .. N : L[i - 1] <= L[i], NEW n \in Nat
  PROVE  \E d \in 0 .. N : {i \in 1 .. N : L[i] <= n} = 1 .. d /\ (d < N => n < L[d + 1])
<1> DEFINE Upto1(k, d) ==
             {i \in 1 .. k : L[i] <= n} = 1 .. d /\ (d < k => n < L[d + 1] /\ n < L[k])
           T == {k \in Nat : k <= N => \E d \in 0 .. k : Upto1(k, d)}
<1>1. 0 \in T
  <2>1. Upto1(0, 0)
    OBVIOUS
  <2> QED
    BY <2>1
<1>2. ASSUME NEW k \in T, k + 1 <= N PROVE \E d \in 0 .. k + 1 : Upto1(k + 1, d)
  <2>1. k \in Nat /\ k <= N
    BY <1>2
  <2>2. PICK d \in 0 .. k : Upto1(k, d)
    <3> HIDE DEF Upto1
    <3> QED
      BY <2>1
  <2> HIDE DEF T
  <2>3. L[k] \in Nat /\ L[k + 1] \in Nat /\ L[k] <= L[k + 1]
    <3>1. k + 1 \in 1 .. N /\ (k + 1) - 1 = k /\ k \in 0 .. N /\ k + 1 \in 0 .. N
      BY <1>2, <2>1
    <3> QED
      BY <3>1
  <2>4. CASE L[k + 1] <= n
    <3>1. d = k
      BY <2>1, <2>2, <2>3, <2>4
    <3>2. {i \in 1 .. k + 1 : L[i] <= n} = 1 .. k + 1
      BY <2>1, <2>2, <2>4, <3>1
    <3>3. Upto1(k + 1, k + 1) /\ k + 1 \in 0 .. k + 1
      BY <2>1, <3>2
    <3> HIDE DEF Upto1
    <3> QED
      BY <3>3
  <2>5. CASE n < L[k + 1]
    <3>1. {i \in 1 .. k + 1 : L[i] <= n} = {i \in 1 .. k : L[i] <= n}
      BY <2>1, <2>3, <2>5
    <3>2. n < L[d + 1]
      <4>1. CASE d = k
        BY <2>5, <4>1
      <4>2. CASE d # k
        BY <2>1, <2>2, <4>2
      <4> QED
        BY <4>1, <4>2
    <3>3. Upto1(k + 1, d) /\ d \in 0 .. k + 1
      BY <2>1, <2>2, <2>5, <3>1, <3>2
    <3> HIDE DEF Upto1
    <3> QED
      BY <3>3
  <2> HIDE DEF Upto1
  <2> QED
    BY <2>3, <2>4, <2>5
<1>3. T = Nat
  <2> HIDE DEF Upto1
  <2>1. ASSUME NEW k \in T PROVE k + 1 \in T
    <3>1. k + 1 <= N => \E d \in 0 .. k + 1 : Upto1(k + 1, d)
      BY <1>2
    <3>2. PICK j \in Nat : j = k + 1
      OBVIOUS
    <3>3. j <= N => \E d \in 0 .. j : Upto1(j, d)
      BY <3>1, <3>2
    <3>4. j \in T
      BY <3>3
    <3> QED
      BY <3>2, <3>4
  <2> HIDE DEF T
  <2>2. T \in SUBSET Nat
    BY DEF T
  <2> QED
    BY <1>1, <2>1, <2>2, Induct
<1>4. PICK d \in 0 .. N : Upto1(N, d)
  <2> HIDE DEF Upto1
  <2>1. N \in T
    BY <1>3
  <2> QED
    BY <2>1
<1> QED
  BY <1>4

\* The mbuffs that were sent whole are the first ones.
LEMMA SentWholeIs ==
  ASSUME NEW q \in Mbuffs, NEW f, IsFlat(q, f), NEW n \in Nat
  PROVE  /\ SentWhole(q, n) \in 0 .. Len(q)
         /\ Len(f[SentWhole(q, n)]) <= n
         /\ SentWhole(q, n) < Len(q) => n < Len(f[SentWhole(q, n) + 1])
<1> DEFINE N == Len(q)
           L == [i \in 0 .. N |-> Len(f[i])]
<1>1. N \in Nat /\ f \in [0 .. N -> Seq(Nat)]
  BY DEF Mbuffs, IsFlat
<1>2. L \in [0 .. N -> Nat]
  BY <1>1
<1>3. \A i \in 1 .. N : L[i - 1] <= L[i]
  <2> SUFFICES ASSUME NEW i \in 1 .. N PROVE L[i - 1] <= L[i]
    OBVIOUS
  <2>1. Len(f[i - 1]) <= Len(f[i])
    BY FlatGrows
  <2>2. i \in 0 .. N /\ i - 1 \in 0 .. N
    BY <1>1
  <2>3. L[i] = Len(f[i]) /\ L[i - 1] = Len(f[i - 1])
    BY <2>2
  <2> HIDE DEF L
  <2> QED
    BY <2>1, <2>3
<1>4. PICK d \in 0 .. N : {i \in 1 .. N : L[i] <= n} = 1 .. d /\ (d < N => n < L[d + 1])
  <2> HIDE DEF L, N
  <2> QED
    BY <1>1, <1>2, <1>3, FirstOnes
<1>5. {i \in 1 .. N : Upto(q, i) <= n} = {i \in 1 .. N : L[i] <= n}
  <2>1. \A i \in 1 .. N : Upto(q, i) = Len(f[i])
    BY <1>1, UptoIs
  <2> QED
    BY <2>1
<1>6. SentWhole(q, n) = d
  <2>1. d \in Nat /\ Cardinality(1 .. d) = d
    <3>1. 1 \in Int /\ d \in Int
      OBVIOUS
    <3> QED
      BY <3>1, FS_Interval
  <2> QED
    BY <1>4, <1>5, <2>1 DEF SentWhole
<1>7. Len(f[d]) <= n
  <2>1. CASE d = 0
    BY <2>1 DEF IsFlat
  <2>2. CASE d # 0
    <3>1. d \in 1 .. d /\ d \in 0 .. N
      BY <2>2, <1>1
    <3> QED
      BY <3>1, <1>4
  <2> QED
    BY <2>1, <2>2
<1>8. d < N => n < Len(f[d + 1])
  <2>1. d < N => d + 1 \in 0 .. N
    BY <1>1
  <2> QED
    BY <2>1, <1>4
<1> QED
  BY <1>6, <1>7, <1>8

-----------------------------------------------------------------------------
(* What senddata() leaves of the mbuffs of a write *)

\* The end of two sequences, from a place in the first or in the second.
LEMMA EndOf ==
  ASSUME NEW S, NEW x \in Seq(S), NEW n \in 0 .. Len(x)
  PROVE  /\ SubSeq(x, n + 1, Len(x)) \in Seq(S)
         /\ Len(SubSeq(x, n + 1, Len(x))) = Len(x) - n
         /\ \A i \in 1 .. Len(x) - n : SubSeq(x, n + 1, Len(x))[i] = x[n + i]
<1>1. n + 1 \in Int /\ Len(x) \in Int /\ \A i \in n + 1 .. Len(x) : x[i] \in S
  OBVIOUS
<1>2. /\ SubSeq(x, n + 1, Len(x)) \in Seq(S)
      /\ Len(SubSeq(x, n + 1, Len(x))) = IF n + 1 <= Len(x) THEN Len(x) - (n + 1) + 1 ELSE 0
      /\ \A i \in 1 .. Len(x) - (n + 1) + 1 : SubSeq(x, n + 1, Len(x))[i] = x[n + 1 + i - 1]
  BY <1>1, SubSeqProperties
<1> DEFINE e == SubSeq(x, n + 1, Len(x))
<1> HIDE DEF e
<1>3. e \in Seq(S) /\ Len(e) = IF n + 1 <= Len(x) THEN Len(x) - (n + 1) + 1 ELSE 0
  BY <1>2 DEF e
<1>4. Len(e) = Len(x) - n
  BY <1>1, <1>3
<1>5. ASSUME NEW i \in 1 .. Len(x) - n PROVE e[i] = x[n + i]
  <2>1. i \in 1 .. Len(x) - (n + 1) + 1 /\ n + 1 + i - 1 = n + i
    BY <1>1
  <2>2. e[i] = x[n + 1 + i - 1]
    BY <1>2, <2>1 DEF e
  <2> QED
    BY <2>1, <2>2
<1> QED
  BY <1>3, <1>4, <1>5 DEF e

LEMMA EndOfFirst ==
  ASSUME NEW a \in Seq(Nat), NEW b \in Seq(Nat), NEW n \in 0 .. Len(a)
  PROVE  SubSeq(a \o b, n + 1, Len(a \o b)) = SubSeq(a, n + 1, Len(a)) \o b
<1> DEFINE x == a \o b
           l == SubSeq(x, n + 1, Len(x))
           c == SubSeq(a, n + 1, Len(a))
<1>1. /\ x \in Seq(Nat) /\ Len(x) = Len(a) + Len(b) /\ Len(a) \in Nat /\ Len(b) \in Nat
      /\ \A i \in 1 .. Len(a) : x[i] = a[i]
      /\ \A i \in 1 .. Len(b) : x[Len(a) + i] = b[i]
  OBVIOUS
<1> HIDE DEF x
<1>2. l \in Seq(Nat) /\ Len(l) = Len(x) - n /\ \A i \in 1 .. Len(x) - n : l[i] = x[n + i]
  <2>1. n \in 0 .. Len(x)
    BY <1>1
  <2> QED
    BY <1>1, <2>1, EndOf
<1>3. c \in Seq(Nat) /\ Len(c) = Len(a) - n /\ \A i \in 1 .. Len(a) - n : c[i] = a[n + i]
  BY EndOf
<1> HIDE DEF l, c
<1>4. c \o b \in Seq(Nat) /\ Len(c \o b) = Len(c) + Len(b)
  <2>1. c \in Seq(Nat)
    BY <1>3
  <2> QED
    BY <2>1
<1>5. /\ \A i \in 1 .. Len(c) : (c \o b)[i] = c[i]
      /\ \A i \in 1 .. Len(b) : (c \o b)[Len(c) + i] = b[i]
  <2>1. c \in Seq(Nat)
    BY <1>3
  <2> QED
    BY <2>1
<1>6. ASSUME NEW i \in 1 .. Len(l) PROVE l[i] = (c \o b)[i]
  <2>1. l[i] = x[n + i] /\ i \in Nat /\ i >= 1
    <3>1. i \in 1 .. Len(x) - n
      BY <1>2, Zenon
    <3>2. Len(x) - n \in Int
      BY <1>1
    <3> QED
      BY <1>2, <3>1, <3>2
  <2>2. CASE i <= Len(a) - n
    <3>1. i \in 1 .. Len(c) /\ n + i \in 1 .. Len(a)
      BY <1>1, <1>3, <2>1, <2>2
    <3>2. (c \o b)[i] = a[n + i]
      BY <1>3, <1>5, <3>1
    <3> QED
      BY <1>1, <2>1, <3>1, <3>2
  <2>3. CASE i > Len(a) - n
    <3>1. PICK j \in 1 .. Len(b) : i = Len(c) + j /\ n + i = Len(a) + j
      <4>1. i <= Len(a) + Len(b) - n /\ Len(c) = Len(a) - n
        BY <1>1, <1>2, <1>3
      <4>2. /\ i - Len(c) \in 1 .. Len(b) /\ i = Len(c) + (i - Len(c))
            /\ n + i = Len(a) + (i - Len(c))
        BY <1>1, <2>1, <2>3, <4>1
      <4> QED
        BY <4>2
    <3>2. (c \o b)[i] = b[j] /\ x[n + i] = b[j]
      BY <1>1, <1>5, <3>1
    <3> QED
      BY <2>1, <3>2
  <2>4. i <= Len(a) - n \/ i > Len(a) - n
    BY <1>1, <2>1
  <2> QED
    BY <2>2, <2>3, <2>4
<1>7. Len(l) = Len(c \o b)
  BY <1>1, <1>2, <1>3, <1>4
<1>8. l = c \o b
  BY <1>2, <1>4, <1>6, <1>7, SeqEqual
<1> QED
  BY <1>8 DEF l, c, x

LEMMA EndOfSecond ==
  ASSUME NEW a \in Seq(Nat), NEW b \in Seq(Nat), NEW n \in Nat,
         Len(a) <= n, n <= Len(a) + Len(b)
  PROVE  SubSeq(a \o b, n + 1, Len(a \o b)) = SubSeq(b, n - Len(a) + 1, Len(b))
  OBVIOUS

\* y is what follows the first n of the bytes x.
Follows(y, x, n) == n <= Len(x) /\ y = SubSeq(x, n + 1, Len(x))

\* After its first k mbuffs r goes on as q does after its first a.
GoesOn(r, k, q, a) ==
  /\ a \in 0 .. Len(q) /\ k \in 0 .. Len(r) /\ Len(q) - a = Len(r) - k
  /\ \A j \in k + 1 .. Len(r) : r[j] = q[a - k + j]

\* When mbuffs go on alike, so do their bytes.
LEMMA FlatGoesOn ==
  ASSUME NEW q \in Mbuffs, NEW r \in Mbuffs, NEW f, IsFlat(q, f), NEW g, IsFlat(r, g),
         NEW a, NEW k, GoesOn(r, k, q, a), NEW n \in Nat, Follows(g[k], f[a], n)
  PROVE  Follows(g[Len(r)], f[Len(q)], n)
<1> DEFINE e == a - k
           Ends(j) == /\ n <= Len(f[e + j])
                      /\ g[j] = SubSeq(f[e + j], n + 1, Len(f[e + j]))
           T == {i \in Nat : k + i <= Len(r) => Ends(k + i)}
<1>0. /\ Len(q) \in Nat /\ Len(r) \in Nat /\ k \in Nat /\ k <= Len(r) /\ e \in Int
      /\ e + k = a /\ Len(q) = e + Len(r) /\ e + k \in 0 .. Len(q)
      /\ \A j \in k + 1 .. Len(r) : r[j] = q[e + j]
  BY DEF Mbuffs, GoesOn
<1> HIDE DEF e
<1>1. 0 \in T
  <2>1. Ends(k)
    BY <1>0 DEF Follows
  <2> QED
    BY <1>0, <2>1
<1>2. ASSUME NEW j \in Nat, k <= j, j + 1 <= Len(r), Ends(j) PROVE Ends(j + 1)
  <2>1. PICK i \in 1 .. Len(r) : i = j + 1 /\ i - 1 = j
    BY <1>0, <1>2
  <2>2. PICK h \in 1 .. Len(q) : h = e + i /\ h - 1 = e + j /\ r[i] = q[h]
    BY <1>0, <1>2, <2>1
  <2>3. f[h] \in Seq(Nat) /\ f[h - 1] \in Seq(Nat) /\ q[h] \in Seq(Nat) /\ f[h] = f[h - 1] \o q[h]
    BY FlatGrows
  <2>4. g[i] = g[i - 1] \o r[i]
    BY FlatGrows
  <2>5. n \in 0 .. Len(f[h - 1]) /\ g[i - 1] = SubSeq(f[h - 1], n + 1, Len(f[h - 1]))
    <3>1. n <= Len(f[e + j]) /\ g[j] = SubSeq(f[e + j], n + 1, Len(f[e + j]))
      BY <1>2
    <3>2. n <= Len(f[h - 1]) /\ g[i - 1] = SubSeq(f[h - 1], n + 1, Len(f[h - 1]))
      BY <2>1, <2>2, <3>1, Zenon
    <3>3. Len(f[h - 1]) \in Nat
      BY <2>3
    <3> QED
      BY <3>2, <3>3
  <2>6. SubSeq(f[h], n + 1, Len(f[h])) = g[i]
    <3>1. SubSeq(f[h - 1] \o q[h], n + 1, Len(f[h - 1] \o q[h]))
            = SubSeq(f[h - 1], n + 1, Len(f[h - 1])) \o q[h]
      BY <2>3, <2>5, EndOfFirst
    <3>2. SubSeq(f[h], n + 1, Len(f[h])) = g[i - 1] \o r[i]
      BY <2>2, <2>3, <2>5, <3>1, Zenon
    <3> QED
      BY <2>4, <3>2, Zenon
  <2>7. n <= Len(f[h])
    <3>1. Len(f[h - 1]) <= Len(f[h]) /\ Len(f[h - 1]) \in Nat
      BY FlatGrows
    <3>3. n <= Len(f[h - 1])
      BY <2>5, <3>1
    <3>2. Len(f[h]) \in Nat
      <4>1. f[h] \in Seq(Nat)
        BY <2>3
      <4> QED
        BY <4>1
    <3> QED
      BY <3>1, <3>2, <3>3
  <2> QED
    BY <2>1, <2>2, <2>6, <2>7
<1>3. T = Nat
  <2> HIDE DEF Ends
  <2>1. ASSUME NEW i \in T PROVE i + 1 \in T
    <3>1. PICK j \in Nat : j = k + i
      BY <1>0
    <3>2. j + 1 = k + (i + 1) /\ k <= j
      BY <1>0, <3>1
    <3>3. j + 1 <= Len(r) => Ends(j + 1)
      BY <1>0, <1>2, <3>1, <3>2
    <3> QED
      BY <3>2, <3>3
  <2> HIDE DEF T
  <2>2. T \in SUBSET Nat
    BY DEF T
  <2> QED
    BY <1>1, <2>1, <2>2, Induct
<1>4. Ends(Len(r))
  <2> HIDE DEF Ends, T
  <2>1. PICK i \in Nat : k + i = Len(r)
    <3>1. Len(r) - k \in Nat /\ k + (Len(r) - k) = Len(r)
      BY <1>0
    <3> QED
      BY <3>1
  <2>2. i \in T /\ k + i <= Len(r)
    BY <1>0, <1>3, <2>1
  <2>3. Ends(k + i)
    BY <2>2 DEF T
  <2> QED
    BY <2>1, <2>3
<1> QED
  BY <1>0, <1>4 DEF Follows

\* The same for a sequence of mbuffs, and one mbuff in front of others.
LEMMA EndOfAny ==
  ASSUME NEW S, NEW x \in Seq(S), NEW n \in 1 .. Len(x)
  PROVE  /\ SubSeq(x, n + 1, Len(x)) \in Seq(S)
         /\ Len(SubSeq(x, n + 1, Len(x))) = Len(x) - n
         /\ \A i \in 1 .. Len(SubSeq(x, n + 1, Len(x))) : SubSeq(x, n + 1, Len(x))[i] = x[n + i]
<1>1. n + 1 \in Int /\ Len(x) \in Int /\ \A i \in n + 1 .. Len(x) : x[i] \in S
  OBVIOUS
<1> DEFINE e == SubSeq(x, n + 1, Len(x))
<1>2. /\ e \in Seq(S)
      /\ Len(e) = IF n + 1 <= Len(x) THEN Len(x) - (n + 1) + 1 ELSE 0
      /\ \A i \in 1 .. Len(x) - (n + 1) + 1 : e[i] = x[n + 1 + i - 1]
  BY <1>1, SubSeqProperties
<1> HIDE DEF e
<1>3. Len(e) = Len(x) - n
  BY <1>1, <1>2
<1>4. ASSUME NEW i \in 1 .. Len(e) PROVE e[i] = x[n + i]
  <2>1. i \in 1 .. Len(x) - (n + 1) + 1 /\ n + 1 + i - 1 = n + i
    BY <1>1, <1>3
  <2>2. e[i] = x[n + 1 + i - 1]
    BY <1>2, <2>1
  <2> QED
    BY <2>1, <2>2
<1> QED
  BY <1>2, <1>3, <1>4 DEF e

LEMMA OneMore ==
  ASSUME NEW c \in Seq(Nat), NEW z \in Mbuffs
  PROVE  /\ <<c>> \o z \in Mbuffs /\ Len(<<c>> \o z) = 1 + Len(z) /\ (<<c>> \o z)[1] = c
         /\ \A j \in 2 .. Len(<<c>> \o z) : (<<c>> \o z)[j] = z[j - 1]
<1>1. <<c>> \in Mbuffs /\ Len(<<c>>) = 1 /\ <<c>>[1] = c
  BY DEF Mbuffs
<1>2. /\ <<c>> \o z \in Mbuffs /\ Len(<<c>> \o z) = Len(<<c>>) + Len(z)
      /\ \A i \in 1 .. Len(<<c>>) + Len(z) :
           (<<c>> \o z)[i] = IF i <= Len(<<c>>) THEN <<c>>[i] ELSE z[i - Len(<<c>>)]
  BY <1>1, ConcatProperties DEF Mbuffs
<1>3. Len(z) \in Nat
  BY DEF Mbuffs
<1> DEFINE x == <<c>> \o z
<1> HIDE DEF x
<1>4. /\ x \in Mbuffs /\ Len(x) = 1 + Len(z)
      /\ \A i \in 1 .. 1 + Len(z) : x[i] = IF i <= 1 THEN c ELSE z[i - 1]
  <2>1. \A i \in 1 .. 1 + Len(z) : i <= 1 => i = 1
    BY <1>3
  <2> QED
    BY <1>1, <1>2, <2>1 DEF x
<1>5. x[1] = c /\ \A j \in 2 .. Len(x) : x[j] = z[j - 1]
  BY <1>3, <1>4
<1> QED
  BY <1>4, <1>5 DEF x

\* What is left of the mbuffs holds the bytes that were not sent.
LEMMA UnsentIs ==
  ASSUME NEW q \in Mbuffs, NEW n \in 1 .. Len(FlattenSeq(q))
  PROVE  /\ Unsent(q, n) \in Mbuffs
         /\ Len(Unsent(q, n)) <= Len(q)
         /\ FlattenSeq(Unsent(q, n)) = SubSeq(FlattenSeq(q), n + 1, Len(FlattenSeq(q)))
<1> DEFINE d == SentWhole(q, n)
           r == Unsent(q, n)
<1>1. PICK f : IsFlat(q, f) /\ FlattenSeq(q) = f[Len(q)]
  BY FlatIs
<1>2. /\ Len(q) \in Nat /\ f \in [0 .. Len(q) -> Seq(Nat)]
      /\ \A i \in 1 .. Len(q) : q[i] \in Seq(Nat)
  BY <1>1 DEF Mbuffs, IsFlat
<1>3. n \in Nat /\ n <= Len(f[Len(q)])
  <2>1. f[Len(q)] \in Seq(Nat)
    BY <1>2
  <2> QED
    BY <1>1, <2>1
<1>4. d \in 0 .. Len(q) /\ Len(f[d]) <= n /\ (d < Len(q) => n < Len(f[d + 1]))
  BY <1>1, <1>3, SentWholeIs
<1>5. Upto(q, d) = Len(f[d]) /\ f[d] \in Seq(Nat) /\ Len(f[d]) \in Nat
  BY <1>1, <1>2, <1>4, UptoIs
<1>6. r = IF Len(f[d]) = n THEN SubSeq(q, d + 1, Len(q))
          ELSE <<SubSeq(q[d + 1], n - Len(f[d]) + 1, Len(q[d + 1]))>> \o SubSeq(q, d + 2, Len(q))
  BY <1>5 DEF Unsent
<1> HIDE DEF d, r
<1>7. /\ r \in Mbuffs /\ Len(r) <= Len(q)
      /\ \A g : IsFlat(r, g) => Follows(g[Len(r)], f[Len(q)], n)
  <2>1. CASE Len(f[d]) = n
    <3>1. /\ r \in Mbuffs /\ Len(r) = Len(q) - d
          /\ \A j \in 1 .. Len(r) : r[j] = q[d + j]
      <4>1. r = SubSeq(q, d + 1, Len(q))
        BY <1>6, <2>1, Zenon
      <4>2. q \in Seq(Seq(Nat)) /\ d \in 0 .. Len(q)
        BY <1>4 DEF Mbuffs
      <4> QED
        BY <4>1, <4>2, EndOf DEF Mbuffs
    <3>2. SubSeq(f[d], n + 1, Len(f[d])) = <<>>
      BY <1>5, <2>1
    <3>3. ASSUME NEW g, IsFlat(r, g)
          PROVE  Follows(g[Len(r)], f[Len(q)], n)
      <4>1. GoesOn(r, 0, q, d)
        BY <1>2, <1>4, <3>1 DEF GoesOn
      <4>2. Follows(g[0], f[d], n)
        BY <2>1, <3>2, <3>3, <1>3, <1>5 DEF IsFlat, Follows
      <4> QED
        BY <1>1, <1>3, <3>1, <3>3, <4>1, <4>2, FlatGoesOn
    <3> QED
      BY <1>2, <1>4, <3>1, <3>3
  <2>2. CASE Len(f[d]) # n
    <3> DEFINE c == SubSeq(q[d + 1], n - Len(f[d]) + 1, Len(q[d + 1]))
               z == SubSeq(q, d + 2, Len(q))
    <3>1. d + 1 \in 1 .. Len(q) /\ Len(f[d]) < n
      <4>1. d # Len(q)
        BY <1>3, <1>4, <1>5, <2>2
      <4> QED
        BY <1>2, <1>3, <1>4, <1>5, <2>2, <4>1
    <3>2. PICK i \in 1 .. Len(q) : i = d + 1 /\ i - 1 = d
      BY <1>4, <3>1
    <3>3. /\ f[i] \in Seq(Nat) /\ f[d] \in Seq(Nat) /\ q[i] \in Seq(Nat)
          /\ f[i] = f[d] \o q[i]
      BY <1>1, <3>2, FlatGrows
    <3>4. n < Len(f[i]) /\ n - Len(f[d]) \in 0 .. Len(q[i]) /\ n <= Len(f[d]) + Len(q[i])
      <4>1. n < Len(f[i])
        BY <1>2, <1>4, <3>1, <3>2
      <4>2. Len(f[i]) = Len(f[d]) + Len(q[i])
        BY <1>1, <3>2, FlatGrows
      <4>3. Len(q[i]) \in Nat
        BY <1>2
      <4>4. PICK x \in Nat, y \in Nat : x = Len(f[d]) /\ y = Len(q[i])
        BY <1>5, <4>3
      <4>5. n \in Nat /\ x < n /\ n < x + y
        BY <1>3, <3>1, <4>1, <4>2, <4>4
      <4>6. n - x \in 0 .. y /\ n <= x + y
        BY <4>5
      <4> QED
        BY <4>1, <4>4, <4>6
    <3>5. c \in Seq(Nat) /\ SubSeq(f[i], n + 1, Len(f[i])) = c
      <4>1. c \in Seq(Nat)
        BY <3>2, <3>3, <3>4, EndOf
      <4>2. Len(f[d]) <= n /\ n <= Len(f[d]) + Len(q[i])
        <5>1. n \in Nat /\ Len(f[d]) \in Nat /\ Len(f[d]) < n
          BY <1>3, <1>5, <3>1
        <5>2. n <= Len(f[d]) + Len(q[i])
          BY <3>4
        <5>3. PICK x \in Nat : x = Len(f[d])
          BY <5>1
        <5>4. x <= n
          BY <5>1, <5>3
        <5> QED
          BY <5>2, <5>3, <5>4
      <4>3. SubSeq(f[d] \o q[i], n + 1, Len(f[d] \o q[i]))
              = SubSeq(q[i], n - Len(f[d]) + 1, Len(q[i]))
        BY <1>3, <3>3, <4>2, EndOfSecond
      <4>4. SubSeq(f[d] \o q[i], n + 1, Len(f[d] \o q[i])) = SubSeq(f[i], n + 1, Len(f[i]))
        BY <3>3
      <4>5. c = SubSeq(q[i], n - Len(f[d]) + 1, Len(q[i]))
        BY <3>2
      <4> QED
        BY <4>1, <4>3, <4>4, <4>5, Zenon
    <3>6. z \in Mbuffs /\ Len(z) = Len(q) - i /\ \A j \in 1 .. Len(z) : z[j] = q[i + j]
      <4>1. z = SubSeq(q, i + 1, Len(q))
        <5>1. d + 2 = i + 1
          BY <1>4, <3>2
        <5> QED
          BY <5>1
      <4>2. q \in Seq(Seq(Nat)) /\ i \in 1 .. Len(q)
        BY DEF Mbuffs
      <4> HIDE DEF z
      <4> QED
        BY <4>1, <4>2, EndOfAny DEF Mbuffs
    <3>7. r = <<c>> \o z
      BY <1>6, <2>2
    <3> HIDE DEF c, z
    <3>8. /\ r \in Mbuffs /\ Len(r) = 1 + Len(z) /\ r[1] = c
          /\ \A j \in 2 .. Len(r) : r[j] = z[j - 1]
      BY <3>5, <3>6, <3>7, OneMore
    <3>9. ASSUME NEW g, IsFlat(r, g)
          PROVE  Follows(g[Len(r)], f[Len(q)], n)
      <4>1. GoesOn(r, 1, q, i)
        <5>1. Len(z) \in Nat /\ i \in 0 .. Len(q) /\ 1 \in 0 .. Len(r) /\ Len(q) - i = Len(r) - 1
          BY <1>2, <3>6, <3>8
        <5>2. ASSUME NEW j \in 1 + 1 .. Len(r) PROVE r[j] = q[i - 1 + j]
          <6>1. PICK h \in 1 .. Len(z) : h = j - 1 /\ i + h = i - 1 + j
            BY <3>8, <5>1
          <6>2. r[j] = z[h] /\ z[h] = q[i + h]
            BY <3>6, <3>8, <6>1
          <6> QED
            BY <6>1, <6>2
        <5> QED
          BY <5>1, <5>2 DEF GoesOn
      <4>2. g[1] = c
        <5>1. 1 \in 1 .. Len(r) /\ 1 - 1 = 0
          BY <4>1 DEF GoesOn
        <5>2. g[1] = g[0] \o r[1] /\ g[0] = <<>>
          BY <3>9, <5>1 DEF IsFlat
        <5> QED
          BY <3>5, <3>8, <5>2
      <4>3. Follows(g[1], f[i], n)
        <5>1. n <= Len(f[i])
          <6>1. Len(f[i]) \in Nat
            <7>1. f[i] \in Seq(Nat)
              BY <3>3
            <7> QED
              BY <7>1
          <6> QED
            BY <1>3, <3>4, <6>1
        <5> QED
          BY <3>5, <4>2, <5>1, Zenon DEF Follows
      <4> QED
        BY <1>1, <1>3, <3>8, <3>9, <4>1, <4>3, FlatGoesOn
    <3> QED
      BY <1>2, <3>2, <3>6, <3>8, <3>9
  <2> QED
    BY <2>1, <2>2
<1>8. FlattenSeq(r) = SubSeq(f[Len(q)], n + 1, Len(f[Len(q)]))
  BY <1>7, FlatIs DEF Follows
<1> QED
  BY <1>1, <1>7, <1>8 DEF r

-----------------------------------------------------------------------------
(* The mbuffs that are filled *)

LEMMA Sizes ==
  /\ Chunk \in Nat /\ Chunk > 0 /\ ATOMIC_READ \in Nat /\ ATOMIC_READ > 0 /\ Space \in Nat
  /\ ReadLen \in Nat /\ WriteLens \subseteq Nat /\ 0 \notin WriteLens
  /\ MaxBytes \in Nat /\ MaxFailures \in Nat
  BY DataIoAssumption DEF DataIoAssumption

\* How often c fits into n.
LEMMA Division ==
  ASSUME NEW n \in Nat, NEW c \in Nat, c > 0
  PROVE  /\ n \div c \in Nat /\ (n \div c) * c <= n /\ n < (n \div c) * c + c
         /\ (n \div c) * c \in Nat
  BY SMTT(30)

LEMMA DivisionOnce ==
  ASSUME NEW n \in Nat, NEW c \in Nat, c > 0, NEW z \in Nat, NEW k \in Nat, z * c <= k, k < z * c + c
  PROVE  k \div c = z
  BY SMTT(30)

\* Multiples grow.
LEMMA Multiples ==
  ASSUME NEW c \in Nat, NEW i \in Nat, NEW j \in Nat, i <= j
  PROVE  i * c \in Nat /\ i * c <= j * c
  BY SMTT(30)

LEMMA OneMoreTime ==
  ASSUME NEW c \in Nat, NEW i \in Int
  PROVE  i * c \in Int /\ (i - 1) * c = i * c - c
  BY SMTT(30)

\* n bytes of a stream, from the byte a on.
Part(a, n) == [k \in 1 .. n |-> a + k - 1]

LEMMA PartIs ==
  ASSUME NEW a \in Nat \ {0}, NEW n \in Nat
  PROVE  /\ Part(a, n) \in Seq(Nat) /\ Len(Part(a, n)) = n
         /\ \A k \in 1 .. n : Part(a, n)[k] = a + k - 1
<1>1. \A k \in 1 .. n : a + k - 1 \in Nat
  OBVIOUS
<1> QED
  BY <1>1 DEF Part

\* What follows bytes of a stream continues it.
LEMMA PartsJoin ==
  ASSUME NEW a \in Nat \ {0}, NEW p \in Nat, NEW n \in Nat
  PROVE  Part(a, p) \o Part(a + p, n) = Part(a, p + n)
<1> DEFINE x == Part(a, p)
           y == Part(a + p, n)
           z == Part(a, p + n)
<1>1. /\ x \in Seq(Nat) /\ Len(x) = p /\ y \in Seq(Nat) /\ Len(y) = n
      /\ z \in Seq(Nat) /\ Len(z) = p + n
  <2>1. a + p \in Nat \ {0} /\ p + n \in Nat
    OBVIOUS
  <2> QED
    BY <2>1, PartIs
<1>2. /\ \A k \in 1 .. p : x[k] = a + k - 1
      /\ \A k \in 1 .. n : y[k] = a + p + k - 1
      /\ \A k \in 1 .. p + n : z[k] = a + k - 1
  <2>1. a + p \in Nat \ {0} /\ p + n \in Nat
    OBVIOUS
  <2> QED
    BY <2>1, PartIs
<1> HIDE DEF x, y, z
<1>3. /\ x \o y \in Seq(Nat) /\ Len(x \o y) = p + n
      /\ \A k \in 1 .. p + n : (x \o y)[k] = IF k <= p THEN x[k] ELSE y[k - p]
  BY <1>1, ConcatProperties
<1>4. ASSUME NEW k \in 1 .. p + n PROVE (x \o y)[k] = z[k]
  <2>1. CASE k <= p
    <3>1. k \in 1 .. p
      BY <2>1
    <3> QED
      BY <2>1, <3>1, <1>2, <1>3
  <2>2. CASE k > p
    <3>1. PICK j \in 1 .. n : j = k - p /\ a + p + j - 1 = a + k - 1
      <4>1. k - p \in 1 .. n /\ a + p + (k - p) - 1 = a + k - 1
        BY <2>2
      <4> QED
        BY <4>1
    <3>2. (x \o y)[k] = IF k <= p THEN x[k] ELSE y[k - p]
      BY <1>3, Zenon
    <3>3. ~(k <= p)
      BY <2>2
    <3>4. (x \o y)[k] = y[j]
      BY <3>1, <3>2, <3>3, Zenon
    <3> QED
      BY <3>1, <3>4, <1>2
  <2>3. k <= p \/ k > p
    OBVIOUS
  <2> QED
    BY <2>1, <2>2, <2>3
<1>5. x \o y = z
  BY <1>1, <1>3, <1>4, SeqEqual
<1> QED
  BY <1>5 DEF x, y, z

\* Bytes of a stream that were put into mbuffs are these bytes.
LEMMA InMbuffsAre ==
  ASSUME NEW a \in Nat \ {0}, NEW n \in Nat
  PROVE  /\ InMbuffs(a, n) \in Mbuffs
         /\ Len(InMbuffs(a, n)) = (n + Chunk - 1) \div Chunk
         /\ FlattenSeq(InMbuffs(a, n)) = Part(a, n)
<1> DEFINE N == (n + Chunk - 1) \div Chunk
           q == InMbuffs(a, n)
<1>1. N \in Nat /\ n <= N * Chunk /\ N * Chunk - Chunk < n
  <2>1. n + Chunk - 1 \in Nat /\ Chunk \in Nat /\ Chunk > 0
    BY Sizes
  <2>2. N \in Nat /\ N * Chunk <= n + Chunk - 1 /\ n + Chunk - 1 < N * Chunk + Chunk /\ N * Chunk \in Nat
    BY <2>1, Division
  <2> HIDE DEF N
  <2> QED
    BY <2>1, <2>2
<1> HIDE DEF N
<1>2. ASSUME NEW i \in 1 .. N
      PROVE  /\ (i - 1) * Chunk \in Nat /\ (i - 1) * Chunk < n
             /\ i * Chunk = (i - 1) * Chunk + Chunk
  <2>1. i \in Nat /\ i - 1 \in Nat /\ i <= N /\ Chunk \in Nat
    BY <1>1, Sizes
  <2>2. i * Chunk \in Nat /\ i * Chunk <= N * Chunk /\ N * Chunk \in Nat
    BY <1>1, <2>1, Multiples
  <2>3. (i - 1) * Chunk \in Nat
    BY <2>1, Multiples
  <2>4. (i - 1) * Chunk = i * Chunk - Chunk
    BY <2>1, OneMoreTime
  <2> QED
    BY <1>1, <2>1, <2>2, <2>3, <2>4
<1>3. q = [i \in 1 .. N |-> Part(a + (i - 1) * Chunk, Lower(Chunk, n - (i - 1) * Chunk))]
  BY DEF InMbuffs, Part, N
<1> HIDE DEF q
<1>4. ASSUME NEW i \in 1 .. N
      PROVE  /\ a + (i - 1) * Chunk \in Nat \ {0}
             /\ Lower(Chunk, n - (i - 1) * Chunk) \in Nat
  <2>1. PICK p \in Nat : p = (i - 1) * Chunk /\ p < n
    BY <1>2
  <2>2. Chunk \in Nat
    BY Sizes
  <2> QED
    BY <2>1, <2>2 DEF Lower
<1>5. q \in Mbuffs /\ Len(q) = N
  <2>1. \A i \in 1 .. N : q[i] \in Seq(Nat)
    BY <1>3, <1>4, PartIs
  <2> QED
    BY <1>1, <1>3, <2>1 DEF Mbuffs
<1>6. PICK f : f = [i \in 0 .. N |-> Part(a, Lower(i * Chunk, n))]
  OBVIOUS
<1>7. IsFlat(q, f)
  <2>1. f \in [0 .. N -> Seq(Nat)]
    <3>1. ASSUME NEW i \in 0 .. N PROVE Lower(i * Chunk, n) \in Nat
      <4>1. i \in Nat /\ i <= N /\ Chunk \in Nat
        BY <1>1, Sizes
      <4>2. i * Chunk \in Nat
        BY <1>1, <4>1, Multiples
      <4> QED
        BY <4>2 DEF Lower
    <3> QED
      BY <1>6, <3>1, PartIs
  <2>2. f[0] = <<>>
    <3>1. Lower(0 * Chunk, n) = 0
      BY Sizes DEF Lower
    <3>2. f[0] = Part(a, 0)
      BY <1>1, <1>6, <3>1
    <3> QED
      BY <3>2 DEF Part
  <2>3. ASSUME NEW i \in 1 .. N PROVE f[i] = f[i - 1] \o q[i]
    <3>1. PICK p \in Nat : p = (i - 1) * Chunk /\ p < n /\ i * Chunk = p + Chunk
      BY <1>2
    <3>2. i \in 0 .. N /\ i - 1 \in 0 .. N /\ Chunk \in Nat
      BY <1>1, Sizes
    <3>3. f[i - 1] = Part(a, p)
      <4>1. Lower(p, n) = p
        BY <3>1 DEF Lower
      <4> QED
        BY <1>6, <3>1, <3>2, <4>1
    <3>4. PICK b \in Nat : b = Lower(Chunk, n - p) /\ p + b = Lower(p + Chunk, n)
      <4>1. Lower(Chunk, n - p) \in Nat /\ p + Lower(Chunk, n - p) = Lower(p + Chunk, n)
        BY <3>1, <3>2 DEF Lower
      <4> QED
        BY <4>1
    <3>5. f[i] = Part(a, p + b)
      BY <1>6, <3>1, <3>2, <3>4
    <3>6. q[i] = Part(a + p, b)
      BY <1>3, <3>1, <3>4
    <3> QED
      BY <3>3, <3>5, <3>6, PartsJoin
  <2> QED
    BY <1>5, <2>1, <2>2, <2>3 DEF IsFlat
<1>8. FlattenSeq(q) = f[N]
  <2>1. PICK g : IsFlat(q, g) /\ FlattenSeq(q) = g[Len(q)]
    BY <1>5, FlatIs
  <2>2. N <= Len(q)
    BY <1>1, <1>5
  <2>3. f[N] = g[N]
    BY <1>1, <1>5, <1>7, <2>1, <2>2, FlatSame
  <2> QED
    BY <1>5, <2>1, <2>3
<1>9. f[N] = Part(a, n)
  <2>1. N * Chunk \in Nat /\ N \in 0 .. N
    <3>1. Chunk \in Nat
      BY Sizes
    <3> QED
      BY <1>1, <3>1, Multiples
  <2>2. Lower(N * Chunk, n) = n
    BY <1>1, <2>1 DEF Lower
  <2> QED
    BY <1>6, <2>1, <2>2
<1> QED
  BY <1>5, <1>8, <1>9 DEF q, N

\* Whole mbuffs.
LEMMA WholeMbuffs ==
  ASSUME NEW a \in Nat \ {0}, NEW n \in Nat
  PROVE  n * Chunk \in Nat /\ Len(InMbuffs(a, n * Chunk)) = n
<1>1. Chunk \in Nat /\ Chunk > 0
  BY Sizes
<1>2. n * Chunk \in Nat
  BY <1>1, Multiples
<1>3. PICK k \in Nat : k = n * Chunk + Chunk - 1 /\ n * Chunk <= k /\ k < n * Chunk + Chunk
  <2>1. n * Chunk + Chunk - 1 \in Nat
    BY <1>1, <1>2
  <2> QED
    BY <1>1, <1>2, <2>1
<1>4. k \div Chunk = n
  BY <1>1, <1>3, DivisionOnce
<1> QED
  BY <1>2, <1>3, <1>4, InMbuffsAre

-----------------------------------------------------------------------------
(* Queues of requests, one of each kind for a socket *)

Key(m) == <<m.sk, m.opt>>
Keys(q) == {Key(m) : m \in Range(q)}
Distinct(q) == \A i, j \in DOMAIN q : i # j => Key(q[i]) # Key(q[j])

LEMMA EmptyQueue == Range(<<>>) = {} /\ Keys(<<>>) = {} /\ Distinct(<<>>)
  BY DEF Range, Keys, Distinct

\* Messages with different keys are different.
LEMMA KeysTell ==
  ASSUME NEW S, NEW q \in Seq(S), Distinct(q), NEW m \in Range(q), NEW o \in Range(q), Key(m) = Key(o)
  PROVE  m = o
<1>1. PICK i \in DOMAIN q, j \in DOMAIN q : m = q[i] /\ o = q[j]
  BY DEF Range
<1> QED
  BY <1>1 DEF Distinct

\* The head of a queue is taken.
LEMMA HeadTaken ==
  ASSUME NEW S, NEW q \in Seq(S), q # <<>>, Distinct(q)
  PROVE  /\ Head(q) \in Range(q) /\ Head(q) \in S
         /\ Tail(q) \in Seq(S) /\ Distinct(Tail(q))
         /\ Range(Tail(q)) = Range(q) \ {Head(q)}
         /\ Keys(Tail(q)) = Keys(q) \ {Key(Head(q))}
<1> DEFINE t == Tail(q)
<1>1. /\ Len(q) \in Nat /\ Len(q) >= 1 /\ DOMAIN q = 1 .. Len(q) /\ Head(q) = q[1]
      /\ t \in Seq(S) /\ Len(t) = Len(q) - 1 /\ DOMAIN t = 1 .. Len(q) - 1
      /\ \A i \in 1 .. Len(q) - 1 : t[i] = q[i + 1]
  OBVIOUS
<1> HIDE DEF t
<1>2. Head(q) \in Range(q) /\ Head(q) \in S
  BY <1>1 DEF Range
<1>3. Distinct(t)
  <2> SUFFICES ASSUME NEW i \in DOMAIN t, NEW j \in DOMAIN t, i # j PROVE Key(t[i]) # Key(t[j])
    BY DEF Distinct
  <2>1. PICK h \in DOMAIN q, k \in DOMAIN q : h = i + 1 /\ k = j + 1
    BY <1>1
  <2>2. t[i] = q[h] /\ t[j] = q[k] /\ h # k
    BY <1>1, <2>1
  <2> QED
    BY <2>2 DEF Distinct
<1>4. Range(t) = Range(q) \ {Head(q)}
  <2>1. ASSUME NEW m \in Range(t) PROVE m \in Range(q) /\ m # Head(q)
    <3>1. PICK i \in DOMAIN t : m = t[i]
      BY DEF Range
    <3>2. PICK h \in DOMAIN q : h = i + 1 /\ h # 1 /\ 1 \in DOMAIN q
      BY <1>1
    <3>3. m = q[h]
      BY <1>1, <3>1, <3>2
    <3>4. Key(q[h]) # Key(q[1])
      BY <3>2 DEF Distinct
    <3> QED
      BY <1>1, <3>3, <3>4 DEF Range
  <2>2. ASSUME NEW m \in Range(q), m # Head(q) PROVE m \in Range(t)
    <3>1. PICK h \in DOMAIN q : m = q[h]
      BY DEF Range
    <3>2. PICK i \in DOMAIN t : h = i + 1
      <4>1. h # 1
        BY <1>1, <2>2, <3>1
      <4>2. h - 1 \in DOMAIN t /\ h = h - 1 + 1
        BY <1>1, <4>1
      <4> QED
        BY <4>2
    <3>3. m = t[i]
      BY <1>1, <3>1, <3>2
    <3> QED
      BY <3>3 DEF Range
  <2> QED
    BY <2>1, <2>2
<1>5. Keys(t) = Keys(q) \ {Key(Head(q))}
  <2>1. \A m \in Range(q) : Key(m) = Key(Head(q)) => m = Head(q)
    BY <1>2, KeysTell
  <2> QED
    BY <1>4, <2>1 DEF Keys
<1> QED
  BY <1>1, <1>2, <1>3, <1>4, <1>5 DEF t

\* Two queues are put together.
LEMMA QueuesJoined ==
  ASSUME NEW S, NEW q \in Seq(S), NEW r \in Seq(S), Distinct(q), Distinct(r), Keys(q) \cap Keys(r) = {}
  PROVE  /\ q \o r \in Seq(S) /\ Distinct(q \o r)
         /\ Range(q \o r) = Range(q) \cup Range(r)
         /\ Keys(q \o r) = Keys(q) \cup Keys(r)
<1> DEFINE x == q \o r
<1>1. /\ Len(q) \in Nat /\ Len(r) \in Nat
      /\ DOMAIN q = 1 .. Len(q) /\ DOMAIN r = 1 .. Len(r)
      /\ x \in Seq(S) /\ Len(x) = Len(q) + Len(r) /\ DOMAIN x = 1 .. Len(q) + Len(r)
  OBVIOUS
<1>2. \A i \in 1 .. Len(q) + Len(r) : x[i] = IF i <= Len(q) THEN q[i] ELSE r[i - Len(q)]
  BY ConcatProperties
<1> HIDE DEF x
<1>3. \A i \in DOMAIN q : i \in DOMAIN x /\ x[i] = q[i]
  BY <1>1, <1>2
<1>4. \A i \in DOMAIN r : Len(q) + i \in DOMAIN x /\ x[Len(q) + i] = r[i]
  <2> SUFFICES ASSUME NEW i \in DOMAIN r PROVE Len(q) + i \in DOMAIN x /\ x[Len(q) + i] = r[i]
    OBVIOUS
  <2>1. PICK j \in DOMAIN x : j = Len(q) + i /\ j - Len(q) = i /\ ~ (j <= Len(q))
    <3>1. Len(q) + i \in DOMAIN x /\ Len(q) + i - Len(q) = i /\ ~ (Len(q) + i <= Len(q))
      BY <1>1
    <3> QED
      BY <3>1
  <2> QED
    BY <1>1, <1>2, <2>1
<1>5. \A k \in DOMAIN x : k \in DOMAIN q \/ \E i \in DOMAIN r : k = Len(q) + i
  <2> SUFFICES ASSUME NEW k \in DOMAIN x, k \notin DOMAIN q PROVE \E i \in DOMAIN r : k = Len(q) + i
    OBVIOUS
  <2>1. k - Len(q) \in DOMAIN r /\ k = Len(q) + (k - Len(q))
    BY <1>1
  <2> QED
    BY <2>1
<1>6. Range(x) = Range(q) \cup Range(r)
  <2>1. Range(x) \subseteq Range(q) \cup Range(r)
    <3> SUFFICES ASSUME NEW k \in DOMAIN x PROVE x[k] \in Range(q) \cup Range(r)
      BY DEF Range
    <3> QED
      BY <1>3, <1>4, <1>5 DEF Range
  <2>2. Range(q) \subseteq Range(x)
    BY <1>3 DEF Range
  <2>3. Range(r) \subseteq Range(x)
    BY <1>4 DEF Range
  <2> QED
    BY <2>1, <2>2, <2>3
<1>7. Keys(x) = Keys(q) \cup Keys(r)
  BY <1>6 DEF Keys
<1>8. Distinct(x)
  <2> SUFFICES ASSUME NEW i \in DOMAIN x, NEW j \in DOMAIN x, i # j PROVE Key(x[i]) # Key(x[j])
    BY DEF Distinct
  <2>1. \A h \in DOMAIN q, k \in DOMAIN r : Key(q[h]) # Key(r[k])
    BY DEF Keys, Range
  <2>2. CASE i \in DOMAIN q /\ j \in DOMAIN q
    BY <1>3, <2>2 DEF Distinct
  <2>3. ASSUME NEW k \in DOMAIN r, j = Len(q) + k, i \in DOMAIN q PROVE Key(x[i]) # Key(x[j])
    BY <1>3, <1>4, <2>1, <2>3
  <2>4. ASSUME NEW h \in DOMAIN r, i = Len(q) + h, j \in DOMAIN q PROVE Key(x[i]) # Key(x[j])
    BY <1>3, <1>4, <2>1, <2>4
  <2>5. ASSUME NEW h \in DOMAIN r, i = Len(q) + h, NEW k \in DOMAIN r, j = Len(q) + k
        PROVE  Key(x[i]) # Key(x[j])
    BY <1>4, <2>5 DEF Distinct
  <2> QED
    BY <1>5, <2>2, <2>3, <2>4, <2>5
<1> QED
  BY <1>1, <1>6, <1>7, <1>8 DEF x

\* A message goes to the end of a queue.
LEMMA PutLast ==
  ASSUME NEW S, NEW q \in Seq(S), Distinct(q), NEW m \in S, Key(m) \notin Keys(q)
  PROVE  /\ Append(q, m) \in Seq(S) /\ Distinct(Append(q, m))
         /\ Range(Append(q, m)) = Range(q) \cup {m}
         /\ Keys(Append(q, m)) = Keys(q) \cup {Key(m)}
<1>1. PICK r : r = <<m>>
  OBVIOUS
<1>2. r \in Seq(S) /\ Range(r) = {m} /\ Distinct(r)
  BY <1>1 DEF Range, Distinct
<1>3. Keys(r) = {Key(m)}
  BY <1>2 DEF Keys
<1>4. Append(q, m) = q \o r
  BY <1>1
<1>5. Keys(q) \cap Keys(r) = {}
  BY <1>3
<1>6. /\ q \o r \in Seq(S) /\ Distinct(q \o r)
      /\ Range(q \o r) = Range(q) \cup Range(r)
      /\ Keys(q \o r) = Keys(q) \cup Keys(r)
  BY <1>2, <1>5, QueuesJoined
<1> QED
  BY <1>2, <1>3, <1>4, <1>6, Zenon

\* The loop over the new requests picks those of a kind, in their order.
LEMMA Picked ==
  ASSUME NEW S, NEW q \in Seq(S), Distinct(q), NEW opt
  PROVE  /\ Enqueued(q, opt) \in Seq(S) /\ Distinct(Enqueued(q, opt))
         /\ Range(Enqueued(q, opt)) = {m \in Range(q) : m.opt = opt}
<1> DEFINE n == Len(q)
           h == CHOOSE f : f = PickTo(q, opt, n, f)
<1>0. n \in Nat /\ DOMAIN q = 1 .. n /\ \A i \in 1 .. n : q[i] \in S
  OBVIOUS
<1>1. h = PickTo(q, opt, n, h)
  BY <1>0, PickExists
<1>2. Enqueued(q, opt) = h[n]
  BY DEF Enqueued, PickTo
<1> HIDE DEF h, n
<1>3. \A i \in 0 .. n : h[i] = IF i = 0 THEN <<>>
                    ELSE IF q[i].opt = opt THEN Append(h[i - 1], q[i]) ELSE h[i - 1]
  BY <1>1 DEF PickTo
<1> DEFINE First(k) == {q[i] : i \in {j \in 1 .. k : q[j].opt = opt}}
           Right(k) == h[k] \in Seq(S) /\ Distinct(h[k]) /\ Range(h[k]) = First(k)
           T == {k \in Nat : k <= n => Right(k)}
<1>4. 0 \in T
  <2>1. h[0] = <<>>
    BY <1>0, <1>3
  <2>2. Right(0)
    BY <2>1, EmptyQueue
  <2> QED
    BY <2>2
<1>5. ASSUME NEW k \in Nat, k + 1 <= n, Right(k) PROVE Right(k + 1)
  <2>1. PICK i \in 1 .. n : i = k + 1 /\ i - 1 = k /\ i \in 0 .. n /\ i # 0
    BY <1>0, <1>5
  <2>2. 1 .. i = (1 .. k) \cup {i}
    BY <2>1
  <2>3. CASE q[i].opt = opt
    <3>1. h[i] = Append(h[k], q[i])
      BY <1>3, <2>1, <2>3
    <3>2. First(i) = First(k) \cup {q[i]}
      BY <2>2, <2>3
    <3>3. Key(q[i]) \notin Keys(h[k])
      <4>1. \A j \in 1 .. k : j \in DOMAIN q /\ i \in DOMAIN q /\ j # i
        BY <1>0, <2>1
      <4>2. \A j \in 1 .. k : Key(q[j]) # Key(q[i])
        BY <4>1 DEF Distinct
      <4> QED
        BY <1>5, <4>2 DEF Keys
    <3>4. q[i] \in S
      BY <1>0
    <3>5. h[i] \in Seq(S) /\ Distinct(h[i]) /\ Range(h[i]) = Range(h[k]) \cup {q[i]}
      <4>1. h[k] \in Seq(S) /\ Distinct(h[k])
        BY <1>5
      <4> HIDE DEF Right, First
      <4> QED
        BY <3>1, <3>3, <3>4, <4>1, PutLast
    <3> HIDE DEF First
    <3> QED
      BY <1>5, <2>1, <3>2, <3>5
  <2>4. CASE q[i].opt # opt
    <3>1. h[i] = h[k]
      BY <1>3, <2>1, <2>4
    <3>2. First(i) = First(k)
      BY <2>2, <2>4
    <3> HIDE DEF First
    <3> QED
      BY <1>5, <2>1, <3>1, <3>2
  <2> QED
    BY <2>3, <2>4
<1>6. T = Nat
  <2> HIDE DEF Right
  <2>1. ASSUME NEW k \in T PROVE k + 1 \in T
    <3>1. k \in Nat /\ (k <= n => Right(k)) /\ (k + 1 <= n => k <= n)
      BY <1>0
    <3>2. k + 1 <= n => Right(k + 1)
      BY <1>5, <3>1
    <3> QED
      BY <3>1, <3>2
  <2> HIDE DEF T
  <2>2. T \in SUBSET Nat
    BY DEF T
  <2> QED
    BY <1>4, <2>1, <2>2, Induct
<1>7. Right(n)
  <2> HIDE DEF Right
  <2> QED
    BY <1>0, <1>6
<1>8. First(n) = {m \in Range(q) : m.opt = opt}
  BY <1>0 DEF Range
<1> QED
  BY <1>2, <1>7, <1>8

-----------------------------------------------------------------------------
(* The invariant *)

Underway == Pending \cup Replied
RepliedKeys == Keys(toKrn) \cup Keys(replies)
AllKeys == Keys(requests) \cup Keys(wpenq) \cup Keys(rpenq) \cup Keys(again) \cup RepliedKeys

Fields ==
  /\ pc \in {"select", "write", "read", "requests"}
  /\ rset \subseteq Socks /\ wset \subseteq Socks /\ closed \subseteq Socks /\ noticed \in BOOLEAN
  /\ asked \in [Socks -> SUBSET {"read", "write"}]
  /\ written \in [Socks -> 0 .. MaxBytes] /\ arrived \in [Socks -> 0 .. MaxBytes]
  /\ taken \in [Socks -> Nat] /\ unread \in [Socks -> 0 .. Space]
  /\ sent \in [Socks -> Seq(Nat)] /\ got \in [Socks -> Seq(Nat)]
  /\ \A s \in Socks : taken[s] <= arrived[s] /\ Len(got[s]) <= taken[s]
  /\ mbuffs \in Int
  /\ failures \in 0 .. MaxFailures

Queues ==
  /\ requests \in Seq(Message) /\ wpenq \in Seq(Message) /\ rpenq \in Seq(Message)
  /\ again \in Seq(Message) /\ toKrn \in Seq(Message) /\ replies \in Seq(Message)

\* What is asked for is in one place, once.
OnePlace ==
  /\ Distinct(requests) /\ Distinct(wpenq) /\ Distinct(rpenq)
  /\ Distinct(again) /\ Distinct(toKrn) /\ Distinct(replies)
  /\ Keys(requests) \cap (Keys(wpenq) \cup Keys(rpenq) \cup Keys(again) \cup Keys(toKrn) \cup Keys(replies)) = {}
  /\ Keys(wpenq) \cap (Keys(rpenq) \cup Keys(again) \cup Keys(toKrn) \cup Keys(replies)) = {}
  /\ Keys(rpenq) \cap (Keys(again) \cup Keys(toKrn) \cup Keys(replies)) = {}
  /\ Keys(again) \cap (Keys(toKrn) \cup Keys(replies)) = {}
  /\ Keys(toKrn) \cap Keys(replies) = {}

Asked == AllKeys = {k \in Socks \X {"read", "write"} : k[2] \in asked[k[1]]}

Kinds ==
  /\ \A m \in Range(wpenq) : m.opt = "write"
  /\ \A m \in Range(rpenq) : m.opt = "read"
  /\ pc \in {"select", "requests"} => again = <<>>
  /\ pc = "write" => \A m \in Range(again) : m.opt = "write"
  /\ pc = "read" => \A m \in Range(again) : m.opt = "read"
  /\ \A m \in Pending : m.ret = "none"
  /\ \A m \in Replied : m.ret # "none"

Places == Queues /\ OnePlace /\ Asked /\ Kinds

-----------------------------------------------------------------------------
(* How the messages move *)

\* A message of a queue has one of its keys.
LEMMA KeysHave == \A q : \A m \in Range(q) : Key(m) \in Keys(q)
  BY DEF Keys

\* No other message has the key of the head of a queue.
LEMMA HeadAlone ==
  ASSUME Queues, OnePlace
  PROVE  /\ wpenq # <<>> => /\ Head(wpenq) \in Range(wpenq) /\ Head(wpenq) \in Message
                            /\ \A o \in Underway \ {Head(wpenq)} : Key(o) # Key(Head(wpenq))
         /\ rpenq # <<>> => /\ Head(rpenq) \in Range(rpenq) /\ Head(rpenq) \in Message
                            /\ \A o \in Underway \ {Head(rpenq)} : Key(o) # Key(Head(rpenq))
         /\ replies # <<>> => /\ Head(replies) \in Range(replies) /\ Head(replies) \in Message
                              /\ \A o \in Underway \ {Head(replies)} : Key(o) # Key(Head(replies))
<1>1. \A o \in Underway :
        \/ o \in Range(requests) /\ Key(o) \in Keys(requests)
        \/ o \in Range(wpenq) /\ Key(o) \in Keys(wpenq)
        \/ o \in Range(rpenq) /\ Key(o) \in Keys(rpenq)
        \/ o \in Range(again) /\ Key(o) \in Keys(again)
        \/ o \in Range(toKrn) /\ Key(o) \in Keys(toKrn)
        \/ o \in Range(replies) /\ Key(o) \in Keys(replies)
  BY KeysHave DEF Underway, Pending, Replied
<1>2. ASSUME wpenq # <<>>
      PROVE  /\ Head(wpenq) \in Range(wpenq) /\ Head(wpenq) \in Message
             /\ \A o \in Underway \ {Head(wpenq)} : Key(o) # Key(Head(wpenq))
  <2>1. Head(wpenq) \in Range(wpenq) /\ Head(wpenq) \in Message /\ Key(Head(wpenq)) \in Keys(wpenq)
    BY <1>2, HeadTaken, KeysHave DEF Queues, OnePlace
  <2>2. \A o \in Range(wpenq) : Key(o) = Key(Head(wpenq)) => o = Head(wpenq)
    BY <2>1, KeysTell DEF Queues, OnePlace
  <2> QED
    BY <1>1, <2>1, <2>2 DEF OnePlace
<1>3. ASSUME rpenq # <<>>
      PROVE  /\ Head(rpenq) \in Range(rpenq) /\ Head(rpenq) \in Message
             /\ \A o \in Underway \ {Head(rpenq)} : Key(o) # Key(Head(rpenq))
  <2>1. Head(rpenq) \in Range(rpenq) /\ Head(rpenq) \in Message /\ Key(Head(rpenq)) \in Keys(rpenq)
    BY <1>3, HeadTaken, KeysHave DEF Queues, OnePlace
  <2>2. \A o \in Range(rpenq) : Key(o) = Key(Head(rpenq)) => o = Head(rpenq)
    BY <2>1, KeysTell DEF Queues, OnePlace
  <2> QED
    BY <1>1, <2>1, <2>2 DEF OnePlace
<1>4. ASSUME replies # <<>>
      PROVE  /\ Head(replies) \in Range(replies) /\ Head(replies) \in Message
             /\ \A o \in Underway \ {Head(replies)} : Key(o) # Key(Head(replies))
  <2>1. Head(replies) \in Range(replies) /\ Head(replies) \in Message /\ Key(Head(replies)) \in Keys(replies)
    BY <1>4, HeadTaken, KeysHave DEF Queues, OnePlace
  <2>2. \A o \in Range(replies) : Key(o) = Key(Head(replies)) => o = Head(replies)
    BY <2>1, KeysTell DEF Queues, OnePlace
  <2> QED
    BY <1>1, <2>1, <2>2 DEF OnePlace
<1> QED
  BY <1>2, <1>3, <1>4

\* The thread deals with the first pending write.
LEMMA WriteMoved ==
  ASSUME Places, pc = "write", wpenq # <<>>, wpenq' = Tail(wpenq),
         UNCHANGED <<pc, rpenq, requests, replies, asked>>,
         NEW x \in Message, Key(x) = Key(Head(wpenq)),
         \/ again' = Append(again, x) /\ toKrn' = toKrn /\ x.ret = "none"
         \/ toKrn' = Append(toKrn, x) /\ again' = again /\ x.ret # "none"
  PROVE  /\ Places'
         /\ Underway' = (Underway \ {Head(wpenq)}) \cup {x}
         /\ x.ret # "none" => RepliedKeys' = RepliedKeys \cup {Key(x)}
         /\ x.ret = "none" => RepliedKeys' = RepliedKeys
<1> DEFINE m == Head(wpenq)
<1>1. /\ m \in Range(wpenq) /\ m \in Message
      /\ wpenq' \in Seq(Message) /\ Distinct(wpenq') /\ Range(wpenq') = Range(wpenq) \ {m}
      /\ Keys(wpenq') = Keys(wpenq) \ {Key(m)}
  BY HeadTaken DEF Places, Queues, OnePlace
<1>2. Key(m) \in Keys(wpenq) /\ \A o \in Underway \ {m} : Key(o) # Key(m)
  BY <1>1, HeadAlone, KeysHave DEF Places
<1>3. x.opt = "write"
  BY <1>1 DEF Places, Kinds, Key
<1>4. \A o \in Range(requests) \cup Range(rpenq) \cup Range(again) \cup Range(toKrn) \cup Range(replies) :
        o # m
  <2>1. \A o \in Range(requests) \cup Range(rpenq) \cup Range(again) \cup Range(toKrn) \cup Range(replies) :
          Key(o) \notin Keys(wpenq)
    BY KeysHave DEF Places, OnePlace
  <2> QED
    BY <1>2, <2>1
<1>5. Key(x) = Key(m)
  OBVIOUS
<1> HIDE DEF m
<1>6. CASE again' = Append(again, x) /\ toKrn' = toKrn /\ x.ret = "none"
  <2>1. /\ again' \in Seq(Message) /\ Distinct(again')
        /\ Range(again') = Range(again) \cup {x} /\ Keys(again') = Keys(again) \cup {Key(x)}
    <3>1. Key(x) \notin Keys(again)
      BY <1>2, <1>5 DEF Places, OnePlace
    <3> QED
      BY <1>6, <3>1, PutLast DEF Places, Queues, OnePlace
  <2>2. Queues'
    BY <1>1, <1>6, <2>1 DEF Places, Queues
  <2>3. OnePlace'
    BY <1>1, <1>2, <1>5, <1>6, <2>1 DEF Places, OnePlace
  <2>4. Asked'
    BY <1>1, <1>2, <1>5, <1>6, <2>1 DEF Places, Asked, AllKeys, RepliedKeys
  <2>5. Kinds'
    BY <1>1, <1>3, <1>6, <2>1 DEF Places, Kinds, Pending, Replied
  <2>6. Underway' = (Underway \ {m}) \cup {x}
    BY <1>1, <1>4, <1>6, <2>1 DEF Underway, Pending, Replied
  <2>7. RepliedKeys' = RepliedKeys
    BY <1>6 DEF RepliedKeys
  <2> QED
    BY <1>6, <2>2, <2>3, <2>4, <2>5, <2>6, <2>7 DEF Places, m
<1>7. CASE toKrn' = Append(toKrn, x) /\ again' = again /\ x.ret # "none"
  <2>1. /\ toKrn' \in Seq(Message) /\ Distinct(toKrn')
        /\ Range(toKrn') = Range(toKrn) \cup {x} /\ Keys(toKrn') = Keys(toKrn) \cup {Key(x)}
    <3>1. Key(x) \notin Keys(toKrn)
      BY <1>2, <1>5 DEF Places, OnePlace
    <3> QED
      BY <1>7, <3>1, PutLast DEF Places, Queues, OnePlace
  <2>2. Queues'
    BY <1>1, <1>7, <2>1 DEF Places, Queues
  <2>3. OnePlace'
    BY <1>1, <1>2, <1>5, <1>7, <2>1 DEF Places, OnePlace
  <2>4. Asked'
    BY <1>1, <1>2, <1>5, <1>7, <2>1 DEF Places, Asked, AllKeys, RepliedKeys
  <2>5. Kinds'
    BY <1>1, <1>3, <1>7, <2>1 DEF Places, Kinds, Pending, Replied
  <2>6. Underway' = (Underway \ {m}) \cup {x}
    BY <1>1, <1>4, <1>7, <2>1 DEF Underway, Pending, Replied
  <2>7. RepliedKeys' = RepliedKeys \cup {Key(x)}
    BY <1>7, <2>1 DEF RepliedKeys
  <2> QED
    BY <1>7, <2>2, <2>3, <2>4, <2>5, <2>6, <2>7 DEF Places, m
<1> QED
  BY <1>6, <1>7

\* The thread deals with the first pending read.
LEMMA ReadMoved ==
  ASSUME Places, pc = "read", rpenq # <<>>, rpenq' = Tail(rpenq),
         UNCHANGED <<pc, wpenq, requests, replies, asked>>,
         NEW x \in Message, Key(x) = Key(Head(rpenq)),
         \/ again' = Append(again, x) /\ toKrn' = toKrn /\ x.ret = "none"
         \/ toKrn' = Append(toKrn, x) /\ again' = again /\ x.ret # "none"
  PROVE  /\ Places'
         /\ Underway' = (Underway \ {Head(rpenq)}) \cup {x}
         /\ x.ret # "none" => RepliedKeys' = RepliedKeys \cup {Key(x)}
         /\ x.ret = "none" => RepliedKeys' = RepliedKeys
<1> DEFINE m == Head(rpenq)
<1>1. /\ m \in Range(rpenq) /\ m \in Message
      /\ rpenq' \in Seq(Message) /\ Distinct(rpenq') /\ Range(rpenq') = Range(rpenq) \ {m}
      /\ Keys(rpenq') = Keys(rpenq) \ {Key(m)}
  BY HeadTaken DEF Places, Queues, OnePlace
<1>2. Key(m) \in Keys(rpenq) /\ \A o \in Underway \ {m} : Key(o) # Key(m)
  BY <1>1, HeadAlone, KeysHave DEF Places
<1>3. x.opt = "read"
  BY <1>1 DEF Places, Kinds, Key
<1>4. \A o \in Range(requests) \cup Range(wpenq) \cup Range(again) \cup Range(toKrn) \cup Range(replies) :
        o # m
  <2>1. \A o \in Range(requests) \cup Range(wpenq) \cup Range(again) \cup Range(toKrn) \cup Range(replies) :
          Key(o) \notin Keys(rpenq)
    BY KeysHave DEF Places, OnePlace
  <2> QED
    BY <1>2, <2>1
<1>5. Key(x) = Key(m)
  OBVIOUS
<1> HIDE DEF m
<1>6. CASE again' = Append(again, x) /\ toKrn' = toKrn /\ x.ret = "none"
  <2>1. /\ again' \in Seq(Message) /\ Distinct(again')
        /\ Range(again') = Range(again) \cup {x} /\ Keys(again') = Keys(again) \cup {Key(x)}
    <3>1. Key(x) \notin Keys(again)
      BY <1>2, <1>5 DEF Places, OnePlace
    <3> QED
      BY <1>6, <3>1, PutLast DEF Places, Queues, OnePlace
  <2>2. Queues'
    BY <1>1, <1>6, <2>1 DEF Places, Queues
  <2>3. OnePlace'
    BY <1>1, <1>2, <1>5, <1>6, <2>1 DEF Places, OnePlace
  <2>4. Asked'
    BY <1>1, <1>2, <1>5, <1>6, <2>1 DEF Places, Asked, AllKeys, RepliedKeys
  <2>5. Kinds'
    BY <1>1, <1>3, <1>6, <2>1 DEF Places, Kinds, Pending, Replied
  <2>6. Underway' = (Underway \ {m}) \cup {x}
    BY <1>1, <1>4, <1>6, <2>1 DEF Underway, Pending, Replied
  <2>7. RepliedKeys' = RepliedKeys
    BY <1>6 DEF RepliedKeys
  <2> QED
    BY <1>6, <2>2, <2>3, <2>4, <2>5, <2>6, <2>7 DEF Places, m
<1>7. CASE toKrn' = Append(toKrn, x) /\ again' = again /\ x.ret # "none"
  <2>1. /\ toKrn' \in Seq(Message) /\ Distinct(toKrn')
        /\ Range(toKrn') = Range(toKrn) \cup {x} /\ Keys(toKrn') = Keys(toKrn) \cup {Key(x)}
    <3>1. Key(x) \notin Keys(toKrn)
      BY <1>2, <1>5 DEF Places, OnePlace
    <3> QED
      BY <1>7, <3>1, PutLast DEF Places, Queues, OnePlace
  <2>2. Queues'
    BY <1>1, <1>7, <2>1 DEF Places, Queues
  <2>3. OnePlace'
    BY <1>1, <1>2, <1>5, <1>7, <2>1 DEF Places, OnePlace
  <2>4. Asked'
    BY <1>1, <1>2, <1>5, <1>7, <2>1 DEF Places, Asked, AllKeys, RepliedKeys
  <2>5. Kinds'
    BY <1>1, <1>3, <1>7, <2>1 DEF Places, Kinds, Pending, Replied
  <2>6. Underway' = (Underway \ {m}) \cup {x}
    BY <1>1, <1>4, <1>7, <2>1 DEF Underway, Pending, Replied
  <2>7. RepliedKeys' = RepliedKeys \cup {Key(x)}
    BY <1>7, <2>1 DEF RepliedKeys
  <2> QED
    BY <1>7, <2>2, <2>3, <2>4, <2>5, <2>6, <2>7 DEF Places, m
<1> QED
  BY <1>6, <1>7

\* The queue of what stays pending is the next one, and the replies are handed over.
LEMMA QueuesPassed ==
  ASSUME Places, WriteEnd \/ ReadEnd \/ Exchange \/ Select
  PROVE  Places' /\ Underway' = Underway /\ RepliedKeys' = RepliedKeys
<1>1. CASE Select
  <2>1. /\ UNCHANGED <<requests, wpenq, rpenq, again, toKrn, replies, asked>>
        /\ pc = "select" /\ pc' = "write"
    BY <1>1 DEF Select, kernelVars
  <2>2. again = <<>> /\ Range(again) = {}
    BY <2>1, EmptyQueue DEF Places, Kinds
  <2>3. Queues' /\ OnePlace'
    BY <2>1 DEF Places, Queues, OnePlace
  <2>4. Asked'
    BY <2>1 DEF Places, Asked, AllKeys, RepliedKeys
  <2>5. Kinds'
    BY <2>1, <2>2 DEF Places, Kinds, Pending, Replied
  <2> QED
    BY <2>1, <2>3, <2>4, <2>5 DEF Places, Underway, Pending, Replied, RepliedKeys
<1>2. CASE WriteEnd
  <2>1. /\ UNCHANGED <<requests, rpenq, toKrn, replies, asked>>
        /\ pc = "write" /\ pc' = "read" /\ wpenq = <<>> /\ wpenq' = again /\ again' = <<>>
    BY <1>2 DEF WriteEnd, kernelVars
  <2>2. Range(wpenq) = {} /\ Keys(wpenq) = {} /\ Range(again') = {} /\ Keys(again') = {} /\ Distinct(again')
    BY <2>1, EmptyQueue
  <2>3. Queues'
    BY <2>1 DEF Places, Queues
  <2>4. OnePlace'
    BY <2>1, <2>2 DEF Places, OnePlace
  <2>5. Asked'
    BY <2>1, <2>2 DEF Places, Asked, AllKeys, RepliedKeys
  <2>6. Kinds'
    BY <2>1, <2>2 DEF Places, Kinds, Pending, Replied
  <2> QED
    BY <2>1, <2>2, <2>3, <2>4, <2>5, <2>6 DEF Places, Underway, Pending, Replied, RepliedKeys
<1>3. CASE ReadEnd
  <2>1. /\ UNCHANGED <<requests, wpenq, toKrn, replies, asked>>
        /\ pc = "read" /\ pc' = "requests" /\ rpenq = <<>> /\ rpenq' = again /\ again' = <<>>
    BY <1>3 DEF ReadEnd, kernelVars
  <2>2. Range(rpenq) = {} /\ Keys(rpenq) = {} /\ Range(again') = {} /\ Keys(again') = {} /\ Distinct(again')
    BY <2>1, EmptyQueue
  <2>3. Queues'
    BY <2>1 DEF Places, Queues
  <2>4. OnePlace'
    BY <2>1, <2>2 DEF Places, OnePlace
  <2>5. Asked'
    BY <2>1, <2>2 DEF Places, Asked, AllKeys, RepliedKeys
  <2>6. Kinds'
    BY <2>1, <2>2 DEF Places, Kinds, Pending, Replied
  <2> QED
    BY <2>1, <2>2, <2>3, <2>4, <2>5, <2>6 DEF Places, Underway, Pending, Replied, RepliedKeys
<1>4. CASE Exchange /\ noticed
  <2>1. PICK w, r : w = Enqueued(requests, "write") /\ r = Enqueued(requests, "read")
    OBVIOUS
  <2>2. /\ UNCHANGED <<again, asked>> /\ pc = "requests" /\ pc' = "select"
        /\ wpenq' = wpenq \o w /\ rpenq' = rpenq \o r /\ requests' = <<>>
        /\ replies' = replies \o toKrn /\ toKrn' = <<>>
    BY <1>4, <2>1 DEF Exchange
  <2>3. /\ again = <<>> /\ Range(again) = {}
        /\ Range(requests') = {} /\ Keys(requests') = {} /\ Distinct(requests')
        /\ Range(toKrn') = {} /\ Keys(toKrn') = {} /\ Distinct(toKrn')
    BY <2>2, EmptyQueue DEF Places, Kinds
  <2>4. /\ w \in Seq(Message) /\ Distinct(w) /\ Range(w) = {m \in Range(requests) : m.opt = "write"}
        /\ r \in Seq(Message) /\ Distinct(r) /\ Range(r) = {m \in Range(requests) : m.opt = "read"}
    BY <2>1, Picked DEF Places, Queues, OnePlace
  <2>5. Range(w) \cup Range(r) = Range(requests)
    <3>1. \A m \in Range(requests) : m.opt = "write" \/ m.opt = "read"
      <4>1. \A m \in Range(requests) : m \in Message
        BY DEF Places, Queues, Range
      <4> QED
        BY <4>1 DEF Message
    <3> QED
      BY <2>4, <3>1
  <2>6. Keys(w) \cup Keys(r) = Keys(requests)
    BY <2>5 DEF Keys
  <2>7. Keys(w) \cap Keys(r) = {}
    BY <2>4 DEF Keys, Key
  <2>8. /\ wpenq' \in Seq(Message) /\ Distinct(wpenq')
        /\ Range(wpenq') = Range(wpenq) \cup Range(w) /\ Keys(wpenq') = Keys(wpenq) \cup Keys(w)
    <3>1. Keys(wpenq) \cap Keys(w) = {}
      BY <2>6 DEF Places, OnePlace
    <3> QED
      BY <2>2, <2>4, <3>1, QueuesJoined DEF Places, Queues, OnePlace
  <2>9. /\ rpenq' \in Seq(Message) /\ Distinct(rpenq')
        /\ Range(rpenq') = Range(rpenq) \cup Range(r) /\ Keys(rpenq') = Keys(rpenq) \cup Keys(r)
    <3>1. Keys(rpenq) \cap Keys(r) = {}
      BY <2>6 DEF Places, OnePlace
    <3> QED
      BY <2>2, <2>4, <3>1, QueuesJoined DEF Places, Queues, OnePlace
  <2>10. /\ replies' \in Seq(Message) /\ Distinct(replies')
         /\ Range(replies') = Range(replies) \cup Range(toKrn) /\ Keys(replies') = Keys(replies) \cup Keys(toKrn)
    <3>1. Keys(replies) \cap Keys(toKrn) = {}
      BY DEF Places, OnePlace
    <3> QED
      BY <2>2, <3>1, QueuesJoined DEF Places, Queues, OnePlace
  <2>11. Queues'
    BY <2>2, <2>8, <2>9, <2>10 DEF Places, Queues
  <2>12. OnePlace'
    BY <2>2, <2>3, <2>6, <2>7, <2>8, <2>9, <2>10 DEF Places, OnePlace
  <2>13. Asked'
    BY <2>2, <2>3, <2>6, <2>8, <2>9, <2>10 DEF Places, Asked, AllKeys, RepliedKeys
  <2>14. Kinds'
    BY <2>2, <2>3, <2>4, <2>8, <2>9, <2>10 DEF Places, Kinds, Pending, Replied
  <2>15. Underway' = Underway
    BY <2>2, <2>3, <2>5, <2>8, <2>9, <2>10 DEF Underway, Pending, Replied
  <2> QED
    BY <2>3, <2>10, <2>11, <2>12, <2>13, <2>14, <2>15 DEF Places, RepliedKeys
<1>5. CASE Exchange /\ ~noticed
  <2>1. /\ UNCHANGED <<requests, wpenq, rpenq, again, asked>> /\ pc = "requests" /\ pc' = "select"
        /\ replies' = replies \o toKrn /\ toKrn' = <<>>
    BY <1>5 DEF Exchange
  <2>2. /\ again = <<>> /\ Range(again) = {}
        /\ Range(toKrn') = {} /\ Keys(toKrn') = {} /\ Distinct(toKrn')
    BY <2>1, EmptyQueue DEF Places, Kinds
  <2>3. /\ replies' \in Seq(Message) /\ Distinct(replies')
        /\ Range(replies') = Range(replies) \cup Range(toKrn)
        /\ Keys(replies') = Keys(replies) \cup Keys(toKrn)
    <3>1. Keys(replies) \cap Keys(toKrn) = {}
      BY DEF Places, OnePlace
    <3> QED
      BY <2>1, <3>1, QueuesJoined DEF Places, Queues, OnePlace
  <2>4. Queues'
    <3>1. toKrn' \in Seq(Message)
      BY <2>1
    <3> QED
      BY <2>1, <2>3, <3>1 DEF Places, Queues
  <2>5. OnePlace'
    BY <2>1, <2>2, <2>3 DEF Places, OnePlace
  <2>6. Asked'
    BY <2>1, <2>2, <2>3 DEF Places, Asked, AllKeys, RepliedKeys
  <2>7. Kinds'
    BY <2>1, <2>2, <2>3 DEF Places, Kinds, Pending, Replied
  <2> QED
    BY <2>1, <2>2, <2>3, <2>4, <2>5, <2>6, <2>7 DEF Places, Underway, Pending, Replied, RepliedKeys
<1> QED
  BY <1>1, <1>2, <1>3, <1>4, <1>5

\* The kernel asks for what is not outstanding.
LEMMA RequestMade ==
  ASSUME Places, asked \in [Socks -> SUBSET {"read", "write"}],
         NEW s \in Socks, NEW x \in Message, Ask(s, x), x.sk = s, x.ret = "none"
  PROVE  /\ Places' /\ Underway' = Underway \cup {x} /\ RepliedKeys' = RepliedKeys
         /\ \A o \in Underway : Key(o) # Key(x)
<1>1. /\ UNCHANGED <<pc, wpenq, rpenq, again, toKrn, replies>>
      /\ requests' = Append(requests, x) /\ asked' = [asked EXCEPT ![s] = @ \cup {x.opt}]
      /\ x.opt \notin asked[s] /\ x.opt \in {"read", "write"}
  BY DEF Ask, threadVars, Message
<1>2. Key(x) \notin AllKeys
  BY <1>1 DEF Places, Asked, Key
<1>3. /\ requests' \in Seq(Message) /\ Distinct(requests')
      /\ Range(requests') = Range(requests) \cup {x} /\ Keys(requests') = Keys(requests) \cup {Key(x)}
  BY <1>1, <1>2, PutLast DEF Places, Queues, OnePlace, AllKeys
<1>4. Queues'
  BY <1>1, <1>3 DEF Places, Queues
<1>5. OnePlace'
  BY <1>1, <1>2, <1>3 DEF Places, OnePlace, AllKeys, RepliedKeys
<1>6. Asked'
  <2>1. AllKeys' = AllKeys \cup {Key(x)}
    BY <1>1, <1>3 DEF AllKeys, RepliedKeys
  <2>2. \A k \in Socks \X {"read", "write"} : k[2] \in asked'[k[1]] <=> k[2] \in asked[k[1]] \/ k = Key(x)
    BY <1>1 DEF Key
  <2>3. Key(x) \in Socks \X {"read", "write"}
    BY <1>1 DEF Key
  <2> QED
    BY <2>1, <2>2, <2>3 DEF Places, Asked
<1>7. Kinds'
  BY <1>1, <1>3 DEF Places, Kinds, Pending, Replied
<1>8. \A o \in Underway : Key(o) \in AllKeys
  BY KeysHave DEF Underway, Pending, Replied, AllKeys, RepliedKeys
<1>9. Underway' = Underway \cup {x} /\ RepliedKeys' = RepliedKeys
  BY <1>1, <1>3 DEF Underway, Pending, Replied, RepliedKeys
<1> QED
  BY <1>2, <1>4, <1>5, <1>6, <1>7, <1>8, <1>9 DEF Places

\* The kernel takes the first reply.
LEMMA ReplyMoved ==
  ASSUME Places, asked \in [Socks -> SUBSET {"read", "write"}], TakeReply
  PROVE  /\ Places' /\ Underway' = Underway \ {Head(replies)}
         /\ RepliedKeys' = RepliedKeys \ {Key(Head(replies))}
<1> DEFINE m == Head(replies)
<1>1. /\ UNCHANGED <<pc, wpenq, rpenq, again, toKrn, requests>>
      /\ replies # <<>> /\ replies' = Tail(replies) /\ asked' = [asked EXCEPT ![m.sk] = @ \ {m.opt}]
  BY DEF TakeReply, threadVars
<1>2. /\ m \in Range(replies) /\ m \in Message
      /\ replies' \in Seq(Message) /\ Distinct(replies') /\ Range(replies') = Range(replies) \ {m}
      /\ Keys(replies') = Keys(replies) \ {Key(m)}
  BY <1>1, HeadTaken DEF Places, Queues, OnePlace
<1>3. Key(m) \in Keys(replies) /\ \A o \in Underway \ {m} : Key(o) # Key(m)
  BY <1>1, <1>2, HeadAlone, KeysHave DEF Places
<1> HIDE DEF m
<1>4. \A o \in Range(requests) \cup Range(wpenq) \cup Range(rpenq) \cup Range(again) \cup Range(toKrn) :
        o # m
  <2>1. \A o \in Range(requests) \cup Range(wpenq) \cup Range(rpenq) \cup Range(again) \cup Range(toKrn) :
          Key(o) \notin Keys(replies)
    BY KeysHave DEF Places, OnePlace
  <2> QED
    BY <1>3, <2>1
<1>5. Queues'
  BY <1>1, <1>2 DEF Places, Queues
<1>6. OnePlace'
  BY <1>1, <1>2 DEF Places, OnePlace
<1>7. AllKeys' = AllKeys \ {Key(m)} /\ RepliedKeys' = RepliedKeys \ {Key(m)}
  BY <1>1, <1>2, <1>3 DEF AllKeys, RepliedKeys, Places, OnePlace
<1>8. Asked'
  <2>1. m.sk \in Socks /\ m.opt \in {"read", "write"}
    BY <1>2 DEF Message
  <2>2. \A k \in Socks \X {"read", "write"} : k[2] \in asked'[k[1]] <=> k[2] \in asked[k[1]] /\ k # Key(m)
    BY <1>1, <2>1 DEF Key
  <2> QED
    BY <1>7, <2>2 DEF Places, Asked
<1>9. Kinds'
  BY <1>1, <1>2 DEF Places, Kinds, Pending, Replied
<1>10. Underway' = Underway \ {m}
  BY <1>1, <1>2, <1>4 DEF Underway, Pending, Replied
<1> QED
  BY <1>5, <1>6, <1>7, <1>8, <1>9, <1>10 DEF Places, m

-----------------------------------------------------------------------------
(* Parts of parts *)

\* The beginning of a part of a stream is a part of it, and so is its end.
LEMMA PartFirst ==
  ASSUME NEW a \in Nat \ {0}, NEW n \in Nat, NEW k \in 0 .. n
  PROVE  SubSeq(Part(a, n), 1, k) = Part(a, k)
<1> DEFINE x == Part(a, n)
           y == SubSeq(x, 1, k)
           z == Part(a, k)
<1>1. x \in Seq(Nat) /\ Len(x) = n /\ \A i \in 1 .. n : x[i] = a + i - 1
  BY PartIs
<1>2. z \in Seq(Nat) /\ Len(z) = k /\ \A i \in 1 .. k : z[i] = a + i - 1
  BY PartIs
<1> HIDE DEF x, z
<1>3. y \in Seq(Nat) /\ Len(y) = k /\ \A i \in 1 .. k : y[i] = x[i]
  BY <1>1
<1> HIDE DEF y
<1>4. \A i \in 1 .. Len(y) : y[i] = z[i]
  BY <1>1, <1>2, <1>3
<1>5. y = z
  BY <1>2, <1>3, <1>4, SeqEqual
<1> QED
  BY <1>5 DEF x, y, z

LEMMA PartEnd ==
  ASSUME NEW a \in Nat \ {0}, NEW n \in Nat, NEW k \in 0 .. n
  PROVE  SubSeq(Part(a, n), k + 1, n) = Part(a + k, n - k)
<1> DEFINE x == Part(a, n)
           y == SubSeq(x, k + 1, n)
           z == Part(a + k, n - k)
<1>1. x \in Seq(Nat) /\ Len(x) = n /\ \A i \in 1 .. n : x[i] = a + i - 1
  BY PartIs
<1>2. z \in Seq(Nat) /\ Len(z) = n - k /\ \A i \in 1 .. n - k : z[i] = a + k + i - 1
  <2>1. a + k \in Nat \ {0} /\ n - k \in Nat
    OBVIOUS
  <2> QED
    BY <2>1, PartIs
<1> HIDE DEF x, z
<1>3. y \in Seq(Nat) /\ Len(y) = n - k /\ \A i \in 1 .. n - k : y[i] = x[k + i]
  BY <1>1, EndOf
<1> HIDE DEF y
<1>4. ASSUME NEW i \in 1 .. Len(y) PROVE y[i] = z[i]
  <2>1. PICK j \in 1 .. n : j = k + i
    BY <1>3
  <2>2. y[i] = a + j - 1 /\ z[i] = a + k + i - 1
    BY <1>1, <1>2, <1>3, <2>1
  <2> QED
    BY <2>1, <2>2
<1>5. y = z
  BY <1>2, <1>3, <1>4, SeqEqual
<1> QED
  BY <1>5 DEF x, y, z

-----------------------------------------------------------------------------
(* What the messages say of the streams *)

WriteIs(m) ==
  /\ m.first >= 1 /\ m.rep_len <= m.len
  /\ m.first + m.len - 1 = written[m.sk]
  /\ FlattenSeq(m.mbq) = Part(m.first + m.rep_len, m.len - m.rep_len)
  /\ Len(sent[m.sk]) = m.first + m.rep_len - 1
  /\ m.ret = "success" => m.mbq = <<>>

ReadIs(m) ==
  IF m.ret = "none" THEN m.mbq = <<>>
  ELSE FlattenSeq(m.mbq) = Part(Len(got[m.sk]) + 1, taken[m.sk] - Len(got[m.sk]))

Good(m) == (m.opt = "write" => WriteIs(m)) /\ (m.opt = "read" => ReadIs(m))

\* What a socket has when nothing is under way to it.
Idle(s) ==
  /\ "write" \notin asked[s] => Len(sent[s]) = written[s]
  /\ <<s, "read">> \notin RepliedKeys => Len(got[s]) = taken[s]
  /\ sent[s] = Part(1, Len(sent[s])) /\ got[s] = Part(1, Len(got[s]))

DataInv ==
  /\ Fields /\ Places
  /\ \A s \in Socks : Idle(s)
  /\ \A m \in Underway : Good(m)

\* No mbuffs hold no bytes.
LEMMA Nothing == FlattenSeq(<<>>) = <<>>
<1>1. <<>> \in Mbuffs
  BY DEF Mbuffs
<1>2. PICK f : IsFlat(<<>>, f) /\ FlattenSeq(<<>>) = f[Len(<<>>)]
  BY <1>1, FlatIs
<1> QED
  BY <1>2 DEF IsFlat

\* No bytes are none.
LEMMA NoPart ==
  ASSUME NEW a, NEW n \in Nat
  PROVE  Part(a, n) = <<>> <=> n = 0
<1>1. DOMAIN Part(a, n) = 1 .. n
  BY DEF Part
<1>2. CASE n = 0
  BY <1>2 DEF Part
<1>3. CASE n # 0
  <2>1. 1 \in DOMAIN Part(a, n) /\ DOMAIN <<>> = {}
    BY <1>1, <1>3
  <2> QED
    BY <1>3, <2>1
<1> QED
  BY <1>2, <1>3

\* Types of what is under way.
LEMMA UnderwayTypes ==
  ASSUME Queues
  PROVE  Underway \subseteq Message
<1>1. \A q \in Seq(Message) : Range(q) \subseteq Message
  BY DEF Range
<1> QED
  BY <1>1 DEF Queues, Underway, Pending, Replied

\* The types of its fields.
LEMMA MessageFields ==
  ASSUME NEW m \in Message
  PROVE  /\ m.sk \in Socks /\ m.opt \in {"read", "write"} /\ m.first \in Nat /\ m.len \in Nat
         /\ m.ret \in {"none", "success", "failure"} /\ m.rep_len \in Nat /\ m.mbq \in Mbuffs
         /\ Len(m.mbq) \in Nat
  BY DEF Message, Mbuffs

\* What sendmsg() takes of a write.
LEMMA PartSent ==
  ASSUME DataInv, NEW m \in Underway, m.opt = "write",
         NEW n \in 1 .. Len(FlattenSeq(m.mbq))
  PROVE  /\ m.rep_len + n <= m.len
         /\ Unsent(m.mbq, n) \in Mbuffs
         /\ Len(Unsent(m.mbq, n)) \in Nat /\ Len(Unsent(m.mbq, n)) <= Len(m.mbq)
         /\ FlattenSeq(Unsent(m.mbq, n)) = Part(m.first + (m.rep_len + n), m.len - (m.rep_len + n))
         /\ sent[m.sk] \o SubSeq(FlattenSeq(m.mbq), 1, n) = Part(1, m.first + (m.rep_len + n) - 1)
<1>1. /\ m \in Message /\ WriteIs(m) /\ Idle(m.sk) /\ m.mbq \in Mbuffs
      /\ m.first \in Nat \ {0} /\ m.rep_len \in Nat /\ m.len \in Nat /\ m.rep_len <= m.len
  <2>1. m \in Message
    BY UnderwayTypes DEF DataInv, Places
  <2> QED
    BY <2>1, MessageFields DEF DataInv, Good, WriteIs
<1>2. PICK a \in Nat \ {0}, l \in Nat : a = m.first + m.rep_len /\ l = m.len - m.rep_len
  <2>1. m.first + m.rep_len \in Nat \ {0} /\ m.len - m.rep_len \in Nat
    BY <1>1
  <2> QED
    BY <2>1
<1>3. FlattenSeq(m.mbq) = Part(a, l) /\ Len(sent[m.sk]) = a - 1 /\ sent[m.sk] = Part(1, a - 1)
  <2>1. FlattenSeq(m.mbq) = Part(a, l)
    BY <1>1, <1>2 DEF WriteIs
  <2>2. Len(sent[m.sk]) = m.first + m.rep_len - 1
    BY <1>1 DEF WriteIs
  <2>3. Len(sent[m.sk]) = a - 1
    <3>1. m.first + m.rep_len - 1 = a - 1
      BY <1>1, <1>2
    <3> QED
      BY <2>2, <3>1
  <2>4. sent[m.sk] = Part(1, Len(sent[m.sk]))
    BY <1>1 DEF Idle
  <2> QED
    BY <2>1, <2>3, <2>4
<1>4. Len(FlattenSeq(m.mbq)) = l /\ n \in 0 .. l
  BY <1>3, PartIs
<1>5. /\ Unsent(m.mbq, n) \in Mbuffs /\ Len(Unsent(m.mbq, n)) <= Len(m.mbq)
      /\ FlattenSeq(Unsent(m.mbq, n)) = SubSeq(FlattenSeq(m.mbq), n + 1, Len(FlattenSeq(m.mbq)))
  BY <1>1, UnsentIs
<1>6. FlattenSeq(Unsent(m.mbq, n)) = Part(a + n, l - n)
  BY <1>3, <1>4, <1>5, PartEnd
<1>7. sent[m.sk] \o SubSeq(FlattenSeq(m.mbq), 1, n) = Part(1, a - 1 + n)
  <2>1. SubSeq(FlattenSeq(m.mbq), 1, n) = Part(a, n)
    BY <1>3, <1>4, PartFirst
  <2>2. 1 \in Nat \ {0} /\ a - 1 \in Nat /\ n \in Nat /\ 1 + (a - 1) = a
    OBVIOUS
  <2>3. Part(1, a - 1) \o Part(1 + (a - 1), n) = Part(1, a - 1 + n)
    BY <2>2, PartsJoin
  <2> QED
    BY <1>3, <2>1, <2>2, <2>3
<1>8. /\ m.first + (m.rep_len + n) = a + n /\ m.len - (m.rep_len + n) = l - n
      /\ m.first + (m.rep_len + n) - 1 = a - 1 + n /\ m.rep_len + n <= m.len
  <2>1. PICK f \in Nat, p \in Nat, e \in Nat : f = m.first /\ p = m.rep_len /\ e = m.len
    BY <1>1
  <2>2. PICK k \in Nat : k = n /\ k <= l
    BY <1>4
  <2>3. a = f + p /\ l = e - p /\ p <= e
    BY <1>1, <1>2, <2>1
  <2>4. f + (p + k) = a + k /\ e - (p + k) = l - k /\ f + (p + k) - 1 = a - 1 + k /\ p + k <= e
    BY <2>2, <2>3
  <2> QED
    BY <2>1, <2>2, <2>4, Zenon
<1>9. Len(Unsent(m.mbq, n)) \in Nat
  BY <1>5 DEF Mbuffs
<1> QED
  BY <1>5, <1>6, <1>7, <1>8, <1>9

-----------------------------------------------------------------------------
(* The steps keep the invariant *)

\* What is under way was asked for.
LEMMA UnderwayAsked ==
  ASSUME Places, NEW m \in Underway
  PROVE  m.opt \in asked[m.sk]
<1>1. Key(m) \in AllKeys
  BY KeysHave DEF Underway, Pending, Replied, AllKeys, RepliedKeys
<1> QED
  BY <1>1 DEF Places, Asked, Key

\* A message says what it said when its streams did not change.
LEMMA StillGood ==
  ASSUME NEW m, Good(m),
         m.opt = "write" => UNCHANGED <<written[m.sk], sent[m.sk]>>,
         m.opt = "read" => UNCHANGED <<taken[m.sk], got[m.sk]>>
  PROVE  Good(m)'
<1>1. ASSUME m.opt = "write" PROVE WriteIs(m)'
  BY <1>1 DEF Good, WriteIs
<1>2. ASSUME m.opt = "read" PROVE ReadIs(m)'
  BY <1>2 DEF Good, ReadIs
<1> QED
  BY <1>1, <1>2 DEF Good

\* The round goes on.
LEMMA PassKept ==
  ASSUME DataInv, WriteEnd \/ ReadEnd \/ Exchange \/ Select
  PROVE  DataInv'
<1>1. /\ UNCHANGED <<asked, written, got, sent, unread, arrived, taken, closed, mbuffs, failures>>
      /\ pc' \in {"select", "write", "read", "requests"}
  BY DEF WriteEnd, ReadEnd, Exchange, Select, kernelVars, programVars, memoryVars
<1>2. Places' /\ Underway' = Underway /\ RepliedKeys' = RepliedKeys
  BY QueuesPassed DEF DataInv
<1>3. rset' \subseteq Socks /\ wset' \subseteq Socks /\ noticed' \in BOOLEAN
  <2>1. \A q \in Seq(Message) : SocketsOf(q) \subseteq Socks
    <3> SUFFICES ASSUME NEW q \in Seq(Message), NEW i \in DOMAIN q PROVE q[i].sk \in Socks
      BY DEF SocketsOf
    <3>1. q[i] \in Message
      OBVIOUS
    <3> QED
      BY <3>1, MessageFields
  <2>2. SocketsOf(rpenq) \subseteq Socks /\ SocketsOf(wpenq) \subseteq Socks
    BY <2>1 DEF DataInv, Places, Queues
  <2> QED
    BY <2>2 DEF DataInv, Fields, WriteEnd, ReadEnd, Exchange, Select
<1>4. Fields'
  BY <1>1, <1>3 DEF DataInv, Fields
<1>5. \A s \in Socks : Idle(s)'
  BY <1>1, <1>2 DEF DataInv, Idle
<1>6. \A m \in Underway : Good(m)'
  BY <1>1, StillGood DEF DataInv
<1> QED
  BY <1>2, <1>4, <1>5, <1>6 DEF DataInv

\* The first pending write became x.
LEMMA WriteDone ==
  ASSUME DataInv, pc = "write", wpenq # <<>>, wpenq' = Tail(wpenq),
         UNCHANGED <<pc, rset, wset, noticed, rpenq, kernelVars, arrived, taken, closed>>,
         NEW x \in Message, Key(x) = Key(Head(wpenq)),
         \/ again' = Append(again, x) /\ toKrn' = toKrn /\ x.ret = "none"
         \/ toKrn' = Append(toKrn, x) /\ again' = again /\ x.ret # "none",
         Fields', Good(x)',
         \A s \in Socks : s = x.sk \/ sent'[s] = sent[s],
         sent'[x.sk] = Part(1, Len(sent'[x.sk]))
  PROVE  /\ DataInv' /\ Underway' = (Underway \ {Head(wpenq)}) \cup {x}
         /\ \A o \in Underway \ {Head(wpenq)} : Key(o) # Key(x)
<1> DEFINE m == Head(wpenq)
<1>1. /\ Places' /\ Underway' = (Underway \ {m}) \cup {x} /\ RepliedKeys \subseteq RepliedKeys'
  <2>1. Places /\ UNCHANGED <<requests, replies, asked>>
    BY DEF DataInv, kernelVars
  <2> HIDE DEF m
  <2>2. Places' /\ Underway' = (Underway \ {m}) \cup {x}
        /\ (x.ret # "none" => RepliedKeys' = RepliedKeys \cup {Key(x)})
        /\ (x.ret = "none" => RepliedKeys' = RepliedKeys)
    BY <2>1, WriteMoved DEF m
  <2> QED
    BY <2>2
<1>2. /\ m \in Underway /\ m.opt = "write" /\ x.opt = "write" /\ x.sk = m.sk /\ m \in Message
      /\ \A o \in Underway \ {m} : Key(o) # Key(x)
  <2>1. m \in Range(wpenq) /\ m \in Message /\ \A o \in Underway \ {m} : Key(o) # Key(m)
    BY HeadAlone DEF DataInv, Places
  <2> QED
    BY <2>1 DEF DataInv, Places, Kinds, Underway, Pending, Key
<1> HIDE DEF m
<1>3. "write" \in asked[m.sk]
  BY <1>2, UnderwayAsked DEF DataInv
<1>4. UNCHANGED <<asked, written, got, taken, closed>>
  BY DEF kernelVars
<1>5. ASSUME NEW o \in Underway \ {m} PROVE Good(o)'
  <2>1. o \in Message /\ Good(o)
    BY UnderwayTypes DEF DataInv, Places
  <2>2. o.opt = "write" => o.sk # m.sk /\ o.sk \in Socks
    BY <1>2, <2>1, MessageFields DEF Key
  <2>3. o.opt = "write" => sent'[o.sk] = sent[o.sk]
    BY <1>2, <2>2
  <2> QED
    BY <1>4, <2>1, <2>3, StillGood
<1>6. ASSUME NEW s \in Socks PROVE Idle(s)'
  <2>1. CASE s = m.sk
    BY <1>1, <1>2, <1>3, <1>4, <2>1 DEF DataInv, Idle
  <2>2. CASE s # m.sk
    BY <1>1, <1>2, <1>4, <2>2 DEF DataInv, Idle
  <2> QED
    BY <2>1, <2>2
<1> QED
  BY <1>1, <1>2, <1>5, <1>6 DEF DataInv, m

\* The first pending read became x.
LEMMA ReadDone ==
  ASSUME DataInv, pc = "read", rpenq # <<>>, rpenq' = Tail(rpenq),
         UNCHANGED <<pc, rset, wset, noticed, wpenq, kernelVars, sent, unread, arrived, closed>>,
         NEW x \in Message, Key(x) = Key(Head(rpenq)),
         \/ again' = Append(again, x) /\ toKrn' = toKrn /\ x.ret = "none" /\ taken' = taken
         \/ toKrn' = Append(toKrn, x) /\ again' = again /\ x.ret # "none",
         Fields', Good(x)',
         \A s \in Socks : s = x.sk \/ taken'[s] = taken[s]
  PROVE  /\ DataInv' /\ Underway' = (Underway \ {Head(rpenq)}) \cup {x}
         /\ \A o \in Underway \ {Head(rpenq)} : Key(o) # Key(x)
<1> DEFINE m == Head(rpenq)
<1>1. /\ Places' /\ Underway' = (Underway \ {m}) \cup {x}
      /\ x.ret = "none" => RepliedKeys' = RepliedKeys
      /\ x.ret # "none" => RepliedKeys' = RepliedKeys \cup {Key(x)}
  <2>1. Places /\ UNCHANGED <<requests, replies, asked>>
    BY DEF DataInv, kernelVars
  <2> HIDE DEF m
  <2> QED
    BY <2>1, ReadMoved DEF m
<1>2. /\ m \in Underway /\ m.opt = "read" /\ x.opt = "read" /\ x.sk = m.sk /\ m \in Message
      /\ \A o \in Underway \ {m} : Key(o) # Key(x)
  <2>1. m \in Range(rpenq) /\ m \in Message /\ \A o \in Underway \ {m} : Key(o) # Key(m)
    BY HeadAlone DEF DataInv, Places
  <2> QED
    BY <2>1 DEF DataInv, Places, Kinds, Underway, Pending, Key
<1> HIDE DEF m
<1>4. UNCHANGED <<asked, written, got, sent, closed>>
  BY DEF kernelVars
<1>5. ASSUME NEW o \in Underway \ {m} PROVE Good(o)'
  <2>1. o \in Message /\ Good(o)
    BY UnderwayTypes DEF DataInv, Places
  <2>2. o.opt = "read" => o.sk # m.sk /\ o.sk \in Socks
    BY <1>2, <2>1, MessageFields DEF Key
  <2>3. o.opt = "read" => taken'[o.sk] = taken[o.sk]
    BY <1>2, <2>2
  <2> QED
    BY <1>4, <2>1, <2>3, StillGood
<1>6. ASSUME NEW s \in Socks PROVE Idle(s)'
  <2>1. CASE s = m.sk /\ x.ret # "none"
    <3>1. <<s, "read">> \in RepliedKeys'
      BY <1>1, <1>2, <2>1 DEF Key
    <3> QED
      BY <1>4, <3>1 DEF DataInv, Idle
  <2>2. CASE s # m.sk
    BY <1>1, <1>2, <1>4, <2>2 DEF DataInv, Idle
  <2>3. CASE x.ret = "none"
    BY <1>1, <1>4, <2>3 DEF DataInv, Idle
  <2> QED
    BY <2>1, <2>2, <2>3
<1> QED
  BY <1>1, <1>2, <1>5, <1>6 DEF DataInv, m

\* senddata(): the mbuffs that go from the message are freed.
LEMMA WriteKept ==
  ASSUME DataInv, WriteOne
  PROVE  /\ DataInv'
         /\ \E x \in Message :
              /\ Underway' = (Underway \ {Head(wpenq)}) \cup {x} /\ Key(x) = Key(Head(wpenq))
              /\ \A o \in Underway \ {Head(wpenq)} : Key(o) # Key(x)
              /\ mbuffs' - Len(x.mbq) = mbuffs - Len(Head(wpenq).mbq)
              /\ failures' = failures \/ failures' = failures + 1
<1> DEFINE m == Head(wpenq)
           Done(x) == /\ DataInv' /\ Underway' = (Underway \ {m}) \cup {x} /\ Key(x) = Key(m)
                      /\ \A o \in Underway \ {m} : Key(o) # Key(x)
<1>1. /\ pc = "write" /\ wpenq # <<>> /\ wpenq' = Tail(wpenq)
      /\ UNCHANGED <<pc, rset, wset, noticed, rpenq, kernelVars>>
      /\ \/ m.sk \notin wset /\ Requeue(m) /\ UNCHANGED <<programVars, memoryVars>>
         \/ WriteFailed(m) \/ WriteNothing(m) \/ (m.sk \notin closed /\ WriteSent(m))
  BY DEF WriteOne
<1>2. /\ m \in Underway /\ m \in Message /\ m.opt = "write" /\ m.ret = "none" /\ Good(m)
  <2>1. m \in Range(wpenq) /\ m \in Message
    BY <1>1, HeadAlone DEF DataInv, Places
  <2> QED
    BY <2>1 DEF DataInv, Places, Kinds, Underway, Pending
<1>3. /\ m.sk \in Socks /\ m.first \in Nat /\ m.len \in Nat /\ m.rep_len \in Nat
      /\ m.mbq \in Mbuffs /\ Len(m.mbq) \in Nat
  BY <1>2, MessageFields
<1>4. UNCHANGED <<asked, written, got>>
  BY <1>1 DEF kernelVars
<1> HIDE DEF m
<1>5. ASSUME NEW x \in Message, Key(x) = Key(m), x.mbq = m.mbq, Good(x)', Fields',
             \/ again' = Append(again, x) /\ toKrn' = toKrn /\ x.ret = "none"
             \/ toKrn' = Append(toKrn, x) /\ again' = again /\ x.ret # "none",
             UNCHANGED <<sent, unread, arrived, taken, closed, mbuffs>>
      PROVE  Done(x)
  <2>1. x.sk \in Socks
    BY MessageFields
  <2>2. sent'[x.sk] = Part(1, Len(sent'[x.sk]))
    BY <1>5, <2>1 DEF DataInv, Idle
  <2> QED
    BY <1>1, <1>5, <2>2, WriteDone DEF m
<1>6. ASSUME UNCHANGED <<sent, unread, arrived, taken, closed, mbuffs>>, failures' \in 0 .. MaxFailures
      PROVE  Fields'
  BY <1>1, <1>4, <1>6 DEF DataInv, Fields
<1>7. CASE Requeue(m) /\ UNCHANGED <<programVars, mbuffs>> /\ failures' \in {failures, failures + 1} \cap (0 .. MaxFailures)
  <2>1. UNCHANGED <<sent, unread, arrived, taken, closed, mbuffs>>
    BY <1>7 DEF programVars
  <2>2. PICK x \in Message : x = m
    BY <1>2
  <2>3. Good(x)
    BY <1>2, <2>2
  <2>4. Good(x)'
    BY <1>4, <2>1, <2>3, StillGood
  <2>5. again' = Append(again, x) /\ toKrn' = toKrn /\ x.ret = "none"
    BY <1>2, <1>7, <2>2 DEF Requeue
  <2>6. Fields'
    BY <1>6, <1>7, <2>1
  <2>7. Key(x) = Key(m) /\ x.mbq = m.mbq
    BY <2>2
  <2>8. Done(x)
    BY <1>5, <2>1, <2>4, <2>5, <2>6, <2>7
  <2>9. (failures' = failures \/ failures' = failures + 1) /\ mbuffs' - Len(x.mbq) = mbuffs - Len(m.mbq)
    BY <1>7, <2>1, <2>7 DEF DataInv, Fields
  <2> QED
    BY <2>8, <2>9 DEF m
<1>8. CASE WriteFailed(m)
  <2>1. PICK x : x = [m EXCEPT !.ret = "failure"]
    OBVIOUS
  <2>2. /\ toKrn' = Append(toKrn, x) /\ again' = again
        /\ UNCHANGED <<sent, unread, arrived, taken, closed, mbuffs>>
        /\ failures' \in {failures, failures + 1} \cap (0 .. MaxFailures)
    BY <1>8, <2>1, Sizes DEF WriteFailed, Answer, programVars, Fail, DataInv, Fields
  <2>3. /\ x \in Message /\ x.ret = "failure" /\ x.opt = "write" /\ x.sk = m.sk /\ x.mbq = m.mbq
        /\ x.first = m.first /\ x.len = m.len /\ x.rep_len = m.rep_len
    BY <1>2, <2>1 DEF Message
  <2>4. Good(x)'
    BY <1>2, <1>4, <2>2, <2>3 DEF Good, WriteIs
  <2>5. Fields'
    BY <1>6, <2>2 DEF DataInv, Fields
  <2>6. Key(x) = Key(m)
    BY <1>2, <2>3 DEF Key
  <2>7. Done(x)
    BY <1>5, <2>2, <2>3, <2>4, <2>5, <2>6
  <2>8. (failures' = failures \/ failures' = failures + 1) /\ mbuffs' - Len(x.mbq) = mbuffs - Len(m.mbq)
    BY <2>2, <2>3 DEF DataInv, Fields
  <2> QED
    BY <2>3, <2>7, <2>8 DEF m
<1>9. CASE m.sk \notin closed /\ WriteSent(m)
  <2>1. PICK n \in 1 .. Lower(Space - unread[m.sk], Len(FlattenSeq(m.mbq))) :
          LET left == Unsent(m.mbq, n)
              rest == [m EXCEPT !.mbq = left, !.rep_len = @ + n]
          IN /\ sent' = [sent EXCEPT ![m.sk] = @ \o SubSeq(FlattenSeq(m.mbq), 1, n)]
             /\ unread' = [unread EXCEPT ![m.sk] = @ + n]
             /\ mbuffs' = mbuffs - (Len(m.mbq) - Len(left))
             /\ IF left = <<>> THEN Answer(rest, "success") ELSE Requeue(rest)
             /\ UNCHANGED <<arrived, taken, closed, failures>>
    BY <1>9 DEF WriteSent
  <2>2. PICK left, ret, x :
          /\ left = Unsent(m.mbq, n) /\ ret = IF left = <<>> THEN "success" ELSE "none"
          /\ x = [m EXCEPT !.mbq = left, !.rep_len = @ + n, !.ret = ret]
    OBVIOUS
  <2>3. /\ sent' = [sent EXCEPT ![m.sk] = @ \o SubSeq(FlattenSeq(m.mbq), 1, n)]
        /\ unread' = [unread EXCEPT ![m.sk] = @ + n]
        /\ mbuffs' = mbuffs - (Len(m.mbq) - Len(left))
        /\ UNCHANGED <<arrived, taken, closed, failures>>
    BY <2>1, <2>2
  <2>4. \/ again' = Append(again, x) /\ toKrn' = toKrn /\ x.ret = "none"
        \/ toKrn' = Append(toKrn, x) /\ again' = again /\ x.ret # "none"
    BY <1>2, <2>1, <2>2 DEF Answer, Requeue, Message
  <2>5. /\ unread[m.sk] \in 0 .. Space /\ Space \in Nat
        /\ FlattenSeq(m.mbq) \in Seq(Nat) /\ Len(FlattenSeq(m.mbq)) \in Nat
    <3>1. FlattenSeq(m.mbq) \in Seq(Nat)
      <4>1. PICK f : IsFlat(m.mbq, f) /\ FlattenSeq(m.mbq) = f[Len(m.mbq)]
        BY <1>3, FlatIs
      <4> QED
        BY <1>3, <4>1 DEF IsFlat
    <3> QED
      BY <1>3, <3>1, Sizes DEF DataInv, Fields
  <2>6. n \in 1 .. Len(FlattenSeq(m.mbq)) /\ unread[m.sk] + n \in 0 .. Space
    BY <2>5 DEF Lower
  <2>7. /\ m.rep_len + n <= m.len
        /\ left \in Mbuffs /\ Len(left) \in Nat /\ Len(left) <= Len(m.mbq)
        /\ FlattenSeq(left) = Part(m.first + (m.rep_len + n), m.len - (m.rep_len + n))
        /\ sent[m.sk] \o SubSeq(FlattenSeq(m.mbq), 1, n) = Part(1, m.first + (m.rep_len + n) - 1)
    BY <1>2, <2>2, <2>6, PartSent
  <2>8. /\ x \in Message /\ x.opt = "write" /\ x.sk = m.sk /\ x.first = m.first /\ x.len = m.len
        /\ x.mbq = left /\ x.rep_len = m.rep_len + n /\ x.rep_len \in Nat
        /\ x.ret = IF left = <<>> THEN "success" ELSE "none"
    <3>1. PICK k \in Nat : k = m.rep_len + n
      BY <1>3, <2>6
    <3>2. ret \in {"none", "success", "failure"} /\ left \in Seq(Seq(Nat))
      BY <2>2, <2>7 DEF Mbuffs
    <3>3. x = [m EXCEPT !.mbq = left, !.rep_len = k, !.ret = ret]
      BY <2>2, <3>1
    <3>4. x \in Message
      BY <1>2, <3>2, <3>3 DEF Message
    <3>5. /\ x.opt = m.opt /\ x.sk = m.sk /\ x.first = m.first /\ x.len = m.len
          /\ x.mbq = left /\ x.rep_len = k /\ x.ret = ret
      BY <1>2, <3>3 DEF Message
    <3> QED
      BY <1>2, <2>2, <3>1, <3>4, <3>5
  <2>9. PICK k \in Nat : k = m.first + (m.rep_len + n) - 1
    <3>1. m.first + (m.rep_len + n) - 1 \in Nat
      BY <1>3, <2>6
    <3> QED
      BY <3>1
  <2>10. sent'[m.sk] = Part(1, k) /\ Len(sent'[m.sk]) = k
    <3>1. sent'[m.sk] = Part(1, k)
      BY <1>3, <2>3, <2>7, <2>9 DEF DataInv, Fields
    <3> QED
      BY <3>1, PartIs
  <2>11. Good(x)'
    <3>1. x.first + x.rep_len - 1 = k /\ x.first + x.rep_len = m.first + (m.rep_len + n)
      BY <1>3, <2>8, <2>9
    <3>2. x.first >= 1 /\ x.first + x.len - 1 = written'[x.sk]
      BY <1>2, <1>4, <2>8 DEF Good, WriteIs
    <3>3. x.rep_len <= x.len
      BY <2>7, <2>8
    <3>4. FlattenSeq(x.mbq) = Part(x.first + x.rep_len, x.len - x.rep_len)
      BY <2>7, <2>8, <3>1
    <3>5. Len(sent'[x.sk]) = x.first + x.rep_len - 1
      BY <2>8, <2>10, <3>1
    <3>6. x.ret = "success" => x.mbq = <<>>
      BY <2>8
    <3> QED
      BY <2>8, <3>2, <3>3, <3>4, <3>5, <3>6 DEF Good, WriteIs
  <2>12. Fields'
    <3>1. sent' \in [Socks -> Seq(Nat)]
      <4>1. sent'[m.sk] \in Seq(Nat)
        BY <2>10, PartIs
      <4> QED
        BY <1>3, <2>3, <4>1 DEF DataInv, Fields
    <3>2. unread' \in [Socks -> 0 .. Space]
      BY <1>3, <2>3, <2>6 DEF DataInv, Fields
    <3>3. mbuffs' \in Int
      BY <1>3, <2>3, <2>7 DEF DataInv, Fields
    <3> QED
      BY <1>1, <1>4, <2>3, <3>1, <3>2, <3>3 DEF DataInv, Fields
  <2>13. Key(x) = Key(m)
    BY <1>2, <2>8 DEF Key
  <2>14. /\ \A s \in Socks : s = x.sk \/ sent'[s] = sent[s]
         /\ sent'[x.sk] = Part(1, Len(sent'[x.sk]))
    BY <2>3, <2>8, <2>10 DEF DataInv, Fields
  <2>15. Done(x)
    BY <1>1, <2>3, <2>4, <2>8, <2>11, <2>12, <2>13, <2>14, WriteDone DEF m
  <2>16. (failures' = failures \/ failures' = failures + 1) /\ mbuffs' - Len(x.mbq) = mbuffs - Len(m.mbq)
    BY <1>3, <2>3, <2>7, <2>8 DEF DataInv, Fields
  <2> QED
    BY <2>8, <2>15, <2>16 DEF m
<1>10. ASSUME WriteNothing(m) \/ (m.sk \notin wset /\ Requeue(m) /\ UNCHANGED <<programVars, memoryVars>>)
       PROVE  Requeue(m) /\ UNCHANGED <<programVars, mbuffs>> /\ failures' \in {failures, failures + 1} \cap (0 .. MaxFailures)
  BY <1>10, Sizes DEF WriteNothing, Fail, memoryVars, DataInv, Fields
<1> QED
  BY <1>1, <1>7, <1>8, <1>9, <1>10

\* The most mbuffs that one read allocates.
PerRead == ATOMIC_READ \div Chunk

\* More bytes fill no fewer mbuffs.
LEMMA DivisionGrows ==
  ASSUME NEW n \in Nat, NEW k \in Nat, n <= k, NEW c \in Nat, c > 0
  PROVE  n \div c <= k \div c
<1> DEFINE a == n \div c
           b == k \div c
<1>1. a \in Nat /\ a * c <= n /\ b \in Nat /\ k < b * c + c /\ b * c \in Nat /\ a * c \in Nat
  BY Division
<1> HIDE DEF a, b
<1>2. ASSUME b + 1 <= a PROVE FALSE
  <2>1. (b + 1) * c <= a * c /\ (b + 1) * c \in Nat
    BY <1>1, <1>2, Multiples
  <2>2. (b + 1 - 1) * c = (b + 1) * c - c
    BY <1>1, OneMoreTime
  <2>3. b + 1 - 1 = b
    BY <1>1
  <2>4. b * c = (b + 1) * c - c
    BY <2>2, <2>3
  <2> QED
    BY <1>1, <2>1, <2>4
<1> QED
  BY <1>1, <1>2 DEF a, b

\* No more is read than there is, or than ATOMIC_READ.
LEMMA ToReadIs ==
  ASSUME Fields, NEW m \in Message
  PROVE  /\ ToRead(m) \in Nat /\ ToRead(m) <= PerRead /\ PerRead \in Nat
         /\ \A n \in 1 .. ToRead(m) : n * Chunk \in Nat /\ taken[m.sk] + n * Chunk <= arrived[m.sk]
<1>1. /\ Chunk \in Nat /\ Chunk > 0 /\ ATOMIC_READ \in Nat /\ m.len \in Nat
      /\ arrived[m.sk] \in Nat /\ taken[m.sk] \in Nat /\ taken[m.sk] <= arrived[m.sk]
  BY Sizes, MessageFields DEF Fields
<1>2. PICK v \in Nat : /\ v = Lower(Lower(ATOMIC_READ, m.len), arrived[m.sk] - taken[m.sk])
                       /\ v <= ATOMIC_READ /\ v <= arrived[m.sk] - taken[m.sk]
  <2>1. PICK a \in Nat : a = arrived[m.sk] - taken[m.sk]
    <3>1. arrived[m.sk] - taken[m.sk] \in Nat
      BY <1>1
    <3> QED
      BY <3>1
  <2>2. /\ Lower(Lower(ATOMIC_READ, m.len), a) \in Nat
        /\ Lower(Lower(ATOMIC_READ, m.len), a) <= ATOMIC_READ
        /\ Lower(Lower(ATOMIC_READ, m.len), a) <= a
    BY <1>1 DEF Lower
  <2> QED
    BY <2>1, <2>2
<1>3. ToRead(m) = v \div Chunk
  BY <1>2 DEF ToRead
<1>4. /\ v \div Chunk \in Nat /\ (v \div Chunk) * Chunk <= v /\ (v \div Chunk) * Chunk \in Nat
      /\ PerRead \in Nat
  BY <1>1, Division DEF PerRead
<1>5. v \div Chunk <= PerRead
  BY <1>1, <1>2, DivisionGrows DEF PerRead
<1>6. ASSUME NEW n \in 1 .. ToRead(m)
      PROVE  n * Chunk \in Nat /\ taken[m.sk] + n * Chunk <= arrived[m.sk]
  <2>1. n \in Nat /\ n <= v \div Chunk
    BY <1>3, <1>4
  <2>2. n * Chunk \in Nat /\ n * Chunk <= (v \div Chunk) * Chunk
    BY <1>1, <1>4, <2>1, Multiples
  <2> QED
    BY <1>1, <1>2, <1>4, <2>2
<1> QED
  BY <1>3, <1>4, <1>5, <1>6

\* recvdata(): d of the mbuffs that it allocates are lost, when something fails.
LEMMA ReadKept ==
  ASSUME DataInv, ReadOne
  PROVE  /\ DataInv'
         /\ \E x \in Message, d \in 0 .. PerRead :
              /\ Underway' = (Underway \ {Head(rpenq)}) \cup {x} /\ Key(x) = Key(Head(rpenq))
              /\ \A o \in Underway \ {Head(rpenq)} : Key(o) # Key(x)
              /\ mbuffs' - Len(x.mbq) = mbuffs - Len(Head(rpenq).mbq) + d
              /\ failures' = failures + 1 \/ (failures' = failures /\ d = 0)
<1> DEFINE m == Head(rpenq)
           Done(x) == /\ DataInv' /\ Underway' = (Underway \ {m}) \cup {x} /\ Key(x) = Key(m)
                      /\ \A o \in Underway \ {m} : Key(o) # Key(x)
<1>1. /\ pc = "read" /\ rpenq # <<>> /\ rpenq' = Tail(rpenq)
      /\ UNCHANGED <<pc, rset, wset, noticed, wpenq, kernelVars>>
      /\ \/ m.sk \notin rset /\ Requeue(m) /\ UNCHANGED <<programVars, memoryVars>>
         \/ ReadSome(m) \/ ReadNothing(m) \/ ReadLeaks(m) \/ ReadFailed(m)
  BY DEF ReadOne
<1>2. /\ m \in Range(rpenq) /\ m \in Underway /\ m \in Message /\ m.opt = "read" /\ m.ret = "none" /\ Good(m)
  <2>1. m \in Range(rpenq) /\ m \in Message
    BY <1>1, HeadAlone DEF DataInv, Places
  <2> QED
    BY <2>1 DEF DataInv, Places, Kinds, Underway, Pending
<1>3. m.sk \in Socks /\ m.mbq = <<>> /\ Len(m.mbq) = 0
  BY <1>2, MessageFields DEF Good, ReadIs
<1>4. UNCHANGED <<asked, written, got>>
  BY <1>1 DEF kernelVars
<1>5. Len(got[m.sk]) = taken[m.sk] /\ taken[m.sk] \in Nat
  <2>1. Key(m) = <<m.sk, "read">> /\ Key(m) \in Keys(rpenq)
    BY <1>2, KeysHave DEF Key
  <2>2. Key(m) \notin RepliedKeys
    BY <2>1 DEF DataInv, Places, OnePlace, RepliedKeys
  <2> QED
    BY <1>3, <2>1, <2>2 DEF DataInv, Idle, Fields
<1>6. /\ ToRead(m) \in Nat /\ ToRead(m) <= PerRead /\ PerRead \in Nat
      /\ \A n \in 1 .. ToRead(m) : n * Chunk \in Nat /\ taken[m.sk] + n * Chunk <= arrived[m.sk]
  BY <1>2, ToReadIs DEF DataInv
<1> HIDE DEF m
<1>7. ASSUME NEW d \in 0 .. PerRead, mbuffs' = mbuffs + d, Requeue(m), UNCHANGED programVars,
             failures' \in 0 .. MaxFailures, failures' = failures + 1 \/ (failures' = failures /\ d = 0)
      PROVE  \E x \in Message :
               /\ Done(x) /\ mbuffs' - Len(x.mbq) = mbuffs - Len(m.mbq) + d
               /\ failures' = failures + 1 \/ (failures' = failures /\ d = 0)
  <2>1. UNCHANGED <<sent, unread, arrived, taken, closed>>
    BY <1>7 DEF programVars
  <2>2. PICK x \in Message : x = m
    BY <1>2
  <2>3. Good(x)
    BY <1>2, <2>2
  <2>4. Good(x)'
    BY <1>4, <2>1, <2>3, StillGood
  <2>5. again' = Append(again, x) /\ toKrn' = toKrn /\ x.ret = "none"
    BY <1>2, <1>7, <2>2 DEF Requeue
  <2>6. Fields'
    BY <1>1, <1>4, <1>6, <1>7, <2>1 DEF DataInv, Fields
  <2>7. Key(x) = Key(m) /\ x.mbq = m.mbq
    BY <2>2
  <2>8. Done(x)
    BY <1>1, <2>1, <2>4, <2>5, <2>6, <2>7, ReadDone DEF m
  <2>9. mbuffs' - Len(x.mbq) = mbuffs - Len(m.mbq) + d
    BY <1>3, <1>7, <2>7 DEF DataInv, Fields
  <2> HIDE DEF Done
  <2> QED
    BY <1>7, <2>8, <2>9
<1>8. ASSUME NEW d \in 0 .. PerRead, mbuffs' = mbuffs + d, Answer(m, "failure"), UNCHANGED programVars,
             failures' \in 0 .. MaxFailures, failures' = failures + 1
      PROVE  \E x \in Message :
               /\ Done(x) /\ mbuffs' - Len(x.mbq) = mbuffs - Len(m.mbq) + d
               /\ failures' = failures + 1 \/ (failures' = failures /\ d = 0)
  <2>1. UNCHANGED <<sent, unread, arrived, taken, closed>>
    BY <1>8 DEF programVars
  <2>2. PICK x : x = [m EXCEPT !.ret = "failure"]
    OBVIOUS
  <2>3. x \in Message /\ x.ret = "failure" /\ x.opt = "read" /\ x.sk = m.sk /\ x.mbq = <<>>
    BY <1>2, <1>3, <2>2 DEF Message
  <2>4. Good(x)'
    <3>1. taken[m.sk] - Len(got[m.sk]) = 0
      BY <1>5
    <3>2. FlattenSeq(x.mbq) = Part(Len(got[m.sk]) + 1, taken[m.sk] - Len(got[m.sk]))
      BY <2>3, <3>1, Nothing, NoPart
    <3> QED
      BY <1>4, <2>1, <2>3, <3>2 DEF Good, ReadIs
  <2>5. toKrn' = Append(toKrn, x) /\ again' = again /\ x.ret # "none"
    BY <1>8, <2>2, <2>3 DEF Answer
  <2>6. Fields'
    BY <1>1, <1>4, <1>6, <1>8, <2>1 DEF DataInv, Fields
  <2>7. Key(x) = Key(m)
    BY <1>2, <2>3 DEF Key
  <2>8. Done(x)
    BY <1>1, <2>1, <2>3, <2>4, <2>5, <2>6, <2>7, ReadDone DEF m
  <2>9. mbuffs' - Len(x.mbq) = mbuffs - Len(m.mbq) + d
    BY <1>3, <1>8, <2>3 DEF DataInv, Fields
  <2> HIDE DEF Done
  <2> QED
    BY <1>8, <2>3, <2>8, <2>9
<1>9. CASE ReadSome(m)
  <2>1. PICK n \in 1 .. ToRead(m) :
          /\ IF n < ToRead(m) THEN Fail ELSE UNCHANGED failures
          /\ mbuffs' = mbuffs + n
          /\ taken' = [taken EXCEPT ![m.sk] = @ + n * Chunk]
          /\ Answer([m EXCEPT !.mbq = InMbuffs(taken[m.sk] + 1, n * Chunk), !.rep_len = n * Chunk], "success")
          /\ UNCHANGED <<sent, unread, arrived, closed>>
    BY <1>9 DEF ReadSome
  <2>2. PICK c \in Nat : c = n * Chunk /\ taken[m.sk] + c <= arrived[m.sk]
    BY <1>6
  <2>20. PICK q : q = InMbuffs(taken[m.sk] + 1, c)
    OBVIOUS
  <2>3. q \in Mbuffs /\ Len(q) = n /\ FlattenSeq(q) = Part(taken[m.sk] + 1, c)
    <3>1. PICK a \in Nat \ {0} : a = taken[m.sk] + 1
      BY <1>5
    <3>2. n \in Nat
      BY <1>6
    <3> QED
      BY <2>2, <2>20, <3>1, <3>2, InMbuffsAre, WholeMbuffs
  <2>4. PICK x : x = [m EXCEPT !.mbq = q, !.rep_len = c, !.ret = "success"]
    OBVIOUS
  <2>5. x \in Message /\ x.ret = "success" /\ x.opt = "read" /\ x.sk = m.sk /\ x.mbq = q
    BY <1>2, <2>3, <2>4 DEF Message, Mbuffs
  <2>6. toKrn' = Append(toKrn, x) /\ again' = again /\ x.ret # "none"
    <3>1. x = [[m EXCEPT !.mbq = q, !.rep_len = c] EXCEPT !.ret = "success"]
      BY <1>2, <2>4 DEF Message
    <3> QED
      BY <2>1, <2>2, <2>20, <2>5, <3>1 DEF Answer
  <2>7. taken'[m.sk] = taken[m.sk] + c /\ \A s \in Socks : s = x.sk \/ taken'[s] = taken[s]
    BY <1>3, <2>1, <2>2, <2>5 DEF DataInv, Fields
  <2>8. Good(x)'
    <3>1. taken[m.sk] + c - Len(got[m.sk]) = c
      BY <1>5
    <3>2. FlattenSeq(x.mbq) = Part(Len(got'[x.sk]) + 1, taken'[x.sk] - Len(got'[x.sk]))
      BY <1>4, <1>5, <2>3, <2>5, <2>7, <3>1
    <3> QED
      BY <2>5, <3>2 DEF Good, ReadIs
  <2>9. failures' \in 0 .. MaxFailures /\ (failures' = failures + 1 \/ failures' = failures)
    BY <2>1, Sizes DEF Fail, DataInv, Fields
  <2>10. Fields'
    <3>1. taken' \in [Socks -> Nat]
      BY <1>3, <2>1, <2>2 DEF DataInv, Fields
    <3>2. \A s \in Socks : taken'[s] <= arrived'[s] /\ Len(got'[s]) <= taken'[s]
      <4> SUFFICES ASSUME NEW s \in Socks PROVE taken'[s] <= arrived'[s] /\ Len(got'[s]) <= taken'[s]
        OBVIOUS
      <4>1. CASE s = m.sk
        BY <1>4, <1>5, <2>1, <2>2, <2>7, <4>1
      <4>2. CASE s # m.sk
        BY <1>4, <2>1, <2>5, <2>7, <4>2 DEF DataInv, Fields
      <4> QED
        BY <4>1, <4>2
    <3>3. mbuffs' \in Int
      BY <2>1 DEF DataInv, Fields
    <3> QED
      BY <1>1, <1>4, <2>1, <2>9, <3>1, <3>2, <3>3 DEF DataInv, Fields
  <2>11. Key(x) = Key(m)
    BY <1>2, <2>5 DEF Key
  <2>12. Done(x)
    BY <1>1, <2>1, <2>5, <2>6, <2>7, <2>8, <2>10, <2>11, ReadDone DEF m
  <2>13. mbuffs' - Len(x.mbq) = mbuffs - Len(m.mbq) + 0 /\ 0 \in 0 .. PerRead
    BY <1>3, <1>6, <2>1, <2>3, <2>5 DEF DataInv, Fields
  <2> HIDE DEF Done
  <2>14. \E e \in Message, d \in 0 .. PerRead :
           /\ Done(e) /\ mbuffs' - Len(e.mbq) = mbuffs - Len(m.mbq) + d
           /\ failures' = failures + 1 \/ (failures' = failures /\ d = 0)
    BY <2>5, <2>9, <2>12, <2>13
  <2> QED
    BY <2>14 DEF Done, m
<1>10. CASE ReadNothing(m) \/ (m.sk \notin rset /\ Requeue(m) /\ UNCHANGED <<programVars, memoryVars>>)
  <2>1. /\ Requeue(m) /\ UNCHANGED programVars /\ mbuffs' = mbuffs + 0 /\ 0 \in 0 .. PerRead
        /\ failures' \in 0 .. MaxFailures /\ (failures' = failures + 1 \/ failures' = failures)
    BY <1>6, <1>10, Sizes DEF ReadNothing, Fail, memoryVars, DataInv, Fields
  <2>2. \E x \in Message :
          /\ Done(x) /\ mbuffs' - Len(x.mbq) = mbuffs - Len(m.mbq) + 0
          /\ failures' = failures + 1 \/ (failures' = failures /\ 0 = 0)
    <3> HIDE DEF Done
    <3> QED
      BY <1>7, <2>1
  <2> QED
    BY <2>1, <2>2 DEF m
<1>11. CASE ReadLeaks(m)
  <2>1. PICK d \in 0 .. PerRead : d = ToRead(m)
    BY <1>6
  <2>2. /\ mbuffs' = mbuffs + d /\ UNCHANGED programVars
        /\ failures' \in 0 .. MaxFailures /\ failures' = failures + 1
        /\ Requeue(m) \/ Answer(m, "failure")
    BY <1>11, <2>1, Sizes DEF ReadLeaks, Fail, DataInv, Fields
  <2>3. \E x \in Message :
          /\ Done(x) /\ mbuffs' - Len(x.mbq) = mbuffs - Len(m.mbq) + d
          /\ failures' = failures + 1 \/ (failures' = failures /\ d = 0)
    <3> HIDE DEF Done
    <3> QED
      BY <1>7, <1>8, <2>2
  <2> QED
    BY <2>3 DEF m
<1>12. CASE ReadFailed(m)
  <2>1. PICK d \in 0 .. PerRead : d = 0
    BY <1>6
  <2>2. mbuffs' = mbuffs /\ UNCHANGED programVars /\ Answer(m, "failure")
    BY <1>12 DEF ReadFailed
  <2>3. failures' \in 0 .. MaxFailures /\ failures' = failures + 1
    BY <1>12, Sizes DEF ReadFailed, Fail, DataInv, Fields
  <2>4. mbuffs' = mbuffs + d
    BY <2>1, <2>2 DEF DataInv, Fields
  <2>5. \E x \in Message :
          /\ Done(x) /\ mbuffs' - Len(x.mbq) = mbuffs - Len(m.mbq) + d
          /\ failures' = failures + 1 \/ (failures' = failures /\ d = 0)
    <3> HIDE DEF Done
    <3> QED
      BY <1>8, <2>2, <2>3, <2>4
  <2> QED
    BY <2>5 DEF m
<1> QED
  BY <1>1, <1>9, <1>10, <1>11, <1>12

\* What the kernel asks for, of a write and of a read.
IsWriteOf(x, s, a, n) ==
  /\ x \in Message /\ x.sk = s /\ x.ret = "none" /\ x.first = a /\ x.len = n /\ x.rep_len = 0
  /\ x.opt = "write" /\ x.mbq = InMbuffs(a, n)

LEMMA WriteAsked ==
  ASSUME NEW s \in Socks, NEW a \in Nat \ {0}, NEW n \in Nat
  PROVE  IsWriteOf(Request("write", s, a, n), s, a, n)
<1>0. PICK x : x = Request("write", s, a, n)
  OBVIOUS
<1>1. PICK q \in Seq(Seq(Nat)) : q = InMbuffs(a, n)
  BY InMbuffsAre DEF Mbuffs
<1>2. x = [opt |-> "write", sk |-> s, first |-> a, len |-> n, ret |-> "none", rep_len |-> 0, mbq |-> q]
  BY <1>0, <1>1 DEF Request
<1>3. x \in Message
  BY <1>2 DEF Message
<1>4. IsWriteOf(x, s, a, n)
  BY <1>1, <1>2, <1>3 DEF IsWriteOf
<1> QED
  BY <1>0, <1>4, Zenon

LEMMA ReadAsked ==
  ASSUME NEW s \in Socks, NEW n \in Nat, NEW x, x = Request("read", s, 0, n)
  PROVE  x \in Message /\ x.sk = s /\ x.ret = "none" /\ x.opt = "read" /\ x.mbq = <<>>
<1>1. PICK q \in Mbuffs : q = <<>>
  <2>1. <<>> \in Mbuffs
    BY DEF Mbuffs
  <2> QED
    BY <2>1
<1>2. x = [opt |-> "read", sk |-> s, first |-> 0, len |-> n, ret |-> "none", rep_len |-> 0, mbq |-> q]
  BY <1>1 DEF Request
<1>3. x \in Message
  BY <1>2 DEF Message, Mbuffs
<1> QED
  BY <1>1, <1>2, <1>3

\* A write begins where the last one ended.
LEMMA AskWriteKept ==
  ASSUME DataInv, NEW s \in Socks, AskWrite(s)
  PROVE  /\ DataInv' /\ failures' = failures
         /\ \E x \in Message :
              /\ Underway' = Underway \cup {x} /\ \A o \in Underway : Key(o) # Key(x)
              /\ mbuffs' = mbuffs + Len(x.mbq)
<1>1. PICK n \in WriteLens :
        /\ written[s] + n <= MaxBytes
        /\ written' = [written EXCEPT ![s] = @ + n]
        /\ Ask(s, Request("write", s, written[s] + 1, n))
  BY DEF AskWrite
<1>2. n \in Nat /\ written[s] \in Nat
  BY Sizes DEF DataInv, Fields
<1>3. PICK a \in Nat \ {0} : a = written[s] + 1
  BY <1>2
<1>4. PICK x : x = Request("write", s, a, n)
  OBVIOUS
<1>5. /\ x \in Message /\ x.sk = s /\ x.ret = "none" /\ x.first = a /\ x.len = n /\ x.rep_len = 0
      /\ x.opt = "write" /\ x.mbq = InMbuffs(a, n)
  <2>1. IsWriteOf(x, s, a, n)
    BY <1>2, <1>4, WriteAsked, Zenon
  <2> QED
    BY <2>1 DEF IsWriteOf
<1>6. Ask(s, x)
  BY <1>1, <1>3, <1>4
<1>7. /\ "write" \notin asked[s] /\ asked' = [asked EXCEPT ![s] = @ \cup {"write"}]
      /\ mbuffs' = mbuffs + Len(x.mbq)
      /\ UNCHANGED <<pc, rset, wset, noticed, sent, unread, arrived, taken, closed, got, failures>>
  <2>1. /\ x.opt \notin asked[s] /\ asked' = [asked EXCEPT ![s] = @ \cup {x.opt}]
        /\ mbuffs' = mbuffs + Len(x.mbq)
        /\ UNCHANGED <<threadVars, programVars, got, failures>>
    BY <1>6 DEF Ask
  <2>2. x.opt = "write"
    BY <1>5
  <2>3. UNCHANGED <<pc, rset, wset, noticed, sent, unread, arrived, taken, closed, got, failures>>
    BY <2>1 DEF threadVars, programVars
  <2> QED
    BY <2>1, <2>2, <2>3
<1>8. /\ Places' /\ Underway' = Underway \cup {x} /\ RepliedKeys' = RepliedKeys
      /\ \A o \in Underway : Key(o) # Key(x)
  BY <1>5, <1>6, RequestMade DEF DataInv, Fields
<1>9. InMbuffs(a, n) \in Mbuffs /\ FlattenSeq(InMbuffs(a, n)) = Part(a, n) /\ Len(x.mbq) \in Nat
  BY <1>2, <1>5, InMbuffsAre DEF Mbuffs
<1>10. written'[s] = a + n - 1 /\ written[s] = a - 1 /\ a + n - 1 \in 0 .. MaxBytes
       /\ \A t \in Socks \ {s} : written'[t] = written[t]
  <2>1. \A t \in Socks : written'[t] = IF t = s THEN written[s] + n ELSE written[t]
    BY <1>1 DEF DataInv, Fields
  <2>2. written[s] + n = a + n - 1 /\ written[s] = a - 1 /\ a + n - 1 \in Nat
    BY <1>2, <1>3
  <2>3. a + n - 1 <= MaxBytes /\ MaxBytes \in Nat
    BY <1>1, <2>2, Sizes
  <2> QED
    BY <2>1, <2>2, <2>3
<1>11. Good(x)'
  <2>1. a + 0 = a /\ n - 0 = n /\ a >= 1 /\ 0 <= n
    BY <1>2
  <2>2. FlattenSeq(x.mbq) = Part(x.first + x.rep_len, x.len - x.rep_len)
    BY <1>5, <1>9, <2>1
  <2>3. Len(sent[s]) = a - 1
    BY <1>7, <1>10 DEF DataInv, Idle
  <2>4. Len(sent'[s]) = a + 0 - 1
    BY <1>7, <2>1, <2>3
  <2> QED
    BY <1>5, <1>10, <2>1, <2>2, <2>4 DEF Good, WriteIs
<1>12. ASSUME NEW o \in Underway PROVE Good(o)'
  <2>1. o \in Message /\ Good(o) /\ o.opt \in asked[o.sk]
    BY UnderwayTypes, UnderwayAsked DEF DataInv, Places
  <2>2. o.opt = "write" => o.sk \in Socks \ {s}
    BY <1>7, <2>1, MessageFields
  <2>3. o.opt = "write" => written'[o.sk] = written[o.sk]
    BY <1>10, <2>2
  <2> QED
    BY <1>7, <2>1, <2>3, StillGood
<1>13. ASSUME NEW t \in Socks PROVE Idle(t)'
  <2>1. CASE t = s
    BY <1>7, <1>8, <2>1 DEF DataInv, Idle, Fields
  <2>2. CASE t # s
    BY <1>7, <1>8, <1>10, <2>2 DEF DataInv, Idle, Fields
  <2> QED
    BY <2>1, <2>2
<1>14. Fields'
  <2>1. written' \in [Socks -> 0 .. MaxBytes]
    BY <1>1, <1>10 DEF DataInv, Fields
  <2>2. asked' \in [Socks -> SUBSET {"read", "write"}]
    BY <1>7 DEF DataInv, Fields
  <2>3. mbuffs' \in Int
    BY <1>7, <1>9 DEF DataInv, Fields
  <2> QED
    BY <1>7, <2>1, <2>2, <2>3 DEF DataInv, Fields
<1>15. DataInv'
  BY <1>8, <1>11, <1>12, <1>13, <1>14 DEF DataInv
<1> QED
  BY <1>5, <1>7, <1>8, <1>15

LEMMA AskReadKept ==
  ASSUME DataInv, NEW s \in Socks, AskRead(s)
  PROVE  /\ DataInv' /\ failures' = failures
         /\ \E x \in Message :
              /\ Underway' = Underway \cup {x} /\ \A o \in Underway : Key(o) # Key(x)
              /\ mbuffs' = mbuffs + Len(x.mbq)
<1>1. PICK x : x = Request("read", s, 0, ReadLen)
  OBVIOUS
<1>2. Ask(s, x) /\ UNCHANGED written
  BY <1>1 DEF AskRead
<1>3. x \in Message /\ x.sk = s /\ x.ret = "none" /\ x.opt = "read" /\ x.mbq = <<>>
  BY <1>1, Sizes, ReadAsked
<1>4. /\ "read" \notin asked[s] /\ asked' = [asked EXCEPT ![s] = @ \cup {"read"}]
      /\ mbuffs' = mbuffs + Len(x.mbq)
      /\ UNCHANGED <<pc, rset, wset, noticed, written, sent, unread, arrived, taken, closed, got, failures>>
  BY <1>2, <1>3 DEF Ask, threadVars, programVars
<1>5. /\ Places' /\ Underway' = Underway \cup {x} /\ RepliedKeys' = RepliedKeys
      /\ \A o \in Underway : Key(o) # Key(x)
  BY <1>2, <1>3, RequestMade DEF DataInv, Fields
<1>6. Good(x)'
  BY <1>3 DEF Good, ReadIs
<1>7. \A o \in Underway : Good(o)'
  BY <1>4, StillGood DEF DataInv
<1>8. \A t \in Socks : Idle(t)'
  BY <1>4, <1>5 DEF DataInv, Idle, Fields
<1>9. Fields'
  <2>1. asked' \in [Socks -> SUBSET {"read", "write"}]
    BY <1>4 DEF DataInv, Fields
  <2>2. mbuffs' \in Int
    BY <1>3, <1>4 DEF DataInv, Fields
  <2> QED
    BY <1>4, <2>1, <2>2 DEF DataInv, Fields
<1>10. DataInv'
  BY <1>5, <1>6, <1>7, <1>8, <1>9 DEF DataInv
<1> QED
  BY <1>3, <1>4, <1>5, <1>10

\* The kernel takes a reply: a read goes on where the last one ended.
LEMMA ReplyKept ==
  ASSUME DataInv, TakeReply
  PROVE  /\ DataInv' /\ failures' = failures
         /\ \E m \in Underway :
              /\ Underway' = Underway \ {m} /\ \A o \in Underway \ {m} : Key(o) # Key(m)
              /\ mbuffs' = mbuffs - Len(m.mbq)
<1>0. PICK m : m = Head(replies)
  OBVIOUS
<1>1. /\ UNCHANGED <<pc, rset, wset, noticed, sent, unread, arrived, taken, closed, failures>>
      /\ replies # <<>>
      /\ asked' = [asked EXCEPT ![m.sk] = @ \ {m.opt}]
      /\ got' = IF m.opt = "read" THEN [got EXCEPT ![m.sk] = @ \o FlattenSeq(m.mbq)] ELSE got
      /\ written' = IF m.opt = "write" THEN [written EXCEPT ![m.sk] = m.first + m.rep_len - 1] ELSE written
      /\ mbuffs' = mbuffs - Len(m.mbq)
  BY <1>0 DEF TakeReply, threadVars, programVars
<1>2. /\ m \in Range(replies) /\ m \in Underway /\ m \in Message /\ m.ret # "none"
      /\ \A o \in Underway \ {m} : Key(o) # Key(m)
  <2>1. m \in Range(replies) /\ m \in Message /\ \A o \in Underway \ {m} : Key(o) # Key(m)
    BY <1>0, <1>1, HeadAlone DEF DataInv, Places
  <2> QED
    BY <2>1 DEF DataInv, Places, Kinds, Underway, Replied
<1>3. /\ Places' /\ Underway' = Underway \ {m} /\ RepliedKeys' = RepliedKeys \ {Key(m)}
  BY <1>0, ReplyMoved DEF DataInv, Fields
<1>4. m.sk \in Socks /\ m.opt \in {"read", "write"} /\ Len(m.mbq) \in Nat /\ Good(m)
  BY <1>2, MessageFields DEF DataInv
<1>5. \A t \in Socks \ {m.sk} : asked'[t] = asked[t] /\ got'[t] = got[t]
  BY <1>1, <1>4 DEF DataInv, Fields
<1>6. Key(m) = <<m.sk, m.opt>>
  BY DEF Key
<1>7. asked'[m.sk] = asked[m.sk] \ {m.opt}
  BY <1>1, <1>4 DEF DataInv, Fields
<1>8. CASE m.opt = "read"
  <2>0. UNCHANGED written
    BY <1>1, <1>8
  <2>1. PICK p \in Nat, n \in Nat : p = Len(got[m.sk]) /\ n = taken[m.sk] - p /\ p + n = taken[m.sk]
    <3>1. /\ got[m.sk] \in Seq(Nat) /\ taken[m.sk] \in Nat /\ Len(got[m.sk]) <= taken[m.sk]
      BY <1>4 DEF DataInv, Fields
    <3>2. Len(got[m.sk]) \in Nat
      BY <3>1
    <3>3. PICK p \in Nat : p = Len(got[m.sk])
      BY <3>2
    <3>4. taken[m.sk] - p \in Nat /\ p + (taken[m.sk] - p) = taken[m.sk]
      BY <3>1, <3>3
    <3> QED
      BY <3>3, <3>4
  <2>2. got[m.sk] = Part(1, p) /\ FlattenSeq(m.mbq) = Part(1 + p, n)
    <3>1. FlattenSeq(m.mbq) = Part(p + 1, n)
      BY <1>2, <1>4, <1>8, <2>1 DEF Good, ReadIs
    <3>2. p + 1 = 1 + p
      OBVIOUS
    <3>3. got[m.sk] = Part(1, p)
      BY <1>4, <2>1 DEF DataInv, Idle
    <3> QED
      BY <3>1, <3>2, <3>3
  <2>3. got'[m.sk] = Part(1, taken[m.sk])
    <3>1. got'[m.sk] = got[m.sk] \o FlattenSeq(m.mbq)
      BY <1>1, <1>4, <1>8 DEF DataInv, Fields
    <3>2. 1 \in Nat \ {0}
      OBVIOUS
    <3>3. Part(1, p) \o Part(1 + p, n) = Part(1, p + n)
      BY <3>2, PartsJoin
    <3> QED
      BY <2>1, <2>2, <3>1, <3>3
  <2>4. taken[m.sk] \in Nat /\ taken[m.sk] <= arrived[m.sk] /\ 1 \in Nat \ {0}
    BY <1>4 DEF DataInv, Fields
  <2>5. got'[m.sk] \in Seq(Nat) /\ Len(got'[m.sk]) = taken[m.sk]
    BY <2>3, <2>4, PartIs
  <2>6. Idle(m.sk)'
    <3>1. "write" \in asked'[m.sk] <=> "write" \in asked[m.sk]
      BY <1>7, <1>8
    <3>2. Len(got'[m.sk]) = taken'[m.sk] /\ got'[m.sk] = Part(1, Len(got'[m.sk]))
      BY <1>1, <2>3, <2>5
    <3>3. /\ "write" \notin asked'[m.sk] => Len(sent'[m.sk]) = written'[m.sk]
          /\ sent'[m.sk] = Part(1, Len(sent'[m.sk]))
      BY <1>1, <1>4, <2>0, <3>1 DEF DataInv, Idle
    <3> QED
      BY <3>2, <3>3 DEF Idle
  <2>7. ASSUME NEW t \in Socks \ {m.sk} PROVE Idle(t)'
    <3>1. <<t, "read">> \in RepliedKeys' <=> <<t, "read">> \in RepliedKeys
      BY <1>3, <1>6
    <3> QED
      BY <1>1, <1>5, <2>0, <3>1 DEF DataInv, Idle
  <2>8. got' \in [Socks -> Seq(Nat)]
    <3>1. DOMAIN got' = Socks /\ got' = [t \in Socks |-> got'[t]]
      BY <1>1, <1>8 DEF DataInv, Fields
    <3>2. \A t \in Socks : got'[t] \in Seq(Nat)
      BY <1>5, <2>5 DEF DataInv, Fields
    <3> QED
      BY <3>1, <3>2
  <2>9. \A t \in Socks : taken'[t] <= arrived'[t] /\ Len(got'[t]) <= taken'[t]
    <3> SUFFICES ASSUME NEW t \in Socks PROVE taken'[t] <= arrived'[t] /\ Len(got'[t]) <= taken'[t]
      OBVIOUS
    <3>1. CASE t = m.sk
      <4>1. UNCHANGED <<taken, arrived>>
        BY <1>1
      <4>2. PICK l : l = Len(got'[m.sk])
        OBVIOUS
      <4>3. l <= taken[m.sk]
        BY <2>4, <2>5, <4>2
      <4> QED
        BY <2>4, <3>1, <4>1, <4>2, <4>3
    <3>2. CASE t # m.sk
      BY <1>1, <1>5, <3>2 DEF DataInv, Fields
    <3> QED
      BY <3>1, <3>2
  <2>10. asked' \in [Socks -> SUBSET {"read", "write"}] /\ mbuffs' \in Int
    BY <1>1, <1>4 DEF DataInv, Fields
  <2>11. Fields'
    BY <1>1, <2>0, <2>8, <2>9, <2>10 DEF DataInv, Fields
  <2>12. ASSUME NEW o \in Underway \ {m} PROVE Good(o)'
    <3>1. o \in Message /\ Good(o)
      BY UnderwayTypes DEF DataInv, Places
    <3>2. o.opt = "read" => o.sk \in Socks \ {m.sk}
      BY <1>2, <1>8, <3>1, MessageFields DEF Key
    <3>3. o.opt = "read" => got'[o.sk] = got[o.sk]
      BY <1>5, <3>2
    <3> QED
      BY <1>1, <2>0, <3>1, <3>3, StillGood
  <2>13. \A t \in Socks : Idle(t)'
    BY <2>6, <2>7
  <2>14. \A o \in Underway' : Good(o)'
    BY <1>3, <2>12
  <2>15. DataInv'
    BY <1>3, <2>11, <2>13, <2>14 DEF DataInv
  <2> QED
    BY <1>1, <1>2, <1>3, <2>15
<1>9. CASE m.opt = "write"
  <2>1. UNCHANGED got
    BY <1>1, <1>9
  <2>2. PICK w \in 0 .. MaxBytes :
          /\ w = m.first + m.rep_len - 1 /\ Len(sent[m.sk]) = w
          /\ written' = [written EXCEPT ![m.sk] = w]
    <3>1. /\ WriteIs(m) /\ m.first \in Nat /\ m.len \in Nat /\ m.rep_len \in Nat
      BY <1>2, <1>4, <1>9, MessageFields DEF Good
    <3>2. /\ m.first >= 1 /\ m.rep_len <= m.len /\ m.first + m.len - 1 = written[m.sk]
          /\ Len(sent[m.sk]) = m.first + m.rep_len - 1
      BY <3>1 DEF WriteIs
    <3>3. written[m.sk] \in 0 .. MaxBytes /\ MaxBytes \in Nat
      BY <1>4, Sizes DEF DataInv, Fields
    <3>4. PICK f \in Nat, l \in Nat, r \in Nat : f = m.first /\ l = m.len /\ r = m.rep_len
      BY <3>1
    <3>5. f >= 1 /\ r <= l /\ f + l - 1 <= MaxBytes
      BY <3>2, <3>3, <3>4
    <3>6. f + r - 1 \in 0 .. MaxBytes
      BY <3>3, <3>5
    <3> QED
      BY <1>1, <1>9, <3>2, <3>4, <3>6
  <2>20. written'[m.sk] = w /\ \A t \in Socks \ {m.sk} : written'[t] = written[t]
    BY <1>4, <2>2 DEF DataInv, Fields
  <2>3. ASSUME NEW t \in Socks PROVE Idle(t)'
    <3>1. <<t, "read">> \in RepliedKeys <=> <<t, "read">> \in RepliedKeys'
      BY <1>3, <1>6, <1>9
    <3>2. CASE t = m.sk
      BY <1>1, <2>1, <2>2, <2>20, <3>1, <3>2 DEF DataInv, Idle
    <3>3. CASE t # m.sk
      BY <1>1, <1>5, <2>1, <2>20, <3>1, <3>3 DEF DataInv, Idle
    <3> QED
      BY <3>2, <3>3
  <2>4. asked' \in [Socks -> SUBSET {"read", "write"}] /\ mbuffs' \in Int
    BY <1>1, <1>4 DEF DataInv, Fields
  <2>5. Fields'
    <3>1. written' \in [Socks -> 0 .. MaxBytes]
      BY <2>2 DEF DataInv, Fields
    <3> QED
      BY <1>1, <2>1, <2>4, <3>1 DEF DataInv, Fields
  <2>6. ASSUME NEW o \in Underway \ {m} PROVE Good(o)'
    <3>1. o \in Message /\ Good(o)
      BY UnderwayTypes DEF DataInv, Places
    <3>2. o.opt = "write" => o.sk \in Socks \ {m.sk}
      BY <1>2, <1>9, <3>1, MessageFields DEF Key
    <3>3. o.opt = "write" => written'[o.sk] = written[o.sk]
      BY <2>20, <3>2
    <3> QED
      BY <1>1, <2>1, <3>1, <3>3, StillGood
  <2>7. DataInv'
    BY <1>3, <2>3, <2>5, <2>6 DEF DataInv
  <2> QED
    BY <1>1, <1>2, <1>3, <2>7
<1> QED
  BY <1>4, <1>8, <1>9

\* What a program does, it does to its sockets.
LEMMA ProgramKept ==
  ASSUME DataInv, NEW s \in Socks, ProgramReads(s) \/ ProgramWrites(s) \/ ProgramCloses(s)
  PROVE  DataInv' /\ Underway' = Underway /\ UNCHANGED memoryVars
<1>1. /\ UNCHANGED <<threadVars, kernelVars, sent, taken, memoryVars>>
      /\ closed' \subseteq Socks
  BY DEF ProgramReads, ProgramWrites, ProgramCloses, DataInv, Fields
<1>2. unread' \in [Socks -> 0 .. Space] /\ arrived' \in [Socks -> 0 .. MaxBytes]
      /\ \A t \in Socks : arrived[t] <= arrived'[t]
  <2>1. /\ unread \in [Socks -> 0 .. Space] /\ arrived \in [Socks -> 0 .. MaxBytes]
        /\ Space \in Nat /\ MaxBytes \in Nat
    BY Sizes DEF DataInv, Fields
  <2>2. CASE ProgramReads(s)
    BY <2>1, <2>2 DEF ProgramReads
  <2>3. CASE ProgramWrites(s)
    BY <2>1, <2>3 DEF ProgramWrites
  <2>4. CASE ProgramCloses(s)
    BY <2>1, <2>4 DEF ProgramCloses
  <2> QED
    BY <2>2, <2>3, <2>4
<1>3. /\ UNCHANGED <<pc, rset, wset, noticed, wpenq, rpenq, again, toKrn>>
      /\ UNCHANGED <<requests, replies, asked, written, got, mbuffs, failures>>
  BY <1>1 DEF threadVars, kernelVars, memoryVars
<1>4. Places' /\ Underway' = Underway /\ RepliedKeys' = RepliedKeys
  BY <1>3 DEF DataInv, Places, Queues, OnePlace, Asked, AllKeys, Kinds, Underway, Pending, Replied, RepliedKeys
<1>5. Fields'
  <2>1. \A t \in Socks : taken'[t] <= arrived'[t]
    BY <1>1, <1>2 DEF DataInv, Fields
  <2> QED
    BY <1>1, <1>2, <1>3, <2>1 DEF DataInv, Fields
<1>6. \A t \in Socks : Idle(t)'
  BY <1>1, <1>3, <1>4 DEF DataInv, Idle
<1>7. \A o \in Underway : Good(o)'
  BY <1>1, <1>3, StillGood DEF DataInv
<1> QED
  BY <1>1, <1>4, <1>5, <1>6, <1>7 DEF DataInv

-----------------------------------------------------------------------------
(* The invariant holds *)

\* Nothing is under way, and no stream has begun.
LEMMA InitData == Init => DataInv
<1> SUFFICES ASSUME Init PROVE DataInv
  OBVIOUS
<1>1. /\ pc = "select" /\ requests = <<>> /\ wpenq = <<>> /\ rpenq = <<>> /\ again = <<>>
      /\ toKrn = <<>> /\ replies = <<>> /\ asked = [s \in Socks |-> {}]
  BY DEF Init
<1>2. Fields
  <2>1. /\ 0 \in 0 .. MaxBytes /\ 0 \in 0 .. Space /\ 0 \in 0 .. MaxFailures
    BY Sizes
  <2>2. PICK e : e = <<>> /\ e \in Seq(Nat) /\ Len(e) = 0
    <3>1. <<>> \in Seq(Nat) /\ Len(<<>>) = 0
      OBVIOUS
    <3> QED
      BY <3>1
  <2>3. /\ sent = [s \in Socks |-> e] /\ got = [s \in Socks |-> e]
        /\ taken = [s \in Socks |-> 0] /\ arrived = [s \in Socks |-> 0]
        /\ written = [s \in Socks |-> 0] /\ unread = [s \in Socks |-> 0]
        /\ rset = {} /\ wset = {} /\ noticed = FALSE /\ closed = {} /\ mbuffs = 0 /\ failures = 0
    BY <2>2 DEF Init
  <2>4. \A s \in Socks : taken[s] <= arrived[s] /\ Len(got[s]) <= taken[s]
    BY <2>2, <2>3
  <2>5. noticed \in BOOLEAN
    BY <2>3, Zenon
  <2>6. /\ pc \in {"select", "write", "read", "requests"}
        /\ asked \in [Socks -> SUBSET {"read", "write"}]
    BY <1>1
  <2>7. /\ sent \in [Socks -> Seq(Nat)] /\ got \in [Socks -> Seq(Nat)] /\ taken \in [Socks -> Nat]
        /\ written \in [Socks -> 0 .. MaxBytes] /\ arrived \in [Socks -> 0 .. MaxBytes]
        /\ unread \in [Socks -> 0 .. Space]
    BY <2>1, <2>2, <2>3
  <2>8. /\ rset \subseteq Socks /\ wset \subseteq Socks /\ closed \subseteq Socks
        /\ mbuffs \in Int /\ failures \in 0 .. MaxFailures
    BY <2>1, <2>3
  <2> QED
    BY <2>4, <2>5, <2>6, <2>7, <2>8 DEF Fields
<1>3. Places
  <2>1. /\ \A q \in {requests, wpenq, rpenq, again, toKrn, replies} :
             Range(q) = {} /\ Keys(q) = {} /\ Distinct(q)
    BY <1>1, EmptyQueue
  <2>2. Queues
    <3>1. <<>> \in Seq(Message)
      OBVIOUS
    <3> QED
      BY <1>1, <3>1 DEF Queues
  <2>3. OnePlace
    BY <2>1 DEF OnePlace
  <2>4. Asked
    BY <1>1, <2>1 DEF Asked, AllKeys, RepliedKeys
  <2>5. Kinds
    BY <1>1, <2>1 DEF Kinds, Pending, Replied
  <2> QED
    BY <2>2, <2>3, <2>4, <2>5 DEF Places
<1>4. ASSUME NEW s \in Socks PROVE Idle(s)
  <2>1. sent[s] = <<>> /\ got[s] = <<>> /\ written[s] = 0 /\ taken[s] = 0
    BY DEF Init
  <2>2. 0 \in Nat /\ Len(<<>>) = 0
    OBVIOUS
  <2>3. Part(1, 0) = <<>>
    BY <2>2, NoPart
  <2> QED
    BY <2>1, <2>2, <2>3 DEF Idle
<1>5. Underway = {}
  BY <1>1, EmptyQueue DEF Underway, Pending, Replied
<1> QED
  BY <1>2, <1>3, <1>4, <1>5 DEF DataInv

LEMMA StillKept ==
  ASSUME DataInv, UNCHANGED vars
  PROVE  DataInv' /\ Underway' = Underway /\ UNCHANGED memoryVars
<1>1. /\ UNCHANGED <<pc, rset, wset, noticed, wpenq, rpenq, again, toKrn, requests, replies, asked, written, got>>
      /\ UNCHANGED <<sent, unread, arrived, taken, closed, mbuffs, failures>>
  BY DEF vars
<1>2. Places' /\ Underway' = Underway /\ RepliedKeys' = RepliedKeys
  BY <1>1 DEF DataInv, Places, Queues, OnePlace, Asked, AllKeys, Kinds, Underway, Pending, Replied, RepliedKeys
<1>3. Fields'
  BY <1>1 DEF DataInv, Fields
<1>4. \A t \in Socks : Idle(t)'
  BY <1>1, <1>2 DEF DataInv, Idle
<1>5. \A o \in Underway : Good(o)'
  BY <1>1, StillGood DEF DataInv
<1> QED
  BY <1>1, <1>2, <1>3, <1>4, <1>5 DEF DataInv, memoryVars

\* No step of the thread, the kernel or a program disturbs it.
LEMMA NextData == DataInv /\ [Next]_vars => DataInv'
<1> SUFFICES ASSUME DataInv, [Next]_vars PROVE DataInv'
  OBVIOUS
<1>1. CASE Select \/ WriteEnd \/ ReadEnd \/ Exchange
  BY <1>1, PassKept
<1>2. CASE WriteOne
  BY <1>2, WriteKept
<1>3. CASE ReadOne
  BY <1>3, ReadKept
<1>4. CASE TakeReply
  BY <1>4, ReplyKept
<1>5. ASSUME NEW s \in Socks, AskWrite(s) PROVE DataInv'
  BY <1>5, AskWriteKept
<1>6. ASSUME NEW s \in Socks, AskRead(s) PROVE DataInv'
  BY <1>6, AskReadKept
<1>7. ASSUME NEW s \in Socks, ProgramReads(s) \/ ProgramWrites(s) \/ ProgramCloses(s) PROVE DataInv'
  BY <1>7, ProgramKept
<1>8. CASE UNCHANGED vars
  BY <1>8, StillKept
<1> QED
  BY <1>1, <1>2, <1>3, <1>4, <1>5, <1>6, <1>7, <1>8 DEF Next, Thread

\* What the queues and the streams say of each other.
LEMMA DataInvariant == Spec => []DataInv
  BY InitData, NextData, PTL DEF Spec

-----------------------------------------------------------------------------
(* The mbuffs *)

Slots(m) == {<<m.sk, m.opt, i>> : i \in DOMAIN m.mbq}
Held(R) == UNION {Slots(m) : m \in R}

\* The mbuffs of a message.
LEMMA SlotsCount ==
  ASSUME NEW m \in Message
  PROVE  IsFiniteSet(Slots(m)) /\ Cardinality(Slots(m)) = Len(m.mbq)
<1> DEFINE n == Len(m.mbq)
           f == [i \in 1 .. n |-> <<m.sk, m.opt, i>>]
<1>1. n \in Nat /\ DOMAIN m.mbq = 1 .. n
  BY MessageFields DEF Mbuffs
<1> HIDE DEF n
<1>2. Slots(m) = {<<m.sk, m.opt, i>> : i \in 1 .. n}
  BY <1>1 DEF Slots
<1>3. f \in Bijection(1 .. n, Slots(m))
  <2>1. f \in [1 .. n -> Slots(m)]
    BY <1>2
  <2>2. \A i, j \in 1 .. n : f[i] = f[j] => i = j
    OBVIOUS
  <2>3. \A t \in Slots(m) : \E i \in 1 .. n : f[i] = t
    BY <1>2
  <2> QED
    BY <2>1, <2>2, <2>3 DEF Bijection, Injection, Surjection, IsInjective
<1>4. ExistsBijection(1 .. n, Slots(m))
  BY <1>3 DEF ExistsBijection
<1>5. IsFiniteSet(1 .. n) /\ Cardinality(1 .. n) = n
  BY <1>1, FS_Interval
<1> QED
  BY <1>4, <1>5, FS_Bijection DEF n

\* A message more, with a key of its own.
LEMMA HeldMore ==
  ASSUME NEW R, IsFiniteSet(Held(R)), NEW x \in Message, \A o \in R : Key(o) # Key(x)
  PROVE  /\ IsFiniteSet(Held(R \cup {x}))
         /\ Cardinality(Held(R \cup {x})) = Cardinality(Held(R)) + Len(x.mbq)
<1>1. Held(R \cup {x}) = Held(R) \cup Slots(x)
  BY DEF Held
<1>2. Held(R) \cap Slots(x) = {}
  <2>1. \A o \in R : \A t \in Slots(o) : t \notin Slots(x)
    BY DEF Slots, Key
  <2> QED
    BY <2>1 DEF Held
<1>3. /\ IsFiniteSet(Held(R) \cup Slots(x))
      /\ Cardinality(Held(R) \cup Slots(x)) = Cardinality(Held(R)) + Cardinality(Slots(x)) - Cardinality(Held(R) \cap Slots(x))
      /\ Cardinality(Slots(x)) = Len(x.mbq)
  BY SlotsCount, FS_Union
<1>4. Cardinality(Held(R) \cap Slots(x)) = 0
  BY <1>2, FS_EmptySet
<1>5. PICK a \in Nat, b \in Nat : a = Cardinality(Held(R)) /\ b = Len(x.mbq)
  <2>1. Cardinality(Held(R)) \in Nat /\ Len(x.mbq) \in Nat
    BY FS_CardinalityType, MessageFields
  <2> QED
    BY <2>1
<1>6. PICK c : c = Cardinality(Held(R) \cup Slots(x)) /\ c = a + b - 0
  BY <1>3, <1>4, <1>5
<1>7. c = a + b
  BY <1>6
<1> QED
  BY <1>1, <1>3, <1>5, <1>6, <1>7

\* A message less.
LEMMA HeldLess ==
  ASSUME NEW R, IsFiniteSet(Held(R)), NEW m \in R, m \in Message, \A o \in R \ {m} : Key(o) # Key(m)
  PROVE  /\ IsFiniteSet(Held(R \ {m}))
         /\ Cardinality(Held(R \ {m})) = Cardinality(Held(R)) - Len(m.mbq)
         /\ Cardinality(Held(R)) \in Nat /\ Cardinality(Held(R \ {m})) \in Nat
<1>1. PICK Q : Q = R \ {m} /\ Q \cup {m} = R
  OBVIOUS
<1>2. IsFiniteSet(Held(Q))
  <2>1. Held(Q) \in SUBSET Held(R)
    BY <1>1 DEF Held
  <2> QED
    BY <2>1, FS_Subset
<1>3. Cardinality(Held(Q \cup {m})) = Cardinality(Held(Q)) + Len(m.mbq)
  BY <1>1, <1>2, HeldMore
<1>4. Cardinality(Held(Q)) \in Nat /\ Cardinality(Held(R)) \in Nat /\ Len(m.mbq) \in Nat
  BY <1>2, FS_CardinalityType, MessageFields
<1>5. PICK a \in Nat, b \in Nat, c \in Nat :
        a = Cardinality(Held(Q)) /\ b = Len(m.mbq) /\ c = Cardinality(Held(R))
  BY <1>4
<1>6. c = a + b
  BY <1>1, <1>3, <1>5
<1>7. a = c - b
  BY <1>6
<1> QED
  BY <1>1, <1>2, <1>5, <1>7

\* The mbuffs that are in no message any more.
Lost == mbuffs - Cardinality(Held(Underway))

MbuffsInv ==
  /\ IsFiniteSet(Held(Underway))
  /\ Lost >= 0 /\ Lost <= failures * PerRead

LEMMA PerReadIs == PerRead \in Nat
  BY Sizes, Division DEF PerRead

LEMMA BoundGrows ==
  ASSUME NEW n \in Nat
  PROVE  /\ n * PerRead \in Nat /\ (n + 1) * PerRead \in Nat
         /\ (n + 1) * PerRead = n * PerRead + PerRead
<1>1. PICK p \in Nat : p = PerRead
  BY PerReadIs
<1>2. (n + 1) * p \in Nat /\ n * p \in Nat /\ (n + 1) * p = n * p + p
  BY SMTT(30)
<1> QED
  BY <1>1, <1>2

Moved(m, x, d) ==
  /\ mbuffs' - Len(x.mbq) = mbuffs - Len(m.mbq) + d
  /\ failures' = failures + 1 \/ (failures' = failures /\ d = 0)

\* A message became another one, and d mbuffs were lost.
LEMMA MbuffsMoved ==
  ASSUME DataInv, DataInv', MbuffsInv, NEW m \in Underway, NEW x \in Message, NEW d \in 0 .. PerRead,
         Underway' = (Underway \ {m}) \cup {x}, Key(x) = Key(m),
         \A o \in Underway \ {m} : Key(o) # Key(x),
         Moved(m, x, d)
  PROVE  MbuffsInv'
<1>1. /\ mbuffs \in Int /\ failures \in Nat /\ m \in Message
      /\ Len(x.mbq) \in Nat /\ Len(m.mbq) \in Nat /\ d \in Nat /\ d <= PerRead
  BY Sizes, PerReadIs, UnderwayTypes, MessageFields DEF DataInv, Places, Fields
<1>2. PICK Q : Q = Underway \ {m}
  OBVIOUS
<1>3. PICK k \in Nat, l \in Nat : k = Cardinality(Held(Underway)) /\ l = Cardinality(Held(Q)) /\ l = k - Len(m.mbq)
  BY <1>1, <1>2, HeldLess DEF MbuffsInv
<1>4. IsFiniteSet(Held(Q))
  BY <1>1, <1>2, HeldLess DEF MbuffsInv
<1>5. IsFiniteSet(Held(Q \cup {x})) /\ Cardinality(Held(Q \cup {x})) = l + Len(x.mbq)
  BY <1>2, <1>3, <1>4, HeldMore
<1>6. Held(Underway)' = Held(Q \cup {x})
  BY <1>2 DEF Held, Slots
<1>7. Lost = mbuffs - k /\ Lost' = mbuffs' - (l + Len(x.mbq))
  <2>1. Cardinality(Held(Underway))' = l + Len(x.mbq)
    BY <1>5, <1>6
  <2> QED
    BY <1>3, <2>1 DEF Lost
<1>8. Lost' = Lost + d /\ Lost \in Int
  <2>1. PICK u \in Nat, v \in Nat : u = Len(x.mbq) /\ v = Len(m.mbq)
    BY <1>1
  <2>2. PICK a \in Int, b \in Int, e \in Nat : a = mbuffs /\ b = mbuffs' /\ e = d
    <3>1. mbuffs' \in Int
      BY DEF DataInv, Fields
    <3> QED
      BY <1>1, <3>1
  <2>3. l = k - v /\ b - u = a - v + e
    BY <1>1, <1>3, <2>1, <2>2 DEF Moved
  <2>4. b - (l + u) = (a - k) + e /\ a - k \in Int
    BY <2>3
  <2>5. Lost = a - k /\ Lost' = b - (l + u)
    BY <1>7, <2>1, <2>2
  <2>6. Lost' = (a - k) + e
    BY <2>4, <2>5, Zenon
  <2>7. Lost' = Lost + d /\ Lost \in Int
    BY <2>2, <2>4, <2>5, <2>6, Zenon
  <2> QED
    BY <2>7
<1>9. PICK b \in Nat, c \in Nat : b = failures * PerRead /\ c = failures' * PerRead /\ b + d <= c
  <2>0. PICK b \in Nat, e \in Nat :
          /\ b = failures * PerRead /\ e = (failures + 1) * PerRead /\ b + d <= e
    <3>1. /\ failures * PerRead \in Nat /\ (failures + 1) * PerRead \in Nat
          /\ (failures + 1) * PerRead = failures * PerRead + PerRead
      BY <1>1, BoundGrows
    <3>2. PICK b \in Nat, e \in Nat : b = failures * PerRead /\ e = (failures + 1) * PerRead /\ e = b + PerRead
      BY <3>1
    <3>3. b + d <= e
      BY <1>1, <3>2, PerReadIs
    <3> QED
      BY <3>2, <3>3
  <2>1. CASE failures' = failures + 1
    BY <2>0, <2>1
  <2>2. CASE failures' = failures /\ d = 0
    <3>1. b + 0 = b /\ b <= b
      OBVIOUS
    <3> QED
      BY <2>0, <2>2, <3>1
  <2> QED
    BY <2>1, <2>2 DEF Moved
<1>10. Lost' >= 0 /\ Lost' <= c
  BY <1>1, <1>8, <1>9 DEF MbuffsInv
<1> QED
  BY <1>5, <1>6, <1>9, <1>10 DEF MbuffsInv

LEMMA InitMbuffs == Init => MbuffsInv
<1> SUFFICES ASSUME Init PROVE MbuffsInv
  OBVIOUS
<1>1. Underway = {}
  BY EmptyQueue DEF Init, Underway, Pending, Replied
<1>2. Held(Underway) = {}
  BY <1>1 DEF Held
<1>3. IsFiniteSet(Held(Underway)) /\ Cardinality(Held(Underway)) = 0
  BY <1>2, FS_EmptySet
<1>4. mbuffs = 0 /\ failures = 0
  BY DEF Init
<1>5. Lost = 0
  BY <1>3, <1>4 DEF Lost
<1>6. 0 * PerRead \in Nat
  <2>1. 0 \in Nat
    OBVIOUS
  <2> QED
    BY <2>1, BoundGrows
<1> QED
  BY <1>3, <1>4, <1>5, <1>6 DEF MbuffsInv

\* No message moved.
LEMMA MbuffsStay ==
  ASSUME MbuffsInv, Underway' = Underway, UNCHANGED memoryVars
  PROVE  MbuffsInv'
<1>1. Held(Underway)' = Held(Underway) /\ mbuffs' = mbuffs /\ failures' = failures
  BY DEF Held, Slots, memoryVars
<1>2. Cardinality(Held(Underway))' = Cardinality(Held(Underway))
  BY <1>1
<1>3. Lost' = Lost
  BY <1>1, <1>2 DEF Lost
<1> QED
  BY <1>1, <1>3 DEF MbuffsInv

\* A message came, with its mbuffs.
LEMMA MbuffsCame ==
  ASSUME DataInv, MbuffsInv, NEW x \in Message, Underway' = Underway \cup {x},
         \A o \in Underway : Key(o) # Key(x), mbuffs' = mbuffs + Len(x.mbq), failures' = failures
  PROVE  MbuffsInv'
<1>1. /\ IsFiniteSet(Held(Underway \cup {x}))
      /\ Cardinality(Held(Underway \cup {x})) = Cardinality(Held(Underway)) + Len(x.mbq)
  BY HeldMore DEF MbuffsInv
<1>2. Held(Underway)' = Held(Underway \cup {x})
  BY DEF Held, Slots
<1>3. PICK k \in Nat, n \in Nat, a \in Int : k = Cardinality(Held(Underway)) /\ n = Len(x.mbq) /\ a = mbuffs
  <2>1. Cardinality(Held(Underway)) \in Nat /\ Len(x.mbq) \in Nat /\ mbuffs \in Int
    BY FS_CardinalityType, MessageFields DEF MbuffsInv, DataInv, Fields
  <2> QED
    BY <2>1
<1>4. Lost = a - k /\ Lost' = (a + n) - (k + n)
  <2>1. Cardinality(Held(Underway))' = k + n
    BY <1>1, <1>2, <1>3
  <2> QED
    BY <1>3, <2>1 DEF Lost
<1>5. (a + n) - (k + n) = a - k
  BY <1>3
<1>6. Lost' = Lost
  BY <1>4, <1>5, Zenon
<1> QED
  BY <1>1, <1>2, <1>6 DEF MbuffsInv

\* A message went, and its mbuffs were freed.
LEMMA MbuffsWent ==
  ASSUME DataInv, MbuffsInv, NEW m \in Underway, Underway' = Underway \ {m},
         \A o \in Underway \ {m} : Key(o) # Key(m), mbuffs' = mbuffs - Len(m.mbq), failures' = failures
  PROVE  MbuffsInv'
<1>0. m \in Message
  BY UnderwayTypes DEF DataInv, Places
<1>1. /\ IsFiniteSet(Held(Underway \ {m}))
      /\ Cardinality(Held(Underway \ {m})) = Cardinality(Held(Underway)) - Len(m.mbq)
  BY <1>0, HeldLess DEF MbuffsInv
<1>2. Held(Underway)' = Held(Underway \ {m})
  BY DEF Held, Slots
<1>3. PICK k \in Nat, n \in Nat, a \in Int : k = Cardinality(Held(Underway)) /\ n = Len(m.mbq) /\ a = mbuffs
  <2>1. Cardinality(Held(Underway)) \in Nat /\ Len(m.mbq) \in Nat /\ mbuffs \in Int
    BY <1>0, FS_CardinalityType, MessageFields DEF MbuffsInv, DataInv, Fields
  <2> QED
    BY <2>1
<1>4. Lost = a - k /\ Lost' = (a - n) - (k - n)
  <2>1. Cardinality(Held(Underway))' = k - n
    BY <1>1, <1>2, <1>3
  <2> QED
    BY <1>3, <2>1 DEF Lost
<1>5. (a - n) - (k - n) = a - k
  BY <1>3
<1>6. Lost' = Lost
  BY <1>4, <1>5, Zenon
<1> QED
  BY <1>1, <1>2, <1>6 DEF MbuffsInv

\* Whatever moves, the mbuffs that are lost stay within their bound.
LEMMA NextMbuffs == DataInv /\ MbuffsInv /\ [Next]_vars => MbuffsInv'
<1> SUFFICES ASSUME DataInv, MbuffsInv, [Next]_vars PROVE MbuffsInv'
  OBVIOUS
<1>1. CASE Select \/ WriteEnd \/ ReadEnd \/ Exchange
  <2>1. Underway' = Underway
    BY <1>1, QueuesPassed DEF DataInv
  <2>2. UNCHANGED memoryVars
    BY <1>1 DEF Select, WriteEnd, ReadEnd, Exchange
  <2> QED
    BY <2>1, <2>2, MbuffsStay
<1>2. CASE WriteOne
  <2>1. PICK m : m = Head(wpenq)
    OBVIOUS
  <2>2. PICK x \in Message :
          /\ Underway' = (Underway \ {m}) \cup {x} /\ Key(x) = Key(m)
          /\ \A o \in Underway \ {m} : Key(o) # Key(x)
          /\ mbuffs' - Len(x.mbq) = mbuffs - Len(m.mbq)
          /\ failures' = failures \/ failures' = failures + 1
    BY <1>2, <2>1, WriteKept
  <2>3. m \in Underway /\ m \in Message
    <3>1. m \in Range(wpenq) /\ m \in Message
      BY <1>2, <2>1, HeadAlone DEF WriteOne, DataInv, Places
    <3> QED
      BY <3>1 DEF Underway, Pending
  <2>4. PICK d \in 0 .. PerRead : d = 0
    BY PerReadIs
  <2>5. mbuffs - Len(m.mbq) = mbuffs - Len(m.mbq) + d
    <3>1. mbuffs \in Int /\ Len(m.mbq) \in Nat
      BY <2>3, MessageFields DEF DataInv, Fields
    <3>2. PICK a \in Int, b \in Nat : a = mbuffs /\ b = Len(m.mbq)
      BY <3>1
    <3>3. a - b = a - b + d
      BY <2>4
    <3> QED
      BY <3>2, <3>3, Zenon
  <2>6. Moved(m, x, d)
    <3>1. mbuffs' - Len(x.mbq) = mbuffs - Len(m.mbq) + d
      BY <2>2, <2>5, Zenon
    <3>2. failures' = failures + 1 \/ (failures' = failures /\ d = 0)
      BY <2>2, <2>4, Zenon
    <3> QED
      BY <3>1, <3>2 DEF Moved
  <2>7. DataInv'
    BY <1>2, WriteKept
  <2> QED
    BY <2>2, <2>3, <2>6, <2>7, MbuffsMoved
<1>3. CASE ReadOne
  <2>1. PICK m : m = Head(rpenq)
    OBVIOUS
  <2>2. PICK x \in Message, d \in 0 .. PerRead :
          /\ Underway' = (Underway \ {m}) \cup {x} /\ Key(x) = Key(m)
          /\ \A o \in Underway \ {m} : Key(o) # Key(x)
          /\ mbuffs' - Len(x.mbq) = mbuffs - Len(m.mbq) + d
          /\ failures' = failures + 1 \/ (failures' = failures /\ d = 0)
    BY <1>3, <2>1, ReadKept
  <2>3. m \in Underway
    <3>1. m \in Range(rpenq)
      BY <1>3, <2>1, HeadAlone DEF ReadOne, DataInv, Places
    <3> QED
      BY <3>1 DEF Underway, Pending
  <2>4. Moved(m, x, d)
    BY <2>2 DEF Moved
  <2>5. DataInv'
    BY <1>3, ReadKept
  <2> QED
    BY <2>2, <2>3, <2>4, <2>5, MbuffsMoved
<1>4. CASE TakeReply
  BY <1>4, ReplyKept, MbuffsWent
<1>5. ASSUME NEW s \in Socks, AskWrite(s) \/ AskRead(s) PROVE MbuffsInv'
  BY <1>5, AskWriteKept, AskReadKept, MbuffsCame
<1>6. ASSUME NEW s \in Socks, ProgramReads(s) \/ ProgramWrites(s) \/ ProgramCloses(s) PROVE MbuffsInv'
  BY <1>6, ProgramKept, MbuffsStay
<1>7. CASE UNCHANGED vars
  BY <1>7, StillKept, MbuffsStay
<1> QED
  BY <1>1, <1>2, <1>3, <1>4, <1>5, <1>6, <1>7 DEF Next, Thread

LEMMA MbuffsInvariant == Spec => []MbuffsInv
  BY InitMbuffs, NextMbuffs, DataInvariant, PTL DEF Spec

-----------------------------------------------------------------------------
(* The theorems *)

\* The six queues, one after the other.
LEMMA OneQueue ==
  ASSUME Places
  PROVE  LET q == requests \o wpenq \o rpenq \o again \o toKrn \o replies IN
         q \in Seq(Message) /\ Distinct(q) /\ Keys(q) = AllKeys
<1>1. PICK a : a = requests \o wpenq
  OBVIOUS
<1>2. PICK b : b = a \o rpenq
  OBVIOUS
<1>3. PICK c : c = b \o again
  OBVIOUS
<1>4. PICK d : d = c \o toKrn
  OBVIOUS
<1>5. PICK e : e = d \o replies
  OBVIOUS
<1>6. a \in Seq(Message) /\ Distinct(a) /\ Keys(a) = Keys(requests) \cup Keys(wpenq)
  <2>1. Keys(requests) \cap Keys(wpenq) = {}
    BY DEF Places, OnePlace
  <2> QED
    BY <1>1, <2>1, QueuesJoined DEF Places, Queues, OnePlace
<1>7. b \in Seq(Message) /\ Distinct(b) /\ Keys(b) = Keys(a) \cup Keys(rpenq)
  <2>1. Keys(a) \cap Keys(rpenq) = {}
    BY <1>6 DEF Places, OnePlace
  <2> QED
    BY <1>2, <1>6, <2>1, QueuesJoined DEF Places, Queues, OnePlace
<1>8. c \in Seq(Message) /\ Distinct(c) /\ Keys(c) = Keys(b) \cup Keys(again)
  <2>1. Keys(b) \cap Keys(again) = {}
    BY <1>6, <1>7 DEF Places, OnePlace
  <2> QED
    BY <1>3, <1>7, <2>1, QueuesJoined DEF Places, Queues, OnePlace
<1>9. d \in Seq(Message) /\ Distinct(d) /\ Keys(d) = Keys(c) \cup Keys(toKrn)
  <2>1. Keys(c) \cap Keys(toKrn) = {}
    BY <1>6, <1>7, <1>8 DEF Places, OnePlace
  <2> QED
    BY <1>4, <1>8, <2>1, QueuesJoined DEF Places, Queues, OnePlace
<1>10. e \in Seq(Message) /\ Distinct(e) /\ Keys(e) = Keys(d) \cup Keys(replies)
  <2>1. Keys(d) \cap Keys(replies) = {}
    BY <1>6, <1>7, <1>8, <1>9 DEF Places, OnePlace
  <2> QED
    BY <1>5, <1>9, <2>1, QueuesJoined DEF Places, Queues, OnePlace
<1>11. Keys(e) = AllKeys
  BY <1>6, <1>7, <1>8, <1>9, <1>10 DEF AllKeys, RepliedKeys
<1>12. e = requests \o wpenq \o rpenq \o again \o toKrn \o replies
  BY <1>1, <1>2, <1>3, <1>4, <1>5, Zenon
<1> QED
  BY <1>10, <1>11, <1>12

\* The invariants imply the properties.
LEMMA InvTypes == DataInv /\ MbuffsInv => TypeOK
<1> SUFFICES ASSUME DataInv, MbuffsInv PROVE TypeOK
  OBVIOUS
<1> DEFINE q == requests \o wpenq \o rpenq \o again \o toKrn \o replies
<1> HIDE DEF q
<1>2. q \in Seq(Message) /\ Distinct(q) /\ Keys(q) = AllKeys
  BY OneQueue DEF q, DataInv
<1>3. \A i, j \in DOMAIN q : i # j => <<q[i].sk, q[i].opt>> # <<q[j].sk, q[j].opt>>
  BY <1>2 DEF Distinct, Key
<1>4. ASSUME NEW s \in Socks PROVE asked[s] = {q[i].opt : i \in {j \in DOMAIN q : q[j].sk = s}}
  <2>1. asked[s] \subseteq {"read", "write"}
    BY DEF DataInv, Fields
  <2>2. \A k \in {"read", "write"} : k \in asked[s] <=> <<s, k>> \in Keys(q)
    BY <1>2 DEF DataInv, Places, Asked
  <2>3. \A k : <<s, k>> \in Keys(q) <=> \E i \in DOMAIN q : q[i].sk = s /\ q[i].opt = k
    BY DEF Keys, Key, Range
  <2>4. \A i \in DOMAIN q : q[i].opt \in {"read", "write"}
    <3>1. \A i \in DOMAIN q : q[i] \in Message
      BY <1>2
    <3> QED
      BY <3>1, MessageFields
  <2> QED
    BY <2>1, <2>2, <2>3, <2>4
<1>5. mbuffs \in Nat
  <2>1. PICK k \in Nat, a \in Int : k = Cardinality(Held(Underway)) /\ a = mbuffs
    <3>1. Cardinality(Held(Underway)) \in Nat /\ mbuffs \in Int
      BY FS_CardinalityType DEF MbuffsInv, DataInv, Fields
    <3> QED
      BY <3>1
  <2>2. a - k >= 0
    BY <2>1 DEF MbuffsInv, Lost
  <2> QED
    BY <2>1, <2>2
<1> QED
  <2>1. LET r == requests \o wpenq \o rpenq \o again \o toKrn \o replies IN
          /\ r \in Seq(Message)
          /\ \A i, j \in DOMAIN r : i # j => <<r[i].sk, r[i].opt>> # <<r[j].sk, r[j].opt>>
          /\ \A s \in Socks : asked[s] = {r[i].opt : i \in {j \in DOMAIN r : r[j].sk = s}}
    <3>1. \A s \in Socks : asked[s] = {q[i].opt : i \in {j \in DOMAIN q : q[j].sk = s}}
      BY <1>4
    <3> QED
      BY <1>2, <1>3, <3>1 DEF q
  <2>2. /\ pc \in {"select", "write", "read", "requests"}
        /\ rset \cup wset \cup closed \subseteq Socks /\ noticed \in BOOLEAN
        /\ asked \in [Socks -> SUBSET {"read", "write"}]
        /\ written \in [Socks -> 0 .. MaxBytes] /\ arrived \in [Socks -> 0 .. MaxBytes]
        /\ taken \in [Socks -> Nat] /\ unread \in [Socks -> 0 .. Space]
        /\ sent \in [Socks -> Seq(Nat)] /\ got \in [Socks -> Seq(Nat)]
        /\ \A s \in Socks : taken[s] <= arrived[s] /\ Len(got[s]) <= taken[s]
        /\ failures \in 0 .. MaxFailures
    BY DEF DataInv, Fields
  <2> QED
    BY <1>5, <2>1, <2>2, Zenon DEF TypeOK

LEMMA IotaIs ==
  ASSUME NEW n \in Nat
  PROVE  Iota(n) = Part(1, n)
<1>1. \A k \in 1 .. n : 1 + k - 1 = k
  OBVIOUS
<1> QED
  BY <1>1 DEF Iota, Part

LEMMA InvStreams == DataInv => StreamsInOrder
<1> SUFFICES ASSUME DataInv, NEW s \in Socks
             PROVE  /\ sent[s] = Iota(Len(sent[s])) /\ got[s] = Iota(Len(got[s]))
                    /\ \A m \in Replied : m.sk = s /\ m.opt = "read" =>
                         FlattenSeq(m.mbq) = [k \in 1 .. taken[s] - Len(got[s]) |-> Len(got[s]) + k]
  BY DEF StreamsInOrder
<1>1. sent[s] \in Seq(Nat) /\ got[s] \in Seq(Nat)
  BY DEF DataInv, Fields
<1>2. Len(sent[s]) \in Nat /\ Len(got[s]) \in Nat
  BY <1>1
<1>3. sent[s] = Iota(Len(sent[s])) /\ got[s] = Iota(Len(got[s]))
  BY <1>2, IotaIs DEF DataInv, Idle
<1>4. ASSUME NEW m \in Replied, m.sk = s, m.opt = "read"
      PROVE  FlattenSeq(m.mbq) = [k \in 1 .. taken[s] - Len(got[s]) |-> Len(got[s]) + k]
  <2>1. m.ret # "none" /\ Good(m)
    BY DEF DataInv, Places, Kinds, Underway
  <2>2. FlattenSeq(m.mbq) = Part(Len(got[s]) + 1, taken[s] - Len(got[s]))
    BY <1>4, <2>1 DEF Good, ReadIs
  <2>3. PICK p \in Nat, n \in Int : p = Len(got[s]) /\ n = taken[s] - Len(got[s])
    <3>1. taken[s] - Len(got[s]) \in Int
      BY <1>2 DEF DataInv, Fields
    <3> QED
      BY <1>2, <3>1
  <2>4. \A k \in 1 .. n : p + 1 + k - 1 = p + k
    OBVIOUS
  <2>5. Part(p + 1, n) = [k \in 1 .. n |-> p + k]
    BY <2>4 DEF Part
  <2> QED
    BY <2>2, <2>3, <2>5
<1> QED
  BY <1>3, <1>4

LEMMA InvRest == DataInv => RestIsUnsent
<1> SUFFICES ASSUME DataInv, NEW m \in Underway, m.opt = "write"
             PROVE  /\ FlattenSeq(m.mbq) = [k \in 1 .. m.len - m.rep_len |-> m.first + m.rep_len + k - 1]
                    /\ Len(sent[m.sk]) = m.first + m.rep_len - 1
                    /\ m.ret = "success" => m.mbq = <<>>
  BY DEF RestIsUnsent, Underway
<1>1. WriteIs(m)
  BY DEF DataInv, Good
<1> QED
  BY <1>1 DEF WriteIs, Part

LEMMA InvMbuffs == MbuffsInv => MbuffsAccounted
<1>1. Held(Underway) = UNION {{<<m.sk, m.opt, i>> : i \in DOMAIN m.mbq} : m \in Pending \cup Replied}
  BY DEF Held, Slots, Underway
<1> QED
  BY <1>1 DEF MbuffsInv, MbuffsAccounted, Lost, PerRead

\* Whatever the sockets take and bring and whatever fails, the fields have their
\* types, no socket gets more bytes than it has room for and none gives more than
\* it was given, and what the kernel asked for is in one queue of the two
\* threads, and there once.
THEOREM DataTypeCorrect == Spec => []TypeOK
  BY DataInvariant, MbuffsInvariant, InvTypes, PTL

\* A partial sendmsg(), a recvmsg() that was cut short and the failures of either
\* lose, double and reorder no byte of a stream, in either direction.
THEOREM StreamsCorrect == Spec => []StreamsInOrder
  BY DataInvariant, InvStreams, PTL

\* The mbuffs of a write and io_rep_len agree on what the program has of it,
\* between any two calls, and a write is answered with success when it has all.
THEOREM RestCorrect == Spec => []RestIsUnsent
  BY DataInvariant, InvRest, PTL

\* An mbuff that is allocated is in one message that is under way, but for those
\* that a failed recvmsg() lost: at most what ATOMIC_READ bytes need, each time.
THEOREM MbuffsCorrect == Spec => []MbuffsAccounted
  BY MbuffsInvariant, InvMbuffs, PTL
=============================================================================
