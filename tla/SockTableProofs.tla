-------------------------- MODULE SockTableProofs --------------------------
(***************************************************************************)
(* Proofs about SockTable.tla, for any number of sockets, ports and        *)
(* descriptors: the port table agrees with the sockets, replies and        *)
(* close() reach the right descriptor, every event finds a socket,         *)
(* connect() always finds a port, and the speeds that are handed out add   *)
(* up, by induction on the size of the set that they are summed over.      *)
(***************************************************************************)
EXTENDS SockTable, FiniteSetTheorems, WellFoundedInduction, TLAPS

SockTableInv == TypeOK /\ PortsOwned /\ ControlOwned /\ EventsServed /\ BusyHasPort

LEMMA InitInv == Init => SockTableInv
<1> SUFFICES ASSUME Init PROVE SockTableInv
  OBVIOUS
<1>1. so_used = <<>> /\ Used = {}
  BY DEF Init, Used, Range
<1>2. so_free \in Seq(Socks) /\ DOMAIN so_free = Socks /\ \A n \in Socks : so_free[n] = n
  BY SockTableAssumption DEF Init, Socks
<1>3. Range(so_free) = Socks
  BY <1>2 DEF Range
<1>4. TypeOK
  BY <1>1, <1>2, <1>3, SockTableAssumption
  DEF Init, TypeOK, SockType, Sock, States, Files, Ports, NO_GVPORT, Words, Fds
<1>5. PortsOwned
  BY <1>1, SockTableAssumption DEF Init, PortsOwned, Ports, NO_GVPORT, Dummy, Socks
<1> QED
  BY <1>1, <1>4, <1>5, SockTableAssumption
  DEF Init, SockTableInv, ControlOwned, EventsServed, BusyHasPort

-----------------------------------------------------------------------------
(* new_sk() *)

\* What getfreesock() takes from one queue, setusedsock() puts in the other.
LEMMA MakeQueues ==
  ASSUME TypeOK, NEW fd \in Fds, NEW speed \in Words, Make(fd, speed)
  PROVE  /\ Head(so_free) \in Socks \ Used
         /\ so_used' \in Seq(Socks) /\ so_free' \in Seq(Socks)
         /\ Len(so_used') = Len(so_used) + 1
         /\ \A i \in 1 .. Len(so_used) : so_used'[i] = so_used[i]
         /\ so_used'[Len(so_used) + 1] = Head(so_free)
         /\ Used' = Used \cup {Head(so_free)}
         /\ Range(so_free') = Range(so_free) \ {Head(so_free)}
         /\ \A i, j \in DOMAIN so_used' : i # j => so_used'[i] # so_used'[j]
         /\ \A i, j \in DOMAIN so_free' : i # j => so_free'[i] # so_free'[j]
<1> DEFINE s == Head(so_free)
<1>1. /\ so_used \in Seq(Socks) /\ so_free \in Seq(Socks) /\ so_free # <<>>
      /\ so_used' = Append(so_used, s) /\ so_free' = Tail(so_free)
  BY DEF TypeOK, Make
<1>2. s = so_free[1] /\ 1 \in DOMAIN so_free /\ s \in Socks
  BY <1>1
<1>3. s \in Range(so_free) /\ s \notin Used
  BY <1>2 DEF TypeOK, Range
<1>4. /\ so_used' \in Seq(Socks) /\ Len(so_used') = Len(so_used) + 1
      /\ \A i \in 1 .. Len(so_used) : so_used'[i] = so_used[i]
      /\ so_used'[Len(so_used) + 1] = s
  BY <1>1, <1>2
<1>5. /\ so_free' \in Seq(Socks) /\ Len(so_free') = Len(so_free) - 1
      /\ \A i \in 1 .. Len(so_free) - 1 : so_free'[i] = so_free[i + 1]
  BY <1>1
<1>6. Used' = Used \cup {s}
  BY <1>1, <1>4 DEF Used, Range
<1>7. \A i, j \in DOMAIN so_free' : i # j => so_free'[i] # so_free'[j]
  BY <1>1, <1>5 DEF TypeOK
<1>8. Range(so_free') = Range(so_free) \ {s}
  <2>1. \A i, j \in DOMAIN so_free : i # j => so_free[i] # so_free[j]
    BY DEF TypeOK
  <2>2. DOMAIN so_free = 1 .. Len(so_free) /\ DOMAIN so_free' = 1 .. Len(so_free) - 1
    BY <1>1, <1>5
  <2>3. ASSUME NEW x \in Range(so_free')
        PROVE  x \in Range(so_free) \ {s}
    <3>1. PICK i \in DOMAIN so_free' : x = so_free'[i]
      BY <2>3 DEF Range
    <3>2. i + 1 \in DOMAIN so_free /\ i + 1 # 1 /\ x = so_free[i + 1]
      BY <3>1, <2>2, <1>1, <1>5
    <3> QED
      BY <3>2, <2>1, <1>2 DEF Range
  <2>4. ASSUME NEW x \in Range(so_free) \ {s}
        PROVE  x \in Range(so_free')
    <3>1. PICK i \in DOMAIN so_free : x = so_free[i]
      BY <2>4 DEF Range
    <3>2. i - 1 \in DOMAIN so_free' /\ so_free'[i - 1] = x
      BY <3>1, <2>2, <2>4, <1>1, <1>2, <1>5
    <3> QED
      BY <3>2 DEF Range
  <2> QED
    BY <2>3, <2>4
<1>9. \A i, j \in DOMAIN so_used' : i # j => so_used'[i] # so_used'[j]
  <2>1. \A i \in 1 .. Len(so_used) : so_used[i] # s
    BY <1>1, <1>3 DEF Used, Range
  <2> QED
    BY <2>1, <1>1, <1>4 DEF TypeOK
<1> QED
  BY <1>3, <1>4, <1>5, <1>6, <1>7, <1>8, <1>9, <1>2

\* A new socket starts closed and without a port and stands behind the others.
LEMMA MakeInv ==
  ASSUME SockTableInv, NEW fd \in Fds, NEW speed \in Words, Make(fd, speed),
         Lowest(fd), UNCHANGED <<sk_gvport, overal_bps>>,
         refused' \subseteq refused \cup {Head(so_free)},
         \/ file' = [file EXCEPT ![fd] = "ctrl"] /\ watched' = watched \cup {fd}
         \/ UNCHANGED <<file, watched>>
  PROVE  SockTableInv'
<1> DEFINE s == Head(so_free)
<1>1. TypeOK
  BY DEF SockTableInv
<1>2. /\ s \in Socks \ Used /\ Used' = Used \cup {s} /\ Used \subseteq Socks
      /\ sktable' = [sktable EXCEPT ![s] = Sock(fd, "GV_CLOSE", NO_GVPORT, speed)]
  BY <1>1, MakeQueues DEF TypeOK, Make
<1>3. /\ sktable'[s] = Sock(fd, "GV_CLOSE", NO_GVPORT, speed)
      /\ \A t \in Used : sktable'[t] = sktable[t] /\ t # s
  BY <1>1, <1>2 DEF TypeOK
<1>4. TypeOK'
  <2>1. free_bps' \in Words
    BY <1>1, SockTableAssumption DEF TypeOK, Make, Words
  <2>2. sktable' \in [Socks -> SockType]
    <3>1. Sock(fd, "GV_CLOSE", NO_GVPORT, speed) \in SockType
      BY SockTableAssumption DEF Sock, SockType, States, Ports, NO_GVPORT
    <3> QED
      BY <3>1, <1>1, <1>2 DEF TypeOK
  <2>3. file' \in [Fds -> Files] /\ watched' \subseteq Fds
    BY <1>1 DEF TypeOK, Files
  <2>4. /\ Used' \cap Range(so_free') = {} /\ Used' \cup Range(so_free') = Socks
    BY <1>1, MakeQueues DEF TypeOK
  <2>5. \A t \in Used' : sktable'[t].so_loctrl \in Fds
    BY <1>1, <1>2, <1>3 DEF TypeOK, Sock
  <2>6. refused' \subseteq Used'
    BY <1>1, <1>2 DEF TypeOK
  <2> QED
    BY <2>1, <2>2, <2>3, <2>4, <2>5, <2>6, <1>1, MakeQueues DEF TypeOK
<1>5. PortsOwned'
  BY <1>2, <1>3 DEF SockTableInv, PortsOwned, Sock, NO_GVPORT
<1>6. ControlOwned'
  <2> SUFFICES ASSUME NEW t \in Used', sktable'[t].so_state # "GV_CLOSE"
               PROVE  /\ file'[sktable'[t].so_loctrl] \in {"ctrl", "hung"}
                      /\ FoundFor(sktable[t].so_loctrl, t)'
    BY DEF ControlOwned
  <2>1. t \in Used /\ sktable'[t] = sktable[t] /\ sktable[t].so_state # "GV_CLOSE"
    BY <1>2, <1>3 DEF Sock
  <2>2. /\ file[sktable[t].so_loctrl] \in {"ctrl", "hung"}
        /\ FoundFor(sktable[t].so_loctrl, t)
        /\ sktable[t].so_loctrl \in Fds
    BY <2>1, <1>1 DEF SockTableInv, ControlOwned, TypeOK
  <2>3. file'[sktable[t].so_loctrl] \in {"ctrl", "hung"}
    BY <2>2, <1>1 DEF TypeOK
  <2>4. FoundFor(sktable[t].so_loctrl, t)'
    <3>1. PICK i \in DOMAIN so_used :
            /\ so_used[i] = t
            /\ \A j \in 1 .. i - 1 : sktable[so_used[j]].so_loctrl # sktable[t].so_loctrl
      BY <2>2 DEF FoundFor
    <3>2. /\ so_used \in Seq(Socks) /\ so_used' \in Seq(Socks)
          /\ Len(so_used') = Len(so_used) + 1
          /\ \A j \in 1 .. Len(so_used) : so_used'[j] = so_used[j]
      BY <1>1, MakeQueues DEF TypeOK
    <3>3. \A j \in 1 .. i - 1 : so_used'[j] = so_used[j] /\ so_used[j] \in Used
      BY <3>2 DEF Used, Range
    <3>4. i \in DOMAIN so_used' /\ so_used'[i] = t
      BY <3>1, <3>2
    <3> QED
      BY <3>1, <3>3, <3>4, <2>1, <1>3 DEF FoundFor
  <2> QED
    BY <2>1, <2>3, <2>4
<1>7. EventsServed'
  BY <1>1, <1>2, <1>3 DEF SockTableInv, EventsServed, TypeOK, Lowest, Sock
<1>8. BusyHasPort'
  BY <1>2, <1>3 DEF SockTableInv, BusyHasPort, Sock
<1> QED
  BY <1>4, <1>5, <1>6, <1>7, <1>8 DEF SockTableInv

\* A client that finds no socket free changes nothing.
LEMMA NewSkInv ==
  ASSUME SockTableInv, NEW fd \in Fds,
         NewSk(fd) \/ NewSkRefused(fd) \/ \E speed \in Words : NewSkNoSpeed(fd, speed)
  PROVE  SockTableInv'
<1>1. CASE NewSk(fd)
  <2>1. Speed \in Words
    BY SockTableAssumption DEF Speed, Least, SockTableInv, TypeOK, Words
  <2> QED
    BY <1>1, <2>1, MakeInv DEF NewSk
<1>2. CASE NewSkRefused(fd)
  <2>1. UNCHANGED vars
    BY <1>2 DEF NewSkRefused
  <2> QED
    BY <2>1 DEF vars, SockTableInv, TypeOK, PortsOwned, ControlOwned, EventsServed, BusyHasPort,
       FoundFor, Used
<1>3. CASE \E speed \in Words : NewSkNoSpeed(fd, speed)
  <2>1. PICK speed \in Words : NewSkNoSpeed(fd, speed)
    BY <1>3
  <2> QED
    BY <2>1, MakeInv DEF NewSkNoSpeed
<1> QED
  BY <1>1, <1>2, <1>3

-----------------------------------------------------------------------------
(* Requests *)

\* A descriptor finds at most one socket.
LEMMA FoundOnce ==
  ASSUME TypeOK, NEW fd, NEW s \in Socks, NEW t \in Socks, FoundFor(fd, s), FoundFor(fd, t)
  PROVE  s = t
<1>1. PICK i \in DOMAIN so_used :
        so_used[i] = s /\ \A j \in 1 .. i - 1 : sktable[so_used[j]].so_loctrl # fd
  BY DEF FoundFor
<1>2. PICK k \in DOMAIN so_used :
        so_used[k] = t /\ \A j \in 1 .. k - 1 : sktable[so_used[j]].so_loctrl # fd
  BY DEF FoundFor
<1>3. i \in Nat /\ k \in Nat /\ i >= 1 /\ k >= 1
  BY DEF TypeOK
<1>4. sktable[s].so_loctrl = fd /\ sktable[t].so_loctrl = fd
  BY DEF FoundFor
<1>5. ~ i < k /\ ~ k < i
  BY <1>1, <1>2, <1>3, <1>4
<1> QED
  BY <1>1, <1>2, <1>3, <1>5

\* The socket keeps the port it has, or takes one that is free.
PortFor(s, port) ==
  \/ port = sktable[s].so_local_gvport /\ UNCHANGED sk_gvport
  \/ /\ sktable[s].so_local_gvport = NO_GVPORT
     /\ sk_gvport[port] = None
     /\ sk_gvport' = [sk_gvport EXCEPT ![port] = s]

Becomes(s, state, port) ==
  /\ sktable' = [sktable EXCEPT ![s] = [@ EXCEPT !.so_state = state, !.so_local_gvport = port]]
  /\ state # "GV_CLOSE" => port # NO_GVPORT

\* A request acts on the socket of its descriptor.
LEMMA RequestInv ==
  ASSUME SockTableInv, NEW fd \in Fds, NEW s \in Socks, Request(fd, s),
         NEW state \in States, NEW port \in Ports, Becomes(s, state, port), PortFor(s, port)
  PROVE  SockTableInv'
<1>1. TypeOK /\ UNCHANGED <<so_used, so_free>> /\ Used' = Used /\ Range(so_free') = Range(so_free)
  BY DEF SockTableInv, Request, Used
<1>2. s \in Used /\ sktable[s].so_loctrl = fd /\ fd \in watched /\ file[fd] = "ctrl" /\ FoundFor(fd, s)
  BY DEF Request, FoundFor, Used, Range, SockTableInv, EventsServed
<1>3. /\ sktable'[s].so_state = state /\ sktable'[s].so_local_gvport = port
      /\ \A t \in Socks : t # s => sktable'[t] = sktable[t]
      /\ \A t \in Socks : sktable'[t].so_loctrl = sktable[t].so_loctrl
      /\ sktable' \in [Socks -> SockType]
  <2>1. sktable \in [Socks -> SockType] /\ sktable[s] \in SockType
    BY <1>1 DEF TypeOK
  <2>2. sktable'[s] = [sktable[s] EXCEPT !.so_state = state, !.so_local_gvport = port]
    BY <2>1 DEF Becomes
  <2>3. /\ sktable'[s] \in SockType
        /\ sktable'[s].so_state = state /\ sktable'[s].so_local_gvport = port
        /\ sktable'[s].so_loctrl = sktable[s].so_loctrl
    BY <2>1, <2>2 DEF SockType
  <2>4. \A t \in Socks : t # s => sktable'[t] = sktable[t]
    BY <2>1 DEF Becomes
  <2>5. sktable' \in [Socks -> SockType]
    BY <2>1, <2>3 DEF Becomes
  <2> QED
    BY <2>3, <2>4, <2>5
<1>4. /\ file' \in [Fds -> Files] /\ watched' \subseteq watched
      /\ \A g \in Fds : g # fd => file'[g] = file[g] /\ (g \in watched' <=> g \in watched)
      /\ \/ file'[fd] = "ctrl" /\ fd \in watched'
         \/ file'[fd] = "hung" /\ fd \notin watched'
  <2>1. file \in [Fds -> Files] /\ watched \subseteq Fds /\ "hung" \in Files
    BY <1>1 DEF TypeOK, Files
  <2>2. CASE HangUp(fd)
    BY <2>1, <2>2 DEF HangUp
  <2>3. CASE UNCHANGED <<file, watched>>
    BY <2>1, <2>3, <1>2
  <2> QED
    BY <2>2, <2>3 DEF Request
<1>5. Used \subseteq Socks /\ so_used \in Seq(Socks) /\ \A i \in DOMAIN so_used : so_used[i] \in Used
  BY <1>1 DEF TypeOK, Used, Range
<1>6. TypeOK'
  <2>1. sk_gvport' \in [Ports -> Socks \cup {Dummy, None}]
    BY <1>1 DEF TypeOK, PortFor
  <2>2. \A t \in Used' : sktable'[t].so_loctrl \in Fds
    BY <1>1, <1>3, <1>5 DEF TypeOK
  <2> QED
    BY <2>1, <2>2, <1>1, <1>3, <1>4 DEF TypeOK, Request
<1>7. PortsOwned'
  <2>1. CASE port = sktable[s].so_local_gvport /\ UNCHANGED sk_gvport
    BY <2>1, <1>1, <1>2, <1>3 DEF SockTableInv, PortsOwned
  <2>2. CASE /\ sktable[s].so_local_gvport = NO_GVPORT
             /\ sk_gvport[port] = None
             /\ sk_gvport' = [sk_gvport EXCEPT ![port] = s]
    <3>1. port # NO_GVPORT
      BY <2>2, SockTableAssumption DEF SockTableInv, PortsOwned
    <3>2. \A q \in Ports : sk_gvport'[q] = IF q = port THEN s ELSE sk_gvport[q]
      BY <2>2, <1>1 DEF TypeOK
    <3>3. s # Dummy /\ None \notin Socks /\ NO_GVPORT \in Ports
      BY SockTableAssumption DEF Dummy, Socks, Ports, NO_GVPORT
    <3> QED
      BY <3>1, <3>2, <3>3, <2>2, <1>1, <1>2, <1>3 DEF SockTableInv, PortsOwned
  <2> QED
    BY <2>1, <2>2 DEF PortFor
<1>8. ControlOwned'
  <2> SUFFICES ASSUME NEW t \in Used, sktable'[t].so_state # "GV_CLOSE"
               PROVE  /\ file'[sktable[t].so_loctrl] \in {"ctrl", "hung"}
                      /\ FoundFor(sktable[t].so_loctrl, t)
    BY <1>1, <1>3, <1>5 DEF ControlOwned, FoundFor
  <2>1. CASE t = s
    BY <2>1, <1>2, <1>4
  <2>2. CASE t # s
    BY <2>2, <1>1, <1>3, <1>4, <1>5 DEF SockTableInv, ControlOwned, TypeOK
  <2> QED
    BY <2>1, <2>2
<1>9. EventsServed'
  <2>1. watched' = {g \in Fds : file'[g] = "ctrl"}
    BY <1>1, <1>4 DEF SockTableInv, EventsServed, TypeOK
  <2> QED
    BY <2>1, <1>1, <1>3, <1>4, <1>5 DEF SockTableInv, EventsServed
<1>10. BusyHasPort'
  BY <1>1, <1>3, <1>5 DEF SockTableInv, BusyHasPort, Becomes
<1> QED
  BY <1>6, <1>7, <1>8, <1>9, <1>10 DEF SockTableInv

\* While it lacks a port, the socket leaves more ports than there are others.
LEMMA PortIsFree ==
  ASSUME TypeOK, PortsOwned, NEW s \in Used, sktable[s].so_local_gvport = NO_GVPORT
  PROVE  \E p \in Ports : FreePort(p)
<1> DEFINE P == 1 .. MAX_PORTS - 1
           F == {p \in P : sk_gvport[p] = None}
<1>1. /\ P \subseteq Ports \ {NO_GVPORT} /\ P \subseteq Nat
      /\ IsFiniteSet(P) /\ Cardinality(P) = MAX_PORTS - 1
      /\ s \in Socks
  <2>1. MAX_PORTS \in Nat /\ MAX_PORTS - 1 >= 1
    BY SockTableAssumption
  <2>2. P \subseteq Ports \ {NO_GVPORT} /\ P \subseteq Nat
    BY <2>1 DEF Ports, NO_GVPORT
  <2>3. IsFiniteSet(P) /\ Cardinality(P) = MAX_PORTS - 1
    BY <2>1, FS_Interval
  <2>4. s \in Socks
    BY DEF TypeOK, Used, Range
  <2> QED
    BY <2>2, <2>3, <2>4
<1>2. F # {}
  <2> SUFFICES ASSUME F = {} PROVE FALSE
    OBVIOUS
  <2> DEFINE owner == [p \in P |-> sk_gvport[p]]
  <2>1. \A p \in P : sk_gvport[p] \in Socks \ {s}
    BY <1>1 DEF TypeOK, PortsOwned
  <2>2. owner \in [P -> Socks \ {s}]
    BY <2>1
  <2>3. /\ IsFiniteSet(Socks \ {s}) /\ Cardinality(Socks \ {s}) = MAX_SOCKETS - 1
        /\ MAX_SOCKETS - 1 < MAX_PORTS - 1
    <3>1. 1 \in Int /\ MAX_SOCKETS \in Int /\ MAX_PORTS \in Int /\ 1 <= MAX_SOCKETS
          /\ MAX_SOCKETS < MAX_PORTS
      BY SockTableAssumption
    <3>2. IsFiniteSet(1 .. MAX_SOCKETS) /\ Cardinality(1 .. MAX_SOCKETS) = MAX_SOCKETS
      BY <3>1, FS_Interval
    <3>3. IsFiniteSet(Socks) /\ Cardinality(Socks) = MAX_SOCKETS
      BY <3>2 DEF Socks
    <3>4. IsFiniteSet(Socks \ {s}) /\ Cardinality(Socks \ {s}) = Cardinality(Socks) - 1
      BY <3>3, <1>1, FS_RemoveElement
    <3> QED
      BY <3>1, <3>3, <3>4
  <2>4. PICK p \in P, q \in P : p # q /\ owner[p] = owner[q]
    <3> HIDE DEF P, owner
    <3>1. Cardinality(Socks \ {s}) < Cardinality(P) /\ IsFiniteSet(P) /\ IsFiniteSet(Socks \ {s})
      BY <1>1, <2>3
    <3> QED
      BY <3>1, <2>2, FS_PigeonHole
  <2>5. sk_gvport[p] = sk_gvport[q] /\ sk_gvport[p] \in Socks
    BY <2>1, <2>4
  <2> QED
    BY <1>1, <2>4, <2>5 DEF PortsOwned
<1>3. PICK p \in F : \A q \in F : ~ (<<q, p>> \in OpToRel(<, Nat))
  <2> HIDE DEF F
  <2>1. F \subseteq Nat
    BY <1>1 DEF F
  <2> QED
    BY <1>2, <2>1, NatLessThanWellFounded, WFMin
<1>4. \A q \in F : ~ q < p
  BY <1>1, <1>3 DEF OpToRel
<1>5. FreePort(p)
  BY <1>1, <1>4, SockTableAssumption DEF FreePort
<1> QED
  BY <1>1, <1>5

\* Every request is one of RequestInv; connect() without a port finds one.
LEMMA ClientInv ==
  ASSUME SockTableInv, NEW fd \in Fds, NEW s \in Socks,
         \/ \E p \in Ports : Bind(fd, s, p)
         \/ Listen(fd, s)
         \/ Connect(fd, s)
         \/ OtherRequest(fd, s)
  PROVE  SockTableInv'
<1> DEFINE state == sktable[s].so_state
           port == sktable[s].so_local_gvport
<1>1. /\ sktable \in [Socks -> SockType] /\ sktable[s] \in SockType
      /\ state \in States /\ port \in Ports /\ TypeOK /\ PortsOwned
  BY DEF SockTableInv, TypeOK, SockType
<1>2. Request(fd, s) => s \in Used /\ (state # "GV_CLOSE" => port # NO_GVPORT)
  BY DEF SockTableInv, BusyHasPort, Request, FoundFor, Used, Range
<1>3. ASSUME Request(fd, s), UNCHANGED <<sktable, sk_gvport>>
      PROVE  SockTableInv'
  <2>1. Becomes(s, state, port) /\ PortFor(s, port)
    BY <1>1, <1>2, <1>3 DEF SockType, Becomes, PortFor
  <2> QED
    BY <2>1, <1>1, <1>2, <1>3, RequestInv
<1>4. CASE \E p \in Ports : Bind(fd, s, p)
  <2>1. PICK p \in Ports : Bind(fd, s, p)
    BY <1>4
  <2>2. CASE /\ port = NO_GVPORT /\ state = "GV_CLOSE" /\ sk_gvport[p] = None
    <3>1. /\ Request(fd, s)
          /\ sk_gvport' = [sk_gvport EXCEPT ![p] = s]
          /\ sktable' = [sktable EXCEPT ![s].so_local_gvport = p]
      BY <2>1, <2>2 DEF Bind, bind_gvport
    <3>2. Becomes(s, state, p) /\ PortFor(s, p)
      BY <3>1, <2>2, <1>1 DEF SockType, Becomes, PortFor
    <3> QED
      BY <3>1, <3>2, <1>1, RequestInv
  <2>3. CASE ~ (port = NO_GVPORT /\ state = "GV_CLOSE" /\ sk_gvport[p] = None)
    BY <2>1, <2>3, <1>3 DEF Bind, bind_gvport
  <2> QED
    BY <2>2, <2>3
<1>5. CASE Listen(fd, s)
  <2>1. Becomes(s, "GV_LISTEN", port) /\ PortFor(s, port) /\ "GV_LISTEN" \in States
    BY <1>5, <1>1 DEF Listen, SockType, States, Becomes, PortFor
  <2> QED
    BY <2>1, <1>1, <1>5, RequestInv DEF Listen
<1>6. CASE Connect(fd, s)
  <2>1. "GV_CONNECT_SENT" \in States
    BY DEF States
  <2>2. CASE ConnectBound(fd, s)
    <3>1. Becomes(s, "GV_CONNECT_SENT", port) /\ PortFor(s, port)
      BY <2>2, <1>1 DEF ConnectBound, SockType, Becomes, PortFor
    <3> QED
      BY <3>1, <2>1, <2>2, <1>1, RequestInv DEF ConnectBound
  <2>3. CASE ConnectFree(fd, s)
    <3>0. \E p \in Ports : FreePort(p)
      BY <2>3, <1>1, <1>2, PortIsFree DEF ConnectFree
    <3>1. PICK p \in Ports :
            /\ FreePort(p)
            /\ sk_gvport' = [sk_gvport EXCEPT ![p] = s]
            /\ sktable' = [sktable EXCEPT ![s].so_local_gvport = p,
                                          ![s].so_state = "GV_CONNECT_SENT"]
      BY <2>3, <3>0 DEF ConnectFree
    <3>2. p # NO_GVPORT /\ sk_gvport[p] = None
      BY <3>1 DEF FreePort, NO_GVPORT
    <3>3. Becomes(s, "GV_CONNECT_SENT", p) /\ PortFor(s, p)
      BY <2>3, <3>1, <3>2, <1>1 DEF ConnectFree, SockType, Becomes, PortFor
    <3> QED
      BY <3>3, <2>1, <2>3, <1>1, RequestInv DEF ConnectFree
  <2> QED
    BY <1>6, <2>2, <2>3 DEF Connect
<1>7. CASE OtherRequest(fd, s)
  BY <1>7, <1>3 DEF OtherRequest
<1> QED
  BY <1>4, <1>5, <1>6, <1>7

-----------------------------------------------------------------------------
(* Control messages and timers *)

\* A socket changes its state and nothing else in the table.
LEMMA StateOnly ==
  ASSUME SockTableInv, NEW s \in Used, NEW state \in States,
         sktable' = [sktable EXCEPT ![s].so_state = state],
         UNCHANGED <<so_used, so_free, sk_gvport, overal_bps, free_bps, refused>>,
         file' \in [Fds -> Files], watched' \subseteq Fds,
         state # "GV_CLOSE" => sktable[s].so_local_gvport # NO_GVPORT
  PROVE  /\ TypeOK' /\ PortsOwned' /\ BusyHasPort' /\ Used' = Used
         /\ s \in Socks /\ Used \subseteq Socks
         /\ sktable'[s].so_state = state
         /\ \A t \in Socks : t # s => sktable'[t] = sktable[t]
         /\ \A t \in Socks : sktable'[t].so_loctrl = sktable[t].so_loctrl
         /\ \A fd : \A t \in Used : FoundFor(fd, t)' <=> FoundFor(fd, t)
<1>1. /\ TypeOK /\ Used' = Used /\ Range(so_free') = Range(so_free)
      /\ Used \subseteq Socks /\ s \in Socks
  BY DEF SockTableInv, Used, Range, TypeOK
<1>2. sktable \in [Socks -> SockType] /\ sktable[s] \in SockType
  BY <1>1 DEF TypeOK
<1>3. sktable'[s] = [sktable[s] EXCEPT !.so_state = state]
  BY <1>1, <1>2
<1>4. /\ sktable'[s] \in SockType /\ sktable'[s].so_state = state
      /\ sktable'[s].so_local_gvport = sktable[s].so_local_gvport
      /\ sktable'[s].so_loctrl = sktable[s].so_loctrl
  BY <1>2, <1>3 DEF SockType
<1>5. \A t \in Socks : t # s => sktable'[t] = sktable[t]
  BY <1>1, <1>2
<1>6. \A t \in Socks : sktable'[t].so_loctrl = sktable[t].so_loctrl
  BY <1>4, <1>5
<1>7. sktable' \in [Socks -> SockType]
  BY <1>1, <1>2, <1>4
<1>8. \A t \in Used' : sktable'[t].so_loctrl \in Fds
  BY <1>1, <1>6 DEF TypeOK
<1>9. TypeOK'
  BY <1>1, <1>7, <1>8 DEF TypeOK
<1>10. PortsOwned'
  BY <1>1, <1>4, <1>5 DEF SockTableInv, PortsOwned
<1>11. BusyHasPort'
  BY <1>1, <1>4, <1>5 DEF SockTableInv, BusyHasPort
<1>12. \A fd : \A t \in Used : FoundFor(fd, t)' <=> FoundFor(fd, t)
  <2>1. so_used' = so_used /\ \A i \in DOMAIN so_used : so_used[i] \in Socks
    BY <1>1 DEF TypeOK
  <2>2. \A i \in DOMAIN so_used : \A j \in 1 .. i - 1 : j \in DOMAIN so_used
    BY <1>1 DEF TypeOK
  <2> QED
    BY <2>1, <2>2, <1>1, <1>6 DEF FoundFor
<1> QED
  BY <1>1, <1>4, <1>5, <1>6, <1>9, <1>10, <1>11, <1>12

\* The data connection gets a descriptor that nobody uses.
LEMMA EstablishInv ==
  ASSUME SockTableInv, NEW s \in Socks, Establish(s)
  PROVE  SockTableInv'
<1>1. /\ file \in [Fds -> Files] /\ watched \subseteq Fds /\ watched' = watched
      /\ "GV_ESTABLISHED" \in States /\ s \in Used
      /\ sktable[s].so_state # "GV_CLOSE"
  BY DEF SockTableInv, TypeOK, Establish, States
<1>2. /\ file' \in [Fds -> Files]
      /\ \A fd \in Fds : file[fd] # "closed" => file'[fd] = file[fd]
      /\ \A fd \in Fds : file[fd] = "closed" => file'[fd] \in {"closed", "data"}
  BY <1>1 DEF Establish, Lowest, Files
<1>3. /\ TypeOK' /\ PortsOwned' /\ BusyHasPort' /\ Used' = Used
      /\ s \in Socks /\ Used \subseteq Socks
      /\ sktable'[s].so_state = "GV_ESTABLISHED"
      /\ \A t \in Socks : t # s => sktable'[t] = sktable[t]
      /\ \A t \in Socks : sktable'[t].so_loctrl = sktable[t].so_loctrl
      /\ \A fd : \A t \in Used : FoundFor(fd, t)' <=> FoundFor(fd, t)
  <2>1. sktable[s].so_local_gvport # NO_GVPORT
    BY <1>1 DEF SockTableInv, BusyHasPort
  <2>2. sktable' = [sktable EXCEPT ![s].so_state = "GV_ESTABLISHED"]
    BY DEF Establish
  <2>3. UNCHANGED <<so_used, so_free, sk_gvport, overal_bps, free_bps, refused>>
    BY DEF Establish
  <2> QED
    BY <1>1, <1>2, <2>1, <2>2, <2>3, StateOnly
<1>4. ControlOwned'
  <2> SUFFICES ASSUME NEW t \in Used, sktable'[t].so_state # "GV_CLOSE"
               PROVE  /\ file'[sktable[t].so_loctrl] \in {"ctrl", "hung"}
                      /\ FoundFor(sktable[t].so_loctrl, t)
    <3>1. \A t \in Used : FoundFor(sktable[t].so_loctrl, t)' <=>
                          FoundFor(sktable[t].so_loctrl, t)
      BY <1>3 DEF FoundFor
    <3> QED
      BY <1>3, <3>1 DEF ControlOwned
  <2>1. sktable[t].so_state # "GV_CLOSE" /\ t \in Socks
    BY <1>1, <1>3
  <2>2. sktable[t].so_loctrl \in Fds
    BY DEF SockTableInv, TypeOK
  <2> QED
    BY <2>1, <2>2, <1>2 DEF SockTableInv, ControlOwned
<1>5. EventsServed'
  <2>1. watched' = {fd \in Fds : file'[fd] = "ctrl"}
    BY <1>1, <1>2 DEF SockTableInv, EventsServed
  <2> QED
    BY <2>1, <1>1, <1>3 DEF SockTableInv, EventsServed
<1> QED
  BY <1>3, <1>4, <1>5 DEF SockTableInv

\* The descriptor that is closed belongs to no other socket that is in use.
LEMMA ErrorResponseInv ==
  ASSUME SockTableInv, NEW s \in Socks, ErrorResponse(s)
  PROVE  SockTableInv'
<1> DEFINE c == sktable[s].so_loctrl
<1>1. /\ file \in [Fds -> Files] /\ watched \subseteq Fds /\ TypeOK
      /\ "GV_CLOSE" \in States /\ s \in Used
      /\ sktable[s].so_state # "GV_CLOSE" /\ c \in Fds
      /\ file' = [file EXCEPT ![c] = "closed"] /\ watched' = watched \ {c}
  BY DEF SockTableInv, TypeOK, ErrorResponse, States
<1>2. file' \in [Fds -> Files] /\ watched' \subseteq Fds
  BY <1>1 DEF Files
<1>3. /\ TypeOK' /\ PortsOwned' /\ BusyHasPort' /\ Used' = Used
      /\ s \in Socks /\ Used \subseteq Socks
      /\ sktable'[s].so_state = "GV_CLOSE"
      /\ \A t \in Socks : t # s => sktable'[t] = sktable[t]
      /\ \A t \in Socks : sktable'[t].so_loctrl = sktable[t].so_loctrl
      /\ \A fd : \A t \in Used : FoundFor(fd, t)' <=> FoundFor(fd, t)
  <2>1. sktable' = [sktable EXCEPT ![s].so_state = "GV_CLOSE"]
    BY DEF ErrorResponse
  <2>2. UNCHANGED <<so_used, so_free, sk_gvport, overal_bps, free_bps, refused>>
    BY DEF ErrorResponse
  <2> QED
    BY <1>1, <1>2, <2>1, <2>2, StateOnly
<1>4. ControlOwned'
  <2> SUFFICES ASSUME NEW t \in Used, sktable'[t].so_state # "GV_CLOSE"
               PROVE  /\ file'[sktable[t].so_loctrl] \in {"ctrl", "hung"}
                      /\ FoundFor(sktable[t].so_loctrl, t)
    <3>1. \A t \in Used : FoundFor(sktable[t].so_loctrl, t)' <=>
                          FoundFor(sktable[t].so_loctrl, t)
      BY <1>3 DEF FoundFor
    <3> QED
      BY <1>3, <3>1 DEF ControlOwned
  <2>1. t # s /\ t \in Socks /\ sktable[t].so_state # "GV_CLOSE"
    BY <1>3
  <2>2. /\ file[sktable[t].so_loctrl] \in {"ctrl", "hung"}
        /\ FoundFor(sktable[t].so_loctrl, t) /\ FoundFor(c, s)
    BY <2>1, <1>1 DEF SockTableInv, ControlOwned
  <2>3. sktable[t].so_loctrl # c
    BY <2>1, <2>2, <1>1, <1>3, FoundOnce
  <2>4. sktable[t].so_loctrl \in Fds
    BY <1>1 DEF TypeOK
  <2> QED
    BY <2>2, <2>3, <2>4, <1>1
<1>5. EventsServed'
  <2>1. watched' = {fd \in Fds : file'[fd] = "ctrl"}
    BY <1>1 DEF SockTableInv, EventsServed
  <2> QED
    BY <2>1, <1>1, <1>3 DEF SockTableInv, EventsServed
<1> QED
  BY <1>3, <1>4, <1>5 DEF SockTableInv

-----------------------------------------------------------------------------
LEMMA NextInv ==
  ASSUME SockTableInv, [Next]_vars
  PROVE  SockTableInv'
<1>1. CASE UNCHANGED vars
  BY <1>1 DEF vars, SockTableInv, TypeOK, PortsOwned, ControlOwned, EventsServed, BusyHasPort,
     FoundFor, Used
<1>2. CASE \E fd \in Fds :
             NewSk(fd) \/ NewSkRefused(fd) \/ \E speed \in Words : NewSkNoSpeed(fd, speed)
  BY <1>2, NewSkInv
<1>3. CASE \E fd \in Fds, s \in Socks :
             \/ \E p \in Ports : Bind(fd, s, p)
             \/ Listen(fd, s)
             \/ Connect(fd, s)
             \/ OtherRequest(fd, s)
  BY <1>3, ClientInv
<1>4. CASE \E s \in Socks : Establish(s) \/ ErrorResponse(s)
  BY <1>4, EstablishInv, ErrorResponseInv
<1> QED
  BY <1>1, <1>2, <1>3, <1>4 DEF Next

LEMMA SockTableInvariant == Spec => []SockTableInv
<1>1. Init => SockTableInv
  BY InitInv
<1>2. SockTableInv /\ [Next]_vars => SockTableInv'
  BY NextInv
<1> QED
  BY <1>1, <1>2, PTL DEF Spec

\* Variables keep their types; every socket is in one of the two queues of
\* sock.c, once.
THEOREM SockTableTypeCorrect == Spec => []TypeOK
<1>1. SockTableInv => TypeOK
  BY DEF SockTableInv
<1> QED
  BY <1>1, SockTableInvariant, PTL

\* sk_gvport and so_local_gvport agree after any requests of any clients.
THEOREM PortsCorrect == Spec => []PortsOwned
<1>1. SockTableInv => PortsOwned
  BY DEF SockTableInv
<1> QED
  BY <1>1, SockTableInvariant, PTL

\* Whatever descriptors are used again, a socket in use has its own control
\* connection: do_socket_error_response() closes no other.
THEOREM ControlCorrect == Spec => []ControlOwned
<1>1. SockTableInv => ControlOwned
  BY DEF SockTableInv
<1> QED
  BY <1>1, SockTableInvariant, PTL

\* The epoll set holds the clients that are connected, and getsockbysoctrl()
\* finds a socket for each.
THEOREM EventsCorrect == Spec => []EventsServed
<1>1. SockTableInv => EventsServed
  BY DEF SockTableInv
<1> QED
  BY <1>1, SockTableInvariant, PTL

\* With fewer sockets than ports bind_free_gvport() never fails.
THEOREM BusyCorrect == Spec => []BusyHasPort
<1>1. SockTableInv => BusyHasPort
  BY DEF SockTableInv
<1> QED
  BY <1>1, SockTableInvariant, PTL
-----------------------------------------------------------------------------
(* Sums of speeds.  The fold over a set is a function that is defined by      *)
(* recursion; that it exists, and that the order does not matter, is shown by *)
(* induction on the size of the set.                                          *)

\* Induction over the numbers, for a set of them.
LEMMA Induct ==
  ASSUME NEW T \in SUBSET Nat, 0 \in T, \A n \in T : n + 1 \in T
  PROVE  T = Nat
<1> SUFFICES ASSUME Nat \ T # {} PROVE FALSE
  OBVIOUS
<1> DEFINE M == Nat \ T
<1> HIDE DEF M
<1>1. M \subseteq Nat /\ M # {}
  BY DEF M
<1>2. \E m \in M : \A n \in M : ~ n < m
  <2>1. PICK m \in M : \A n \in M : ~ (<<n, m>> \in OpToRel(<, Nat))
    BY <1>1, NatLessThanWellFounded, WFMin
  <2>2. \A n \in M : ~ n < m
    BY <1>1, <2>1 DEF OpToRel
  <2> QED
    BY <2>2
<1>3. PICK m \in M : \A n \in M : ~ n < m
  BY <1>2
<1>4. m # 0 /\ m - 1 \in Nat /\ m - 1 < m /\ m - 1 + 1 = m
  BY <1>1, <1>3 DEF M
<1>5. m - 1 \in T
  BY <1>3, <1>4 DEF M
<1> QED
  BY <1>3, <1>4, <1>5 DEF M

Given(t, S) == MapThenSumSet(LAMBDA s : t[s].so_speed, S)

\* One step of the recursion: any element, and the sum of the others.
OneAndRest(t, f, s) ==
  IF s = {} THEN 0 ELSE LET x == CHOOSE x \in s : TRUE IN t[x].so_speed + f[s \ {x}]
SumStep(t, D, f) == [s \in D |-> OneAndRest(t, f, s)]

\* The fold is the function that the recursion defines, at the set.
LEMMA SumIsChosen ==
  ASSUME NEW t, NEW S
  PROVE  Given(t, S) = (CHOOSE f : f = SumStep(t, SUBSET S, f))[S]
  BY DEF Given, MapThenSumSet, MapThenFoldSet, SumStep, OneAndRest

\* A set without one of its elements has one element less.
LEMMA Smaller ==
  ASSUME NEW S, IsFiniteSet(S), NEW x \in S
  PROVE  /\ IsFiniteSet(S \ {x}) /\ Cardinality(S) \in Nat /\ Cardinality(S \ {x}) \in Nat
         /\ Cardinality(S \ {x}) + 1 = Cardinality(S)
<1>1. IsFiniteSet(S \ {x}) /\ Cardinality(S \ {x}) = Cardinality(S) - 1
  BY FS_RemoveElement
<1>2. Cardinality(S) \in Nat /\ Cardinality(S \ {x}) \in Nat
  BY <1>1, FS_CardinalityType
<1> QED
  BY <1>1, <1>2

\* The recursion defines a function on the subsets of a finite set.
LEMMA SumExists ==
  ASSUME NEW t, NEW S, IsFiniteSet(S)
  PROVE  \E f : f = SumStep(t, SUBSET S, f)
<1> DEFINE D(n) == {s \in SUBSET S : Cardinality(s) <= n}
           T == {n \in Nat : \E f : f = SumStep(t, D(n), f)}
<1>1. \A s \in SUBSET S : IsFiniteSet(s) /\ Cardinality(s) \in Nat
  BY FS_Subset, FS_CardinalityType
<1>2. 0 \in T
  <2>1. \A s \in D(0) : s = {}
    <3> SUFFICES ASSUME NEW s \in D(0) PROVE s = {}
      OBVIOUS
    <3>1. IsFiniteSet(s) /\ Cardinality(s) = 0
      BY <1>1
    <3> QED
      BY <3>1, FS_EmptySet
  <2>2. PICK f : f = [s \in D(0) |-> 0]
    OBVIOUS
  <2> HIDE DEF D
  <2>3. f = SumStep(t, D(0), f)
    BY <2>1, <2>2 DEF SumStep, OneAndRest
  <2> QED
    BY <2>3
<1>3. ASSUME NEW n \in T PROVE n + 1 \in T
  <2>1. n \in Nat /\ D(n) \subseteq D(n + 1)
    BY <1>1
  <2>2. PICK f : f = SumStep(t, D(n), f)
    OBVIOUS
  <2>3. PICK g : g = SumStep(t, D(n + 1), f)
    OBVIOUS
  <2>4. \A s \in D(n + 1) : \A x \in s : s \ {x} \in D(n)
    <3> SUFFICES ASSUME NEW s \in D(n + 1), NEW x \in s PROVE s \ {x} \in D(n)
      OBVIOUS
    <3>1. /\ IsFiniteSet(s) /\ Cardinality(s) <= n + 1 /\ s \ {x} \in SUBSET S
      BY <1>1
    <3>2. Cardinality(s) \in Nat /\ Cardinality(s \ {x}) \in Nat /\ Cardinality(s \ {x}) + 1 = Cardinality(s)
      BY <3>1, Smaller
    <3> QED
      BY <2>1, <3>1, <3>2
  <2> HIDE DEF D
  <2>5. \A s \in D(n) : g[s] = f[s]
    BY <2>1, <2>2, <2>3 DEF SumStep
  <2>6. ASSUME NEW s \in D(n + 1) PROVE OneAndRest(t, f, s) = OneAndRest(t, g, s)
    <3>1. CASE s = {}
      BY <3>1 DEF OneAndRest
    <3>2. CASE s # {}
      <4>1. PICK x \in s : x = CHOOSE y \in s : TRUE
        BY <3>2
      <4>2. g[s \ {x}] = f[s \ {x}]
        BY <2>4, <2>5
      <4> QED
        BY <3>2, <4>1, <4>2 DEF OneAndRest
    <3> QED
      BY <3>1, <3>2
  <2>7. g = SumStep(t, D(n + 1), g)
    BY <2>3, <2>6 DEF SumStep
  <2> QED
    BY <2>1, <2>7
<1>4. T = Nat
  <2> HIDE DEF T
  <2>1. T \in SUBSET Nat
    BY DEF T
  <2> QED
    BY <1>2, <1>3, <2>1, Induct
<1>5. D(Cardinality(S)) = SUBSET S
  <2>1. \A s \in SUBSET S : Cardinality(s) <= Cardinality(S)
    <3> HIDE DEF D, T
    <3> QED
      BY FS_Subset
  <2> QED
    BY <2>1
<1>6. Cardinality(S) \in T
  BY <1>1, <1>4
<1> HIDE DEF D
<1> QED
  BY <1>5, <1>6

\* The sum over each subset of S, one element at a time.
IsSum(t, S, f) ==
  /\ DOMAIN f = SUBSET S
  /\ f[{}] = 0
  /\ \A s \in SUBSET S : s # {} => \E x \in s : f[s] = t[x].so_speed + f[s \ {x}]

\* The sum of the speeds is built up from one socket after another.
LEMMA SumIs ==
  ASSUME NEW t, NEW S, IsFiniteSet(S)
  PROVE  \E f : IsSum(t, S, f) /\ Given(t, S) = f[S]
<1> DEFINE f == CHOOSE f : f = SumStep(t, SUBSET S, f)
<1>1. f = SumStep(t, SUBSET S, f)
  BY SumExists
<1>2. Given(t, S) = f[S]
  BY SumIsChosen
<1> HIDE DEF f
<1>3. DOMAIN f = SUBSET S /\ \A s \in SUBSET S : f[s] = OneAndRest(t, f, s)
  BY <1>1 DEF SumStep
<1>4. f[{}] = 0
  BY <1>3 DEF OneAndRest
<1>5. ASSUME NEW s \in SUBSET S, s # {} PROVE \E x \in s : f[s] = t[x].so_speed + f[s \ {x}]
  <2>1. PICK x \in s : x = CHOOSE y \in s : TRUE
    BY <1>5
  <2> QED
    BY <1>3, <1>5, <2>1 DEF OneAndRest
<1> QED
  BY <1>2, <1>3, <1>4, <1>5 DEF IsSum

\* What a property of the sums needs to be shown for: the smallest set without it.
LEMMA SetInduct ==
  ASSUME NEW S, IsFiniteSet(S), NEW G \in SUBSET (SUBSET S), {} \in G,
         \A s \in SUBSET S : s # {} /\ (\A x \in s : s \ {x} \in G) => s \in G
  PROVE  G = SUBSET S
<1> DEFINE T == {n \in Nat : \A s \in SUBSET S : Cardinality(s) = n => s \in G}
<1>1. \A s \in SUBSET S : IsFiniteSet(s) /\ Cardinality(s) \in Nat
  BY FS_Subset, FS_CardinalityType
<1>2. 0 \in T
  BY <1>1, FS_EmptySet
<1>3. ASSUME NEW n \in T PROVE n + 1 \in T
  <2> SUFFICES ASSUME NEW s \in SUBSET S, Cardinality(s) = n + 1 PROVE s \in G
    OBVIOUS
  <2>1. s # {}
    BY FS_EmptySet
  <2>2. ASSUME NEW x \in s PROVE s \ {x} \in G
    <3>1. Cardinality(s \ {x}) \in Nat /\ Cardinality(s \ {x}) + 1 = Cardinality(s)
      BY <1>1, Smaller
    <3> QED
      BY <3>1
  <2> QED
    BY <2>1, <2>2
<1>4. T = Nat
  <2> HIDE DEF T
  <2>1. T \in SUBSET Nat
    BY DEF T
  <2> QED
    BY <1>2, <1>3, <2>1, Induct
<1> QED
  BY <1>1, <1>4

Speeds(t, S) == \A x \in S : t[x].so_speed \in Nat
Agree(t, u, S) == \A x \in S : t[x].so_speed = u[x].so_speed

\* The sum is a number, and does not depend on the order.
LEMMA SumAny ==
  ASSUME NEW t, NEW S, IsFiniteSet(S), NEW f, IsSum(t, S, f), Speeds(t, S)
  PROVE  \A s \in SUBSET S :
           f[s] \in Nat /\ \A x \in s : f[s] = t[x].so_speed + f[s \ {x}]
<1> DEFINE Steps(s) == \A x \in s : f[s \ {x}] \in Nat /\ f[s] = t[x].so_speed + f[s \ {x}]
           G == {s \in SUBSET S : f[s] \in Nat /\ Steps(s)}
<1>1. {} \in G
  BY DEF IsSum
<1>2. ASSUME NEW s \in SUBSET S, s # {}, \A x \in s : s \ {x} \in G PROVE s \in G
  <2>1. PICK c \in s : f[s] = t[c].so_speed + f[s \ {c}]
    BY <1>2 DEF IsSum
  <2>2. \A x \in s : f[s \ {x}] \in Nat /\ Steps(s \ {x})
    BY <1>2
  <2>3. \A x \in s : t[x].so_speed \in Nat
    BY DEF Speeds
  <2> HIDE DEF G
  <2>4. f[s] \in Nat
    BY <2>1, <2>2, <2>3
  <2>5. ASSUME NEW x \in s, x # c PROVE f[s] = t[x].so_speed + f[s \ {x}]
    <3> DEFINE r == (s \ {c}) \ {x}
    <3>1. r = (s \ {x}) \ {c} /\ x \in s \ {c} /\ c \in s \ {x}
      BY <2>5
    <3>2. f[r] \in Nat /\ f[s \ {c}] = t[x].so_speed + f[r]
      BY <2>2, <3>1
    <3>3. f[s \ {x}] = t[c].so_speed + f[r]
      BY <2>2, <3>1
    <3> HIDE DEF r
    <3> QED
      BY <2>1, <2>3, <3>2, <3>3
  <2>6. Steps(s)
    BY <2>1, <2>2, <2>5
  <2> QED
    BY <2>4, <2>6 DEF G
<1>3. G = SUBSET S
  <2> HIDE DEF G
  <2>1. G \in SUBSET (SUBSET S)
    BY DEF G
  <2> QED
    BY <1>1, <1>2, <2>1, SetInduct
<1> QED
  BY <1>3

\* The last socket added to the sum may be any.
LEMMA SumLast ==
  ASSUME NEW t, NEW S, IsFiniteSet(S), NEW f, IsSum(t, S, f), Speeds(t, S), NEW n \in S
  PROVE  f[S \ {n}] \in Nat /\ f[S] = t[n].so_speed + f[S \ {n}]
<1>1. \A s \in SUBSET S : f[s] \in Nat /\ \A x \in s : f[s] = t[x].so_speed + f[s \ {x}]
  BY SumAny
<1> QED
  BY <1>1

\* The sum depends on nothing but the speeds of the elements.
LEMMA SumSame ==
  ASSUME NEW t, NEW u, NEW S, NEW U, IsFiniteSet(U), S \subseteq U,
         NEW f, IsSum(t, S, f), NEW g, IsSum(u, U, g),
         Speeds(u, U), Agree(t, u, S)
  PROVE  f[S] = g[S]
<1> DEFINE G == {s \in SUBSET S : f[s] = g[s]}
<1>1. /\ IsFiniteSet(S)
      /\ \A s \in SUBSET S : \A x \in s : f[s] = t[x].so_speed + f[s \ {x}]
      /\ \A s \in SUBSET U : \A x \in s : g[s] = u[x].so_speed + g[s \ {x}]
  <2>1. IsFiniteSet(S)
    BY FS_Subset
  <2>2. Speeds(t, S)
    BY DEF Speeds, Agree
  <2>3. \A s \in SUBSET S :
          f[s] \in Nat /\ \A x \in s : f[s] = t[x].so_speed + f[s \ {x}]
    BY <2>1, <2>2, SumAny
  <2>4. \A s \in SUBSET U :
          g[s] \in Nat /\ \A x \in s : g[s] = u[x].so_speed + g[s \ {x}]
    BY SumAny
  <2> QED
    BY <2>1, <2>3, <2>4
<1>2. {} \in G
  BY DEF IsSum
<1>3. ASSUME NEW s \in SUBSET S, s # {}, \A x \in s : s \ {x} \in G PROVE s \in G
  <2>1. PICK x \in s : TRUE
    BY <1>3
  <2>2. f[s \ {x}] = g[s \ {x}] /\ s \in SUBSET U /\ t[x].so_speed = u[x].so_speed
    BY <1>3 DEF Agree
  <2> QED
    BY <1>1, <2>2
<1>4. G = SUBSET S
  <2> HIDE DEF G
  <2>1. G \in SUBSET (SUBSET S)
    BY DEF G
  <2> QED
    BY <1>1, <1>2, <1>3, <2>1, SetInduct
<1> QED
  BY <1>4

\* Sums of no sockets, of one more, and of sockets that keep their speeds.
LEMMA GivenNothing ==
  ASSUME NEW t
  PROVE  Given(t, {}) = 0
<1>1. PICK f : IsSum(t, {}, f) /\ Given(t, {}) = f[{}]
  BY FS_EmptySet, SumIs
<1> QED
  BY <1>1 DEF IsSum

LEMMA GivenMore ==
  ASSUME NEW t, NEW u, NEW S, IsFiniteSet(S), NEW n, n \notin S,
         Speeds(u, S \cup {n}), Agree(t, u, S)
  PROVE  Given(t, S) \in Nat /\ Given(u, S \cup {n}) = u[n].so_speed + Given(t, S)
<1> DEFINE U == S \cup {n}
<1>1. IsFiniteSet(U) /\ S \subseteq U /\ U \ {n} = S /\ U \in SUBSET U /\ n \in U
  BY FS_AddElement
<1>2. PICK f : IsSum(t, S, f) /\ Given(t, S) = f[S]
  BY SumIs
<1>3. PICK g : IsSum(u, U, g) /\ Given(u, U) = g[U]
  BY <1>1, SumIs
<1> HIDE DEF U
<1>4. Speeds(u, U)
  BY DEF U
<1>5. f[S] = g[S]
  BY <1>1, <1>2, <1>3, <1>4, SumSame
<1>6. g[U \ {n}] \in Nat /\ g[U] = u[n].so_speed + g[U \ {n}]
  BY <1>1, <1>3, <1>4, SumLast
<1> QED
  BY <1>1, <1>2, <1>3, <1>5, <1>6 DEF U

LEMMA GivenSame ==
  ASSUME NEW t, NEW u, NEW S, IsFiniteSet(S),
         Speeds(u, S), Agree(t, u, S)
  PROVE  Given(t, S) = Given(u, S) /\ Given(u, S) \in Nat
<1>1. PICK f : IsSum(t, S, f) /\ Given(t, S) = f[S]
  BY SumIs
<1>2. PICK g : IsSum(u, S, g) /\ Given(u, S) = g[S]
  BY SumIs
<1>4. f[S] = g[S]
  BY <1>1, <1>2, SumSame
<1>5. \A s \in SUBSET S : g[s] \in Nat
  BY <1>2, SumAny
<1> QED
  BY <1>1, <1>2, <1>4, <1>5

\* Division with a remainder.
LEMMA Remainder ==
  ASSUME NEW w \in Int, w > 0, NEW r \in 0 .. w - 1, NEW q \in Int
  PROVE  (r + w * q) % w = r
  OBVIOUS

LEMMA Quotient ==
  ASSUME NEW w \in Int, w > 0, NEW a \in Int
  PROVE  \E q \in Int : \E r \in 0 .. w - 1 : a = r + w * q /\ a % w = r
<1>1. a % w \in 0 .. w - 1
  OBVIOUS
<1>2. a \div w \in Int
  OBVIOUS
<1>3. a = w * (a \div w) + (a % w)
  OBVIOUS
<1>4. a = (a % w) + w * (a \div w)
  BY <1>1, <1>2, <1>3
<1> QED
  BY <1>1, <1>2, <1>4

\* What is taken off in the arithmetic of a word can be put back.
LEMMA Wrap ==
  \A w, a, x, g \in Int : w > 0 => (((a - x) % w) + (x + g)) % w = (a + g) % w
<1> SUFFICES ASSUME NEW w \in Int, NEW a \in Int, NEW x \in Int, NEW g \in Int, w > 0
             PROVE  (((a - x) % w) + (x + g)) % w = (a + g) % w
  OBVIOUS
<1>1. PICK q \in Int, r \in 0 .. w - 1 : a - x = r + w * q /\ (a - x) % w = r
  <2>1. a - x \in Int
    OBVIOUS
  <2> QED
    BY <2>1, Quotient
<1>2. PICK p \in Int, z \in 0 .. w - 1 :
        r + (x + g) = z + w * p /\ (r + (x + g)) % w = z
  <2>1. r + (x + g) \in Int
    OBVIOUS
  <2> QED
    BY <2>1, Quotient
<1>3. a + g = z + w * (p + q)
  <2>1. w * (p + q) = w * p + w * q
    OBVIOUS
  <2> QED
    BY <2>1, <1>1, <1>2
<1>4. (z + w * (p + q)) % w = z
  <2>1. p + q \in Int
    OBVIOUS
  <2> QED
    BY <2>1, Remainder
<1> QED
  BY <1>1, <1>2, <1>3, <1>4

-----------------------------------------------------------------------------
(* The speed that new_sk() hands out *)

\* The property, said with Given.
LEMMA SpeedIs ==
  /\ SpeedAccounted <=>
       /\ (free_bps + Given(sktable, Used)) % WORD = overal_bps
       /\ refused = {} => /\ free_bps + Given(sktable, Used) = overal_bps
                          /\ \A s \in Used : sktable[s].so_speed <= socket_bps
  /\ SpeedAccounted' <=>
       /\ (free_bps' + Given(sktable', Used')) % WORD = overal_bps'
       /\ refused' = {} => /\ free_bps' + Given(sktable', Used') = overal_bps'
                           /\ \A s \in Used' : sktable'[s].so_speed <= socket_bps
<1>1. SpeedAccounted <=>
        /\ (free_bps + Given(sktable, Used)) % WORD = overal_bps
        /\ refused = {} => /\ free_bps + Given(sktable, Used) = overal_bps
                           /\ \A s \in Used : sktable[s].so_speed <= socket_bps
  BY DEF SpeedAccounted, Given, MapThenSumSet, MapThenFoldSet
<1>2. Given(sktable, Used)' = Given(sktable', Used')
  BY DEF Given, MapThenSumSet, MapThenFoldSet
<1>3. (SpeedAccounted <=>
        /\ (free_bps + Given(sktable, Used)) % WORD = overal_bps
        /\ refused = {} => /\ free_bps + Given(sktable, Used) = overal_bps
                           /\ \A s \in Used : sktable[s].so_speed <= socket_bps)'
  BY <1>1, PTL
<1> QED
  BY <1>1, <1>2, <1>3

\* Nothing is handed out at the start.
LEMMA InitSpeed == Init => SpeedAccounted
<1> SUFFICES ASSUME Init PROVE SpeedAccounted
  OBVIOUS
<1>1. Used = {} /\ free_bps = overal_bps /\ free_bps \in 0 .. WORD - 1 /\ WORD \in Int /\ WORD > 0
  BY SockTableAssumption DEF Init, Used, Range, Words
<1>2. Given(sktable, Used) = 0
  BY <1>1, GivenNothing
<1>3. (free_bps + 0) % WORD = free_bps
  <2>1. free_bps + 0 = free_bps + WORD * 0 /\ 0 \in Int
    BY <1>1
  <2> QED
    BY <1>1, <2>1, Remainder
<1> QED
  BY <1>1, <1>2, <1>3, SpeedIs

\* The sockets in use are finitely many and have speeds.
LEMMA UsedSpeeds ==
  ASSUME TypeOK
  PROVE  Used \subseteq Socks /\ IsFiniteSet(Used) /\ Speeds(sktable, Used)
<1>1. Used \subseteq Socks
  BY DEF TypeOK
<1>2. IsFiniteSet(Socks)
  <2>1. 1 \in Int /\ MAX_SOCKETS \in Int
    BY SockTableAssumption
  <2> QED
    BY <2>1, FS_Interval DEF Socks
<1>3. Speeds(sktable, Used)
  BY <1>1, SockTableAssumption DEF TypeOK, SockType, Words, Speeds
<1> QED
  BY <1>1, <1>2, <1>3, FS_Subset

\* A socket gets its speed in new_sk() only.
LEMMA SpeedKept ==
  ASSUME SockTableInv, SpeedAccounted, Agree(sktable, sktable', Used),
         UNCHANGED <<so_used, overal_bps, free_bps, refused>>
  PROVE  SpeedAccounted'
<1>1. IsFiniteSet(Used) /\ Speeds(sktable, Used) /\ Used' = Used
  BY UsedSpeeds DEF SockTableInv, Used
<1>2. Speeds(sktable', Used)
  BY <1>1 DEF Speeds, Agree
<1>3. Given(sktable', Used) = Given(sktable, Used)
  BY <1>1, <1>2, GivenSame
<1>4. refused = {} => \A s \in Used : sktable'[s].so_speed <= socket_bps
  BY SpeedIs DEF Agree
<1> QED
  BY <1>1, <1>3, <1>4, SpeedIs

\* What new_sk() takes from free_bps is the speed of the new socket.
LEMMA SpeedMade ==
  ASSUME SockTableInv, SpeedAccounted, NEW fd \in Fds, NEW speed \in Words, Make(fd, speed),
         UNCHANGED overal_bps,
         refused' = {} => refused = {} /\ speed <= free_bps /\ speed <= socket_bps
  PROVE  SpeedAccounted'
<1> DEFINE n == Head(so_free)
           sum == Given(sktable, Used)
           sum2 == Given(sktable', Used')
<1>1. /\ TypeOK /\ Used \subseteq Socks /\ IsFiniteSet(Used) /\ Speeds(sktable, Used)
      /\ n \in Socks \ Used /\ Used' = Used \cup {n}
  BY UsedSpeeds, MakeQueues DEF SockTableInv
<1>2. /\ WORD \in Int /\ WORD > 0 /\ speed \in Nat /\ free_bps \in Nat /\ free_bps < WORD
      /\ overal_bps \in Nat /\ socket_bps \in Nat
      /\ free_bps' = (free_bps - speed) % WORD
  BY <1>1, SockTableAssumption DEF TypeOK, Words, Make
<1>3. /\ sktable' = [sktable EXCEPT ![n] = Sock(fd, "GV_CLOSE", NO_GVPORT, speed)]
      /\ sktable \in [Socks -> SockType]
  BY <1>1 DEF TypeOK, Make
<1>4. sktable'[n].so_speed = speed /\ \A t \in Used : sktable'[t] = sktable[t]
  BY <1>1, <1>3 DEF Sock
<1>5. Speeds(sktable', Used \cup {n}) /\ Agree(sktable, sktable', Used)
  BY <1>1, <1>2, <1>4 DEF Speeds, Agree
<1>6. sum \in Nat /\ sum2 = speed + sum
  BY <1>1, <1>4, <1>5, GivenMore
<1>7. /\ (free_bps + sum) % WORD = overal_bps
      /\ refused = {} => free_bps + sum = overal_bps
      /\ refused = {} => \A s \in Used : sktable[s].so_speed <= socket_bps
  BY SpeedIs
<1> HIDE DEF sum, sum2, n
<1>8. (free_bps' + sum2) % WORD = overal_bps
  <2>1. WORD \in Int /\ free_bps \in Int /\ speed \in Int /\ sum \in Int
    BY <1>2, <1>6
  <2>2. WORD > 0
    BY <1>2
  <2>3. (((free_bps - speed) % WORD) + (speed + sum)) % WORD = (free_bps + sum) % WORD
    BY <2>1, <2>2, Wrap, ZenonT(60)
  <2>4. free_bps' = (free_bps - speed) % WORD /\ sum2 = speed + sum
    BY <1>2, <1>6
  <2>5. (free_bps + sum) % WORD = overal_bps
    BY <1>7
  <2> QED
    BY <2>3, <2>4, <2>5, Zenon
<1>9. ASSUME refused' = {} PROVE free_bps' + sum2 = overal_bps
  <2>1. free_bps - speed \in 0 .. WORD - 1
    BY <1>2, <1>9
  <2>2. free_bps' = free_bps - speed
    <3>1. \A r \in 0 .. WORD - 1 : r % WORD = r
      BY <1>2
    <3> QED
      BY <1>2, <2>1, <3>1
  <2> QED
    BY <1>2, <1>6, <1>7, <1>9, <2>2
<1>10. refused' = {} => \A s \in Used' : sktable'[s].so_speed <= socket_bps
  BY <1>1, <1>4, <1>7
<1> QED
  BY <1>8, <1>9, <1>10, SpeedIs DEF sum2

\* Only new_sk() changes the sum, and it changes free_bps by as much.
LEMMA NextSpeed ==
  ASSUME SockTableInv, SpeedAccounted, [Next]_vars
  PROVE  SpeedAccounted'
<1>1. TypeOK /\ sktable \in [Socks -> SockType] /\ Used \subseteq Socks
  BY UsedSpeeds DEF SockTableInv, TypeOK
<1>2. ASSUME NEW fd \in Fds, NewSk(fd) PROVE SpeedAccounted'
  <2>1. Speed \in Words /\ Speed <= free_bps /\ Speed <= socket_bps
    BY <1>1, SockTableAssumption DEF Speed, Least, TypeOK, Words
  <2> QED
    BY <1>2, <2>1, SpeedMade DEF NewSk
<1>3. ASSUME NEW fd \in Fds, NEW speed \in Words, NewSkNoSpeed(fd, speed) PROVE SpeedAccounted'
  BY <1>3, SpeedMade DEF NewSkNoSpeed
<1>4. ASSUME UNCHANGED vars PROVE SpeedAccounted'
  BY <1>4, SpeedKept DEF vars, Agree
<1>5. ASSUME NEW fd \in Fds, NEW s \in Socks, Request(fd, s),
             \/ UNCHANGED sktable
             \/ \E p \in Ports : sktable' = [sktable EXCEPT ![s].so_local_gvport = p]
             \/ \E state \in States : sktable' = [sktable EXCEPT ![s].so_state = state]
             \/ \E p \in Ports, state \in States :
                  sktable' = [sktable EXCEPT ![s].so_local_gvport = p, ![s].so_state = state]
      PROVE  SpeedAccounted'
  <2>1. sktable[s] \in SockType
    BY <1>1
  <2>2. /\ \A t \in Socks : t # s => sktable'[t] = sktable[t]
        /\ sktable'[s].so_speed = sktable[s].so_speed
    <3>1. CASE UNCHANGED sktable
      BY <3>1
    <3>2. CASE \E p \in Ports : sktable' = [sktable EXCEPT ![s].so_local_gvport = p]
      BY <3>2, <2>1, <1>1 DEF SockType
    <3>3. CASE \E state \in States : sktable' = [sktable EXCEPT ![s].so_state = state]
      BY <3>3, <2>1, <1>1 DEF SockType
    <3>4. CASE \E p \in Ports, state \in States :
                 sktable' = [sktable EXCEPT ![s].so_local_gvport = p, ![s].so_state = state]
      <4>1. PICK p \in Ports, state \in States :
              sktable' = [sktable EXCEPT ![s].so_local_gvport = p, ![s].so_state = state]
        BY <3>4
      <4>2. sktable'[s] = [sktable[s] EXCEPT !.so_local_gvport = p, !.so_state = state]
        BY <4>1, <1>1
      <4> QED
        BY <4>1, <4>2, <2>1, <1>1 DEF SockType
    <3> QED
      BY <1>5, <3>1, <3>2, <3>3, <3>4
  <2>3. Agree(sktable, sktable', Used)
    BY <1>1, <2>2 DEF Agree
  <2> QED
    BY <1>5, <2>3, SpeedKept DEF Request
<1>6. ASSUME NEW fd \in Fds, NEW s \in Socks,
             \/ \E p \in Ports : Bind(fd, s, p)
             \/ Listen(fd, s)
             \/ Connect(fd, s)
             \/ OtherRequest(fd, s)
      PROVE  SpeedAccounted'
  <2>1. "GV_LISTEN" \in States /\ "GV_CONNECT_SENT" \in States
    BY DEF States
  <2>2. CASE \E p \in Ports : Bind(fd, s, p)
    BY <2>2, <1>5 DEF Bind, bind_gvport
  <2>3. CASE Listen(fd, s)
    BY <2>3, <2>1, <1>5 DEF Listen
  <2>4. CASE Connect(fd, s)
    BY <2>4, <2>1, <1>5 DEF Connect, ConnectBound, ConnectFree
  <2>5. CASE OtherRequest(fd, s)
    BY <2>5, <1>5 DEF OtherRequest
  <2> QED
    BY <1>6, <2>2, <2>3, <2>4, <2>5
<1>7. ASSUME NEW s \in Socks, Establish(s) \/ ErrorResponse(s) PROVE SpeedAccounted'
  <2>1. \E state \in States : sktable' = [sktable EXCEPT ![s].so_state = state]
    BY <1>7 DEF Establish, ErrorResponse, States
  <2>2. Agree(sktable, sktable', Used)
    BY <1>1, <2>1 DEF Agree, SockType
  <2>3. UNCHANGED <<so_used, overal_bps, free_bps, refused>>
    BY <1>7 DEF Establish, ErrorResponse
  <2> QED
    BY <2>2, <2>3, SpeedKept
<1>8. ASSUME NEW fd \in Fds, NewSkRefused(fd) PROVE SpeedAccounted'
  BY <1>8, <1>4 DEF NewSkRefused
<1> QED
  BY <1>2, <1>3, <1>4, <1>6, <1>7, <1>8 DEF Next

\* Whoever connects and however often, no speed is handed out twice or gets
\* lost, and no socket gets more than the configuration allows, until new_sk()
\* has made a socket without any speed left; the wrap-around of free_bps keeps
\* the sum right after that.
THEOREM SpeedCorrect == Spec => []SpeedAccounted
<1>1. Init => SpeedAccounted
  BY InitSpeed
<1>2. SockTableInv /\ SpeedAccounted /\ [Next]_vars => SpeedAccounted'
  BY NextSpeed
<1> QED
  BY <1>1, <1>2, SockTableInvariant, PTL DEF Spec
=============================================================================
