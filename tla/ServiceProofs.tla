---------------------------- MODULE ServiceProofs ----------------------------
(***************************************************************************)
(* The pid file and the API path lead to the running daemon, for any       *)
(* number of start-ups, crashes and stops, any pids and any clients.       *)
(***************************************************************************)
EXTENDS Service, SequenceTheorems, TLAPS

-----------------------------------------------------------------------------
(* What is inductive. *)

\* bind() of the UDP port is the lock that keeps two daemons apart, and the
\* administrator lets one start-up come to its end.
OneUdp == \A i, j \in Daemons : HasUdp(i) /\ HasUdp(j) => i = j
OneStarting == \A i, j \in Daemons : Starting(i) /\ Starting(j) => i = j

\* A start-up has the API path to itself, and began with a pid file that named
\* nobody.
StartingReached == \A i \in Daemons : stage[i] \in {"api", "udp", "timers"} => apiFile = i
StartingUnnamed == \A i, j \in Daemons : Starting(j) /\ Serves(i) => Pid[i] # pidFile

ServiceInv ==
  TypeOK /\ OneUdp /\ OneStarting /\ StartingReached /\ StartingUnnamed /\ NamedIsReached

\* A file begins with the digits of a pid.
BeginsWith(file, pid) == Len(file) >= Len(pid) /\ SubSeq(file, 1, Len(pid)) = pid

-----------------------------------------------------------------------------
(* writepid() *)

\* What is written is at the beginning of the file, whatever was there.
LEMMA OverwriteBegins ==
  ASSUME NEW S, NEW old \in Seq(S), NEW new \in Seq(S)
  PROVE  /\ Overwrite(old, new) \in Seq(S)
         /\ BeginsWith(Overwrite(old, new), new)
<1> DEFINE r == SubSeq(old, Len(new) + 1, Len(old))
           o == new \o r
           p == SubSeq(o, 1, Len(new))
<1>1. Len(new) \in Nat /\ Len(old) \in Nat
  BY LenProperties
<1>2. r \in Seq(S)
  <2>1. \A i \in Len(new) + 1 .. Len(old) : old[i] \in S
    BY <1>1, ElementOfSeq
  <2>2. Len(new) + 1 \in Int /\ Len(old) \in Int
    BY <1>1
  <2> QED
    BY <2>1, <2>2, SubSeqProperties
<1>3. Overwrite(old, new) = o
  BY DEF Overwrite
<1> HIDE DEF r
<1>4. /\ o \in Seq(S) /\ Len(o) = Len(new) + Len(r)
      /\ \A i \in 1 .. Len(new) + Len(r) : o[i] = IF i <= Len(new) THEN new[i] ELSE r[i - Len(new)]
  BY <1>2, ConcatProperties
<1>5. Len(r) \in Nat
  BY <1>2, LenProperties
<1>6. \A i \in 1 .. Len(new) : i \in 1 .. Len(new) + Len(r) /\ o[i] = new[i]
  BY <1>1, <1>4, <1>5
<1> HIDE DEF o
<1>7. p \in Seq(S) /\ Len(p) = Len(new) /\ \A i \in 1 .. Len(new) : p[i] = o[i]
  <2>1. \A i \in 1 .. Len(new) : o[i] \in S
    BY <1>6, ElementOfSeq
  <2>2. /\ p \in Seq(S)
        /\ Len(p) = IF 1 <= Len(new) THEN Len(new) - 1 + 1 ELSE 0
        /\ \A i \in 1 .. Len(new) - 1 + 1 : p[i] = o[1 + i - 1]
    BY <1>1, <2>1, SubSeqProperties
  <2>3. /\ Len(new) - 1 + 1 = Len(new)
        /\ (IF 1 <= Len(new) THEN Len(new) - 1 + 1 ELSE 0) = Len(new)
        /\ \A i \in 1 .. Len(new) : 1 + i - 1 = i
    BY <1>1
  <2> HIDE DEF p
  <2> QED
    BY <2>2, <2>3
<1> HIDE DEF p
<1>8. p = new
  BY <1>6, <1>7, SeqEqual
<1> QED
  BY <1>1, <1>3, <1>4, <1>5, <1>8 DEF p, BeginsWith

-----------------------------------------------------------------------------
(* main() *)

\* The rest of the state of a daemon that goes on to another stage.
LEMMA EnterTypes ==
  ASSUME TypeOK, NEW i \in Daemons, NEW s \in Stages, Enter(i, s)
  PROVE  /\ stage' \in [Daemons -> Stages]
         /\ stage'[i] = s /\ \A j \in Daemons : j # i => stage'[j] = stage[j]
         /\ UNCHANGED <<config, fds, reading>>
  BY DEF Enter, TypeOK, kernelVars

\* And that of one that ends.
LEMMA EndTypes ==
  ASSUME ServiceAssumption, TypeOK, NEW i \in Daemons, NEW s \in Stages, End(i, s)
  PROVE  /\ stage' \in [Daemons -> Stages]
         /\ stage'[i] = s /\ \A j \in Daemons : j # i => stage'[j] = stage[j]
         /\ config' \in [Daemons -> Configs \cup {None}]
         /\ fds' \in [Daemons -> 0 .. MaxFds]
         /\ \A j \in Daemons : reading'[j] = None \/ reading'[j] = reading[j]
<1>1. /\ stage' \in [Daemons -> Stages]
      /\ stage'[i] = s /\ \A j \in Daemons : j # i => stage'[j] = stage[j]
  BY DEF End, TypeOK
<1>2. config' \in [Daemons -> Configs \cup {None}]
  BY DEF End, TypeOK
<1>3. fds' \in [Daemons -> 0 .. MaxFds]
  <2>1. 0 \in 0 .. MaxFds
    BY DEF ServiceAssumption
  <2> QED
    BY <2>1 DEF End, TypeOK
<1>4. ASSUME NEW j \in Daemons PROVE reading'[j] = None \/ reading'[j] = reading[j]
  BY DEF End, TypeOK
<1> QED
  BY <1>1, <1>2, <1>3, <1>4
\* Nobody else is concerned when a daemon ends, also when its pid file goes.
LEMMA EndInv ==
  ASSUME ServiceAssumption, ServiceInv, NEW i \in Daemons, NEW s \in {"failed", "dead"}, End(i, s),
         apiFile' = apiFile, pidFile' = pidFile \/ pidFile' = <<>>, UNCHANGED clientVars
  PROVE  ServiceInv'
<1>1. /\ stage' \in [Daemons -> Stages]
      /\ stage'[i] = s /\ \A j \in Daemons : j # i => stage'[j] = stage[j]
      /\ config' \in [Daemons -> Configs \cup {None}]
      /\ fds' \in [Daemons -> 0 .. MaxFds]
      /\ \A j \in Daemons : reading'[j] = None \/ reading'[j] = reading[j]
  BY EndTypes DEF ServiceInv, Stages
<1>2. \A j \in Daemons : Pid[j] # <<>>
  BY DEF ServiceAssumption
<1>3. pidFile' \in Seq(0 .. 9)
  <2>1. <<>> \in Seq(0 .. 9)
    BY EmptySeq
  <2>2. pidFile \in Seq(0 .. 9)
    BY DEF ServiceInv, TypeOK
  <2> QED
    BY <2>1, <2>2
<1>4. TypeOK'
  BY <1>1, <1>3 DEF ServiceInv, TypeOK, clientVars
<1>5. \A j \in Daemons : /\ Serves(j)' => Serves(j)
                         /\ HasUdp(j)' => HasUdp(j)
                         /\ Starting(j)' => Starting(j)
  BY <1>1 DEF Serves, HasUdp, Starting
<1>6. OneUdp' /\ OneStarting'
  BY <1>5 DEF ServiceInv, OneUdp, OneStarting
<1>7. StartingReached'
  BY <1>1 DEF ServiceInv, StartingReached
<1>8. StartingUnnamed'
  BY <1>2, <1>5 DEF ServiceInv, StartingUnnamed
<1>9. NamedIsReached'
  <2> SUFFICES ASSUME NEW j \in Daemons, Serves(j)', Pid[j] = pidFile' PROVE apiFile' = j
    BY DEF NamedIsReached, Serves
  <2>1. Serves(j) /\ pidFile' = pidFile
    BY <1>2, <1>5
  <2> QED
    BY <2>1 DEF ServiceInv, NamedIsReached, Serves
<1> QED
  BY <1>4, <1>6, <1>7, <1>8, <1>9 DEF ServiceInv

LEMMA ApiSocketInv ==
  ASSUME ServiceAssumption, ServiceInv, NEW i \in Daemons, ApiSocket(i)
  PROVE  ServiceInv'
<1>1. CASE loadcfgk(config[i])
  <2>1. Enter(i, "api") /\ apiFile' = i /\ stage[i] = "config" /\ pidFile' = pidFile
        /\ UNCHANGED clientVars
    BY <1>1 DEF ApiSocket
  <2>2. /\ stage' \in [Daemons -> Stages]
        /\ stage'[i] = "api" /\ \A j \in Daemons : j # i => stage'[j] = stage[j]
        /\ UNCHANGED <<config, fds, reading>>
    BY <2>1, EnterTypes DEF ServiceInv, Stages
  <2>3. \A j \in Daemons : (Serves(j)' <=> Serves(j)) /\ (HasUdp(j)' <=> HasUdp(j))
                           /\ (Starting(j)' <=> Starting(j))
    BY <2>1, <2>2 DEF Serves, HasUdp, Starting
  <2>4. TypeOK'
    BY <2>1, <2>2 DEF ServiceInv, TypeOK, clientVars
  <2>5. OneUdp' /\ OneStarting' /\ StartingUnnamed'
    BY <2>1, <2>3 DEF ServiceInv, OneUdp, OneStarting, StartingUnnamed
  <2>6. Starting(i) /\ \A j \in Daemons : j # i => ~Starting(j)
    BY <2>1 DEF ServiceInv, OneStarting, Starting
  <2>7. StartingReached'
    BY <2>1, <2>2, <2>6 DEF StartingReached, Starting
  <2>8. NamedIsReached'
    BY <2>1, <2>3, <2>6 DEF ServiceInv, StartingUnnamed, NamedIsReached, Serves
  <2> QED
    BY <2>4, <2>5, <2>7, <2>8 DEF ServiceInv
<1> QED
  BY <1>1, EndInv DEF ApiSocket

\* A stage further towards kernel(), with the files as they are.
LEMMA FurtherInv ==
  ASSUME ServiceAssumption, ServiceInv, NEW i \in Daemons, NEW s \in {"udp", "timers"}, Enter(i, s),
         stage[i] \in {"api", "udp"}, HasUdp(i) \/ \A j \in Daemons : ~HasUdp(j),
         UNCHANGED <<fileVars, clientVars>>
  PROVE  ServiceInv'
<1>1. /\ stage' \in [Daemons -> Stages]
      /\ stage'[i] = s /\ \A j \in Daemons : j # i => stage'[j] = stage[j]
      /\ UNCHANGED <<config, fds, reading>>
  BY EnterTypes DEF ServiceInv, Stages
<1>2. \A j \in Daemons : (Serves(j)' <=> Serves(j)) /\ (Starting(j)' <=> Starting(j))
  BY <1>1 DEF Serves, Starting
<1>3. \A j \in Daemons : HasUdp(j)' => HasUdp(j) \/ j = i
  BY <1>1 DEF HasUdp
<1>4. TypeOK'
  BY <1>1 DEF ServiceInv, TypeOK, clientVars, fileVars
<1>5. OneUdp'
  BY <1>3 DEF ServiceInv, OneUdp
<1>6. OneStarting' /\ StartingUnnamed'
  BY <1>2 DEF ServiceInv, OneStarting, StartingUnnamed, fileVars
<1>7. StartingReached'
  BY <1>1 DEF ServiceInv, StartingReached, fileVars
<1>8. NamedIsReached'
  BY <1>2 DEF ServiceInv, NamedIsReached, Serves, fileVars
<1> QED
  BY <1>4, <1>5, <1>6, <1>7, <1>8 DEF ServiceInv

LEMMA UdpSocketInv ==
  ASSUME ServiceAssumption, ServiceInv, NEW i \in Daemons, UdpSocket(i)
  PROVE  ServiceInv'
<1>1. CASE \E j \in Daemons : HasUdp(j)
  BY <1>1, EndInv DEF UdpSocket, fileVars
<1>2. CASE \A j \in Daemons : ~HasUdp(j)
  BY <1>2, FurtherInv DEF UdpSocket
<1> QED
  BY <1>1, <1>2

LEMMA TimersInv ==
  ASSUME ServiceAssumption, ServiceInv, NEW i \in Daemons, Timers(i)
  PROVE  ServiceInv'
<1>1. stage[i] = "udp" /\ HasUdp(i) /\ UNCHANGED <<fileVars, clientVars>>
  BY DEF Timers, HasUdp
<1>2. Enter(i, "timers") \/ End(i, "failed")
  BY DEF Timers
<1>3. CASE Enter(i, "timers")
  BY <1>1, <1>3, FurtherInv
<1>4. CASE End(i, "failed")
  BY <1>1, <1>4, EndInv DEF fileVars
<1> QED
  BY <1>2, <1>3, <1>4

\* Who writes the pid file has the UDP port: nobody else serves.
LEMMA WritePidInv ==
  ASSUME ServiceAssumption, ServiceInv, NEW i \in Daemons, WritePid(i)
  PROVE  ServiceInv'
<1>1. CASE config[i].pid_file
  <2>1. Enter(i, "serving") /\ pidFile' = Overwrite(pidFile, Pid[i]) /\ stage[i] = "timers"
        /\ apiFile' = apiFile /\ UNCHANGED clientVars
    BY <1>1 DEF WritePid
  <2>2. /\ stage' \in [Daemons -> Stages]
        /\ stage'[i] = "serving" /\ \A j \in Daemons : j # i => stage'[j] = stage[j]
        /\ UNCHANGED <<config, fds, reading>>
    BY <2>1, EnterTypes DEF ServiceInv, Stages
  <2>3. pidFile' \in Seq(0 .. 9)
    <3>1. pidFile \in Seq(0 .. 9) /\ Pid[i] \in Seq(0 .. 9)
      BY DEF ServiceInv, TypeOK, ServiceAssumption
    <3> QED
      BY <2>1, <3>1, OverwriteBegins
  <2>4. TypeOK'
    BY <2>1, <2>2, <2>3 DEF ServiceInv, TypeOK, clientVars
  <2>5. HasUdp(i) /\ Starting(i) /\ apiFile = i
    BY <2>1 DEF HasUdp, Starting, ServiceInv, StartingReached
  <2>6. \A j \in Daemons : j # i => ~HasUdp(j) /\ ~Starting(j)
    BY <2>5 DEF ServiceInv, OneUdp, OneStarting
  <2>7. \A j \in Daemons : j # i => ~HasUdp(j)' /\ ~Starting(j)' /\ ~Serves(j)'
    BY <2>2, <2>6 DEF HasUdp, Starting, Serves
  <2>8. ~Starting(i)'
    BY <2>2 DEF Starting
  <2>9. OneUdp' /\ OneStarting' /\ StartingUnnamed'
    BY <2>7, <2>8 DEF OneUdp, OneStarting, StartingUnnamed
  <2>10. StartingReached'
    BY <2>7, <2>8 DEF StartingReached, Starting
  <2>11. NamedIsReached'
    BY <2>1, <2>5, <2>7 DEF NamedIsReached, Serves
  <2> QED
    BY <2>4, <2>9, <2>10, <2>11 DEF ServiceInv
<1> QED
  BY <1>1, EndInv DEF WritePid

LEMMA PanicInv ==
  ASSUME ServiceAssumption, ServiceInv, NEW i \in Daemons, Panic(i)
  PROVE  ServiceInv'
<1>1. Enter(i, "deaf") /\ stage[i] = "serving" /\ UNCHANGED <<fileVars, clientVars>>
  BY DEF Panic
<1>2. /\ stage' \in [Daemons -> Stages]
      /\ stage'[i] = "deaf" /\ \A j \in Daemons : j # i => stage'[j] = stage[j]
      /\ UNCHANGED <<config, fds, reading>>
  BY <1>1, EnterTypes DEF ServiceInv, Stages
<1>3. \A j \in Daemons : (Serves(j)' <=> Serves(j)) /\ (HasUdp(j)' <=> HasUdp(j))
                         /\ (Starting(j)' <=> Starting(j))
  BY <1>1, <1>2 DEF Serves, HasUdp, Starting
<1>4. TypeOK'
  BY <1>1, <1>2 DEF ServiceInv, TypeOK, clientVars, fileVars
<1>5. OneUdp' /\ OneStarting' /\ StartingUnnamed'
  BY <1>1, <1>3 DEF ServiceInv, OneUdp, OneStarting, StartingUnnamed, fileVars
<1>6. StartingReached'
  BY <1>1, <1>2 DEF ServiceInv, StartingReached, fileVars
<1>7. NamedIsReached'
  BY <1>1, <1>3 DEF ServiceInv, NamedIsReached, Serves, fileVars
<1> QED
  BY <1>4, <1>5, <1>6, <1>7 DEF ServiceInv

-----------------------------------------------------------------------------
(* gaverd.sh *)

LEMMA ScriptStartInv ==
  ASSUME ServiceAssumption, ServiceInv, NEW i \in Daemons, ScriptStart(i)
  PROVE  ServiceInv'
<1>1. /\ stage[i] = "new" /\ Named = {} /\ \A j \in Daemons : ~Starting(j)
      /\ UNCHANGED <<fileVars, clientVars, kernelVars>>
  BY DEF ScriptStart
<1>2. /\ stage' \in [Daemons -> Stages]
      /\ stage'[i] = "config" /\ \A j \in Daemons : j # i => stage'[j] = stage[j]
  BY DEF ScriptStart, ServiceInv, TypeOK, Stages
<1>3. config' \in [Daemons -> Configs \cup {None}]
  BY DEF ScriptStart, ServiceInv, TypeOK
<1>4. TypeOK'
  BY <1>1, <1>2, <1>3 DEF ServiceInv, TypeOK, fileVars, clientVars, kernelVars
<1>5. \A j \in Daemons : (Serves(j)' <=> Serves(j)) /\ (HasUdp(j)' <=> HasUdp(j))
                         /\ (Starting(j)' => j = i)
  BY <1>1, <1>2 DEF Serves, HasUdp, Starting
<1>6. OneUdp' /\ OneStarting'
  BY <1>5 DEF ServiceInv, OneUdp, OneStarting
<1>7. StartingReached'
  BY <1>1, <1>2 DEF ServiceInv, StartingReached, fileVars
<1>8. \A j \in Daemons : Serves(j) => Pid[j] # pidFile
  BY <1>1 DEF Named, Alive, Serves
<1>9. StartingUnnamed'
  BY <1>1, <1>5, <1>8 DEF StartingUnnamed, fileVars
<1>10. NamedIsReached'
  BY <1>1, <1>5 DEF ServiceInv, NamedIsReached, Serves, fileVars
<1> QED
  BY <1>4, <1>6, <1>7, <1>9, <1>10 DEF ServiceInv

LEMMA ScriptStopInv ==
  ASSUME ServiceAssumption, ServiceInv, ScriptStop
  PROVE  ServiceInv'
  BY EndInv DEF ScriptStop, Named

-----------------------------------------------------------------------------
(* Clients and the kernel's side of them change neither daemons nor files. *)

LEMMA QuietInv ==
  ASSUME ServiceInv, TypeOK', UNCHANGED <<daemonVars, fileVars>>
  PROVE  ServiceInv'
  BY DEF ServiceInv, OneUdp, HasUdp, OneStarting, Starting, StartingReached, StartingUnnamed,
         Serves, NamedIsReached, daemonVars, fileVars

LEMMA ClientInv ==
  ASSUME ServiceAssumption, ServiceInv, NEW c \in Clients, Client(c)
  PROVE  ServiceInv'
<1>1. UNCHANGED <<daemonVars, fileVars>>
  BY DEF Client, Dial, WritePart, WriteRest, HangUp, ConnectionLost
<1>2. UNCHANGED kernelVars
  BY DEF Client, Dial, WritePart, WriteRest, HangUp, ConnectionLost
<1>3. /\ on' \in [Clients -> Daemons \cup {None}]
      /\ request' \in [Clients -> {"none", "idle", "part", "waiting", "answered", "unanswered", "refused", "gone"}]
      /\ accepted' \subseteq Clients
      /\ \A i \in Daemons : reading[i] = None \/ reading[i] \in accepted'
  BY DEF Client, Dial, WritePart, WriteRest, HangUp, ConnectionLost, Goes, ServiceInv, TypeOK
<1>4. TypeOK'
  BY <1>1, <1>2, <1>3 DEF ServiceInv, TypeOK, daemonVars, fileVars, kernelVars
<1> QED
  BY <1>1, <1>4, QuietInv

LEMMA KernelInv ==
  ASSUME ServiceAssumption, ServiceInv, NEW i \in Daemons, NEW c \in Clients, Kernel(i, c)
  PROVE  ServiceInv'
<1>1. UNCHANGED <<daemonVars, fileVars>> /\ on' = on
  BY DEF Kernel, AcceptClient, ReadBegin, ReadEnd, clientVars
<1>2. CASE AcceptClient(i, c)
  <2>1. fds[i] + 1 \in 0 .. MaxFds
    <3>1. MaxFds \in Nat
      BY DEF ServiceAssumption
    <3>2. fds[i] \in 0 .. MaxFds /\ fds[i] < MaxFds
      BY <1>2 DEF AcceptClient, ServiceInv, TypeOK
    <3> QED
      BY <3>1, <3>2
  <2> QED
    <3>1. fds' \in [Daemons -> 0 .. MaxFds]
      BY <1>2, <2>1 DEF AcceptClient, ServiceInv, TypeOK
    <3>2. /\ accepted' \subseteq Clients
          /\ \A j \in Daemons : reading'[j] = None \/ reading'[j] \in accepted'
          /\ UNCHANGED <<on, request, reading>>
      BY <1>2 DEF AcceptClient, ServiceInv, TypeOK
    <3>3. TypeOK'
      BY <1>1, <3>1, <3>2 DEF ServiceInv, TypeOK, daemonVars, fileVars
    <3> QED
      BY <1>1, <3>3, QuietInv
<1>3. CASE ReadBegin(i, c)
  <2>1. TypeOK'
    BY <1>1, <1>3 DEF ReadBegin, ServiceInv, TypeOK, daemonVars, fileVars, clientVars
  <2> QED
    BY <1>1, <2>1, QuietInv
<1>4. CASE ReadEnd(i, c)
  <2>1. request' \in [Clients -> {"none", "idle", "part", "waiting", "answered", "unanswered", "refused", "gone"}]
    BY <1>4 DEF ReadEnd, do_socket_request, Goes, ServiceInv, TypeOK
  <2>2. \A j \in Daemons : reading'[j] = None \/ reading'[j] = reading[j]
    BY <1>4 DEF ReadEnd, ServiceInv, TypeOK
  <2>3. accepted' = accepted /\ fds' = fds
    BY <1>4 DEF ReadEnd
  <2>4. TypeOK'
    BY <1>1, <2>1, <2>2, <2>3 DEF ServiceInv, TypeOK, daemonVars, fileVars
  <2> QED
    BY <1>1, <2>4, QuietInv
<1> QED
  BY <1>2, <1>3, <1>4 DEF Kernel

-----------------------------------------------------------------------------

LEMMA NextInv == ServiceAssumption /\ ServiceInv /\ [Next]_vars => ServiceInv'
<1> SUFFICES ASSUME ServiceAssumption, ServiceInv, [Next]_vars PROVE ServiceInv'
  OBVIOUS
<1>1. CASE Admin
  BY <1>1, ScriptStartInv, ScriptStopInv DEF Admin
<1>2. ASSUME NEW i \in Daemons, StartUp(i) \/ Panic(i) \/ Crash(i) PROVE ServiceInv'
  <2>1. CASE Crash(i)
    BY <2>1, EndInv DEF Crash, fileVars
  <2> QED
    BY <1>2, <2>1, ApiSocketInv, UdpSocketInv, TimersInv, WritePidInv, PanicInv DEF StartUp
<1>3. ASSUME NEW c \in Clients, Client(c) PROVE ServiceInv'
  BY <1>3, ClientInv
<1>4. ASSUME NEW i \in Daemons, NEW c \in Clients, Kernel(i, c) PROVE ServiceInv'
  BY <1>4, KernelInv
<1>5. CASE UNCHANGED vars
  <2>1. TypeOK'
    BY <1>5 DEF vars, ServiceInv, TypeOK
  <2> QED
    BY <1>5, <2>1, QuietInv DEF vars, daemonVars, fileVars
<1> QED
  BY <1>1, <1>2, <1>3, <1>4, <1>5 DEF Next

LEMMA InvAlways == Spec => []ServiceInv
<1>1. Init => ServiceInv
  <2> SUFFICES ASSUME Init PROVE ServiceInv
    OBVIOUS
  <2>1. pidFile \in Seq(0 .. 9)
    BY EmptySeq DEF Init
  <2>2. TypeOK
    <3>1. 0 \in 0 .. MaxFds
      BY ServiceAssumption
    <3> QED
      BY <2>1, <3>1 DEF Init, TypeOK, Stages
  <2> QED
    BY <2>2 DEF Init, ServiceInv, OneUdp, HasUdp, OneStarting, Starting, StartingReached,
                StartingUnnamed, Serves, NamedIsReached
<1>2. ServiceInv /\ [Next]_vars => ServiceInv'
  BY NextInv, ServiceAssumption
<1> QED
  BY <1>1, <1>2, PTL DEF Spec

-----------------------------------------------------------------------------
(* The pid file *)

\* Of a step that leaves the file alone, writes it, or removes it.
LEMMA PidFileStep ==
  ASSUME ServiceAssumption, ServiceInv, [Next]_vars, NEW i \in Daemons, Serves(i)', Serves(i) => Begins(i)
  PROVE  Begins(i)' \/ \E j \in Daemons \ {i} : StopsStartUp(j)
<1> DEFINE Kept == pidFile' = pidFile /\ \A j \in Daemons : Serves(j)' => Serves(j)
           Goal == Begins(i)' \/ \E j \in Daemons \ {i} : StopsStartUp(j)
<1>1. ASSUME Kept PROVE Goal
  BY <1>1 DEF Begins
<1>2. ASSUME NEW j \in Daemons, WritePid(j), config[j].pid_file PROVE Goal
  <2>1. Enter(j, "serving") /\ pidFile' = Overwrite(pidFile, Pid[j]) /\ stage[j] = "timers"
    BY <1>2 DEF WritePid
  <2>2. \A k \in Daemons : k # j => stage'[k] = stage[k]
    BY <2>1, EnterTypes DEF ServiceInv, Stages
  <2>3. \A k \in Daemons : k # j => ~HasUdp(k)
    BY <2>1 DEF ServiceInv, OneUdp, HasUdp
  <2>4. i = j
    BY <2>2, <2>3 DEF HasUdp, Serves
  <2>5. BeginsWith(Overwrite(pidFile, Pid[j]), Pid[j])
    <3>1. pidFile \in Seq(0 .. 9) /\ Pid[j] \in Seq(0 .. 9)
      BY DEF ServiceInv, TypeOK, ServiceAssumption
    <3> QED
      BY <3>1, OverwriteBegins
  <2> QED
    BY <2>1, <2>4, <2>5 DEF Begins, BeginsWith
<1>3. ASSUME NEW j \in Daemons, NEW s \in {"failed", "dead"}, End(j, s), pidFile' = pidFile
      PROVE  Kept
  BY <1>3, EndTypes DEF ServiceInv, Stages, Serves
\* Who is stopped is not i, which serves on, and so has not the port: it is on
\* its way there.
<1>4. ASSUME ScriptStop PROVE Goal
  <2>1. PICK j \in Named : End(j, "dead")
    BY <1>4 DEF ScriptStop
  <2>2. j \in Daemons /\ Alive(j) /\ Pid[j] = pidFile
    BY DEF Named
  <2>3. /\ stage'[j] = "dead"
        /\ \A k \in Daemons : k # j => stage'[k] = stage[k]
    BY <2>1, <2>2, EndTypes DEF ServiceInv, Stages
  <2>4. i # j /\ Serves(i)
    BY <2>3 DEF Serves
  <2>5. ~Serves(j)
    BY <2>2, <2>4 DEF ServiceInv, OneUdp, HasUdp, Serves
  <2>6. Starting(j)
    BY <2>2, <2>5 DEF Alive, Serves, Starting, ServiceInv, TypeOK, Stages
  <2> QED
    <3>1. StopsStartUp(j) /\ j \in Daemons \ {i}
      BY <2>2, <2>3, <2>4, <2>6 DEF StopsStartUp
    <3> QED
      BY <3>1
<1>5. ASSUME NEW j \in Daemons, NEW s \in {"api", "udp", "timers"}, Enter(j, s), pidFile' = pidFile
      PROVE  Kept
  <2>1. stage'[j] = s /\ \A k \in Daemons : k # j => stage'[k] = stage[k]
    BY <1>5, EnterTypes DEF ServiceInv, Stages
  <2> QED
    BY <1>5, <2>1 DEF Serves
<1>6. ASSUME NEW j \in Daemons, Panic(j) PROVE Kept
  <2>1. Enter(j, "deaf") /\ stage[j] = "serving" /\ pidFile' = pidFile
    BY <1>6 DEF Panic, fileVars
  <2> QED
    BY <2>1, EnterTypes DEF ServiceInv, Stages, Serves
<1>7. ASSUME NEW j \in Daemons, ScriptStart(j) PROVE Kept
  BY <1>7 DEF ScriptStart, ServiceInv, TypeOK, Serves, fileVars
<1>8. ASSUME UNCHANGED <<daemonVars, fileVars>> PROVE Kept
  BY <1>8 DEF daemonVars, fileVars, Serves
<1> HIDE DEF Kept, Goal
<1>9. ASSUME NEW j \in Daemons, StartUp(j) PROVE Goal
  <2>1. CASE ApiSocket(j)
    BY <1>1, <1>3, <1>5, <2>1 DEF ApiSocket
  <2>2. CASE UdpSocket(j)
    BY <1>1, <1>3, <1>5, <2>2 DEF UdpSocket, fileVars
  <2>3. CASE Timers(j)
    BY <1>1, <1>3, <1>5, <2>3 DEF Timers, fileVars
  <2>4. CASE WritePid(j)
    BY <1>1, <1>2, <1>3, <2>4 DEF WritePid
  <2> QED
    BY <1>9, <2>1, <2>2, <2>3, <2>4 DEF StartUp
<1>10. ASSUME NEW j \in Daemons, Crash(j) PROVE Goal
  BY <1>1, <1>3, <1>10 DEF Crash, fileVars
<1>11. ASSUME NEW c \in Clients, Client(c) PROVE Goal
  BY <1>1, <1>8, <1>11 DEF Client, Dial, WritePart, WriteRest, HangUp, ConnectionLost
<1>12. ASSUME NEW j \in Daemons, NEW c \in Clients, Kernel(j, c) PROVE Goal
  <2>1. UNCHANGED <<daemonVars, fileVars>>
    BY <1>12 DEF Kernel, AcceptClient, ReadBegin, ReadEnd
  <2> QED
    BY <1>1, <1>8, <2>1
<1>13. ASSUME UNCHANGED vars PROVE Goal
  BY <1>1, <1>8, <1>13 DEF vars, daemonVars, fileVars
<1>14. Goal
  BY <1>1, <1>4, <1>6, <1>7, <1>9, <1>10, <1>11, <1>12, <1>13 DEF Next, Admin
<1> QED
  BY <1>14 DEF Goal

-----------------------------------------------------------------------------

\* main(), the script and the clients keep their types, for any number of
\* start-ups and clients.
THEOREM ServiceTypeCorrect == Spec => []TypeOK
<1>1. ServiceInv => TypeOK
  BY DEF ServiceInv
<1> QED
  BY <1>1, InvAlways, PTL

\* As long as the pid file names a daemon that serves, clients reach that daemon,
\* although every start-up unlinks the API path before it knows whether the
\* port is free.
THEOREM NamedCorrect == Spec => []NamedIsReached
<1>1. ServiceInv => NamedIsReached
  BY DEF ServiceInv
<1> QED
  BY <1>1, InvAlways, PTL

\* Whatever the pids are, the daemon that serves has its own at the beginning of the
\* pid file from writepid() on, until a stop removes the file with a start-up that
\* has the name an older pid left in it.
THEOREM PidFileCorrect == Spec => PidFileKept
<1>1. ServiceInv /\ [Next]_vars
        => [\A i \in Daemons : Serves(i)' /\ (Serves(i) => Begins(i)) =>
              Begins(i)' \/ \E j \in Daemons \ {i} : StopsStartUp(j)]_vars
  BY PidFileStep, ServiceAssumption
<1> QED
  BY <1>1, InvAlways, PTL DEF Spec, PidFileKept

\* A start-up fails for its command line or because another daemon runs, for
\* any number of start-ups: what is left behind never keeps one from starting.
THEOREM FailsCorrect == Spec => FailsForCause
<1>1. ASSUME ServiceInv, [Next]_vars, NEW i \in Daemons, stage'[i] = "failed", stage[i] # "failed"
      PROVE  Misconfigured(config[i]) \/ \E j \in Daemons \ {i} : Alive(j)
  <2>1. ASSUME NEW j \in Daemons, NEW s \in Stages, Enter(j, s), s # "failed" PROVE FALSE
    BY <1>1, <2>1, EnterTypes DEF ServiceInv
  <2>2. ASSUME NEW j \in Daemons, NEW s \in Stages, End(j, s) PROVE j = i /\ s = "failed"
    BY <1>1, <2>2, EndTypes, ServiceAssumption DEF ServiceInv
  <2>3. ~UNCHANGED stage
    BY <1>1
  <2>4. PICK j \in Daemons : StartUp(j) \/ Panic(j) \/ Crash(j) \/ ScriptStart(j) \/ ScriptStop
    BY <1>1, <2>3 DEF Next, vars, Admin, Client, Dial, WritePart, WriteRest, HangUp, ConnectionLost,
                      Kernel, AcceptClient, ReadBegin, ReadEnd, daemonVars
  <2>5. ~Panic(j) /\ ~Crash(j) /\ ~ScriptStop
    BY <2>1, <2>2 DEF Panic, Crash, ScriptStop, Named, Stages
  <2>6. ~ScriptStart(j)
    BY <1>1 DEF ScriptStart, ServiceInv, TypeOK
  <2>7. CASE ApiSocket(j)
    BY <2>1, <2>2, <2>7 DEF ApiSocket, Misconfigured, Stages
  <2>8. CASE UdpSocket(j)
    <3>1. j = i /\ stage[i] = "api" /\ \E k \in Daemons : HasUdp(k)
      BY <2>1, <2>2, <2>8 DEF UdpSocket, Stages
    <3> QED
      BY <3>1 DEF HasUdp, Alive
  <2>9. CASE Timers(j)
    <3>1. j = i /\ ~(PacketsPerSecond(config[i].overal_bps) >= 2)
      BY <2>1, <2>2, <2>9 DEF Timers, Stages
    <3> QED
      BY <3>1 DEF Misconfigured
  <2>10. CASE WritePid(j)
    BY <2>1, <2>2, <2>10 DEF WritePid, Misconfigured, Stages
  <2> QED
    BY <2>4, <2>5, <2>6, <2>7, <2>8, <2>9, <2>10 DEF StartUp
<1>2. ServiceInv /\ [Next]_vars
        => [\A i \in Daemons : stage'[i] = "failed" /\ stage[i] # "failed" =>
              Misconfigured(config[i]) \/ \E j \in Daemons \ {i} : Alive(j)]_vars
  BY <1>1
<1> QED
  BY <1>2, InvAlways, PTL DEF Spec, FailsForCause
=============================================================================
