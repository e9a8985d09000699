------------------------------ MODULE Service ------------------------------
(***************************************************************************)
(* The service as its administrator and its clients see it: gvd from       *)
(* main() to kernel() (gvd.c, configk.c, sockopt.c), the init script that  *)
(* starts and stops it (gaverd.sh), the files it leaves behind, and the    *)
(* requests of the client library (libgv.c, common.c) that the kernel's    *)
(* loop reads.                                                             *)
(*                                                                         *)
(* gvd may crash at any time, and the kernel may panic, which does not end *)
(* the process.  Daemons are numbered in the order of their start.         *)
(***************************************************************************)
EXTENDS Integers, Sequences

CONSTANTS
  Daemons,  \* 1 .. a bound: the times gvd is started
  Clients,  \* the connections of client programs
  None,     \* no daemon, no client
  Pid,      \* [Daemons -> Seq(0 .. 9)]: what getpid() prints
  Configs,  \* the command lines: which paths are there, and the speed
  DFL_MTU,  \* defs.h
  MaxFds    \* a bound: the connections a daemon has descriptors for

ASSUME ServiceAssumption ==
  /\ Daemons \subseteq Nat
  /\ None \notin Daemons \cup Clients
  /\ \A i \in Daemons : Pid[i] \in Seq(0 .. 9) /\ Pid[i] # <<>>
  /\ \A i, j \in Daemons : Pid[i] = Pid[j] => i = j
  /\ Configs \subseteq [port : BOOLEAN, listen_api : BOOLEAN, pid_file : BOOLEAN, overal_bps : Nat]
  /\ None \notin Configs
  /\ DFL_MTU \in Nat \ {0}
  /\ MaxFds \in Nat

VARIABLES
  stage,    \* how far main() of a daemon got
  config,   \* the command line of a daemon
  apiFile,  \* the daemon whose socket the API path leads to, or None
  pidFile,  \* the digits in the pid file; <<>> when there is none
  on,       \* the daemon a client is connected to, or None
  accepted, \* the clients that new_sk() has accepted
  request,  \* how far a client is with its request
  fds,      \* descriptors a daemon has spent on clients
  reading   \* the client whose request a daemon's kernel is reading, or None

daemonVars == <<stage, config>>
fileVars == <<apiFile, pidFile>>
clientVars == <<on, accepted, request>>
kernelVars == <<fds, reading>>
vars == <<stage, config, apiFile, pidFile, on, accepted, request, fds, reading>>

Init ==
  /\ stage = [i \in Daemons |-> "new"]
  /\ config = [i \in Daemons |-> None]
  /\ apiFile = None
  /\ pidFile = <<>>
  /\ on = [c \in Clients |-> None]
  /\ accepted = {}
  /\ request = [c \in Clients |-> "none"]
  /\ fds = [i \in Daemons |-> 0]
  /\ reading = [i \in Daemons |-> None]

Alive(i) == stage[i] \notin {"new", "failed", "dead"}

\* The stages that have passed a socket() and bind() of main().
HasApi(i) == Alive(i) /\ stage[i] # "config"
HasUdp(i) == stage[i] \in {"udp", "timers", "serving", "deaf"}

-----------------------------------------------------------------------------
(* gvd.c: main() *)

Enter(i, s) == stage' = [stage EXCEPT ![i] = s] /\ UNCHANGED <<config, kernelVars>>

\* The process ends, with its descriptors; the files stay, on every exit path.
End(i, how) ==
  /\ stage' = [stage EXCEPT ![i] = how]
  /\ config' = [config EXCEPT ![i] = None]
  /\ fds' = [fds EXCEPT ![i] = 0]
  /\ reading' = [reading EXCEPT ![i] = None]

\* loadcfgk(): the port, the API path and the speed are mandatory; the check
\* of the pid file compares an array with NULL and lets everything pass.
loadcfgk(k) == k.port /\ k.listen_api /\ k.overal_bps # 0

\* A slip: unix_socket() without set_reuseaddr_unix().
ApiSocketOnce(i) ==
  /\ stage[i] = "config"
  /\ IF loadcfgk(config[i]) /\ apiFile = None
       THEN Enter(i, "api") /\ apiFile' = i
       ELSE End(i, "failed") /\ UNCHANGED apiFile
  /\ UNCHANGED <<pidFile, clientVars>>

\* unix_socket(): the socket that is found at the path is unlinked.
ApiSocket(i) ==
  /\ stage[i] = "config"
  /\ IF loadcfgk(config[i])
       THEN Enter(i, "api") /\ apiFile' = i
       ELSE End(i, "failed") /\ UNCHANGED apiFile
  /\ UNCHANGED <<pidFile, clientVars>>

\* The UDP port belongs to one process at a time, and so does the netstat
\* address unless -n gives it a path.
UdpSocket(i) ==
  /\ stage[i] = "api"
  /\ IF \E j \in Daemons : HasUdp(j) THEN End(i, "failed") ELSE Enter(i, "udp")
  /\ UNCHANGED <<fileVars, clientVars>>

\* realspeed() and getpksec(), which pktime() truncates before it divides: less
\* than one packet per second is a division by zero, and one is a timer of 10^9
\* nanoseconds, which timerfd_settime() refuses.
REAL_SPEED == 95
PacketsPerSecond(bps) == ((bps * REAL_SPEED) \div 100) \div (8 * DFL_MTU)

Timers(i) ==
  /\ stage[i] = "udp"
  /\ IF PacketsPerSecond(config[i].overal_bps) >= 2 THEN Enter(i, "timers") ELSE End(i, "failed")
  /\ UNCHANGED <<fileVars, clientVars>>

\* A slip: the pid is written behind what is there.
OverwriteAppends(old, new) == old \o new

Overwrite(old, new) == new \o SubSeq(old, Len(new) + 1, Len(old))

\* writepid(), which overwrites what is there and does not truncate it, then
\* kernel().  Without -P the path is empty and open() fails.
WritePid(i) ==
  /\ stage[i] = "timers"
  /\ IF config[i].pid_file
       THEN Enter(i, "serving") /\ pidFile' = Overwrite(pidFile, Pid[i])
       ELSE End(i, "failed") /\ UNCHANGED pidFile
  /\ UNCHANGED <<apiFile, clientVars>>

StartUp(i) == ApiSocket(i) \/ UdpSocket(i) \/ Timers(i) \/ WritePid(i)

\* PANIC() of the kernel prints and returns, and main() sleeps for ever.
Panic(i) ==
  /\ stage[i] = "serving"
  /\ reading[i] = None
  /\ Enter(i, "deaf")
  /\ UNCHANGED <<fileVars, clientVars>>

Crash(i) ==
  /\ Alive(i)
  /\ End(i, "dead")
  /\ UNCHANGED <<fileVars, clientVars>>

-----------------------------------------------------------------------------
(* gaverd.sh *)

\* start-stop-daemon: the processes that the pid file names.
Named == {i \in Daemons : Alive(i) /\ Pid[i] = pidFile}

Starting(j) == stage[j] \in {"config", "api", "udp", "timers"}

\* A slip: start without --pidfile.
ScriptStartAnyway(i) ==
  /\ stage[i] = "new"
  /\ \A j \in Daemons : ~Starting(j) /\ (j < i => stage[j] # "new")
  /\ stage' = [stage EXCEPT ![i] = "config"]
  /\ \E k \in Configs : config' = [config EXCEPT ![i] = k]
  /\ UNCHANGED <<fileVars, clientVars, kernelVars>>

\* start, by an administrator who lets one start-up come to its end before the
\* next.
ScriptStart(i) ==
  /\ stage[i] = "new"
  /\ \A j \in Daemons : ~Starting(j) /\ (j < i => stage[j] # "new")
  /\ Named = {}
  /\ stage' = [stage EXCEPT ![i] = "config"]
  /\ \E k \in Configs : config' = [config EXCEPT ![i] = k]
  /\ UNCHANGED <<fileVars, clientVars, kernelVars>>

\* stop: the pid file is removed when the process it names was there.
ScriptStop ==
  /\ pidFile' = <<>>
  /\ \E i \in Named : End(i, "dead")
  /\ UNCHANGED <<apiFile, clientVars>>

-----------------------------------------------------------------------------
(* libgv.c and common.c *)

\* A client connects through the API path, and may wait in the backlog.  It may
\* do so again when its former connection is forgotten.
Dial(c) ==
  /\ request[c] \in {"none", "gone"}
  /\ \A i \in Daemons : reading[i] # c
  /\ apiFile # None
  /\ HasApi(apiFile)
  /\ on' = [on EXCEPT ![c] = apiFile]
  /\ request' = [request EXCEPT ![c] = "idle"]
  /\ accepted' = accepted \ {c}
  /\ UNCHANGED <<daemonVars, fileVars, kernelVars>>

Connected(c) == on[c] # None /\ Alive(on[c])
Goes(c, r) == request' = [request EXCEPT ![c] = r]

\* write_msg() of a request, in pieces.
WritePart(c) ==
  /\ Connected(c)
  /\ request[c] = "idle"
  /\ Goes(c, "part")
  /\ UNCHANGED <<daemonVars, fileVars, on, accepted, kernelVars>>

WriteRest(c) ==
  /\ Connected(c)
  /\ request[c] = "part"
  /\ Goes(c, "waiting")
  /\ UNCHANGED <<daemonVars, fileVars, on, accepted, kernelVars>>

\* The program ends, or closes its connection.
HangUp(c) ==
  /\ on[c] # None
  /\ on' = [on EXCEPT ![c] = None]
  /\ Goes(c, "gone")
  /\ UNCHANGED <<daemonVars, fileVars, accepted, kernelVars>>

\* The daemon is gone.  A write fails; read_msg() returns 0, which the library
\* takes for an answer, and the cleared struct gv_rep_api for COMMAND_SUCCESS.
ConnectionLost(c) ==
  /\ on[c] # None /\ ~Alive(on[c])
  /\ request[c] \in {"idle", "part", "waiting", "unanswered"}
  /\ Goes(c, IF request[c] \in {"waiting", "unanswered"} THEN "answered" ELSE "refused")
  /\ UNCHANGED <<daemonVars, fileVars, on, accepted, kernelVars>>

-----------------------------------------------------------------------------
(* kernel.c: the events of the API socket and of the control connections *)

Looping(i) == stage[i] = "serving" /\ reading[i] = None

\* A slip: the result of accept() is not looked at.
AcceptClientUnchecked(i, c) ==
  /\ Looping(i)
  /\ on[c] = i
  /\ c \notin accepted
  /\ accepted' = accepted \cup {c}
  /\ fds' = [fds EXCEPT ![i] = @ + 1]
  /\ UNCHANGED <<daemonVars, fileVars, on, request, reading>>

\* new_sk(): when accept() fails with EMFILE the client waits on and the loop
\* goes on.
AcceptClient(i, c) ==
  /\ Looping(i)
  /\ on[c] = i
  /\ c \notin accepted
  /\ fds[i] < MaxFds
  /\ accepted' = accepted \cup {c}
  /\ fds' = [fds EXCEPT ![i] = @ + 1]
  /\ UNCHANGED <<daemonVars, fileVars, on, request, reading>>

\* read_msg() begins with the first byte of a request and blocks the kernel
\* until the last.
ReadBegin(i, c) ==
  /\ Looping(i)
  /\ on[c] = i
  /\ c \in accepted
  /\ request[c] \in {"part", "waiting"}
  /\ reading' = [reading EXCEPT ![i] = c]
  /\ UNCHANGED <<daemonVars, fileVars, clientVars, fds>>

\* The outcomes of a request: bind() and listen() are answered, and the failing
\* connect(); an accept() in another state, MSG_CLOSE and unknown requests get no
\* answer, and that of connect() and accept() is left to the handshake.
do_socket_request == {"answered", "unanswered"}

\* A slip: the end of the connection is taken for an interruption.
ReadEndWaits(i, c) ==
  /\ stage[i] = "serving"
  /\ reading[i] = c
  /\ on[c] = i /\ request[c] = "waiting"
  /\ \E r \in do_socket_request : Goes(c, r)
  /\ reading' = [reading EXCEPT ![i] = None]
  /\ UNCHANGED <<daemonVars, fileVars, on, accepted, fds>>

\* It ends with the request, or with the connection, which is watched no longer
\* and not closed.
ReadEnd(i, c) ==
  /\ stage[i] = "serving"
  /\ reading[i] = c
  /\ \/ /\ on[c] = i /\ request[c] = "waiting"
        /\ \E r \in do_socket_request : Goes(c, r)
     \/ /\ on[c] # i
        /\ UNCHANGED request
  /\ reading' = [reading EXCEPT ![i] = None]
  /\ UNCHANGED <<daemonVars, fileVars, on, accepted, fds>>

-----------------------------------------------------------------------------
Admin == ScriptStop \/ \E i \in Daemons : ScriptStart(i)
Client(c) == Dial(c) \/ WritePart(c) \/ WriteRest(c) \/ HangUp(c) \/ ConnectionLost(c)
Kernel(i, c) == AcceptClient(i, c) \/ ReadBegin(i, c) \/ ReadEnd(i, c)

Next ==
  \/ Admin
  \/ \E i \in Daemons : StartUp(i) \/ Panic(i) \/ Crash(i)
  \/ \E c \in Clients : Client(c)
  \/ \E i \in Daemons, c \in Clients : Kernel(i, c)

\* main() goes on; epoll_wait() returns all that is ready, so that no client
\* keeps another from its turn.
Spec ==
  /\ Init /\ [][Next]_vars
  /\ \A i \in Daemons : WF_vars(StartUp(i))
  /\ \A c \in Clients :
       /\ SF_vars(\E i \in Daemons : ReadBegin(i, c))
       /\ WF_vars(\E i \in Daemons : ReadEnd(i, c))

-----------------------------------------------------------------------------
Stages == {"new", "config", "api", "udp", "timers", "serving", "deaf", "failed", "dead"}

\* Type invariant.
TypeOK ==
  /\ stage \in [Daemons -> Stages]
  /\ config \in [Daemons -> Configs \cup {None}]
  /\ apiFile \in Daemons \cup {None}
  /\ pidFile \in Seq(0 .. 9)
  /\ on \in [Clients -> Daemons \cup {None}]
  /\ accepted \subseteq Clients
  /\ request \in [Clients -> {"none", "idle", "part", "waiting", "answered", "unanswered", "refused", "gone"}]
  /\ fds \in [Daemons -> 0 .. MaxFds]
  /\ \A i \in Daemons : reading[i] = None \/ reading[i] \in accepted

\* The daemon that holds the UDP port has its pid at the beginning of the file,
\* behind it at most the digits of an older and longer one: writepid() put it
\* there, and no failed start-up, crash or stop takes it away.  One stop may: what
\* an older pid left behind a new one may be the pid of a later start-up, and the
\* stop that ends this start-up removes the file.
Serves(i) == stage[i] \in {"serving", "deaf"}
Begins(i) == Len(pidFile) >= Len(Pid[i]) /\ SubSeq(pidFile, 1, Len(Pid[i])) = Pid[i]
StopsStartUp(j) == Starting(j) /\ Pid[j] = pidFile /\ stage'[j] = "dead"

PidFileKept ==
  [][\A i \in Daemons : Serves(i)' /\ (Serves(i) => Begins(i)) =>
       Begins(i)' \/ \E j \in Daemons \ {i} : StopsStartUp(j)]_vars

\* Whoever the pid file names is whom clients reach: as long as the script finds
\* the daemon, no other start-up has taken the API path from it.
NamedIsReached ==
  \A i \in Daemons : Serves(i) /\ Pid[i] = pidFile => apiFile = i

\* What a crashed, stopped or failed daemon leaves behind never keeps the next
\* one from starting: a start-up fails for its command line or because another
\* daemon runs.
Misconfigured(k) ==
  ~loadcfgk(k) \/ ~k.pid_file \/ ~(PacketsPerSecond(k.overal_bps) >= 2)

FailsForCause ==
  [][\A i \in Daemons : stage'[i] = "failed" /\ stage[i] # "failed" =>
       Misconfigured(config[i]) \/ \E j \in Daemons \ {i} : Alive(j)]_vars

\* The kernel gets round to every accepted client whose request is complete, as
\* long as the daemon serves, however many others wait for descriptors or hang up,
\* unless one of them stops in the middle of a request and the kernel with it.
\* That the request is then answered is more than the code promises (see
\* do_socket_request).
Pausing(d) == d # None /\ on[d] # None /\ request[d] = "part"

AcceptedAreRead ==
  \A c \in Clients :
    c \in accepted /\ request[c] = "waiting"
      ~> request[c] # "waiting" \/ stage[on[c]] # "serving" \/ Pausing(reading[on[c]])
=============================================================================
