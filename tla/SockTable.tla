----------------------------- MODULE SockTable -----------------------------
(***************************************************************************)
(* The kernel's table of sockets (sock.c) and what refers to its entries:  *)
(* the port table, the descriptors of the clients, the epoll set of        *)
(* kernel.c and the speed that new_sk() hands out.  One action per event   *)
(* that the kernel thread handles; what the control messages do to a       *)
(* socket is cut down to the states in which descriptors and ports matter  *)
(* (Handshake.tla has the rest).                                           *)
(*                                                                         *)
(* Nothing is ever given back: no code calls close_gvport_sk(), and no     *)
(* socket returns to so_free.                                              *)
(***************************************************************************)
EXTENDS Integers, Sequences, FiniteSets, Functions, FiniteSetsExt

CONSTANTS
  MAX_SOCKETS,  \* sock.h
  MAX_PORTS,    \* sock_var.h: the entries of sk_gvport, one less than there are ports
  WORD,         \* 2^64: the values of an u_int64_t
  Overal,       \* the configured values of overal_bps
  socket_bps,   \* Max Socket Speed
  MaxFd,        \* a bound: the descriptors that the process may open
  None          \* NULL

Socks == 1 .. MAX_SOCKETS
Fds == 1 .. MaxFd
NO_GVPORT == 0
Dummy == 0          \* the socket that keeps port NO_GVPORT taken
Words == 0 .. WORD - 1

ASSUME SockTableAssumption ==
  /\ MAX_SOCKETS \in Nat \ {0}
  /\ MAX_PORTS \in Nat
  /\ MAX_SOCKETS < MAX_PORTS
  /\ WORD \in Nat \ {0}
  /\ Overal \subseteq Words \ {0}
  /\ socket_bps \in Words
  /\ MaxFd \in Nat
  /\ None \notin Socks \cup {Dummy}

VARIABLES
  so_used, so_free,  \* the queues of sockets
  sktable,           \* struct sock
  sk_gvport,         \* the port table
  file,              \* what is open behind each descriptor
  watched,           \* the descriptors of clients in the epoll set
  overal_bps, free_bps,
  refused            \* history: the sockets made although no speed was left

queueVars == <<so_used, so_free>>
speedVars == <<overal_bps, free_bps, refused>>
vars == <<so_used, so_free, sktable, sk_gvport, file, watched, overal_bps, free_bps, refused>>

Used == Range(so_used)

\* GV_LISTEN stands for all the states of the accepting side.
States == {"GV_CLOSE", "GV_LISTEN", "GV_CONNECT_SENT", "GV_ESTABLISHED"}

\* A control connection whose client lives or has hung up, or a data connection.
Files == {"closed", "ctrl", "hung", "data"}

Sock(fd, state, gvport, speed) ==
  [so_loctrl |-> fd, so_state |-> state, so_local_gvport |-> gvport, so_speed |-> speed]

\* sk_gvport is indexed with a 16-bit port.  Entry MAX_PORTS lies behind the
\* array; what the linker leaves there, in front of so_used, is padding.
Ports == NO_GVPORT .. MAX_PORTS

Init ==
  /\ so_used = <<>>
  /\ so_free = [n \in Socks |-> n]
  /\ sktable = [s \in Socks |-> Sock(0, "GV_CLOSE", NO_GVPORT, 0)]
  /\ sk_gvport = [p \in Ports |-> IF p = NO_GVPORT THEN Dummy ELSE None]
  /\ file = [fd \in Fds |-> "closed"]
  /\ watched = {}
  /\ overal_bps \in Overal
  /\ free_bps = overal_bps
  /\ refused = {}

-----------------------------------------------------------------------------
(* new_sk(): a client connects to the API socket *)

\* The descriptor that accept() and socket() return: the lowest one.
Lowest(fd) == file[fd] = "closed" /\ \A g \in Fds : g < fd => file[g] # "closed"

Least(a, b) == IF a < b THEN a ELSE b

\* A slip: a socket gets the speed of a socket, whatever is left.
SpeedOfSocket == socket_bps

Speed == Least(free_bps, socket_bps)

\* A slip: getfreesock() looks at the socket and leaves it in so_free.
MakePeeked(fd, speed) ==
  /\ so_free # <<>>
  /\ so_used' = Append(so_used, Head(so_free))
  /\ UNCHANGED so_free
  /\ sktable' = [sktable EXCEPT ![Head(so_free)] = Sock(fd, "GV_CLOSE", NO_GVPORT, speed)]
  /\ free_bps' = (free_bps - speed) % WORD

\* getfreesock(), init_sock(), setusedsock() and the assignments.
Make(fd, speed) ==
  /\ so_free # <<>>
  /\ so_used' = Append(so_used, Head(so_free))
  /\ so_free' = Tail(so_free)
  /\ sktable' = [sktable EXCEPT ![Head(so_free)] = Sock(fd, "GV_CLOSE", NO_GVPORT, speed)]
  /\ free_bps' = (free_bps - speed) % WORD

NewSk(fd) ==
  /\ Lowest(fd)
  /\ free_bps > 0
  /\ Make(fd, Speed)
  /\ file' = [file EXCEPT ![fd] = "ctrl"]
  /\ watched' = watched \cup {fd}
  /\ UNCHANGED <<sk_gvport, overal_bps, refused>>

\* The client is told so and its descriptor closed, but the socket is made,
\* with the number of that descriptor and with a speed that nothing has set;
\* kevent_add_socket() fails on the closed descriptor.
NewSkNoSpeed(fd, speed) ==
  /\ Lowest(fd)
  /\ free_bps = 0
  /\ Make(fd, speed)
  /\ refused' = refused \cup {Head(so_free)}
  /\ UNCHANGED <<sk_gvport, file, watched, overal_bps>>

\* "Maximun Open Gv Socket Reached": the descriptor is closed.
NewSkRefused(fd) ==
  /\ Lowest(fd)
  /\ so_free = <<>>
  /\ UNCHANGED vars

-----------------------------------------------------------------------------
(* An event of a client *)

\* getsockbysoctrl(): the first used socket with that descriptor.
FoundFor(fd, s) ==
  \E i \in DOMAIN so_used :
    /\ so_used[i] = s
    /\ sktable[s].so_loctrl = fd
    /\ \A j \in 1 .. i - 1 : sktable[so_used[j]].so_loctrl # fd

\* A slip: kevent_del_socket() is not called.
HangUpWatched(fd) ==
  file' = [file EXCEPT ![fd] = "hung"] /\ UNCHANGED watched

\* EPOLLRDHUP or an error: kevent_del_socket().  Nothing closes the descriptor.
HangUp(fd) ==
  /\ file' = [file EXCEPT ![fd] = "hung"]
  /\ watched' = watched \ {fd}

\* The event of a request, which may also be the one that the client hung up.
Request(fd, s) ==
  /\ fd \in watched
  /\ FoundFor(fd, s)
  /\ HangUp(fd) \/ UNCHANGED <<file, watched>>
  /\ UNCHANGED <<so_used, so_free, overal_bps, free_bps, refused>>

\* A slip: a port that is in use is taken over.
BindTakesOver(s, p) ==
  /\ sk_gvport' = [sk_gvport EXCEPT ![p] = s]
  /\ sktable' = [sktable EXCEPT ![s].so_local_gvport = p]

\* bind_gvport()
bind_gvport(s, p) ==
  IF sk_gvport[p] = None
    THEN /\ sk_gvport' = [sk_gvport EXCEPT ![p] = s]
         /\ sktable' = [sktable EXCEPT ![s].so_local_gvport = p]
    ELSE UNCHANGED <<sktable, sk_gvport>>

Bind(fd, s, p) ==
  /\ Request(fd, s)
  /\ IF sktable[s].so_local_gvport = NO_GVPORT /\ sktable[s].so_state = "GV_CLOSE"
       THEN bind_gvport(s, p)
       ELSE UNCHANGED <<sktable, sk_gvport>>

Listen(fd, s) ==
  /\ Request(fd, s)
  /\ sktable[s].so_local_gvport # NO_GVPORT
  /\ sktable[s].so_state = "GV_CLOSE"
  /\ sktable' = [sktable EXCEPT ![s].so_state = "GV_LISTEN"]
  /\ UNCHANGED sk_gvport

\* A slip: the walk ends one port early.
FreePortEarly(p) ==
  p \in 1 .. MAX_PORTS - 2 /\ sk_gvport[p] = None /\ \A q \in 1 .. p - 1 : sk_gvport[q] # None

\* bind_free_gvport(): the walk through sk_gvport stops at the first free port.
\* It ends without one when it reaches MAX_PORTS; to pass that entry as well it
\* would take more sockets than there are.
FreePort(p) ==
  p \in 1 .. MAX_PORTS - 1 /\ sk_gvport[p] = None /\ \A q \in 1 .. p - 1 : sk_gvport[q] # None

\* connect() on a bound socket.  A socket in use is told that it fails, and
\* connects all the same.
ConnectBound(fd, s) ==
  /\ Request(fd, s)
  /\ sktable[s].so_local_gvport # NO_GVPORT
  /\ sktable' = [sktable EXCEPT ![s].so_state = "GV_CONNECT_SENT"]
  /\ UNCHANGED sk_gvport

\* The result of bind_free_gvport() is not looked at.
ConnectFree(fd, s) ==
  /\ Request(fd, s)
  /\ sktable[s].so_local_gvport = NO_GVPORT
  /\ IF \E p \in Ports : FreePort(p)
       THEN \E p \in Ports :
              /\ FreePort(p)
              /\ sk_gvport' = [sk_gvport EXCEPT ![p] = s]
              /\ sktable' = [sktable EXCEPT ![s].so_local_gvport = p,
                                            ![s].so_state = "GV_CONNECT_SENT"]
       ELSE /\ sktable' = [sktable EXCEPT ![s].so_state = "GV_CONNECT_SENT"]
            /\ UNCHANGED sk_gvport

Connect(fd, s) == ConnectBound(fd, s) \/ ConnectFree(fd, s)

\* Any other request, or none: read_msg() returns 0 when the client has gone.
OtherRequest(fd, s) == Request(fd, s) /\ UNCHANGED <<sktable, sk_gvport>>

-----------------------------------------------------------------------------
(* What control messages and timers do to a socket *)

\* do_socket_establish_connection(): unix_socket_client() opens the data
\* connection, or fails; the result is not looked at.
Establish(s) ==
  /\ s \in Used
  /\ sktable[s].so_state \in {"GV_LISTEN", "GV_CONNECT_SENT"}
  /\ sktable' = [sktable EXCEPT ![s].so_state = "GV_ESTABLISHED"]
  /\ \/ \E fd \in Fds : Lowest(fd) /\ file' = [file EXCEPT ![fd] = "data"]
     \/ UNCHANGED file
  /\ UNCHANGED <<so_used, so_free, sk_gvport, watched, overal_bps, free_bps, refused>>

\* A slip: the state is left as it is, so that the next error closes again.
ErrorResponseKeepsState(s) ==
  /\ s \in Used
  /\ sktable[s].so_state = "GV_CONNECT_SENT"
  /\ file' = [file EXCEPT ![sktable[s].so_loctrl] = "closed"]
  /\ watched' = watched \ {sktable[s].so_loctrl}
  /\ UNCHANGED <<so_used, so_free, sktable, sk_gvport, overal_bps, free_bps, refused>>

\* do_socket_error_response(): close() takes the descriptor out of the epoll
\* set; so_loctrl keeps its number.
ErrorResponse(s) ==
  /\ s \in Used
  /\ sktable[s].so_state = "GV_CONNECT_SENT"
  /\ sktable' = [sktable EXCEPT ![s].so_state = "GV_CLOSE"]
  /\ file' = [file EXCEPT ![sktable[s].so_loctrl] = "closed"]
  /\ watched' = watched \ {sktable[s].so_loctrl}
  /\ UNCHANGED <<so_used, so_free, sk_gvport, overal_bps, free_bps, refused>>

Next ==
  \/ \E fd \in Fds :
       \/ NewSk(fd)
       \/ \E speed \in Words : NewSkNoSpeed(fd, speed)
       \/ NewSkRefused(fd)
  \/ \E fd \in Fds, s \in Socks :
       \/ \E p \in Ports : Bind(fd, s, p)
       \/ Listen(fd, s)
       \/ Connect(fd, s)
       \/ OtherRequest(fd, s)
  \/ \E s \in Socks : Establish(s) \/ ErrorResponse(s)

Spec == Init /\ [][Next]_vars

-----------------------------------------------------------------------------
(* Properties *)

SockType ==
  [so_loctrl : Fds \cup {0}, so_state : States, so_local_gvport : Ports, so_speed : Words]

\* Types; every socket is in one of the two queues, once.
TypeOK ==
  /\ so_used \in Seq(Socks) /\ so_free \in Seq(Socks)
  /\ sktable \in [Socks -> SockType]
  /\ sk_gvport \in [Ports -> Socks \cup {Dummy, None}]
  /\ file \in [Fds -> Files]
  /\ watched \subseteq Fds
  /\ overal_bps \in Words /\ free_bps \in Words
  /\ refused \subseteq Used
  /\ \A s \in Used : sktable[s].so_loctrl \in Fds
  /\ \A i, j \in DOMAIN so_used : i # j => so_used[i] # so_used[j]
  /\ \A i, j \in DOMAIN so_free : i # j => so_free[i] # so_free[j]
  /\ Used \cap Range(so_free) = {}
  /\ Used \cup Range(so_free) = Socks

\* The port table and so_local_gvport say the same: what arrives for a port, and
\* what comes back from the output thread with it as its source, reaches the one
\* socket that has the port.  Entry NO_GVPORT belongs to no socket.
PortsOwned ==
  /\ sk_gvport[NO_GVPORT] = Dummy
  /\ \A s \in Socks, p \in Ports \ {NO_GVPORT} :
       sk_gvport[p] = s <=> s \in Used /\ sktable[s].so_local_gvport = p
  /\ \A p \in Ports \ {NO_GVPORT} : sk_gvport[p] # Dummy

\* Descriptors are used again, and several sockets may hold the same number.  A
\* socket that listens, connects or is connected still has a control connection
\* of its own: its replies go to its client and do_socket_error_response()
\* closes nothing that belongs to another.
ControlOwned ==
  \A s \in Used : sktable[s].so_state # "GV_CLOSE" =>
    /\ file[sktable[s].so_loctrl] \in {"ctrl", "hung"}
    /\ FoundFor(sktable[s].so_loctrl, s)

\* The epoll set holds the clients that are connected and no others, and each of
\* their events finds a socket: no client is left without an answer because
\* nobody listens to it, and no event is found again in every pass of the loop
\* because nobody handles it.
EventsServed ==
  /\ watched = {fd \in Fds : file[fd] = "ctrl"}
  /\ \A fd \in watched : \E s \in Used : sktable[s].so_loctrl = fd

\* What new_sk() hands out adds up to overal_bps, and no socket gets more than
\* socket_bps, until a client finds no speed left; from then on the sum is right
\* in the arithmetic of u_int64_t only.
SpeedAccounted ==
  LET given == MapThenSumSet(LAMBDA s : sktable[s].so_speed, Used) IN
    /\ (free_bps + given) % WORD = overal_bps
    /\ refused = {} => /\ free_bps + given = overal_bps
                       /\ \A s \in Used : sktable[s].so_speed <= socket_bps

\* bind_free_gvport() "should not fail", as the comment in MSG_CONNECT says: no
\* socket connects, or does anything else, without a port.
BusyHasPort ==
  \A s \in Used : sktable[s].so_state # "GV_CLOSE" => sktable[s].so_local_gvport # NO_GVPORT
=============================================================================
