---------------------------- MODULE ServerSocket ----------------------------
(***************************************************************************)
(* inet_server_socket (io_inet_server_socket.hpp) and fd_owner (io_fd.hpp) *)
(* as main of bin/http_echo.cpp and accept_connection use them: the server *)
(* sockets are made one after the other, each takes the first port of a    *)
(* range that it can bind, then connections are accepted.  Every call of   *)
(* the system may fail; the exception destroys what has been made.         *)
(*                                                                         *)
(* A connection on its way into the registry has three owners, one after   *)
(* the other: the fd_owner in inet_server_socket::accept, the              *)
(* inet_connection in accept_connection, and the session in the            *)
(* connection_event_handler that is handed to add.                         *)
(*                                                                         *)
(* Descriptors and ports belong to the kernel; other processes take ports  *)
(* and give them back at any time.                                         *)
(***************************************************************************)
EXTENDS Integers, FiniteSets

CONSTANTS
  Fds,         \* the descriptors that the process may have: RLIMIT_NOFILE
  NumServers,  \* server sockets that main makes
  Limited,     \* those of them that have a conn_send_size
  FirstPort,   \* ports_to_try, from here ...
  EndPort,     \* ... to before this
  PortSpace,   \* 2^16
  Other        \* another process

ASSUME PortsAssumption ==
  /\ PortSpace \in Nat
  /\ FirstPort \in 1..PortSpace
  /\ EndPort \in FirstPort..PortSpace
ASSUME ServersAssumption ==
  /\ NumServers \in Nat \ {0}
  /\ Limited \subseteq 1..NumServers
ASSUME FdsAssumption ==
  /\ IsFiniteSet(Fds) /\ 0 \notin Fds /\ Other \notin Fds \cup {0}

Servers == 1..NumServers
Owners == {"fd_owner", "connection", "session"}
NoFd == 0       \* fd_ref{nullptr}
Free == 0       \* a port that nobody has
Ports == 0..(PortSpace - 1)

VARIABLES
  pc,       \* where the thread is
  current,  \* the server socket that it is busy with
  port,     \* the port to try next, as an int
  sock,     \* m_fd of the server sockets
  m_port,   \* m_port of the server sockets
  owner,    \* what the owners of a connection on its way hold
  conns,    \* descriptors of the connections in the registry
  open,     \* kernel: open descriptors of the process
  bound     \* kernel: who has a port

objects == <<sock, m_port, owner, conns>>
kernel == <<open, bound>>
vars == <<pc, current, port, objects, kernel>>

Init ==
  /\ pc = "create"
  /\ current = 1
  /\ port = FirstPort
  /\ sock = [s \in Servers |-> NoFd]
  /\ m_port = [s \in Servers |-> 0]
  /\ owner = [o \in Owners |-> NoFd]
  /\ conns = {}
  /\ open = {}
  /\ bound \in [Ports -> {Free, Other}]
  /\ bound[0] = Free  \* no port of its own: 0 asks for any

-----------------------------------------------------------------------------
(* Other processes. *)

OtherProcess ==
  /\ \E p \in Ports \ {0} :
       \/ bound[p] = Free /\ bound' = [bound EXCEPT ![p] = Other]
       \/ bound[p] = Other /\ bound' = [bound EXCEPT ![p] = Free]
  /\ UNCHANGED <<pc, current, port, objects, open>>

(* fd_deleter *)
Close(fds) ==
  /\ open' = open \ fds
  /\ bound' = [p \in Ports |-> IF bound[p] \in fds THEN Free ELSE bound[p]]

-----------------------------------------------------------------------------
(* The constructor of inet_server_socket. *)

Throw == pc' = "unwind" /\ UNCHANGED <<current, port, m_port>>

create_socket ==
  /\ pc = "create"
  /\ \E fd \in Fds \ open :
       /\ open' = open \cup {fd}
       /\ sock' = [sock EXCEPT ![current] = fd]
  /\ pc' = "bind"
  /\ port' = FirstPort
  /\ UNCHANGED <<current, m_port, owner, conns, bound>>

CreateFails ==
  /\ pc = "create"
  /\ Throw
  /\ UNCHANGED <<sock, owner, conns, kernel>>

(* static_cast<uint16_t>(port) *)
Port == port % PortSpace

Bind(p) ==
  /\ bound' = [bound EXCEPT ![p] = sock[current]]
  /\ m_port' = [m_port EXCEPT ![current] = Port]
  /\ pc' = "listen"
  /\ UNCHANGED <<current, port, sock, owner, conns, open>>

(* What ::bind takes Port for: 0 stands for any port. *)
Offered == IF Port = 0 THEN Ports \ {0} ELSE {Port}

(* The end of the range is tried too. *)
try_bind_past_end ==
  /\ pc = "bind"
  /\ port <= EndPort
  /\ \E p \in Offered : bound[p] = Free /\ Bind(p)

try_bind ==
  /\ pc = "bind"
  /\ port < EndPort
  /\ \E p \in Offered : bound[p] = Free /\ Bind(p)

(* The search begins again. *)
TryNextRoundAbout ==
  /\ pc = "bind"
  /\ port < EndPort
  /\ port' = IF port + 1 = EndPort THEN FirstPort ELSE port + 1
  /\ UNCHANGED <<pc, current, objects, kernel>>

(* bind fails, because somebody has the port or for another reason: the    *)
(* next one.                                                               *)
TryNext ==
  /\ pc = "bind"
  /\ port < EndPort
  /\ port' = port + 1
  /\ UNCHANGED <<pc, current, objects, kernel>>

BindFails ==
  /\ pc = "bind"
  /\ port = EndPort
  /\ Throw
  /\ UNCHANGED <<sock, owner, conns, kernel>>

(* listen returns, and main goes on to the next socket or enrolls them. *)
Listen ==
  /\ pc = "listen"
  /\ IF current < NumServers
     THEN pc' = "create" /\ current' = current + 1
     ELSE pc' = "enroll" /\ current' = 1
  /\ UNCHANGED <<port, objects, kernel>>

ListenFails ==
  /\ pc = "listen"
  /\ Throw
  /\ UNCHANGED <<sock, owner, conns, kernel>>

(* enroll: the socket is made non-blocking and moves into the registry. *)
enroll ==
  /\ pc = "enroll"
  /\ IF current < NumServers
     THEN current' = current + 1 /\ UNCHANGED pc
     ELSE pc' = "serve" /\ UNCHANGED current
  /\ UNCHANGED <<port, objects, kernel>>

EnrollFails ==
  /\ pc = "enroll"
  /\ Throw
  /\ UNCHANGED <<sock, owner, conns, kernel>>

-----------------------------------------------------------------------------
(* accept_connection *)

Moving == {owner[o] : o \in Owners} \ {NoFd}

Move(from, to) ==
  owner' = [owner EXCEPT ![from] = NoFd, ![to] = owner[from]]

accept ==
  /\ pc = "serve"
  /\ \E s \in Servers, fd \in Fds \ open :
       /\ current' = s
       /\ owner' = [owner EXCEPT !["fd_owner"] = fd]
       /\ open' = open \cup {fd}
       /\ pc' = IF s \in Limited THEN "option" ELSE "accepted"
  /\ UNCHANGED <<port, sock, m_port, conns, bound>>

AcceptFails ==
  /\ pc = "serve"
  /\ Throw
  /\ UNCHANGED <<sock, owner, conns, kernel>>

SetSendSize ==
  /\ pc = "option"
  /\ pc' = "accepted"
  /\ UNCHANGED <<current, port, objects, kernel>>

(* accept returns the inet_connection. *)
AcceptReturns ==
  /\ pc = "accepted"
  /\ Move("fd_owner", "connection")
  /\ pc' = "set_up"
  /\ UNCHANGED <<current, port, sock, m_port, conns, kernel>>

set_non_blocking ==
  /\ pc = "set_up"
  /\ pc' = "create_session"
  /\ UNCHANGED <<current, port, objects, kernel>>

(* A session that is not given the connection but its descriptor.          *)
CreateSessionCopies ==
  /\ pc = "create_session"
  /\ owner' = [owner EXCEPT !["session"] = owner["connection"]]
  /\ pc' = "add"
  /\ UNCHANGED <<current, port, sock, m_port, conns, kernel>>

create_session ==
  /\ pc = "create_session"
  /\ Move("connection", "session")
  /\ pc' = "add"
  /\ UNCHANGED <<current, port, sock, m_port, conns, kernel>>

(* setsockopt or set_non_blocking fails, create_session throws, or         *)
(* epoll_ctl refuses the connection: whoever owns it is destroyed.         *)
SetUpFails ==
  /\ pc \in {"option", "set_up", "create_session", "add"}
  /\ owner' = [o \in Owners |-> NoFd]
  /\ Close(Moving)
  /\ Throw
  /\ UNCHANGED <<sock, conns>>

(* add: the session is in the registry.  accept_connection returns, which  *)
(* destroys the inet_connection that the session was made from.            *)
Register ==
  /\ pc = "add"
  /\ conns' = conns \cup {owner["session"]}
  /\ owner' = [o \in Owners |-> NoFd]
  /\ Close({owner["connection"]} \ {NoFd})
  /\ pc' = "serve"
  /\ UNCHANGED <<current, port, sock, m_port>>

(* The registry removes a connection, or is cleared. *)
RemoveConnection ==
  /\ pc = "serve"
  /\ \E fd \in conns : conns' = conns \ {fd} /\ Close({fd})
  /\ UNCHANGED <<pc, current, port, sock, m_port, owner>>

Shutdown ==
  /\ pc = "serve"
  /\ pc' = "unwind"
  /\ UNCHANGED <<current, port, objects, kernel>>

-----------------------------------------------------------------------------
(* Destructors. *)

DestroyConnection ==
  /\ pc = "unwind"
  /\ \E fd \in conns : conns' = conns \ {fd} /\ Close({fd})
  /\ UNCHANGED <<pc, current, port, sock, m_port, owner>>

DestroyServer ==
  /\ pc = "unwind"
  /\ \E s \in Servers :
       /\ sock[s] # NoFd
       /\ sock' = [sock EXCEPT ![s] = NoFd]
       /\ Close({sock[s]})
  /\ UNCHANGED <<pc, current, port, m_port, owner, conns>>

Unwound ==
  /\ pc = "unwind"
  /\ conns = {}
  /\ \A s \in Servers : sock[s] = NoFd
  /\ pc' = "ended"
  /\ UNCHANGED <<current, port, objects, kernel>>

Done == pc = "ended" /\ UNCHANGED vars

Program ==
  \/ create_socket \/ CreateFails \/ try_bind \/ TryNext \/ BindFails
  \/ Listen \/ ListenFails \/ enroll \/ EnrollFails
  \/ accept \/ AcceptFails \/ SetSendSize \/ AcceptReturns
  \/ set_non_blocking \/ create_session \/ SetUpFails \/ Register
  \/ RemoveConnection \/ Shutdown
  \/ DestroyConnection \/ DestroyServer \/ Unwound

Next == Program \/ OtherProcess \/ Done

Spec == Init /\ [][Next]_vars

FairSpec == Spec /\ WF_vars(Program)

-----------------------------------------------------------------------------
(* Correctness. *)

SetUp == {"create", "bind", "listen", "enroll"}
Serving == {"serve", "option", "accepted", "set_up", "create_session", "add"}

(* The types, and the search for a port never passes the end of the range. *)
TypeOK ==
  /\ pc \in SetUp \cup Serving \cup {"unwind", "ended"}
  /\ current \in Servers
  /\ port \in FirstPort..EndPort
  /\ sock \in [Servers -> Fds \cup {NoFd}]
  /\ m_port \in [Servers -> Ports]
  /\ owner \in [Owners -> Fds \cup {NoFd}]
  /\ conns \subseteq Fds
  /\ open \subseteq Fds
  /\ bound \in [Ports -> Fds \cup {Free, Other}]

Held == conns \cup Moving \cup ({sock[s] : s \in Servers} \ {NoFd})

(* Whatever fails, and at whichever step, no descriptor is left open that  *)
(* nobody owns, and none is owned that is closed or by two owners: a late  *)
(* failure would otherwise close what another connection has got since.    *)
NoDescriptorLeaks ==
  /\ open = Held
  /\ Moving \cap conns = {}
  /\ \A o, p \in Owners : owner[o] = owner[p] /\ owner[o] # NoFd => o = p
  /\ \A s \in Servers : sock[s] # NoFd =>
       /\ sock[s] \notin conns \cup Moving
       /\ \A t \in Servers : sock[t] = sock[s] => s = t

(* A server socket that has been set up listens at the port that it tells  *)
(* its clients (main prints port()), which is in the range it was given,   *)
(* whatever other processes do; no two servers tell the same one.          *)
PortIsOurs ==
  \A s \in Servers :
    /\ pc \in {"enroll"} \cup Serving
         => m_port[s] \in FirstPort..(EndPort - 1)
    /\ sock[s] # NoFd /\ m_port[s] # 0 => bound[m_port[s]] = sock[s]

(* Setting up ends: with servers that listen or with an exception, even    *)
(* if other processes take one port after the other away.                  *)
SetUpEnds == <>(pc \notin SetUp)
=============================================================================
