------------------------- MODULE ServerSocketProofs -------------------------
(***************************************************************************)
(* Proofs about ServerSocket, for any number of servers, descriptors and   *)
(* ports.                                                                  *)
(*                                                                         *)
(* Neither invariant is inductive as it stands: which of the sockets have  *)
(* a descriptor, and which a port, depends on how far main has come.       *)
(***************************************************************************)
EXTENDS ServerSocket, TLAPS

USE DEF NoFd, Free

(* Who has the connection on its way follows from how far it has come. *)
OwnerStage ==
  /\ owner["fd_owner"] # NoFd <=> pc \in {"option", "accepted"}
  /\ owner["connection"] # NoFd <=> pc \in {"set_up", "create_session"}
  /\ owner["session"] # NoFd <=> pc = "add"

(* Sockets are made in their order. *)
SockStage ==
  /\ pc = "create" => \A s \in Servers : s >= current => sock[s] = NoFd
  /\ pc \in {"bind", "listen"} =>
       /\ sock[current] # NoFd
       /\ \A s \in Servers : s > current => sock[s] = NoFd

(* They get their ports in the same order, from the range. *)
PortStage ==
  /\ \A s \in Servers : m_port[s] # 0 => m_port[s] \in FirstPort..(EndPort - 1)
  /\ pc \in {"create", "bind"} =>
       \A s \in Servers : s < current <=> m_port[s] # 0
  /\ pc = "listen" => \A s \in Servers : s <= current <=> m_port[s] # 0
  /\ pc \in {"enroll"} \cup Serving => \A s \in Servers : m_port[s] # 0

PortHeld ==
  \A s \in Servers :
    sock[s] # NoFd /\ m_port[s] # 0 => bound[m_port[s]] = sock[s]

IInv ==
  /\ TypeOK
  /\ OwnerStage
  /\ SockStage
  /\ PortStage
  /\ NoDescriptorLeaks
  /\ PortHeld

LEMMA InRange ==
  ASSUME NEW n \in FirstPort..(EndPort - 1)
  PROVE  n % PortSpace = n /\ n # 0 /\ n \in Ports
BY PortsAssumption DEF Ports

LEMMA PortIsOursHolds == IInv => PortIsOurs
BY DEF IInv, PortIsOurs, PortStage, PortHeld, Serving

LEMMA IInvInit == Init => IInv
<1> SUFFICES ASSUME Init PROVE IInv
  OBVIOUS
<1>1. TypeOK
  BY PortsAssumption, ServersAssumption
  DEF Init, TypeOK, SetUp, Serving, Servers, Ports, Owners
<1>2. OwnerStage /\ SockStage /\ PortHeld
  BY DEF Init, OwnerStage, SockStage, PortHeld, Owners
<1>3. PortStage
  BY ServersAssumption DEF Init, PortStage, Servers, Serving
<1>4. NoDescriptorLeaks
  BY DEF Init, NoDescriptorLeaks, Held, Moving, Owners
<1> QED BY <1>1, <1>2, <1>3, <1>4 DEF IInv

(* Closing a descriptor takes a port only from its owner. *)
LEMMA CloseKeeps ==
  ASSUME TypeOK, NEW fds \in SUBSET Fds, Close(fds)
  PROVE  /\ open' = open \ fds
         /\ bound' \in [Ports -> Fds \cup {Free, Other}]
         /\ \A p \in Ports : bound[p] \notin fds => bound'[p] = bound[p]
BY DEF TypeOK, Close

LEMMA IInvNext == IInv /\ [Next]_vars => IInv'
<1> SUFFICES ASSUME IInv, [Next]_vars PROVE IInv'
  OBVIOUS
<1> USE PortsAssumption, ServersAssumption, FdsAssumption
<1>0. TypeOK /\ OwnerStage /\ SockStage /\ PortStage /\ NoDescriptorLeaks
      /\ PortHeld
  BY DEF IInv
<1>a. ASSUME UNCHANGED <<sock, owner, conns, open>>
      PROVE  NoDescriptorLeaks'
  BY <1>0, <1>a DEF NoDescriptorLeaks, Held, Moving
<1>b. ASSUME UNCHANGED <<sock, m_port, bound>>
      PROVE  PortHeld'
  BY <1>0, <1>b DEF PortHeld
<1>1. CASE create_socket
  <2>1. PICK fd \in Fds \ open :
          /\ open' = open \cup {fd}
          /\ sock' = [sock EXCEPT ![current] = fd]
    BY <1>1 DEF create_socket
  <2>2. /\ pc = "create" /\ pc' = "bind" /\ port' = FirstPort
        /\ UNCHANGED <<current, m_port, owner, conns, bound>>
    BY <1>1 DEF create_socket
  <2>3. TypeOK'
    BY <1>0, <2>1, <2>2 DEF TypeOK, SetUp
  <2>4. OwnerStage' /\ SockStage' /\ PortStage'
    BY <1>0, <2>1, <2>2
       DEF TypeOK, OwnerStage, SockStage, PortStage, Servers, Serving
  <2>5. sock[current] = NoFd /\ current \in Servers
        /\ m_port[current] = 0
    BY <1>0, <2>2 DEF SockStage, PortStage, TypeOK, Servers
  <2>6. NoDescriptorLeaks'
    BY <1>0, <2>1, <2>2, <2>5 DEF NoDescriptorLeaks, Held, Moving, TypeOK
  <2>7. PortHeld'
    BY <1>0, <2>1, <2>2, <2>5 DEF PortHeld, TypeOK
  <2> QED BY <2>3, <2>4, <2>6, <2>7 DEF IInv
<1>2. CASE CreateFails \/ BindFails \/ ListenFails \/ EnrollFails
           \/ AcceptFails \/ Shutdown
  <2>1. /\ pc' = "unwind" /\ pc \notin {"option", "accepted", "set_up", "create_session", "add"}
        /\ UNCHANGED <<current, port, m_port, sock, owner, conns, open, bound>>
    BY <1>2 DEF CreateFails, BindFails, ListenFails, EnrollFails,
                AcceptFails, Shutdown, Throw, kernel, objects
  <2>2. TypeOK' /\ OwnerStage' /\ SockStage' /\ PortStage'
    BY <1>0, <2>1 DEF TypeOK, OwnerStage, SockStage, PortStage, SetUp, Serving
  <2> QED BY <1>a, <1>b, <2>1, <2>2 DEF IInv
<1>3. CASE try_bind
  <2>1. PICK p \in Offered : bound[p] = Free /\ Bind(p)
    BY <1>3 DEF try_bind
  <2>2. pc = "bind" /\ port \in FirstPort..(EndPort - 1) /\ current \in Servers
    BY <1>0, <1>3 DEF try_bind, TypeOK
  <2>3. Port = port /\ port # 0 /\ port \in Ports /\ p = port
    BY <2>2, InRange DEF Port, Offered
  <2>4. /\ bound' = [bound EXCEPT ![p] = sock[current]]
        /\ m_port' = [m_port EXCEPT ![current] = p]
        /\ pc' = "listen"
        /\ UNCHANGED <<current, port, sock, owner, conns, open>>
    BY <2>1, <2>3 DEF Bind
  <2>5. TypeOK'
    BY <1>0, <2>3, <2>4 DEF TypeOK, SetUp
  <2>6. OwnerStage' /\ SockStage'
    BY <1>0, <2>2, <2>4 DEF OwnerStage, SockStage
  <2>7. PortStage'
    BY <1>0, <2>2, <2>3, <2>4 DEF PortStage, TypeOK, Servers, Serving
  <2>8. PortHeld'
    <3> SUFFICES ASSUME NEW s \in Servers, sock[s] # NoFd, m_port'[s] # 0
                 PROVE  bound'[m_port'[s]] = sock[s]
      BY <2>4 DEF PortHeld
    <3>1. CASE s = current
      BY <1>0, <2>2, <2>3, <2>4, <3>1 DEF TypeOK
    <3>2. CASE s # current
      <4>1. m_port'[s] = m_port[s] /\ bound[m_port[s]] = sock[s]
        BY <1>0, <2>4, <3>2 DEF TypeOK, PortHeld
      <4>2. m_port[s] \in Ports /\ sock[s] \in Fds
        BY <1>0 DEF TypeOK
      <4>3. m_port[s] # p
        BY <2>1, <4>1, <4>2
      <4> QED BY <1>0, <2>3, <2>4, <4>1, <4>2, <4>3 DEF TypeOK
    <3> QED BY <3>1, <3>2
  <2> QED BY <1>a, <2>4, <2>5, <2>6, <2>7, <2>8 DEF IInv
<1>4. CASE TryNext
  <2>1. /\ pc = "bind" /\ port < EndPort /\ port' = port + 1
        /\ UNCHANGED <<pc, current, m_port, sock, owner, conns, open, bound>>
    BY <1>4 DEF TryNext, objects, kernel
  <2>2. TypeOK' /\ OwnerStage' /\ SockStage' /\ PortStage'
    BY <1>0, <2>1 DEF TypeOK, OwnerStage, SockStage, PortStage
  <2> QED BY <1>a, <1>b, <2>1, <2>2 DEF IInv
<1>5. CASE Listen
  <2>1. /\ pc = "listen"
        /\ IF current < NumServers
           THEN pc' = "create" /\ current' = current + 1
           ELSE pc' = "enroll" /\ current' = 1
        /\ UNCHANGED <<port, m_port, sock, owner, conns, open, bound>>
    BY <1>5 DEF Listen, objects, kernel
  <2>2. TypeOK' /\ OwnerStage'
    BY <1>0, <2>1 DEF TypeOK, OwnerStage, SetUp, Servers
  <2>3. SockStage' /\ PortStage'
    BY <1>0, <2>1 DEF TypeOK, SockStage, PortStage, Servers, Serving
  <2> QED BY <1>a, <1>b, <2>1, <2>2, <2>3 DEF IInv
<1>6. CASE enroll
  <2>1. /\ pc = "enroll" /\ pc' \in {"enroll", "serve"}
        /\ current' \in Servers
        /\ UNCHANGED <<port, m_port, sock, owner, conns, open, bound>>
    BY <1>0, <1>6 DEF enroll, objects, kernel, TypeOK, Servers
  <2>2. TypeOK' /\ OwnerStage' /\ SockStage' /\ PortStage'
    BY <1>0, <2>1 DEF TypeOK, OwnerStage, SockStage, PortStage, SetUp, Serving
  <2> QED BY <1>a, <1>b, <2>1, <2>2 DEF IInv
<1>7. CASE accept
  <2>1. PICK s \in Servers, fd \in Fds \ open :
          /\ current' = s
          /\ owner' = [owner EXCEPT !["fd_owner"] = fd]
          /\ open' = open \cup {fd}
          /\ pc' \in {"option", "accepted"}
    BY <1>7 DEF accept
  <2>2. pc = "serve" /\ UNCHANGED <<port, sock, m_port, conns, bound>>
    BY <1>7 DEF accept
  <2>3. TypeOK' /\ OwnerStage' /\ SockStage' /\ PortStage'
    BY <1>0, <2>1, <2>2
       DEF TypeOK, OwnerStage, SockStage, PortStage, SetUp, Serving, Owners
  <2>4. \A o \in Owners : owner[o] = NoFd
    BY <1>0, <2>2 DEF OwnerStage, Owners
  <2>5. Moving' = {fd} /\ Moving = {}
    BY <1>0, <2>1, <2>4 DEF Moving, TypeOK, Owners
  <2>6. \A o \in Owners : owner'[o] # NoFd => o = "fd_owner"
    BY <1>0, <2>1, <2>4 DEF TypeOK
  <2>7. NoDescriptorLeaks'
    BY <1>0, <2>1, <2>2, <2>5, <2>6 DEF NoDescriptorLeaks, Held, TypeOK
  <2> QED BY <1>b, <2>2, <2>3, <2>7 DEF IInv
<1>8. CASE SetSendSize \/ set_non_blocking
  <2>1. /\ \/ pc = "option" /\ pc' = "accepted"
           \/ pc = "set_up" /\ pc' = "create_session"
        /\ UNCHANGED <<current, port, m_port, sock, owner, conns, open, bound>>
    BY <1>8 DEF SetSendSize, set_non_blocking, objects, kernel
  <2>2. TypeOK' /\ OwnerStage' /\ SockStage' /\ PortStage'
    BY <1>0, <2>1 DEF TypeOK, OwnerStage, SockStage, PortStage, SetUp, Serving
  <2> QED BY <1>a, <1>b, <2>1, <2>2 DEF IInv
(* The descriptor goes from one owner to the next. *)
<1>8a. CASE AcceptReturns \/ create_session
  <2>1. PICK from \in Owners, to \in Owners :
          /\ \/ from = "fd_owner" /\ to = "connection" /\ pc = "accepted"
                /\ pc' = "set_up"
             \/ from = "connection" /\ to = "session"
                /\ pc = "create_session" /\ pc' = "add"
          /\ owner' = [owner EXCEPT ![from] = NoFd, ![to] = owner[from]]
    BY <1>8a DEF AcceptReturns, create_session, Move, Owners
  <2>2. UNCHANGED <<current, port, sock, m_port, conns, open, bound>>
    BY <1>8a DEF AcceptReturns, create_session, kernel
  <2>3. /\ owner[from] # NoFd
        /\ \A o \in Owners : o # from => owner[o] = NoFd
    BY <1>0, <2>1 DEF OwnerStage, Owners
  <2>4. owner' = [o \in Owners |-> IF o = to THEN owner[from] ELSE NoFd]
    BY <1>0, <2>1, <2>3 DEF TypeOK
  <2>5. TypeOK' /\ OwnerStage' /\ SockStage' /\ PortStage'
    BY <1>0, <2>1, <2>2, <2>3, <2>4
       DEF TypeOK, OwnerStage, SockStage, PortStage, SetUp, Serving, Owners
  <2>6. Moving' = {owner[from]} /\ Moving = {owner[from]}
    BY <2>1, <2>3, <2>4 DEF Moving
  <2>7. NoDescriptorLeaks'
    BY <1>0, <2>2, <2>4, <2>6 DEF NoDescriptorLeaks, Held
  <2> QED BY <1>b, <2>2, <2>5, <2>7 DEF IInv
<1>9. CASE SetUpFails
  <2>1. /\ pc \in Serving /\ pc' = "unwind"
        /\ owner' = [o \in Owners |-> NoFd]
        /\ Close(Moving)
        /\ UNCHANGED <<current, port, m_port, sock, conns>>
    BY <1>9 DEF SetUpFails, Throw, Serving
  <2>2. Moving \subseteq Fds
    BY <1>0 DEF Moving, TypeOK
  <2>3. /\ open' = open \ Moving
        /\ bound' \in [Ports -> Fds \cup {Free, Other}]
        /\ \A p \in Ports : bound[p] \notin Moving => bound'[p] = bound[p]
    BY <1>0, <2>1, <2>2, CloseKeeps
  <2>4. TypeOK' /\ OwnerStage' /\ SockStage' /\ PortStage'
    BY <1>0, <2>1, <2>3
       DEF TypeOK, OwnerStage, SockStage, PortStage, SetUp, Serving, Owners
  <2>5. Moving' = {}
    BY <2>1 DEF Moving
  <2>6. NoDescriptorLeaks'
    BY <1>0, <2>1, <2>3, <2>5 DEF NoDescriptorLeaks, Held
  <2>7. PortHeld'
    BY <1>0, <2>1, <2>2, <2>3 DEF PortHeld, NoDescriptorLeaks, TypeOK
  <2> QED BY <2>4, <2>6, <2>7 DEF IInv
<1>10. CASE Register
  <2> DEFINE fd == owner["session"]
  <2>1. /\ pc = "add" /\ pc' = "serve"
        /\ conns' = conns \cup {fd}
        /\ owner' = [o \in Owners |-> NoFd]
        /\ Close({owner["connection"]} \ {NoFd})
        /\ UNCHANGED <<current, port, sock, m_port>>
    BY <1>10 DEF Register
  <2>2. fd \in Fds /\ \A o \in Owners : o # "session" => owner[o] = NoFd
    BY <1>0, <2>1 DEF OwnerStage, TypeOK, Owners
  (* The inet_connection has been moved from: nothing is closed. *)
  <2>3. {owner["connection"]} \ {NoFd} = {}
    BY <2>2 DEF Owners
  <2>4. open' = open /\ bound' = bound
    BY <1>0, <2>1, <2>3 DEF Close, TypeOK
  <2>5. TypeOK' /\ OwnerStage' /\ SockStage' /\ PortStage'
    BY <1>0, <2>1, <2>2, <2>4
       DEF TypeOK, OwnerStage, SockStage, PortStage, SetUp, Serving, Owners
  <2>6. Moving = {fd} /\ Moving' = {}
    BY <2>1, <2>2 DEF Moving, Owners
  <2>7. NoDescriptorLeaks'
    BY <1>0, <2>1, <2>4, <2>6 DEF NoDescriptorLeaks, Held
  <2> QED BY <1>b, <2>1, <2>4, <2>5, <2>7 DEF IInv
<1>11. CASE RemoveConnection \/ DestroyConnection
  <2>1. PICK fd \in conns : conns' = conns \ {fd} /\ Close({fd})
    BY <1>11 DEF RemoveConnection, DestroyConnection
  <2>2. UNCHANGED <<pc, current, port, sock, m_port, owner>>
    BY <1>11 DEF RemoveConnection, DestroyConnection
  <2>3. fd \in Fds
    BY <1>0 DEF TypeOK
  <2>4. /\ open' = open \ {fd}
        /\ bound' \in [Ports -> Fds \cup {Free, Other}]
        /\ \A p \in Ports : bound[p] \notin {fd} => bound'[p] = bound[p]
    BY <1>0, <2>1, <2>3, CloseKeeps
  <2>5. TypeOK' /\ OwnerStage' /\ SockStage' /\ PortStage'
    BY <1>0, <2>1, <2>2, <2>4
       DEF TypeOK, OwnerStage, SockStage, PortStage
  <2>6. NoDescriptorLeaks'
    BY <1>0, <2>1, <2>2, <2>3, <2>4 DEF NoDescriptorLeaks, Held, Moving, TypeOK
  <2>7. PortHeld'
    BY <1>0, <2>1, <2>2, <2>3, <2>4 DEF PortHeld, NoDescriptorLeaks, TypeOK
  <2> QED BY <2>5, <2>6, <2>7 DEF IInv
<1>12. CASE DestroyServer
  <2>1. PICK s \in Servers :
          /\ sock[s] # NoFd
          /\ sock' = [sock EXCEPT ![s] = NoFd]
          /\ Close({sock[s]})
    BY <1>12 DEF DestroyServer
  <2>2. pc = "unwind" /\ UNCHANGED <<pc, current, port, m_port, owner, conns>>
    BY <1>12 DEF DestroyServer
  <2>3. sock[s] \in Fds
    BY <1>0, <2>1 DEF TypeOK
  <2>4. /\ open' = open \ {sock[s]}
        /\ bound' \in [Ports -> Fds \cup {Free, Other}]
        /\ \A p \in Ports : bound[p] \notin {sock[s]} => bound'[p] = bound[p]
    BY <1>0, <2>1, <2>3, CloseKeeps
  <2>5. TypeOK' /\ OwnerStage' /\ SockStage' /\ PortStage'
    BY <1>0, <2>1, <2>2, <2>4
       DEF TypeOK, OwnerStage, SockStage, PortStage, Serving
  <2>6. NoDescriptorLeaks'
    BY <1>0, <2>1, <2>2, <2>3, <2>4 DEF NoDescriptorLeaks, Held, Moving, TypeOK
  <2>7. PortHeld'
    BY <1>0, <2>1, <2>2, <2>3, <2>4 DEF PortHeld, NoDescriptorLeaks, TypeOK
  <2> QED BY <2>5, <2>6, <2>7 DEF IInv
<1>13. CASE Unwound
  <2>1. /\ pc = "unwind" /\ pc' = "ended"
        /\ UNCHANGED <<current, port, m_port, sock, owner, conns, open, bound>>
    BY <1>13 DEF Unwound, objects, kernel
  <2>2. TypeOK' /\ OwnerStage' /\ SockStage' /\ PortStage'
    BY <1>0, <2>1 DEF TypeOK, OwnerStage, SockStage, PortStage, Serving
  <2> QED BY <1>a, <1>b, <2>1, <2>2 DEF IInv
<1>14. CASE OtherProcess
  <2>1. PICK p \in Ports \ {0} :
          /\ bound[p] \in {Free, Other}
          /\ \E who \in {Free, Other} : bound' = [bound EXCEPT ![p] = who]
    BY <1>14 DEF OtherProcess
  <2>2. UNCHANGED <<pc, current, port, m_port, sock, owner, conns, open>>
    BY <1>14 DEF OtherProcess, objects
  <2>3. TypeOK' /\ OwnerStage' /\ SockStage' /\ PortStage'
    BY <1>0, <2>1, <2>2 DEF TypeOK, OwnerStage, SockStage, PortStage
  <2>4. PortHeld'
    BY <1>0, <2>1, <2>2 DEF PortHeld, TypeOK
  <2> QED BY <1>a, <2>2, <2>3, <2>4 DEF IInv
<1>15. CASE UNCHANGED vars
  BY <1>0, <1>a, <1>b, <1>15
     DEF vars, objects, kernel, IInv, TypeOK, OwnerStage, SockStage, PortStage
<1> QED
  BY <1>1, <1>2, <1>3, <1>4, <1>5, <1>6, <1>7, <1>8, <1>9, <1>10, <1>11,
     <1>12, <1>13, <1>14, <1>15, <1>8a DEF Next, Program, Done

LEMMA SocketInvariant == Spec => []IInv
BY IInvInit, IInvNext, PTL DEF Spec

-----------------------------------------------------------------------------
(* The types, and the search for a port stays in its range. *)
THEOREM SocketTypes == Spec => []TypeOK
BY SocketInvariant, PTL DEF IInv

(* However many servers and connections there are, and whichever call      *)
(* fails: fd_owner and the moves of it leave no descriptor open that       *)
(* nobody owns, and none with two owners.                                  *)
THEOREM SocketsDoNotLeak == Spec => []NoDescriptorLeaks
BY SocketInvariant, PTL DEF IInv

(* Each server has the port that it tells, for every range and whatever    *)
(* other processes do.                                                     *)
THEOREM SocketPorts == Spec => []PortIsOurs
BY SocketInvariant, PortIsOursHolds, PTL
=============================================================================
