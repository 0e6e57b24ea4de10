----------------------------- MODULE HttpServer -----------------------------
(***************************************************************************)
(* An HTTP service at work: the event loop of module ServiceRegistry and,  *)
(* behind the descriptor Conn, the session of module RequestProcessor.     *)
(* The sessions of the other connections are seen from outside, as in      *)
(* ServiceRegistry.                                                        *)
(*                                                                         *)
(* ServiceRegistry lets a session do whatever it may do and reports any    *)
(* set of descriptors; RequestProcessor assumes that the loop calls it     *)
(* back in the end.  Here the session does what its state makes it do, the *)
(* kernel reports Conn by what is registered for it and by what its client *)
(* has done, and the assumption becomes a property to check.  The thread   *)
(* is in one callback at a time: while the session runs nothing else does. *)
(***************************************************************************)
EXTENDS ServiceRegistry

CONSTANTS
  Conn,  \* the descriptor of the connection looked into
  BufferSize, HeaderLimit, MaxHead, MaxBody, MaxResponse, ResponseHead,
  HandlerMayStall

ASSUME ConnAssumption ==
  /\ Conn \in Fds \ HttpServices
  /\ AdmServices = {} /\ Sources = {}
ASSUME SessionAssumption ==
  /\ BufferSize \in Nat \ {0}
  /\ HeaderLimit \in Nat \ {0}
  /\ MaxHead \in Nat \ {0}
  /\ MaxBody \in Nat
  /\ MaxResponse \in Nat
  /\ ResponseHead \in Nat \ {0}
  /\ HandlerMayStall \in BOOLEAN

VARIABLES spc, status, state, left, buffered, readDisabled, send, headLeft,
          length, supply, client, woken, msg, pos, wrote, call

Session == INSTANCE RequestProcessor WITH pc <- spc

sessionVars == <<spc, status, state, left, buffered, readDisabled, send,
                 headLeft, length, supply, client, woken, msg, pos, wrote,
                 call>>
serverVars == <<vars, sessionVars>>

Others == Fds \ {Conn}

ServerInit == Init /\ Session!Init

-----------------------------------------------------------------------------
(* What the loop learns from a callback: process_request_result. *)

(* is_session_terminated without a case for application_error. *)
is_session_terminated_narrow(st) == st \in {"io_error", "completed"}

is_session_terminated(st) ==
  st \in {"io_error", "application_error", "completed"}

(* The direction with which the session was entered. *)
io_dir_on_entry(st) == dir[Conn]

(* m_state.second, through session_state_mapper: the direction of the      *)
(* state in which socket_is_ready returns.                                 *)
io_dir(st) == IF st \in Session!InputStates THEN "read" ELSE "write"

-----------------------------------------------------------------------------
(* accept_connection makes a new session for Conn. *)
create_session ==
  /\ spc' = "parked"
  /\ status' = "more_data_needed"
  /\ state' = "read_request_header"
  /\ left' = HeaderLimit
  /\ buffered' = 0
  /\ readDisabled' = FALSE
  /\ send' = 0
  /\ headLeft' = 0
  /\ length' = 0
  /\ supply' = 0
  /\ client' = "active"
  /\ woken' = "none"
  /\ msg' \in Session!Message
  /\ pos' = 0
  /\ wrote' = 0
  /\ call' = [op |-> "none", parity |-> 0]

AcceptDetailed(fd) == accept_connection(fd, Conn) /\ create_session

(* connection_event_handler::fd_is_ready calls the session ... *)
EnterSession ==
  /\ AtEvent(Conn, {"http_session"})
  /\ Session!SocketIsReady
  /\ UNCHANGED vars

(* finalize_event that closes the connection on the spot. *)
finalize_event_at_once ==
  IF is_session_terminated(status')
  THEN FinalizeTerminatedAtOnce(Conn, io_dir(state'))
  ELSE SessionContinues(Conn, io_dir(state'))

(* finalize_event, with what socket_is_ready returned. *)
finalize_event ==
  IF is_session_terminated(status')
  THEN SessionEnds(Conn, io_dir(state'))
  ELSE SessionContinues(Conn, io_dir(state'))

(* ... which goes through its states until it returns. *)
RunSession ==
  /\ AtEvent(Conn, {"http_session"})
  /\ Session!ReadRequest \/ Session!WriteResponse
  /\ IF spc' = "running" THEN UNCHANGED vars ELSE finalize_event

(* connection_event_handler::fd_is_idle *)
IdleSession ==
  \/ IdleInput(Conn) /\ Session!SocketIsIdleInput
  \/ IdleOutput(Conn) /\ Session!SocketIsIdleOutput

-----------------------------------------------------------------------------
(* The kernel and the client. *)

(* The bytes of an active client may arrive at any time, and there may be  *)
(* room for output; the end of the input stays to be seen.                 *)
MayBeReady ==
  "write" \in interest[Conn] \/ client # "silent" \/ readDisabled

IsReady == "read" \in interest[Conn] /\ (client = "gone" \/ readDisabled)

EpollWaitReturns ==
  /\ WaitReturns
  /\ Conn \in batch' => MayBeReady
  /\ Conn \in listeners /\ IsReady => Conn \in batch'

(* The client of Conn stops, but not between the report that its bytes     *)
(* have come and the read that takes them.                                 *)
ClientStops ==
  /\ Conn \in listeners
  /\ Conn \in batch /\ spc = "parked" => io_dir(state) = "write"
  /\ Session!ClientStops
  /\ UNCHANGED vars

-----------------------------------------------------------------------------
Busy == Conn \in batch /\ spc = "running"

SessionStep == EnterSession \/ RunSession \/ IdleSession

(* The loop itself, and the connections that are not looked into. *)
OtherStep ==
  \/ Setup
  \/ NothingToWaitFor /\ UNCHANGED registryVars
  \/ EpollWaitReturns /\ UNCHANGED registryVars
  \/ \E fd \in Others :
       \/ \E conn \in Others : accept_connection(fd, conn)
       \/ \E d \in Direction : SessionEnds(fd, d) \/ SessionContinues(fd, d)
       \/ IdleInput(fd) \/ IdleOutput(fd) \/ IdleIgnored(fd)
  \/ StartScan /\ UNCHANGED registryVars
  \/ EndScan /\ UNCHANGED registryVars
  \/ RemoveQueued
  \/ FlushDone

(* A handler may throw in the middle of its session. *)
ServerFails ==
  \/ WaitFails /\ UNCHANGED registryVars
  \/ ~Busy /\ \E fd \in Others :
       \/ AcceptFails(fd)
       \/ \E conn \in Fds : AddConnectionFails(fd, conn)
       \/ HandlerThrows(fd)
  \/ HandlerThrows(Conn)

ServerLoop ==
  \/ SessionStep
  \/ \E fd \in Others : ~Busy /\ AcceptDetailed(fd)
  \/ ~Busy /\ OtherStep /\ UNCHANGED sessionVars
  \/ ServerFails /\ UNCHANGED sessionVars

ServerNext ==
  \/ ServerLoop
  \/ ClientStops
  \/ TimePasses /\ UNCHANGED sessionVars
  \/ Done /\ UNCHANGED sessionVars

ServerSpec == ServerInit /\ [][ServerNext]_serverVars

(* The thread runs, and time passes however often the loop turns.  Nothing *)
(* is assumed of the session, of the kernel or of the client.              *)
ServerFairness ==
  /\ WF_serverVars(ServerLoop)
  /\ SF_serverVars(TimePasses /\ UNCHANGED sessionVars)

FairServerSpec == ServerSpec /\ ServerFairness

-----------------------------------------------------------------------------
(* Correctness. *)

Registered == Conn \in listeners /\ Running

(* While the thread waits, the kernel watches Conn for what the state of   *)
(* its session needs: the direction that process_request_result reports is *)
(* that of the state the session is left in, across pipelined requests,    *)
(* error responses and timeouts, and finalize_event passes it on.          *)
WatchedForItsState ==
  Registered /\ pc = "wait" =>
    interest[Conn] = IF state \in Session!InputStates THEN {"read"}
                                                      ELSE {"write"}

(* The session and the registry agree on whether it has ended: a session   *)
(* that returned a final status is in the queue of descriptors to remove   *)
(* before anything else happens, and no other is in it.                    *)
EndIsAgreed ==
  Registered /\ kind[Conn] = "http_session"
    => (spc = "closed" <=> Conn \in Queued)

(* The connection of a client that falls silent or goes away, at whatever  *)
(* byte of a request or of a response, is closed in the end: the events    *)
(* the loop registers, the error response, the timer and the expire check  *)
(* together call the session back until it has ended.                      *)
StoppedClientIsClosed ==
  client # "active" /\ Conn \in listeners ~> ~Registered

(* The loop with its session inside does what ServiceRegistry allows, so   *)
(* that what is proved of the registry holds of this server.               *)
ServerImplementsRegistry == Spec
=============================================================================
