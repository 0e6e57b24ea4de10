------------------------- MODULE HttpServerProofs -------------------------
(***************************************************************************)
(* Proofs about HttpServer: the server implements ServiceRegistry, what is *)
(* proved of the registry and of the session holds of it, and the two      *)
(* agree on when a session ends and what it waits for.                     *)
(***************************************************************************)
EXTENDS HttpServer, ServiceRegistryProofs

(* What the session returns is a direction that finalize_event can take. *)
LEMMA DirectionReturned ==
  ASSUME NEW st PROVE io_dir(st) \in Direction
  BY DEF io_dir, Direction

(* A callback of the detailed session, ready or idle, is one of the        *)
(* callbacks that ServiceRegistry allows, or nothing that it can see.      *)
LEMMA SessionStepAllowed == SessionStep => [Next]_vars
<1>1. ASSUME EnterSession PROVE UNCHANGED vars
  BY <1>1 DEF EnterSession
<1>2. ASSUME RunSession PROVE [Next]_vars
  <2>1. Conn \in Fds
    BY ConnAssumption
  <2>2. CASE spc' = "running"
    BY <1>2, <2>2 DEF RunSession
  <2>3. CASE spc' # "running"
    <3>1. finalize_event
      BY <1>2, <2>3 DEF RunSession
    <3>2. io_dir(state') \in Direction
      BY DirectionReturned
    <3>3. Dispatch
      BY <2>1, <3>1, <3>2 DEF finalize_event, Dispatch
    <3> QED BY <3>3 DEF Next, Loop
  <2> QED BY <2>2, <2>3
<1>3. ASSUME IdleSession PROVE Next
  <2>1. Scan
    BY <1>3, ConnAssumption DEF IdleSession, Scan
  <2> QED BY <2>1 DEF Next, Loop
<1> QED BY <1>1, <1>2, <1>3 DEF SessionStep

(* The steps of the loop and of the other connections are those of         *)
(* ServiceRegistry; epoll_wait returns one of the sets it may return.      *)
LEMMA OtherStepAllowed == OtherStep => Next
<1> SUFFICES ASSUME OtherStep PROVE Next
  OBVIOUS
<1>0. Others \subseteq Fds
  BY DEF Others
<1>1. CASE Setup
  BY <1>1 DEF Next
<1>2. CASE NothingToWaitFor /\ UNCHANGED registryVars
  BY <1>2 DEF Next, Loop, Wait
<1>3. CASE EpollWaitReturns /\ UNCHANGED registryVars
  BY <1>3 DEF Next, Loop, Wait, EpollWaitReturns
<1>4. ASSUME NEW fd \in Others,
             \/ \E conn \in Others : accept_connection(fd, conn)
             \/ \E d \in Direction : SessionEnds(fd, d) \/ SessionContinues(fd, d)
      PROVE Next
  <2>1. Dispatch
    BY <1>0, <1>4 DEF Dispatch
  <2> QED BY <2>1 DEF Next, Loop
<1>5. ASSUME NEW fd \in Others,
             IdleInput(fd) \/ IdleOutput(fd) \/ IdleIgnored(fd)
      PROVE Next
  <2>1. Scan
    BY <1>0, <1>5 DEF Scan
  <2> QED BY <2>1 DEF Next, Loop
<1>6. CASE StartScan /\ UNCHANGED registryVars
  BY <1>6 DEF Next, Loop, Scan
<1>7. CASE EndScan /\ UNCHANGED registryVars
  BY <1>7 DEF Next, Loop, Scan
<1>8. CASE RemoveQueued \/ FlushDone
  BY <1>8 DEF Next, Loop, Flush
<1> QED BY <1>1, <1>2, <1>3, <1>4, <1>5, <1>6, <1>7, <1>8 DEF OtherStep

LEMMA FailureAllowed == ServerFails => Next
<1>1. ServerFails => Failure
  BY ConnAssumption DEF ServerFails, Failure, Others
<1> QED BY <1>1 DEF Next

LEMMA ServerStepAllowed == [ServerNext]_serverVars => [Next]_vars
<1> SUFFICES ASSUME [ServerNext]_serverVars PROVE [Next]_vars
  OBVIOUS
<1>1. CASE SessionStep
  BY <1>1, SessionStepAllowed
<1>2. ASSUME NEW fd \in Others, AcceptDetailed(fd) PROVE Next
  <2>1. fd \in Fds /\ Conn \in Fds
    BY ConnAssumption DEF Others
  <2>2. Dispatch
    BY <1>2, <2>1 DEF AcceptDetailed, Dispatch
  <2> QED BY <2>2 DEF Next, Loop
<1>3. CASE OtherStep
  BY <1>3, OtherStepAllowed
<1>4. CASE ServerFails
  BY <1>4, FailureAllowed
<1>5. CASE ClientStops
  BY <1>5 DEF ClientStops
<1>6. CASE TimePasses
  BY <1>6 DEF Next
<1>7. CASE Done
  BY <1>7 DEF Next
<1>8. CASE UNCHANGED serverVars
  BY <1>8 DEF serverVars
<1> QED BY <1>1, <1>2, <1>3, <1>4, <1>5, <1>6, <1>7, <1>8
        DEF ServerNext, ServerLoop

(* The event loop with a session inside does only what ServiceRegistry     *)
(* allows, whatever the sizes, the descriptors and the client.             *)
THEOREM ServerRefinesRegistry == ServerSpec => ServerImplementsRegistry
<1>1. ServerInit => Init
  BY DEF ServerInit
<1> QED BY <1>1, ServerStepAllowed, PTL
        DEF ServerSpec, ServerImplementsRegistry, Spec

(* An event that the kernel has returned points at a live listener while   *)
(* the sessions before it in the batch parse, answer and end.              *)
THEOREM ServerEventsAreLive == ServerSpec => []EventsAreLive
  BY ServerRefinesRegistry, EventsStayLive, PTL DEF ServerImplementsRegistry

-----------------------------------------------------------------------------
(* The session inside the server.  SP is the module of its proofs; its     *)
(* definitions are those of Session under another name.                    *)

SP == INSTANCE RequestProcessorProofs WITH pc <- spc

LEMMA SameRead == Session!ReadRequest => SP!ReadRequest
  BY Zenon
  DEF Session!ReadRequest, SP!ReadRequest,
      Session!WaitFindsData, Session!WaitReadsData, Session!WaitBlocks,
      Session!WaitEnds, Session!InputArrives, Session!InputBlocks,
      Session!InputTruncated, Session!InputFails, Session!HeaderTooLarge,
      Session!ParseMore, Session!HeaderRefused, Session!HeaderAccepted,
      Session!Content, Session!ContentStalls, Session!ContentRefused,
      Session!RequestFinished, Session!RequestRefused,
      SP!WaitFindsData, SP!WaitReadsData, SP!WaitBlocks, SP!WaitEnds,
      SP!InputArrives, SP!InputBlocks, SP!InputTruncated, SP!InputFails,
      SP!HeaderTooLarge, SP!ParseMore, SP!HeaderRefused, SP!HeaderAccepted,
      SP!Content, SP!ContentStalls, SP!ContentRefused, SP!RequestFinished,
      SP!RequestRefused,
      Session!In, Session!Calls, Session!Return, Session!Continue,
      Session!BeginResponse, Session!ClientError, Session!DataArrives,
      Session!EndOfInput, Session!InputWouldBlock, Session!InputError,
      Session!StartHeader, Session!NeedsInput, Session!Span,
      Session!Consume, Session!HasHeaderBytes, Session!HeaderRest,
      Session!HasBodyBytes, Session!BodyFinished, Session!HasOutput,
      Session!NeedsOutput, Session!Least, Session!Message,
      Session!inputVars, Session!outputVars, Session!InputStates,
      Session!OutputStates,
      SP!In, SP!Calls, SP!Return, SP!Continue, SP!BeginResponse,
      SP!ClientError, SP!DataArrives, SP!EndOfInput, SP!InputWouldBlock,
      SP!InputError, SP!StartHeader, SP!NeedsInput, SP!Span, SP!Consume,
      SP!HasHeaderBytes, SP!HeaderRest, SP!HasBodyBytes, SP!BodyFinished,
      SP!HasOutput, SP!NeedsOutput, SP!Least, SP!Message, SP!inputVars,
      SP!outputVars, SP!InputStates, SP!OutputStates

LEMMA SameWrite == Session!WriteResponse => SP!WriteResponse
  BY Zenon
  DEF Session!WriteResponse, SP!WriteResponse,
      Session!OutputTaken, Session!OutputBlocks, Session!OutputFails,
      Session!SerializeHeader, Session!HeaderWritten, Session!Supply,
      Session!SupplyStalls, Session!SupplyFails, Session!ResponseWritten,
      SP!OutputTaken, SP!OutputBlocks, SP!OutputFails, SP!SerializeHeader,
      SP!HeaderWritten, SP!Supply, SP!SupplyStalls, SP!SupplyFails,
      SP!ResponseWritten,
      Session!In, Session!Calls, Session!Return, Session!Continue,
      Session!BeginResponse, Session!ClientError, Session!DataArrives,
      Session!EndOfInput, Session!InputWouldBlock, Session!InputError,
      Session!StartHeader, Session!NeedsInput, Session!Span,
      Session!Consume, Session!HasHeaderBytes, Session!HeaderRest,
      Session!HasBodyBytes, Session!BodyFinished, Session!HasOutput,
      Session!NeedsOutput, Session!Least, Session!Message,
      Session!inputVars, Session!outputVars, Session!InputStates,
      Session!OutputStates,
      SP!In, SP!Calls, SP!Return, SP!Continue, SP!BeginResponse,
      SP!ClientError, SP!DataArrives, SP!EndOfInput, SP!InputWouldBlock,
      SP!InputError, SP!StartHeader, SP!NeedsInput, SP!Span, SP!Consume,
      SP!HasHeaderBytes, SP!HeaderRest, SP!HasBodyBytes, SP!BodyFinished,
      SP!HasOutput, SP!NeedsOutput, SP!Least, SP!Message, SP!inputVars,
      SP!outputVars, SP!InputStates, SP!OutputStates

LEMMA SameWake ==
  /\ Session!SocketIsReady => SP!Wake
  /\ Session!SocketIsIdleInput => SP!Wake
  /\ Session!SocketIsIdleOutput => SP!Wake
  /\ Session!ClientStops => SP!ClientStops
  BY Zenon
  DEF Session!Wake, Session!SocketIsReady, Session!SocketIsIdleInput,
      Session!SocketIsIdleOutput, Session!ClientStops, Session!ClientError,
      Session!BeginResponse, Session!Calls, Session!Return,
      Session!InputStates, Session!OutputStates, Session!inputVars,
      Session!outputVars,
      SP!Wake, SP!SocketIsReady, SP!SocketIsIdleInput,
      SP!SocketIsIdleOutput, SP!ClientStops, SP!ClientError,
      SP!BeginResponse, SP!Calls, SP!Return, SP!InputStates,
      SP!OutputStates, SP!inputVars, SP!outputVars

(* A step of the server is a step of the session behind Conn, or none, or  *)
(* Conn is given to a new connection with a new session.                   *)
LEMMA SessionSteps ==
  ASSUME [ServerNext]_serverVars
  PROVE  [SP!Next]_SP!vars \/ SP!Init'
<1>1. ASSUME UNCHANGED sessionVars PROVE UNCHANGED SP!vars
  BY <1>1, Zenon DEF sessionVars, SP!vars, SP!inputVars, SP!outputVars
<1>2. CASE EnterSession
  BY <1>2, SameWake DEF EnterSession, SP!Next
<1>3. CASE RunSession
  BY <1>3, SameRead, SameWrite DEF RunSession, SP!Next
<1>4. CASE IdleSession
  BY <1>4, SameWake DEF IdleSession, SP!Next
<1>5. ASSUME NEW fd \in Others, AcceptDetailed(fd) PROVE SP!Init'
  BY <1>5, Zenon
  DEF AcceptDetailed, create_session, SP!Init, SP!Message, Session!Message
<1>6. CASE ClientStops
  BY <1>6, SameWake DEF ClientStops, SP!Next
<1>7. CASE UNCHANGED serverVars
  BY <1>1, <1>7 DEF serverVars
<1> QED BY <1>1, <1>2, <1>3, <1>4, <1>5, <1>6, <1>7
        DEF ServerNext, ServerLoop, SessionStep

LEMMA SessionInvariant == ServerSpec => []SP!Inv
<1>1. ServerInit => SP!Inv
  <2>1. Session!Init => SP!Init
    BY Zenon DEF Session!Init, SP!Init, Session!Message, SP!Message
  <2> QED BY <2>1, SP!InvInit, SessionAssumption DEF ServerInit
<1>2. SP!Inv /\ [ServerNext]_serverVars => SP!Inv'
  <2>1. SP!Inv /\ [SP!Next]_SP!vars => SP!Inv'
    BY SP!InvNext, SessionAssumption
  <2>2. SP!Init => SP!Inv
    BY SP!InvInit, SessionAssumption
  <2>3. SP!Init' => SP!Inv'
    BY <2>2, PTL
  <2> QED BY <2>1, <2>3, SessionSteps
<1> QED BY <1>1, <1>2, PTL DEF ServerSpec

(* The counts of a session agree with the messages and the responses also  *)
(* when the event loop calls it, times it out and gives its descriptor to  *)
(* the next connection: every request body and header and every response   *)
(* on Conn is framed exactly.                                              *)
THEOREM ServerFramesMessages ==
  ServerSpec => [](/\ Session!BodyIsFramed
                   /\ Session!HeaderIsLimited
                   /\ Session!ResponseIsFramed)
<1>1. SP!Inv => /\ Session!BodyIsFramed
                /\ Session!HeaderIsLimited
                /\ Session!ResponseIsFramed
  BY Zenon
  DEF SP!Inv, SP!BodyIsFramed, SP!HeaderIsLimited, SP!ResponseIsFramed,
      SP!Total, SP!InputStates, SP!OutputStates, Session!BodyIsFramed,
      Session!HeaderIsLimited, Session!ResponseIsFramed, Session!Total,
      Session!InputStates, Session!OutputStates
<1> QED BY <1>1, SessionInvariant, PTL

(* With handlers that do not stall, a session that the loop has parked     *)
(* holds no unread byte of a request and, while it writes, something to    *)
(* write: the loop does not wait for a client that waits for the server.   *)
THEOREM ServerParksForAReason ==
  ASSUME ~HandlerMayStall PROVE ServerSpec => []Session!ParkedForAReason
<1>1. SP!Init => SP!ParkedForAReason
  BY Zenon DEF SP!Init, SP!ParkedForAReason, SP!InputStates
<1>2. Session!Init => SP!Init
  BY Zenon DEF Session!Init, SP!Init, Session!Message, SP!Message
<1>3. SP!Init' => SP!ParkedForAReason'
  BY <1>1, PTL
<1>4. SP!ParkedForAReason /\ [SP!Next]_SP!vars => SP!ParkedForAReason'
  BY SP!ParkedNext, SessionAssumption
<1>5. SP!ParkedForAReason /\ [ServerNext]_serverVars => SP!ParkedForAReason'
  BY <1>3, <1>4, SessionSteps
<1>6. ServerInit => SP!ParkedForAReason
  BY <1>1, <1>2 DEF ServerInit
<1>7. SP!ParkedForAReason => Session!ParkedForAReason
  BY Zenon
  DEF SP!ParkedForAReason, SP!InputStates, Session!ParkedForAReason,
      Session!InputStates
<1> QED BY <1>5, <1>6, <1>7, PTL DEF ServerSpec

-----------------------------------------------------------------------------
(* Loop and session agree. *)

(* Without administrative services and input descriptors, listeners are    *)
(* HTTP services and their sessions, and Conn is not a service.            *)
KindsInv ==
  /\ \A fd \in Fds : kind[fd] \in {"none", "http_service", "http_session"}
  /\ Conn \in listeners => kind[Conn] = "http_session"

(* The thread is inside the session only while it dispatches the event of  *)
(* Conn; the session is closed as long as Conn waits for its removal, and  *)
(* a session that waits does so in the direction that the registry has.    *)
AgreeInv ==
  /\ spc \in {"parked", "running", "closed"}
  /\ Running =>
       /\ spc = "running" => pc = "dispatch" /\ Conn \in batch
       /\ Conn \in listeners =>
            /\ spc = "closed" <=> Conn \in Queued
            /\ spc = "parked" => dir[Conn] = io_dir(state)

(* What the inside of the registry contributes. *)
RegistryInv == ListInv /\ QueueInv /\ InterestMatchesSession

LEMMA RegistryInvariant ==
  ASSUME ~EnrollErrorCaught, StallBound < InactivityPeriod
  PROVE  ServerSpec => []RegistryInv
<1>1. Init => InterestMatchesSession
  BY DEF Init, MonitorInit, InterestMatchesSession
<1>2. Init => RegistryInv
  BY <1>1, ListInit, QueueInit DEF RegistryInv
<1>3. RegistryInv /\ [Next]_vars => RegistryInv'
  BY ListNext, QueueNext, InterestNext DEF RegistryInv
<1> QED BY <1>2, <1>3, ServerRefinesRegistry, PTL
        DEF ServerImplementsRegistry, Spec

LEMMA KindsInit == ServerInit => KindsInv
  BY DEF ServerInit, Init, MonitorInit, KindsInv

LEMMA KindsNext ==
  ASSUME RegistryInv, KindsInv, [ServerNext]_serverVars
  PROVE  KindsInv'
<1>0. /\ kind \in [Fds -> Kind] /\ Conn \in Fds \ HttpServices
      /\ Enrollable = HttpServices /\ HttpServices \subseteq Fds
      /\ listeners \subseteq Fds /\ batch \subseteq listeners
  BY ConnAssumption, ServicesAssumption
     DEF RegistryInv, ListInv, TypeOK, MonitorTypeOK, BatchInv, Enrollable
<1>1. ASSUME UNCHANGED <<kind, listeners>> PROVE KindsInv'
  BY <1>1 DEF KindsInv
<1>2. ASSUME NEW fd \in Fds, NEW conn \in Fds, accept_connection(fd, conn)
      PROVE  KindsInv'
  <2>1. kind[fd] = "http_service" /\ conn # fd
    BY <1>0, <1>2 DEF accept_connection, AtEvent, Services, KindsInv
  <2>2. /\ kind' = [kind EXCEPT ![conn] = "http_session"]
        /\ listeners' = listeners \cup {conn}
    BY <1>2, <2>1 DEF accept_connection, SessionKind, add
  <2> QED BY <1>0, <2>2 DEF KindsInv
<1>3. ASSUME NEW fd \in Enrollable, enroll(fd) PROVE KindsInv'
  <2>1. KindOf(fd) = "http_service" /\ fd # Conn
    <3>1. fd \in HttpServices /\ fd \notin AdmServices /\ fd \notin Sources
      BY <1>0, ConnAssumption
    <3> QED BY <1>0, <3>1 DEF KindOf
  <2> QED BY <1>0, <1>3, <2>1 DEF enroll, add, KindsInv
<1>4. CASE RemoveQueued
  BY <1>0, <1>4 DEF RemoveQueued, FlushRemove, KindsInv
<1>5. CASE Setup
  BY <1>1, <1>3, <1>5
  DEF Setup, EnrollFails, add_fails, process_events, registryVars
<1>6. CASE SessionStep
  BY <1>1, <1>6
  DEF SessionStep, EnterSession, RunSession, IdleSession, IdleInput,
      IdleOutput, finalize_event, SessionEnds, SessionContinues, vars,
      monitorVars, registryVars
<1>7. CASE OtherStep
  BY <1>1, <1>2, <1>4, <1>5, <1>7
  DEF OtherStep, Others, NothingToWaitFor, EpollWaitReturns, WaitReturns,
      SessionEnds, SessionContinues, IdleInput, IdleOutput, IdleIgnored,
      StartScan, EndScan, FlushDone, registryVars
<1>8. CASE ServerFails
  BY <1>1, <1>8
  DEF ServerFails, WaitFails, AcceptFails, AddConnectionFails, add_fails,
      HandlerThrows, registryVars
<1>9. ASSUME NEW fd \in Others, AcceptDetailed(fd) PROVE KindsInv'
  BY <1>0, <1>2, <1>9 DEF AcceptDetailed, Others
<1>10. CASE ClientStops \/ TimePasses \/ Done \/ UNCHANGED serverVars
  BY <1>1, <1>10
  DEF ClientStops, TimePasses, Tick, Done, serverVars, vars, monitorVars,
      registryVars
<1> QED BY <1>6, <1>7, <1>8, <1>9, <1>10 DEF ServerNext, ServerLoop

(* socket_is_ready returns with a status that says whether the session     *)
(* goes on, and finalize_event reads it in the same way.                   *)
LEMMA SessionReturns ==
  ASSUME Session!ReadRequest \/ Session!WriteResponse
  PROVE  /\ spc = "running"
         /\ \/ spc' = "running"
            \/ spc' = "parked" /\ ~is_session_terminated(status')
            \/ spc' = "closed" /\ is_session_terminated(status')
<1>1. CASE Session!ReadRequest
  BY <1>1
  DEF is_session_terminated, Session!ReadRequest,
      Session!WaitFindsData, Session!WaitReadsData, Session!WaitBlocks,
      Session!WaitEnds, Session!InputArrives, Session!InputBlocks,
      Session!InputTruncated, Session!InputFails, Session!HeaderTooLarge,
      Session!ParseMore, Session!HeaderRefused, Session!HeaderAccepted,
      Session!Content, Session!ContentStalls, Session!ContentRefused,
      Session!RequestFinished, Session!RequestRefused,
      Session!In, Session!Return, Session!Continue, Session!StartHeader,
      Session!NeedsInput, Session!HasHeaderBytes, Session!HasBodyBytes,
      Session!BodyFinished
<1>2. CASE Session!WriteResponse
  BY <1>2
  DEF is_session_terminated, Session!WriteResponse,
      Session!OutputTaken, Session!OutputBlocks, Session!OutputFails,
      Session!SerializeHeader, Session!HeaderWritten, Session!Supply,
      Session!SupplyStalls, Session!SupplyFails, Session!ResponseWritten,
      Session!In, Session!Return, Session!Continue, Session!HasOutput,
      Session!NeedsOutput
<1> QED BY <1>1, <1>2

LEMMA AgreeInit == ServerInit => AgreeInv
  BY DEF ServerInit, Init, MonitorInit, Session!Init, AgreeInv

(* A step outside the session that leaves what the registry says of Conn   *)
(* as it is.                                                               *)
LEMMA AgreeElsewhere ==
  ASSUME AgreeInv, ~Busy, UNCHANGED sessionVars, Running' => Running,
         Conn \in listeners' =>
           /\ Conn \in listeners
           /\ Conn \in Queued' <=> Conn \in Queued
           /\ dir'[Conn] = dir[Conn]
  PROVE  AgreeInv'
<1>1. spc' = spc /\ state' = state
  BY DEF sessionVars
<1>2. io_dir(state') = io_dir(state)
  BY <1>1
<1>3. ASSUME Running' PROVE spc # "running"
  BY <1>3 DEF AgreeInv, Busy
<1> HIDE DEF io_dir
<1> QED BY <1>1, <1>2, <1>3 DEF AgreeInv

LEMMA AgreeOther ==
  ASSUME RegistryInv, AgreeInv, ~Busy, OtherStep, UNCHANGED sessionVars
  PROVE  AgreeInv'
<1>0. /\ TypeOK /\ ListInv /\ QueueInv
      /\ listeners \subseteq Fds /\ toRemove \in Seq(Fds)
      /\ dir \in [Fds -> Direction] /\ Conn \in Fds \ HttpServices
      /\ Enrollable = HttpServices
  BY ConnAssumption
     DEF RegistryInv, ListInv, TypeOK, MonitorTypeOK, Enrollable
<1> USE DEF Running, Stopped
<1>1. ASSUME Running' => Running, UNCHANGED <<listeners, toRemove, dir>>
      PROVE  AgreeInv'
  BY <1>1, AgreeElsewhere DEF Queued
<1>2. CASE Setup
  <2>1. /\ Running /\ UNCHANGED <<toRemove, dir>>
        /\ listeners' = listeners \/ \E fd \in HttpServices :
                                       listeners' = listeners \cup {fd}
    BY <1>0, <1>2
    DEF Setup, enroll, EnrollFails, process_events, add, add_fails,
        registryVars
  <2> QED BY <1>0, <2>1, AgreeElsewhere DEF Queued
<1>3. CASE NothingToWaitFor /\ UNCHANGED registryVars
  BY <1>1, <1>3 DEF NothingToWaitFor, registryVars
<1>4. CASE EpollWaitReturns /\ UNCHANGED registryVars
  BY <1>1, <1>4 DEF EpollWaitReturns, WaitReturns, registryVars
<1>5. ASSUME NEW fd \in Others, NEW conn \in Others,
             accept_connection(fd, conn)
      PROVE  AgreeInv'
  <2>1. /\ Running /\ UNCHANGED toRemove
        /\ listeners' = listeners \cup {conn}
        /\ dir' = [dir EXCEPT ![conn] = "read"]
    BY <1>5 DEF accept_connection, AtEvent, add
  <2> QED BY <1>0, <2>1, AgreeElsewhere DEF Queued, Others
(* The callback of another connection, which may end it. *)
<1>6. ASSUME NEW fd \in Others, NEW d \in Direction,
             \/ SessionEnds(fd, d) \/ SessionContinues(fd, d)
             \/ IdleInput(fd) \/ IdleOutput(fd) \/ IdleIgnored(fd)
      PROVE  AgreeInv'
  <2>1. /\ Running /\ UNCHANGED listeners
        /\ \/ UNCHANGED dir
           \/ \E e \in Direction : dir' = [dir EXCEPT ![fd] = e]
        /\ toRemove' = toRemove \/ toRemove' = Append(toRemove, fd)
    BY <1>6
    DEF SessionEnds, SessionContinues, IdleInput, IdleOutput, IdleIgnored,
        FinalizeContinues, deferred_remove, AtEvent, AtDueEntry, Direction,
        registryVars
  <2>2. fd \in Fds \ {Conn}
    BY DEF Others
  <2>3. dir'[Conn] = dir[Conn]
    BY <1>0, <2>1, <2>2
  <2>4. Conn \in Queued' <=> Conn \in Queued
    BY <1>0, <2>1, <2>2, QueueAppend DEF Queued
  <2> QED BY <2>1, <2>3, <2>4, AgreeElsewhere
<1>7. CASE StartScan /\ UNCHANGED registryVars
  BY <1>1, <1>7 DEF StartScan, registryVars
<1>8. CASE EndScan /\ UNCHANGED registryVars
  BY <1>1, <1>8 DEF EndScan, registryVars
<1>9. CASE RemoveQueued
  <2>1. /\ Running /\ UNCHANGED dir /\ toRemove # <<>>
        /\ listeners' = listeners \ {Head(toRemove)}
        /\ toRemove' = Tail(toRemove)
    BY <1>9 DEF RemoveQueued, FlushRemove
  <2>2. ToSet(Tail(toRemove)) = ToSet(toRemove) \ {Head(toRemove)}
    BY <1>0, <2>1, QueueTail DEF QueueInv
  <2> QED BY <2>1, <2>2, AgreeElsewhere DEF Queued
<1>10. CASE FlushDone
  BY <1>1, <1>10 DEF FlushDone, registryVars
<1>11. \E d \in Direction : TRUE
  BY DEF Direction
<1> QED BY <1>2, <1>3, <1>4, <1>5, <1>6, <1>7, <1>8, <1>9, <1>10, <1>11
        DEF OtherStep

LEMMA AgreeNext ==
  ASSUME StallBound < InactivityPeriod, RegistryInv, KindsInv, AgreeInv,
         [ServerNext]_serverVars
  PROVE  AgreeInv'
<1>0. /\ TypeOK /\ ListInv /\ QueueInv
      /\ listeners \subseteq Fds /\ toRemove \in Seq(Fds)
      /\ batch \subseteq listeners
      /\ dir \in [Fds -> Direction] /\ Conn \in Fds
  BY ConnAssumption
     DEF RegistryInv, ListInv, BatchInv, TypeOK, MonitorTypeOK
<1> USE DEF Running, Stopped
<1>1. CASE EnterSession
  <2>1. /\ pc = "dispatch" /\ Conn \in batch /\ spc = "parked"
        /\ spc' = "running" /\ UNCHANGED vars
    BY <1>1 DEF EnterSession, AtEvent, Session!SocketIsReady
  <2> QED BY <1>0, <2>1 DEF AgreeInv, Queued, vars, monitorVars, registryVars
<1>2. CASE RunSession
  <2>1. /\ AtEvent(Conn, {"http_session"}) /\ pc = "dispatch"
        /\ Conn \in batch /\ Conn \in listeners
    BY <1>0, <1>2 DEF RunSession, AtEvent
  <2>2. Conn \notin Queued
    BY <1>0, <2>1, EventIsNotQueued
  <2>3. CASE spc' = "running"
    <3>1. UNCHANGED vars
      BY <1>2, <2>3 DEF RunSession
    <3> QED BY <2>1, <2>2, <2>3, <3>1
            DEF AgreeInv, Queued, vars, monitorVars, registryVars
  <2>4. CASE spc' = "parked" /\ ~is_session_terminated(status')
    <3>1. SessionContinues(Conn, io_dir(state'))
      BY <1>2, <2>4 DEF RunSession, finalize_event
    <3>2. /\ dir' = [dir EXCEPT ![Conn] = io_dir(state')]
          /\ UNCHANGED <<listeners, toRemove>>
      BY <3>1 DEF SessionContinues, FinalizeContinues
    <3>3. dir'[Conn] = io_dir(state')
      BY <1>0, <3>2
    <3> QED BY <2>2, <2>4, <3>2, <3>3 DEF AgreeInv, Queued, io_dir
  <2>5. CASE spc' = "closed" /\ is_session_terminated(status')
    <3>1. SessionEnds(Conn, io_dir(state'))
      BY <1>2, <2>5 DEF RunSession, finalize_event
    <3>2. toRemove' = Append(toRemove, Conn) /\ UNCHANGED listeners
      BY <3>1 DEF SessionEnds, deferred_remove
    <3>3. Conn \in Queued'
      BY <1>0, <3>2, QueueAppend DEF Queued
    <3> QED BY <2>5, <3>3 DEF AgreeInv
  <2> QED BY <1>2, <2>3, <2>4, <2>5, SessionReturns DEF RunSession
<1>3. CASE IdleSession
  <2>1. /\ AtDueEntry(Conn) /\ pc = "scan" /\ Conn \in listeners
        /\ spc = "parked"
    BY <1>3
    DEF IdleSession, IdleInput, IdleOutput, AtDueEntry,
        Session!SocketIsIdleInput, Session!SocketIsIdleOutput
  <2>2. Conn \notin Queued
    BY <2>1 DEF AgreeInv
  <2>3. CASE IdleInput(Conn) /\ Session!SocketIsIdleInput
    <3>1. /\ dir' = [dir EXCEPT ![Conn] = "write"]
          /\ UNCHANGED <<listeners, toRemove>>
      BY <2>3 DEF IdleInput, FinalizeContinues
    <3>2. spc' = "parked" /\ state' = "write_response_header"
      BY <2>3
      DEF Session!SocketIsIdleInput, Session!Return, Session!ClientError,
          Session!BeginResponse
    <3>3. io_dir(state') = "write"
      BY <3>2 DEF io_dir, Session!InputStates
    <3>4. dir'[Conn] = "write"
      BY <1>0, <3>1
    <3> QED BY <2>2, <3>1, <3>2, <3>3, <3>4 DEF AgreeInv, Queued, io_dir
  <2>4. CASE IdleOutput(Conn) /\ Session!SocketIsIdleOutput
    <3>1. toRemove' = Append(toRemove, Conn) /\ UNCHANGED listeners
      BY <2>4 DEF IdleOutput, deferred_remove
    <3>2. spc' = "closed"
      BY <2>4 DEF Session!SocketIsIdleOutput, Session!Return
    <3>3. Conn \in Queued'
      BY <1>0, <3>1, QueueAppend DEF Queued
    <3> QED BY <3>2, <3>3 DEF AgreeInv
  <2> QED BY <1>3, <2>3, <2>4 DEF IdleSession
<1>4. ASSUME NEW fd \in Others, AcceptDetailed(fd) PROVE AgreeInv'
  <2>1. /\ pc = "dispatch" /\ Conn \notin listeners /\ UNCHANGED toRemove
        /\ dir' = [dir EXCEPT ![Conn] = "read"]
    BY <1>4 DEF AcceptDetailed, accept_connection, AtEvent
  <2>2. Conn \notin Queued'
    BY <1>0, <2>1 DEF QueueInv, Queued
  <2>3. spc' = "parked" /\ state' = "read_request_header"
    BY <1>4 DEF AcceptDetailed, create_session
  <2>4. io_dir(state') = "read"
    BY <2>3 DEF io_dir, Session!InputStates
  <2>5. dir'[Conn] = "read"
    BY <1>0, <2>1
  <2> QED BY <2>2, <2>3, <2>4, <2>5 DEF AgreeInv, io_dir
<1>5. CASE ~Busy /\ OtherStep /\ UNCHANGED sessionVars
  BY <1>5, AgreeOther
<1>6. CASE ServerFails /\ UNCHANGED sessionVars
  <2>1. pc' = "thrown" /\ spc' = spc
    BY <1>6
    DEF ServerFails, WaitFails, AcceptFails, AddConnectionFails,
        HandlerThrows, CallbackThrows, sessionVars
  <2> QED BY <2>1 DEF AgreeInv
<1>7. CASE ClientStops
  <2>1. /\ spc' = spc /\ state' = state /\ pc' = pc /\ batch' = batch
        /\ UNCHANGED <<listeners, toRemove, dir>>
    BY <1>7
    DEF ClientStops, Session!ClientStops, vars, monitorVars, registryVars
  <2> QED BY <2>1 DEF AgreeInv, Queued, io_dir
<1>8. CASE (TimePasses \/ Done) /\ UNCHANGED sessionVars
  <2>1. /\ spc' = spc /\ state' = state /\ pc' = pc /\ batch' = batch
        /\ UNCHANGED <<listeners, toRemove, dir>>
    BY <1>8
    DEF TimePasses, Tick, Done, sessionVars, vars, monitorVars, registryVars
  <2> QED BY <2>1 DEF AgreeInv, Queued, io_dir
<1>9. CASE UNCHANGED serverVars
  <2>1. /\ spc' = spc /\ state' = state /\ pc' = pc /\ batch' = batch
        /\ UNCHANGED <<listeners, toRemove, dir>>
    BY <1>9
    DEF serverVars, sessionVars, vars, monitorVars, registryVars
  <2> QED BY <2>1 DEF AgreeInv, Queued, io_dir
<1> QED BY <1>1, <1>2, <1>3, <1>4, <1>5, <1>6, <1>7, <1>8, <1>9
        DEF ServerNext, ServerLoop, SessionStep

LEMMA AgreeInvariant ==
  ASSUME ~EnrollErrorCaught, StallBound < InactivityPeriod
  PROVE  ServerSpec => [](RegistryInv /\ KindsInv /\ AgreeInv)
<1>1. RegistryInv /\ KindsInv /\ AgreeInv /\ [ServerNext]_serverVars
        => KindsInv' /\ AgreeInv'
  BY KindsNext, AgreeNext
<1> QED BY <1>1, KindsInit, AgreeInit, RegistryInvariant, PTL DEF ServerSpec

(* What request_processor returns and what the registry makes of it agree: *)
(* a session has ended if and only if its descriptor is in the queue of    *)
(* removals, for every client, buffer size, message and timeout.           *)
THEOREM EndsAreAgreed ==
  ASSUME ~EnrollErrorCaught, StallBound < InactivityPeriod
  PROVE  ServerSpec => []EndIsAgreed
<1>1. AgreeInv => EndIsAgreed
  BY DEF AgreeInv, EndIsAgreed, Registered
<1> QED BY <1>1, AgreeInvariant, PTL

(* When the loop waits, the kernel watches the connection for the          *)
(* direction in which its session goes on, so that a session is neither    *)
(* left asleep with its bytes there nor woken in vain.                     *)
THEOREM ConnectionIsWatched ==
  ASSUME ~EnrollErrorCaught, StallBound < InactivityPeriod
  PROVE  ServerSpec => []WatchedForItsState
<1>1. ASSUME RegistryInv, KindsInv, AgreeInv, Registered, pc = "wait"
      PROVE  interest[Conn] = IF state \in Session!InputStates THEN {"read"}
                                                               ELSE {"write"}
  <2>1. Conn \in listeners /\ Running /\ kind[Conn] \in Sessions
    BY <1>1 DEF Registered, KindsInv, Sessions
  <2>2. Conn \notin Queued
    BY <1>1, EmptyQueue DEF RegistryInv, QueueInv, Queued
  <2>3. interest[Conn] = {dir[Conn]}
    BY <1>1, <2>1, <2>2 DEF RegistryInv, InterestMatchesSession
  <2>4. spc = "parked"
    BY <1>1, <2>1, <2>2 DEF AgreeInv
  <2>5. dir[Conn] = io_dir(state)
    BY <1>1, <2>1, <2>4 DEF AgreeInv
  <2> QED BY <2>3, <2>5 DEF io_dir
<1>2. RegistryInv /\ KindsInv /\ AgreeInv => WatchedForItsState
  BY <1>1 DEF WatchedForItsState
<1> QED BY <1>2, AgreeInvariant, PTL
=============================================================================
