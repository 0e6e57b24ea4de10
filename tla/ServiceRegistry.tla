-------------------------- MODULE ServiceRegistry --------------------------
(***************************************************************************)
(* service_registry (service_registry.hpp) on top of fd_event_monitor: the *)
(* listeners that it registers and the event loop, process_events.  Three  *)
(* sorts of listener are enrolled: HTTP services, administrative services  *)
(* (the `adm' socket of bin/http_echo.cpp) and input descriptors.  Sockets *)
(* accept connections, each of which becomes a listener with a session.    *)
(*                                                                         *)
(* A session is seen from outside: what socket_is_ready and socket_is_idle *)
(* can return and what they can call on the registry.  Its inside is the   *)
(* subject of module RequestProcessor.                                     *)
(***************************************************************************)
EXTENDS FdEventMonitor

CONSTANTS
  HttpServices,      \* fds of the sockets given to enroll_http_service
  AdmServices,       \* fds of the sockets of administrative services
  Sources,           \* fds given to the enroll for input descriptors
  EnrollErrorCaught  \* whether the application survives a failed enroll

ASSUME ServicesAssumption ==
  /\ HttpServices \cup AdmServices \cup Sources \subseteq Fds
  /\ HttpServices \cap AdmServices = {}
  /\ (HttpServices \cup AdmServices) \cap Sources = {}
ASSUME CaughtAssumption == EnrollErrorCaught \in BOOLEAN

VARIABLES
  kind,   \* what the listener of an fd is
  dir,    \* the direction in which a session waits
  events  \* connection_event_handler::events

registryVars == <<kind, dir, events>>
vars == <<monitorVars, registryVars>>

Services == {"http_service", "adm_service"}
Sessions == {"http_session", "adm_session"}
Kind == {"none", "source"} \cup Services \cup Sessions

TypeOK ==
  /\ MonitorTypeOK
  /\ kind \in [Fds -> Kind]
  /\ dir \in [Fds -> Direction]
  /\ events \in [Fds -> ListenOn]

Init ==
  /\ MonitorInit
  /\ kind = [fd \in Fds |-> "none"]
  /\ dir = [fd \in Fds |-> "read"]
  /\ events = [fd \in Fds |-> {"read"}]

-----------------------------------------------------------------------------
(* Setting up: the application enrolls its services, then process_events.  *)

KindOf(fd) == CASE fd \in HttpServices -> "http_service"
                [] fd \in AdmServices -> "adm_service"
                [] fd \in Sources -> "source"

(* A socket is added with the default events, an input fd with `read'. *)
enroll(fd) ==
  /\ pc = "setup"
  /\ fd \notin listeners
  /\ add(fd, IF fd \in Sources THEN {"read"} ELSE Direction,
         PushBack(timers, fd))
  /\ kind' = [kind EXCEPT ![fd] = KindOf(fd)]
  /\ UNCHANGED <<pc, toRemove, shouldClear, batch, cursor, clock, now, dir,
                 events>>

EnrollFails(fd) ==
  /\ pc = "setup"
  /\ fd \notin listeners
  /\ ~\E k \in DOMAIN timers : timers[k].fd = fd  \* at most once: a bound
  /\ add_fails(fd)
  /\ pc' = IF EnrollErrorCaught THEN "setup" ELSE "thrown"
  /\ UNCHANGED <<toRemove, shouldClear, batch, cursor, clock, now,
                 registryVars>>

process_events ==
  /\ pc = "setup"
  /\ pc' = "wait"
  /\ UNCHANGED <<listeners, interest, timers, toRemove, shouldClear, batch,
                 cursor, clock, now, registryVars>>

-----------------------------------------------------------------------------
(* server_event_handler *)

AtEvent(fd, kinds) == pc = "dispatch" /\ fd \in batch /\ kind[fd] \in kinds

SessionKind(service) ==
  IF service = "http_service" THEN "http_session" ELSE "adm_session"

(* accept_connection: conn is the descriptor that accept returned.  It is  *)
(* unused: descriptors that wait for their removal are still open.         *)
accept_connection(fd, conn) ==
  /\ AtEvent(fd, Services)
  /\ conn \notin listeners
  /\ add(conn, {"read"}, Refresh(PushBack(timers, conn), fd))
  /\ kind' = [kind EXCEPT ![conn] = SessionKind(kind[fd])]
  /\ dir' = [dir EXCEPT ![conn] = "read"]
  /\ events' = [events EXCEPT ![conn] = {"read"}]
  /\ batch' = batch \ {fd}
  /\ UNCHANGED <<pc, toRemove, shouldClear, cursor, clock, now>>

(* accept, set_non_blocking or create_session throws: the peer has gone,   *)
(* no descriptor is left, ...                                              *)
AcceptFails(fd) ==
  /\ AtEvent(fd, Services)
  /\ CallbackThrows(fd)
  /\ UNCHANGED <<listeners, interest, timers, toRemove, shouldClear,
                 registryVars>>

(* The connection is accepted but epoll_ctl refuses it. *)
AddConnectionFails(fd, conn) ==
  /\ AtEvent(fd, Services)
  /\ conn \notin listeners
  /\ CallbackThrows(fd)
  /\ add_fails(conn)
  /\ UNCHANGED <<toRemove, shouldClear, registryVars>>

-----------------------------------------------------------------------------
(* connection_event_handler *)

(* finalize_event that closes the connection on the spot. *)
FinalizeTerminatedAtOnce(fd, d) ==
  /\ AtEvent(fd, {"http_session"})
  /\ listeners' = listeners \ {fd}
  /\ interest' = [interest EXCEPT ![fd] = {}]
  /\ kind' = [kind EXCEPT ![fd] = "none"]
  /\ batch' = batch \ {fd}
  /\ timers' = EraseTimer(timers, fd)
  /\ UNCHANGED <<pc, toRemove, shouldClear, cursor, clock, now, dir, events>>

(* socket_is_ready ends the session.  d is the direction of the state in   *)
(* which it ended: the callback may have changed state many times before.  *)
SessionEnds(fd, d) ==
  /\ AtEvent(fd, {"http_session"})
  /\ dir' = [dir EXCEPT ![fd] = d]
  /\ deferred_remove(fd)
  /\ EventDone(fd, timers)
  /\ UNCHANGED <<listeners, interest, shouldClear, kind, events>>

(* finalize_event that does not record the new events. *)
FinalizeForgetsEvents(fd, d) ==
  /\ dir' = [dir EXCEPT ![fd] = d]
  /\ IF events[fd] # {d} THEN modify(fd, {d}) ELSE UNCHANGED interest
  /\ UNCHANGED events

(* The rest of finalize_event for a session that continues and now waits   *)
(* in direction d.                                                         *)
FinalizeContinues(fd, d) ==
  /\ dir' = [dir EXCEPT ![fd] = d]
  /\ IF events[fd] # {d}
     THEN modify(fd, {d}) /\ events' = [events EXCEPT ![fd] = {d}]
     ELSE UNCHANGED <<interest, events>>

SessionContinues(fd, d) ==
  /\ AtEvent(fd, {"http_session"})
  /\ FinalizeContinues(fd, d)
  /\ EventDone(fd, timers)
  /\ UNCHANGED <<listeners, toRemove, shouldClear, kind>>

(* The request handler of a session throws, or modify does, or the         *)
(* application's handler of an input descriptor throws: in fd_is_ready or  *)
(* in fd_is_idle.                                                          *)
HandlerThrows(fd) ==
  /\ AtEvent(fd, {"http_session", "source"}) \/ AtDueEntry(fd)
  /\ kind[fd] \in {"http_session", "source"}
  /\ CallbackThrows(fd)
  /\ UNCHANGED <<listeners, interest, timers, toRemove, shouldClear,
                 registryVars>>

(* adm_request_handler::socket_is_ready: end of file or an error. *)
AdmSessionEnds(fd) ==
  /\ AtEvent(fd, {"adm_session"})
  /\ deferred_remove(fd)
  /\ EventDone(fd, timers)
  /\ UNCHANGED <<listeners, interest, shouldClear, registryVars>>

(* adm_request_handler::socket_is_ready: data other than `shutdown', or a  *)
(* read that would block.                                                  *)
AdmSessionContinues(fd) ==
  /\ AtEvent(fd, {"adm_session"})
  /\ FinalizeContinues(fd, "read")
  /\ EventDone(fd, timers)
  /\ UNCHANGED <<listeners, toRemove, shouldClear, kind>>

(* A registry that is cleared on the spot. *)
AdmShutdownAtOnce(fd) ==
  /\ AtEvent(fd, {"adm_session"})
  /\ listeners' = {}
  /\ interest' = [f \in Fds |-> {}]
  /\ timers' = <<>>
  /\ kind' = [f \in Fds |-> "none"]
  /\ batch' = batch \ {fd}
  /\ UNCHANGED <<pc, toRemove, shouldClear, cursor, clock, now, dir, events>>

(* adm_request_handler::socket_is_ready: the message `shutdown'. *)
AdmShutdown(fd) ==
  /\ AtEvent(fd, {"adm_session"})
  /\ deferred_clear
  /\ FinalizeContinues(fd, "read")
  /\ EventDone(fd, timers)
  /\ UNCHANGED <<listeners, toRemove, kind>>

(* data_source_event_handler: the application's handler returns ... *)
SourceReady(fd) ==
  /\ AtEvent(fd, {"source"})
  /\ EventDone(fd, timers)
  /\ UNCHANGED <<listeners, interest, toRemove, shouldClear, registryVars>>

(* ... or removes its descriptor, for instance at the end of the input ... *)
SourceEnds(fd) ==
  /\ AtEvent(fd, {"source"})
  /\ deferred_remove(fd)
  /\ EventDone(fd, timers)
  /\ UNCHANGED <<listeners, interest, shouldClear, registryVars>>

(* ... or clears the registry, for instance at a termination signal. *)
SourceClears(fd) ==
  /\ AtEvent(fd, {"source"})
  /\ deferred_clear
  /\ EventDone(fd, timers)
  /\ UNCHANGED <<listeners, interest, toRemove, registryVars>>

-----------------------------------------------------------------------------
(* process_idle_fds *)

(* request_processor::socket_is_idle while it waits for input: the session *)
(* answers 408 and waits until that can be written.                        *)
IdleInput(fd) ==
  /\ AtDueEntry(fd)
  /\ kind[fd] = "http_session"
  /\ dir[fd] = "read"
  /\ FinalizeContinues(fd, "write")
  /\ IdleDone(fd)
  /\ UNCHANGED <<listeners, toRemove, shouldClear, kind>>

(* socket_is_idle that keeps a session whose peer does not take output. *)
IdleOutputIgnored(fd) ==
  /\ AtDueEntry(fd)
  /\ kind[fd] = "http_session"
  /\ dir[fd] = "write"
  /\ IdleDone(fd)
  /\ UNCHANGED <<listeners, interest, toRemove, shouldClear, registryVars>>

(* request_processor::socket_is_idle while it waits for output: completed. *)
IdleOutput(fd) ==
  /\ AtDueEntry(fd)
  /\ kind[fd] = "http_session"
  /\ dir[fd] = "write"
  /\ deferred_remove(fd)
  /\ IdleDone(fd)
  /\ UNCHANGED <<listeners, interest, shouldClear, registryVars>>

(* Whatever is idle is closed. *)
IdleRemoves(fd) ==
  /\ AtDueEntry(fd)
  /\ kind[fd] # "http_session"
  /\ deferred_remove(fd)
  /\ IdleDone(fd)
  /\ UNCHANGED <<listeners, interest, shouldClear, registryVars>>

(* fd_is_idle of an input descriptor removes it ... *)
IdleSourceEnds(fd) ==
  /\ AtDueEntry(fd)
  /\ kind[fd] = "source"
  /\ deferred_remove(fd)
  /\ IdleDone(fd)
  /\ UNCHANGED <<listeners, interest, shouldClear, registryVars>>

(* ... or clears the registry. *)
IdleSourceClears(fd) ==
  /\ AtDueEntry(fd)
  /\ kind[fd] = "source"
  /\ deferred_clear
  /\ IdleDone(fd)
  /\ UNCHANGED <<listeners, interest, toRemove, registryVars>>

(* Services, input descriptors and administrative sessions stay. *)
IdleIgnored(fd) ==
  /\ AtDueEntry(fd)
  /\ kind[fd] # "http_session"
  /\ IdleDone(fd)
  /\ UNCHANGED <<listeners, interest, toRemove, shouldClear, registryVars>>

-----------------------------------------------------------------------------
(* flush_fds_to_remove *)

RemoveQueued ==
  /\ pc = "flush"
  /\ ~shouldClear
  /\ toRemove # <<>>
  /\ Head(toRemove) \in listeners
  /\ FlushRemove(Head(toRemove))
  /\ kind' = [kind EXCEPT ![Head(toRemove)] = "none"]
  /\ toRemove' = Tail(toRemove)
  /\ UNCHANGED <<pc, shouldClear, batch, cursor, clock, now, dir, events>>

(* The call returns before the queue has been worked off. *)
FlushSkipped ==
  /\ pc = "flush"
  /\ ~shouldClear
  /\ CallReturns
  /\ UNCHANGED <<listeners, interest, timers, toRemove, shouldClear, batch,
                 registryVars>>

FlushDone ==
  /\ pc = "flush"
  /\ ~shouldClear
  /\ toRemove = <<>>
  /\ CallReturns
  /\ UNCHANGED <<listeners, interest, timers, toRemove, shouldClear, batch,
                 registryVars>>

(* Only the flag is reset. *)
ClearForgetsListeners ==
  /\ pc = "flush"
  /\ shouldClear
  /\ shouldClear' = FALSE
  /\ CallReturns
  /\ UNCHANGED <<listeners, interest, timers, toRemove, batch, registryVars>>

ClearRegistry ==
  /\ pc = "flush"
  /\ shouldClear
  /\ FlushClear
  /\ CallReturns
  /\ kind' = [fd \in Fds |-> "none"]
  /\ UNCHANGED <<batch, dir, events>>

(* The constructor of the new monitor fails: epoll_create1 needs a         *)
(* descriptor while all the old ones are open.                             *)
ClearFails ==
  /\ pc = "flush"
  /\ shouldClear
  /\ pc' = "thrown"
  /\ UNCHANGED <<listeners, interest, timers, toRemove, shouldClear, batch,
                 cursor, clock, now, registryVars>>

-----------------------------------------------------------------------------
Enrollable == HttpServices \cup AdmServices \cup Sources

Setup ==
  \/ \E fd \in Enrollable : enroll(fd) \/ EnrollFails(fd)
  \/ process_events

Wait ==
  \/ NothingToWaitFor /\ UNCHANGED registryVars
  \/ WaitReturns /\ UNCHANGED registryVars

Dispatch ==
  \E fd \in Fds :
    \/ \E conn \in Fds : accept_connection(fd, conn)
    \/ \E d \in Direction : SessionEnds(fd, d) \/ SessionContinues(fd, d)
    \/ AdmSessionEnds(fd)
    \/ AdmSessionContinues(fd)
    \/ AdmShutdown(fd)
    \/ SourceReady(fd)
    \/ SourceEnds(fd)
    \/ SourceClears(fd)

Scan ==
  \/ StartScan /\ UNCHANGED registryVars
  \/ \E fd \in Fds :
       \/ IdleInput(fd)
       \/ IdleOutput(fd)
       \/ IdleSourceEnds(fd)
       \/ IdleSourceClears(fd)
       \/ IdleIgnored(fd)
  \/ EndScan /\ UNCHANGED registryVars

Flush == RemoveQueued \/ FlushDone \/ ClearRegistry

Failure ==
  \/ WaitFails /\ UNCHANGED registryVars
  \/ \E fd \in Fds :
       \/ AcceptFails(fd)
       \/ \E conn \in Fds : AddConnectionFails(fd, conn)
       \/ HandlerThrows(fd)
  \/ ClearFails

TimePasses == Tick /\ UNCHANGED registryVars

(* The loop has returned or thrown; nothing happens any more. *)
Done == pc \in Stopped /\ UNCHANGED vars

Loop == Wait \/ Dispatch \/ Scan \/ Flush

Next == Setup \/ Loop \/ Failure \/ TimePasses \/ Done

Spec == Init /\ [][Next]_vars

(* The thread keeps running the loop, an application that has set up its   *)
(* services calls process_events, and time passes however often the loop   *)
(* turns.                                                                  *)
Fairness ==
  /\ WF_vars(Loop \/ Failure)
  /\ WF_vars(process_events)
  /\ SF_vars(TimePasses)

FairSpec == Spec /\ Fairness
-----------------------------------------------------------------------------
(* Correctness. *)

Queued == ToSet(toRemove)
Running == pc \notin Stopped

(* An event that epoll_wait returned points at the listener it was         *)
(* registered with (event.data.ptr): until the event has been dispatched   *)
(* that listener exists, whatever the callbacks before it did to the       *)
(* registry.  This is what the deferral of remove and clear is for.        *)
EventsAreLive == batch \subseteq listeners

(* Every listener has exactly one entry in the activity list and every     *)
(* entry belongs to a listener: process_idle_fds may look up the fd of any *)
(* entry, and no connection is missed by the expire check.                 *)
TimersMatchListeners ==
  Running =>
    /\ listeners = {timers[k].fd : k \in DOMAIN timers}
    /\ \A j, k \in DOMAIN timers : timers[j].fd = timers[k].fd => j = k

(* The activity list is in the order of the deadlines, which lets          *)
(* process_idle_fds stop at the first entry that is not due.               *)
TimersSorted ==
  \A j, k \in DOMAIN timers : j < k => timers[j].left <= timers[k].left

(* The assertion of flush_fds_to_remove: whatever fd is in the queue still *)
(* has its listener when its turn comes.  The queue names an fd only once. *)
FlushFindsListener ==
  Running =>
    /\ Queued \subseteq listeners
    /\ \A j, k \in DOMAIN toRemove : toRemove[j] = toRemove[k] => j = k

(* No session is asked for its reaction to inactivity after it has said in *)
(* the same call that it is finished.                                      *)
NoIdleAfterTermination ==
  pc = "scan" /\ cursor <= Len(timers) /\ IsDue(timers[cursor])
    => timers[cursor].fd \notin Queued

(* The assertion of process_idle_fds: a due entry names a listener.        *)
IdleFindsListener ==
  pc = "scan" /\ cursor <= Len(timers) /\ IsDue(timers[cursor])
    => timers[cursor].fd \in listeners

(* The kernel watches a connection for what its session waits for, so that *)
(* a session is neither deaf nor woken in vain: finalize_event keeps the   *)
(* session, its own record of the events and the interest list in step.    *)
InterestMatchesSession ==
  \A fd \in listeners :
    Running /\ kind[fd] \in Sessions /\ fd \notin Queued
      => interest[fd] = {dir[fd]} /\ events[fd] = {dir[fd]}

(* A connection is closed only by flush_fds_to_remove, and only if it was  *)
(* queued or the registry is to be cleared.                                *)
ClosedOnlyByFlush ==
  [][\A fd \in listeners \ listeners' :
       pc = "flush" /\ (shouldClear \/ fd \in Queued)]_vars

(* The services that were enrolled keep listening until the registry is    *)
(* cleared: no session, no input descriptor and no inactivity takes a      *)
(* service away.                                                           *)
ServicesStay ==
  [][\A fd \in listeners \ listeners' :
       shouldClear \/ kind[fd] \notin Services]_vars

(* Every descriptor whose deadline had passed when process_idle_fds        *)
(* sampled the time has had its fd_is_idle when the scan is over.          *)
IdleScanVisitsAllDue ==
  [][pc = "scan" /\ pc' = "flush" =>
       \A k \in DOMAIN timers : ~IsDue(timers[k])]_vars

(* An HTTP session whose descriptor is never reported again is closed in   *)
(* the end, with however many others it has to share the expire check,     *)
(* which serves one of them in a call.                                     *)
SilentSessionExpires ==
  \A fd \in Fds :
    <>[](fd \notin batch) => []<>(kind[fd] # "http_session" \/ ~Running)

(* A session that has ended is closed, and its fd is free again. *)
EndedSessionCloses ==
  \A fd \in Fds : fd \in Queued ~> (fd \notin Queued \/ ~Running)

(* A request to shut down ends the loop, however many events, connections  *)
(* and removals come in between.                                           *)
ShutdownEndsLoop == shouldClear ~> ~Running
=============================================================================
