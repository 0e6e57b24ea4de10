-------------------------- MODULE RemovableService --------------------------
(***************************************************************************)
(* Another way to use the service_registry than bin/http_echo.cpp has.     *)
(*                                                                         *)
(* The sessions of service_registry.test.cpp stop a server by taking its   *)
(* socket away: a client's message `shutdown' makes the session remove the *)
(* descriptor of the service, the connections that are open go on, and the *)
(* loop ends when the last of them has been closed or has expired.         *)
(***************************************************************************)
EXTENDS ServiceRegistry

CONSTANTS
  Server,       \* the fd that the sessions hold as server_fd
  MaxShutdowns  \* bound: messages `shutdown' that clients send

ASSUME RemovableAssumption ==
  /\ HttpServices = {Server} /\ AdmServices = {} /\ Sources = {}
  /\ MaxShutdowns \in Nat

VARIABLES
  shutdowns,  \* messages `shutdown' that were read
  quiet       \* ticks since the last callback of an fd, up to the period

removalVars == <<shutdowns, quiet>>
rvars == <<vars, removalVars>>

RemovalInit ==
  /\ Init
  /\ shutdowns = 0
  /\ quiet = [fd \in Fds |-> 0]

Heard(fd) == quiet' = [quiet EXCEPT ![fd] = 0]

-----------------------------------------------------------------------------
(* session::socket_is_ready reads n times `shutdown' among what else it    *)
(* reads, until the socket would block or is at its end.                   *)
ReadShutdowns(n, ended) ==
  /\ shutdowns + n <= MaxShutdowns
  /\ shutdowns' = shutdowns + n
  /\ toRemove' = toRemove \o [i \in 1..n |-> Server] \o ended

(* The session waits on, for both directions: its session_state_mapper. *)
ReadyContinues(fd, n) ==
  /\ AtEvent(fd, {"http_session"})
  /\ ReadShutdowns(n, <<>>)
  /\ IF events[fd] # Direction
     THEN /\ modify(fd, Direction)
          /\ events' = [events EXCEPT ![fd] = Direction]
     ELSE UNCHANGED <<interest, events>>
  /\ EventDone(fd, timers)
  /\ Heard(fd)
  /\ UNCHANGED <<listeners, shouldClear, kind, dir>>

ReadyEnds(fd, n) ==
  /\ AtEvent(fd, {"http_session"})
  /\ ReadShutdowns(n, <<fd>>)
  /\ EventDone(fd, timers)
  /\ Heard(fd)
  /\ UNCHANGED <<listeners, interest, shouldClear, registryVars>>

(* session::socket_is_idle that keeps the connection. *)
IdleKeeps(fd) ==
  /\ AtDueEntry(fd)
  /\ kind[fd] = "http_session"
  /\ IdleDone(fd)
  /\ Heard(fd)
  /\ UNCHANGED <<listeners, interest, toRemove, shouldClear, registryVars,
                 shutdowns>>

(* session::socket_is_idle closes the connection. *)
IdleEnds(fd) ==
  /\ AtDueEntry(fd)
  /\ kind[fd] = "http_session"
  /\ deferred_remove(fd)
  /\ IdleDone(fd)
  /\ Heard(fd)
  /\ UNCHANGED <<listeners, interest, shouldClear, registryVars, shutdowns>>

ServiceIdle(fd) ==
  /\ AtDueEntry(fd)
  /\ IdleIgnored(fd)
  /\ Heard(fd)
  /\ UNCHANGED shutdowns

Accept(fd, conn) ==
  /\ accept_connection(fd, conn)
  /\ quiet' = [quiet EXCEPT ![fd] = 0, ![conn] = 0]
  /\ UNCHANGED shutdowns

Enroll(fd) == enroll(fd) /\ Heard(fd) /\ UNCHANGED shutdowns

(* The rest of the loop, in which nothing is called. *)
Monitor ==
  /\ \/ Wait
     \/ StartScan /\ UNCHANGED registryVars
     \/ EndScan /\ UNCHANGED registryVars
     \/ RemoveQueued
     \/ FlushDone
  /\ UNCHANGED removalVars

Callbacks ==
  \E fd \in Fds :
    \/ \E conn \in Fds : Accept(fd, conn)
    \/ \E n \in 0..MaxShutdowns : ReadyContinues(fd, n) \/ ReadyEnds(fd, n)
    \/ IdleEnds(fd)
    \/ ServiceIdle(fd)

Quieter ==
  /\ TimePasses
  /\ quiet' = [fd \in Fds |-> IF quiet[fd] < InactivityPeriod
                              THEN quiet[fd] + 1 ELSE quiet[fd]]
  /\ UNCHANGED shutdowns

(* An exception leaves the loop, for instance when no descriptor is left. *)
Throws ==
  \/ WaitFails /\ UNCHANGED <<registryVars, removalVars>>
  \/ \E fd \in Fds : AcceptFails(fd) /\ UNCHANGED removalVars
  \/ \E fd, conn \in Fds :
       AddConnectionFails(fd, conn) /\ Heard(conn) /\ UNCHANGED shutdowns

RemovalLoop == Monitor \/ Callbacks \/ Throws

(* registry.enroll(...).process_events() *)
Start == process_events /\ listeners # {} /\ UNCHANGED removalVars

RemovalNext ==
  \/ Enroll(Server)
  \/ Start
  \/ RemovalLoop
  \/ Quieter
  \/ Done /\ UNCHANGED removalVars

RemovalSpec == RemovalInit /\ [][RemovalNext]_rvars

FairRemovalSpec ==
  /\ RemovalSpec
  /\ WF_rvars(RemovalLoop)
  /\ SF_rvars(Quieter)

-----------------------------------------------------------------------------
(* Correctness. *)

(* No callback of the batch is left without its listener although other    *)
(* sessions take listeners away, and what the activity list and the queue  *)
(* name are listeners: one message `shutdown' does no harm.                *)
RemovalIsSafe == EventsAreLive /\ TimersMatchListeners /\ FlushFindsListener

(* A connection is not taken for idle before the inactivity period has     *)
(* passed since its last callback: service_registry.test.cpp expects the   *)
(* server to run at least that long after a connection was opened.         *)
NoEarlyExpiry ==
  pc = "scan" /\ cursor <= Len(timers) /\ IsDue(timers[cursor])
    => quiet[timers[cursor].fd] = InactivityPeriod

(* After the service has been taken away the loop ends, and with it the    *)
(* thread of the test: the connections that are left are closed, if only   *)
(* because nothing more is heard of them.                                  *)
RemovalEndsLoop ==
  (\A fd \in Fds \ {Server} : <>[](fd \notin batch))
    => (shutdowns > 0 ~> ~Running)
=============================================================================
