----------------------- MODULE RemovableServiceProofs -----------------------
(***************************************************************************)
(* Proofs about RemovableService, for any number of connections, any       *)
(* inactivity period and, where it says so, any number of messages.        *)
(***************************************************************************)
EXTENDS RemovableService, ServiceRegistryProofs

USE PeriodAssumption, StallAssumption, ServicesAssumption, RemovableAssumption

-----------------------------------------------------------------------------
(* The activity list and what is known of the time since the callbacks. *)

(* An entry of s runs out no earlier than its descriptor has been quiet    *)
(* for the whole period, q being how long each has been quiet.             *)
NotEarly(s, q) ==
  \A k \in DOMAIN s :
    \/ q[s[k].fd] = InactivityPeriod
    \/ q[s[k].fd] + s[k].left >= InactivityPeriod

Quiet == [Fds -> 0..InactivityPeriod]

LEMMA RefreshNotEarly ==
  ASSUME NEW s \in Seq(Timer), NEW L, NEW fd \in L, fd \in Fds, Match(s, L),
         NEW q \in Quiet, NotEarly(s, q)
  PROVE  NotEarly(Refresh(s, fd), [q EXCEPT ![fd] = 0])
<1> DEFINE t == Refresh(s, fd)
           r == [q EXCEPT ![fd] = 0]
<1>1. \A k \in DOMAIN t : \/ t[k] = Fresh(fd)
                          \/ \E j \in DOMAIN s : t[k] = s[j] /\ s[j].fd # fd
  BY RefreshKeepsList
<1> HIDE DEF t
<1>2. ASSUME NEW k \in DOMAIN t
      PROVE  \/ r[t[k].fd] = InactivityPeriod
             \/ r[t[k].fd] + t[k].left >= InactivityPeriod
  <2>1. CASE t[k] = Fresh(fd)
    <3>1. Fresh(fd).fd = fd /\ Fresh(fd).left = InactivityPeriod
      BY DEF Fresh
    <3>2. r[fd] = 0
      BY DEF Quiet
    <3> QED
      BY <2>1, <3>1, <3>2
  <2>2. ASSUME NEW j \in DOMAIN s, t[k] = s[j], s[j].fd # fd
        PROVE  \/ r[t[k].fd] = InactivityPeriod
               \/ r[t[k].fd] + t[k].left >= InactivityPeriod
    <3>1. s[j] \in Timer
      BY <2>2
    <3>2. s[j].fd \in Fds
      BY <3>1 DEF Timer
    <3>3. r[s[j].fd] = q[s[j].fd]
      BY <2>2, <3>2 DEF Quiet
    <3> QED BY <2>2, <3>3 DEF NotEarly
  <2> QED BY <1>1, <2>1, <2>2
<1> QED BY <1>2 DEF NotEarly, t

LEMMA PushNotEarly ==
  ASSUME NEW s \in Seq(Timer), NEW L, NEW fd \in Fds, Match(s, L),
         fd \notin L, NEW q \in Quiet, NotEarly(s, q)
  PROVE  NotEarly(PushBack(s, fd), [q EXCEPT ![fd] = 0])
<1> DEFINE t == PushBack(s, fd)
           r == [q EXCEPT ![fd] = 0]
<1>1. /\ DOMAIN t = 1..(Len(s) + 1)
      /\ DOMAIN s = 1..Len(s)
      /\ Len(s) \in Nat
      /\ \A i \in 1..(Len(s) + 1) :
           t[i] = IF i <= Len(s) THEN s[i] ELSE Fresh(fd)
  BY FreshType, AppendElements DEF PushBack
<1> HIDE DEF t
<1>2. ASSUME NEW k \in DOMAIN t
      PROVE  \/ r[t[k].fd] = InactivityPeriod
             \/ r[t[k].fd] + t[k].left >= InactivityPeriod
  <2>1. CASE t[k] = Fresh(fd)
    <3>1. Fresh(fd).fd = fd /\ Fresh(fd).left = InactivityPeriod
      BY DEF Fresh
    <3>2. r[fd] = 0
      BY DEF Quiet
    <3> QED
      BY <2>1, <3>1, <3>2
  <2>2. CASE k \in DOMAIN s /\ t[k] = s[k]
    <3>1. s[k] \in Timer
      BY <2>2
    <3>2. s[k].fd \in Fds /\ s[k].fd # fd
      BY <2>2, <3>1 DEF Timer, Match
    <3>3. r[s[k].fd] = q[s[k].fd]
      BY <3>2 DEF Quiet
    <3> QED BY <2>2, <3>3 DEF NotEarly
  <2> QED BY <1>1, <2>1, <2>2
<1> QED BY <1>2 DEF NotEarly, t

(* A tick makes every descriptor quieter and brings every deadline nearer. *)
LEMMA AgeNotEarly ==
  ASSUME NEW s \in Seq(Timer), NEW q \in Quiet, NotEarly(s, q)
  PROVE  NotEarly(Age(s), [fd \in Fds |-> IF q[fd] < InactivityPeriod
                                          THEN q[fd] + 1 ELSE q[fd]])
<1> DEFINE t == Age(s)
           r == [fd \in Fds |-> IF q[fd] < InactivityPeriod
                                THEN q[fd] + 1 ELSE q[fd]]
<1>1. /\ t \in Seq(Timer)
      /\ Len(t) = Len(s)
      /\ \A k \in 1..Len(s) :
           t[k].fd = s[k].fd /\ t[k].left >= s[k].left - 1
  BY AgeKeepsList
<1> HIDE DEF t
<1>2. ASSUME NEW k \in DOMAIN t
      PROVE  \/ r[t[k].fd] = InactivityPeriod
             \/ r[t[k].fd] + t[k].left >= InactivityPeriod
  <2>1. k \in DOMAIN s /\ k \in 1..Len(s)
    BY <1>1
  <2>2. s[k] \in Timer /\ t[k] \in Timer
    BY <1>1, <2>1
  <2>3. s[k].left \in Int /\ t[k].left \in Int /\ s[k].fd \in Fds
    BY <2>2 DEF Timer, Left
  <2>4. q[s[k].fd] \in 0..InactivityPeriod
    BY <2>3 DEF Quiet
  <2>5. \/ q[s[k].fd] = InactivityPeriod
        \/ q[s[k].fd] + s[k].left >= InactivityPeriod
    BY <2>1 DEF NotEarly
  <2>6. t[k].fd = s[k].fd /\ t[k].left >= s[k].left - 1
    BY <1>1, <2>1
  <2>7. r[t[k].fd] = IF q[s[k].fd] < InactivityPeriod
                     THEN q[s[k].fd] + 1 ELSE q[s[k].fd]
    BY <2>3, <2>6
  <2> HIDE DEF r
  <2>8. CASE q[s[k].fd] = InactivityPeriod
    BY <2>7, <2>8
  <2>9. CASE q[s[k].fd] < InactivityPeriod
    <3>1. q[s[k].fd] + s[k].left >= InactivityPeriod
      BY <2>4, <2>5, <2>9
    <3>2. r[t[k].fd] = q[s[k].fd] + 1
      BY <2>7, <2>9
    <3> QED
      BY <2>3, <2>4, <2>6, <3>1, <3>2
  <2> QED
    BY <2>4, <2>8, <2>9
<1> QED BY <1>2 DEF NotEarly, t

LEMMA EntriesNotEarly ==
  ASSUME NEW s, NEW t, NEW q, EntriesOf(t, s), NotEarly(s, q)
  PROVE  NotEarly(t, q)
BY DEF EntriesOf, NotEarly

-----------------------------------------------------------------------------
(* The activity list.  Most steps are steps of the registry that module    *)
(* ServiceRegistry describes; the sessions' own are not.                   *)

(* What the sessions of the test do and those of http_echo do not. *)
SessionStep ==
  \E fd \in Fds :
    \/ \E n \in 0..MaxShutdowns : ReadyContinues(fd, n) \/ ReadyEnds(fd, n)
    \/ IdleEnds(fd)

LEMMA ServerIsFd == Server \in Fds /\ Enrollable = {Server}
BY DEF Enrollable

(* An enroll that fails pushes a timestamp and registers nothing: no other *)
(* step does that.                                                         *)
LEMMA NoEnrollError ==
  ASSUME ListInv, [RemovalNext]_rvars, NEW fd \in Fds
  PROVE  ~EnrollFails(fd)
<1> SUFFICES ASSUME EnrollFails(fd) PROVE FALSE
  OBVIOUS
<1>1. /\ timers \in Seq(Timer)
      /\ Len(timers) \in Nat
      /\ Len(PushBack(timers, fd)) = Len(timers) + 1
  BY FreshType, AppendElements DEF ListInv, TypeOK, MonitorTypeOK, PushBack
<1>2. /\ pc = "setup"
      /\ pc' \in {"setup", "thrown"}
      /\ timers' = PushBack(timers, fd)
      /\ listeners' = listeners
  BY DEF EnrollFails, add_fails
<1>3. timers' # timers /\ timers' # Age(timers)
  BY <1>1, <1>2, AgeKeepsList
<1>4. ~Enroll(Server)
  BY <1>2 DEF Enroll, enroll, add
<1>5. ~Start
  BY <1>2 DEF Start, process_events
<1>6. ~RemovalLoop
  BY <1>2 DEF RemovalLoop, Monitor, Callbacks, Throws, Wait, NothingToWaitFor,
    WaitReturns, StartScan, EndScan, RemoveQueued, FlushDone, Accept,
    accept_connection, ReadyContinues, ReadyEnds, IdleEnds, ServiceIdle,
    AtEvent, AtDueEntry, WaitFails, AcceptFails, AddConnectionFails
<1>7. ~Quieter /\ ~Done /\ ~UNCHANGED rvars
  BY <1>2, <1>3 DEF Quieter, TimePasses, Tick, Done, Stopped, rvars, vars,
    monitorVars
<1> QED
  BY <1>4, <1>5, <1>6, <1>7 DEF RemovalNext

LEMMA RegistryStep ==
  ASSUME [RemovalNext]_rvars PROVE [Next]_vars \/ SessionStep
<1>1. CASE Enroll(Server) \/ Start
  BY <1>1, ServerIsFd DEF Enroll, Start, Next, Setup
<1>2. CASE Monitor
  BY <1>2 DEF Monitor, Next, Loop, Scan, Flush
<1>3. CASE Callbacks
  <2>1. ASSUME NEW fd \in Fds, NEW conn \in Fds, Accept(fd, conn)
        PROVE  [Next]_vars
    BY <2>1 DEF Accept, Next, Loop, Dispatch
  <2>2. ASSUME NEW fd \in Fds, ServiceIdle(fd) PROVE [Next]_vars
    BY <2>2 DEF ServiceIdle, Next, Loop, Scan
  <2> QED
    BY <1>3, <2>1, <2>2 DEF Callbacks, SessionStep
<1>4. CASE Throws
  BY <1>4 DEF Throws, Next, Failure
<1>5. CASE Quieter
  BY <1>5 DEF Quieter, Next
<1>6. CASE Done
  BY <1>6 DEF Next
<1>7. CASE UNCHANGED rvars
  BY <1>7 DEF rvars
<1> QED
  BY <1>1, <1>2, <1>3, <1>4, <1>5, <1>6, <1>7 DEF RemovalNext, RemovalLoop

(* The queue after socket_is_ready, as a sequence of descriptors. *)
LEMMA ShutdownsAppend ==
  ASSUME NEW s \in Seq(Fds), NEW n \in Nat, NEW e \in Seq(Fds)
  PROVE  s \o [i \in 1..n |-> Server] \o e \in Seq(Fds)
<1>1. [i \in 1..n |-> Server] \in Seq(Fds)
  BY ServerIsFd
<1> DEFINE m == [i \in 1..n |-> Server]
<1> HIDE DEF m
<1>2. s \o m \in Seq(Fds)
  BY <1>1, ConcatProperties DEF m
<1> QED
  BY <1>2, ConcatProperties DEF m

LEMMA SessionListStep ==
  ASSUME ListInv, SessionStep PROVE ListInv'
<1> USE DEF ListInv, BatchInv, TypeOK, MonitorTypeOK, Kind, Services,
      Sessions, Direction, ListenOn, Inside, Stopped, Running, registryVars
<1>1. ASSUME NEW fd \in Fds, NEW n \in 0..MaxShutdowns, ReadyContinues(fd, n)
      PROVE  ListInv'
  <2>1. fd \in listeners /\ pc = "dispatch"
    BY <1>1 DEF ReadyContinues, AtEvent
  <2>2. /\ timers' \in Seq(Timer)
        /\ Match(timers', listeners)
        /\ Ordered(timers')
    BY <1>1, <2>1, RefreshStep DEF ReadyContinues, EventDone
  <2>3. toRemove' \in Seq(Fds)
    BY <1>1, ShutdownsAppend DEF ReadyContinues, ReadShutdowns
  <2>4. interest' \in [Fds -> ListenOn \cup {{}}] /\ events' \in [Fds -> ListenOn]
    <3>1. CASE events[fd] # Direction
      <4>1. /\ interest' = [interest EXCEPT ![fd] = Direction]
            /\ events' = [events EXCEPT ![fd] = Direction]
        BY <1>1, <3>1 DEF ReadyContinues, modify
      <4> QED
        BY <4>1
    <3>2. CASE events[fd] = Direction
      BY <1>1, <3>2 DEF ReadyContinues
    <3> QED
      BY <3>1, <3>2
  <2>5. /\ batch' = batch \ {fd}
        /\ UNCHANGED <<pc, cursor, clock, now, listeners, shouldClear, kind,
                       dir>>
    BY <1>1 DEF ReadyContinues, EventDone
  <2> QED
    BY <2>1, <2>2, <2>3, <2>4, <2>5
<1>2. ASSUME NEW fd \in Fds, NEW n \in 0..MaxShutdowns, ReadyEnds(fd, n)
      PROVE  ListInv'
  <2>1. fd \in listeners /\ pc = "dispatch"
    BY <1>2 DEF ReadyEnds, AtEvent
  <2>2. /\ timers' \in Seq(Timer)
        /\ Match(timers', listeners)
        /\ Ordered(timers')
    BY <1>2, <2>1, RefreshStep DEF ReadyEnds, EventDone
  <2>3. toRemove' \in Seq(Fds)
    BY <1>2, ShutdownsAppend DEF ReadyEnds, ReadShutdowns
  <2>4. /\ batch' = batch \ {fd}
        /\ UNCHANGED <<pc, cursor, clock, now, listeners, interest,
                       shouldClear, kind, dir, events>>
    BY <1>2 DEF ReadyEnds, EventDone
  <2> QED
    BY <2>1, <2>2, <2>3, <2>4
<1>3. ASSUME NEW fd \in Fds, IdleEnds(fd)
      PROVE  ListInv'
  <2>1. fd \in listeners /\ pc = "scan"
    BY <1>3 DEF IdleEnds, AtDueEntry
  <2>2. /\ timers' \in Seq(Timer)
        /\ Match(timers', listeners)
        /\ Ordered(timers')
    BY <1>3, <2>1, RefreshStep DEF IdleEnds, IdleDone
  <2>3. toRemove' \in Seq(Fds)
    BY <1>3, DeferredRemoveType DEF IdleEnds
  <2>4. cursor' \in Nat \ {0}
    BY <1>3 DEF IdleEnds, IdleDone
  <2>5. UNCHANGED <<pc, batch, clock, now, listeners, interest, shouldClear,
                    kind, dir, events>>
    BY <1>3 DEF IdleEnds, IdleDone
  <2> QED
    BY <2>1, <2>2, <2>3, <2>4, <2>5
<1> QED
  BY <1>1, <1>2, <1>3 DEF SessionStep

LEMMA RemovalListNext ==
  ListInv /\ [RemovalNext]_rvars => ListInv'
<1> SUFFICES ASSUME ListInv, [RemovalNext]_rvars PROVE ListInv'
  OBVIOUS
<1>1. \A fd \in Enrollable : ~EnrollFails(fd)
  BY NoEnrollError, ServerIsFd
<1> QED
  BY <1>1, RegistryStep, ListStep, SessionListStep

(* However many messages `shutdown' come in, and however long a call       *)
(* takes: no callback of the batch is left without its listener, and the   *)
(* activity list names the listeners, each once.                           *)
THEOREM RemovalKeepsListeners ==
  RemovalSpec => [](EventsAreLive /\ TimersMatchListeners)
<1>1. RemovalInit => ListInv
  BY ListInit DEF RemovalInit
<1>2. ListInv => EventsAreLive /\ TimersMatchListeners
  BY DEF ListInv, BatchInv, EventsAreLive, TimersMatchListeners, Match
<1> QED
  BY <1>1, <1>2, RemovalListNext, PTL DEF RemovalSpec

-----------------------------------------------------------------------------
(* No early expiry. *)

QuietInv == quiet \in Quiet /\ NotEarly(timers, quiet)

LEMMA QuietNext ==
  ListInv /\ QuietInv /\ [RemovalNext]_rvars => QuietInv'
<1> SUFFICES ASSUME ListInv, QuietInv, [RemovalNext]_rvars PROVE QuietInv'
  OBVIOUS
<1>0. /\ timers \in Seq(Timer)
      /\ listeners \subseteq Fds
      /\ batch \subseteq listeners
      /\ quiet \in Quiet
      /\ NotEarly(timers, quiet)
      /\ pc \notin Stopped => Match(timers, listeners)
  BY DEF ListInv, BatchInv, TypeOK, MonitorTypeOK, QuietInv, Running
<1>1. CASE UNCHANGED <<timers, quiet>>
  BY <1>1 DEF QuietInv
<1>2. ASSUME NEW q \in Quiet, NEW fd \in Fds
      PROVE  [q EXCEPT ![fd] = 0] \in Quiet
  BY DEF Quiet
(* The callback of fd has run. *)
<1>3. ASSUME NEW fd \in listeners, pc \notin Stopped,
             timers' = Refresh(timers, fd), Heard(fd)
      PROVE  QuietInv'
  BY <1>0, <1>2, <1>3, RefreshNotEarly DEF QuietInv, Heard
<1>4. CASE Enroll(Server)
  <2>1. /\ Server \in Fds \ listeners
        /\ pc \notin Stopped
        /\ timers' = PushBack(timers, Server)
        /\ quiet' = [quiet EXCEPT ![Server] = 0]
    BY <1>4, ServerIsFd DEF Enroll, enroll, add, Stopped, Heard
  <2> QED
    BY <1>0, <1>2, <2>1, PushNotEarly DEF QuietInv
<1>5. ASSUME NEW fd \in Fds, NEW conn \in Fds, Accept(fd, conn)
      PROVE  QuietInv'
  <2> DEFINE t == PushBack(timers, conn)
             L == listeners \cup {conn}
             q == [quiet EXCEPT ![conn] = 0]
  <2>1. /\ fd \in listeners
        /\ conn \notin listeners
        /\ pc \notin Stopped
        /\ timers' = Refresh(t, fd)
    BY <1>0, <1>5 DEF Accept, accept_connection, AtEvent, add, Stopped
  <2>2. quiet' = [q EXCEPT ![fd] = 0]
    BY <1>0, <1>5, <2>1 DEF Accept, Quiet
  <2>3. t \in Seq(Timer) /\ Match(t, L)
    BY <2>1, PushStep DEF Running
  <2>4. q \in Quiet
    BY <1>0, <1>2
  <2>5. NotEarly(t, q)
    BY <1>0, <2>1, PushNotEarly
  <2> HIDE DEF t, q
  <2>6. NotEarly(Refresh(t, fd), [q EXCEPT ![fd] = 0])
    BY <2>1, <2>3, <2>4, <2>5, RefreshNotEarly
  <2> QED
    BY <1>2, <2>1, <2>2, <2>4, <2>6 DEF QuietInv
<1>6. ASSUME NEW fd \in Fds, NEW n \in 0..MaxShutdowns,
             ReadyContinues(fd, n) \/ ReadyEnds(fd, n)
      PROVE  QuietInv'
  BY <1>0, <1>3, <1>6 DEF ReadyContinues, ReadyEnds, AtEvent, EventDone,
    Stopped
<1>7. ASSUME NEW fd \in Fds, IdleEnds(fd) \/ ServiceIdle(fd)
      PROVE  QuietInv'
  BY <1>3, <1>7 DEF IdleEnds, ServiceIdle, IdleIgnored, AtDueEntry, IdleDone,
    Stopped
<1>8. CASE Monitor
  <2>1. CASE RemoveQueued
    <3>1. /\ Head(toRemove) \in listeners
          /\ pc \notin Stopped
          /\ timers' = EraseTimer(timers, Head(toRemove))
      BY <2>1 DEF RemoveQueued, FlushRemove, Stopped
    <3>2. EntriesOf(timers', timers)
      BY <1>0, <3>1, EraseKeepsList
    <3> QED
      BY <1>0, <1>8, <3>2, EntriesNotEarly DEF QuietInv, Monitor, removalVars
  <2> QED
    BY <1>1, <1>8, <2>1 DEF Monitor, Wait, NothingToWaitFor, WaitReturns,
      StartScan, EndScan, FlushDone, removalVars
<1>9. CASE Start \/ Throws
  <2>1. ASSUME NEW fd \in Fds, NEW conn \in Fds,
               AddConnectionFails(fd, conn), Heard(conn)
        PROVE  QuietInv'
    <3>1. /\ conn \notin listeners
          /\ pc \notin Stopped
          /\ timers' = PushBack(timers, conn)
          /\ quiet' = [quiet EXCEPT ![conn] = 0]
      BY <2>1 DEF AddConnectionFails, AtEvent, add_fails, Stopped, Heard
    <3> QED
      BY <1>0, <1>2, <3>1, PushNotEarly DEF QuietInv
  <2>2. ASSUME NEW fd \in Fds, AcceptFails(fd), UNCHANGED removalVars
        PROVE  QuietInv'
    BY <1>1, <2>2 DEF AcceptFails, removalVars
  <2>3. CASE Start \/ (WaitFails /\ UNCHANGED <<registryVars, removalVars>>)
    BY <1>1, <2>3 DEF Start, process_events, WaitFails, removalVars
  <2> QED
    BY <1>9, <2>1, <2>2, <2>3 DEF Throws
<1>10. CASE Quieter
  <2>1. /\ timers' = Age(timers)
        /\ quiet' = [fd \in Fds |-> IF quiet[fd] < InactivityPeriod
                                    THEN quiet[fd] + 1 ELSE quiet[fd]]
    BY <1>10 DEF Quieter, TimePasses, Tick
  <2>2. quiet' \in Quiet
    BY <1>0, <2>1 DEF Quiet
  <2> QED
    BY <1>0, <2>1, <2>2, AgeNotEarly DEF QuietInv
<1>11. CASE (Done /\ UNCHANGED removalVars) \/ UNCHANGED rvars
  BY <1>1, <1>11 DEF Done, rvars, vars, monitorVars, removalVars
<1> QED
  BY <1>4, <1>5, <1>6, <1>7, <1>8, <1>9, <1>10, <1>11
  DEF RemovalNext, RemovalLoop, Callbacks

(* process_idle_fds takes no connection for idle before the inactivity     *)
(* period has passed since its last callback, whatever the other sessions  *)
(* do and however long a call takes: the sampled time never runs ahead of  *)
(* the clock, and every callback restarts the timer of its descriptor.     *)
THEOREM IdleIsQuiet == RemovalSpec => []NoEarlyExpiry
<1>1. RemovalInit => ListInv /\ QuietInv
  <2> SUFFICES ASSUME RemovalInit PROVE ListInv /\ QuietInv
    OBVIOUS
  <2>1. timers = <<>> /\ quiet \in Quiet
    BY DEF RemovalInit, Init, MonitorInit, Quiet
  <2> QED
    BY <2>1, ListInit DEF RemovalInit, QuietInv, NotEarly
<1>2. ListInv /\ QuietInv => NoEarlyExpiry
  <2> SUFFICES ASSUME ListInv, QuietInv, pc = "scan",
                      cursor <= Len(timers), IsDue(timers[cursor])
               PROVE  quiet[timers[cursor].fd] = InactivityPeriod
    BY DEF NoEarlyExpiry
  <2>1. timers \in Seq(Timer) /\ cursor \in 1..Len(timers)
    BY DEF ListInv, TypeOK, MonitorTypeOK
  <2>2. timers[cursor] \in Timer /\ cursor \in DOMAIN timers
    BY <2>1
  <2>3. /\ timers[cursor].left \in Int
        /\ timers[cursor].fd \in Fds
        /\ clock \in Nat
        /\ now \in 0..clock
    BY <2>2 DEF ListInv, TypeOK, MonitorTypeOK, Timer, Left
  <2>4. quiet[timers[cursor].fd] \in 0..InactivityPeriod
    BY <2>3 DEF QuietInv, Quiet
  <2>5. timers[cursor].left <= 0
    BY <2>3 DEF IsDue
  <2>6. \/ quiet[timers[cursor].fd] = InactivityPeriod
        \/ quiet[timers[cursor].fd] + timers[cursor].left >= InactivityPeriod
    BY <2>2 DEF QuietInv, NotEarly
  <2> QED
    BY <2>3, <2>4, <2>5, <2>6
<1> QED
  BY <1>1, <1>2, RemovalListNext, QuietNext, PTL DEF RemovalSpec

-----------------------------------------------------------------------------
(* The queue of removals, with one message `shutdown'.  The descriptor of  *)
(* the service is the only one that somebody else than its own listener    *)
(* puts there.                                                             *)

Ended == Queued \ {Server}

RemovalInv ==
  /\ shutdowns \in Nat
  /\ \A fd \in Fds : kind[fd] \in {"none", "http_service", "http_session"}
  /\ \A fd \in Fds : kind[fd] = "http_service" => fd = Server
  /\ Server \in listeners => kind[Server] = "http_service"
  /\ Running =>
       /\ Queued \subseteq listeners
       /\ Distinct(toRemove)
       /\ batch \cap Ended = {}
       /\ Server \in Queued => shutdowns > 0
       /\ pc # "setup" /\ shutdowns = 0 => Server \in listeners
  /\ pc = "setup" => listeners \subseteq {Server}
  /\ pc \in {"setup", "wait"} => toRemove = <<>>
  /\ pc \in {"dispatch", "scan"} => Rested(timers, clock, Ended)

(* What one socket_is_ready adds to the queue before its own descriptor. *)
LEMMA OneShutdown ==
  ASSUME NEW s \in Seq(Fds), NEW n \in 0..1, n = 1 => Server \notin ToSet(s),
         Distinct(s)
  PROVE  /\ s \o [i \in 1..n |-> Server] \in Seq(Fds)
         /\ Distinct(s \o [i \in 1..n |-> Server])
         /\ ToSet(s \o [i \in 1..n |-> Server])
              = ToSet(s) \cup (IF n = 1 THEN {Server} ELSE {})
<1> DEFINE m == [i \in 1..n |-> Server]
<1>1. CASE n = 0
  <2>1. m = <<>>
    BY <1>1
  <2>2. s \o <<>> = s
    BY ConcatEmptySeq
  <2> QED
    BY <1>1, <2>1, <2>2
<1>2. CASE n = 1
  <2>1. m = <<Server>>
    <3>1. 1..n = {1}
      BY <1>2
    <3> QED
      BY <3>1
  <2>2. s \o <<Server>> = Append(s, Server)
    BY AppendIsConcat, ServerIsFd
  <2>3. Append(s, Server) \in Seq(Fds)
    BY AppendProperties, ServerIsFd
  <2>4. /\ ToSet(Append(s, Server)) = ToSet(s) \cup {Server}
        /\ Distinct(Append(s, Server))
    BY <1>2, QueueAppend, ServerIsFd
  <2> QED
    BY <1>2, <2>1, <2>2, <2>3, <2>4
<1> QED
  BY <1>1, <1>2

LEMMA ReadQueue ==
  ASSUME MaxShutdowns <= 1, ListInv, RemovalInv, Running, pc # "setup",
         NEW n \in 0..MaxShutdowns, NEW fd \in listeners \ (Queued \cup {Server})
  PROVE  /\ ReadShutdowns(n, <<>>) =>
              /\ Distinct(toRemove')
              /\ Queued' \ {Server} = Ended
              /\ Queued' \subseteq listeners
              /\ Server \in Queued' => shutdowns' > 0
         /\ ReadShutdowns(n, <<fd>>) =>
              /\ Distinct(toRemove')
              /\ Queued' \ {Server} = Ended \cup {fd}
              /\ Queued' \subseteq listeners
              /\ Server \in Queued' => shutdowns' > 0
<1> DEFINE t == toRemove \o [i \in 1..n |-> Server]
<1>0. toRemove \in Seq(Fds) /\ fd \in Fds /\ shutdowns \in Nat /\ n \in 0..1
  BY DEF ListInv, TypeOK, MonitorTypeOK, RemovalInv
<1>1. ASSUME shutdowns + n <= MaxShutdowns
      PROVE  /\ t \in Seq(Fds)
             /\ Distinct(t)
             /\ ToSet(t) = Queued \cup (IF n = 1 THEN {Server} ELSE {})
             /\ n = 1 => Server \in listeners
  <2>1. n = 1 => shutdowns = 0
    BY <1>0, <1>1
  <2>2. n = 1 => Server \notin Queued /\ Server \in listeners
    BY <2>1 DEF RemovalInv
  <2> QED
    BY <1>0, <2>2, OneShutdown DEF Queued, RemovalInv
<1>2. ASSUME ReadShutdowns(n, <<>>) \/ ReadShutdowns(n, <<fd>>)
      PROVE  Server \in Queued \cup (IF n = 1 THEN {Server} ELSE {})
               => shutdowns' > 0
  BY <1>0, <1>2 DEF ReadShutdowns, RemovalInv
<1>3. ASSUME ReadShutdowns(n, <<>>)
      PROVE  /\ Distinct(toRemove')
             /\ Queued' \ {Server} = Ended
             /\ Queued' \subseteq listeners
             /\ Server \in Queued' => shutdowns' > 0
  <2>1. shutdowns + n <= MaxShutdowns /\ toRemove' = t \o <<>>
    BY <1>3 DEF ReadShutdowns
  <2>2. t \in Seq(Fds)
    BY <1>1, <2>1
  <2> HIDE DEF t
  <2>3. toRemove' = t
    BY <2>1, <2>2, ConcatEmptySeq
  <2>4. /\ Distinct(t)
        /\ ToSet(t) = Queued \cup (IF n = 1 THEN {Server} ELSE {})
        /\ n = 1 => Server \in listeners
    BY <1>1, <2>1 DEF t
  <2>5. Queued' = Queued \cup (IF n = 1 THEN {Server} ELSE {})
    BY <2>3, <2>4 DEF Queued
  <2>6. Queued \subseteq listeners
    BY DEF RemovalInv
  <2>7. Server \in Queued' => shutdowns' > 0
    BY <1>2, <1>3, <2>5
  <2> QED
    BY <2>3, <2>4, <2>5, <2>6, <2>7 DEF Ended
<1>4. ASSUME ReadShutdowns(n, <<fd>>)
      PROVE  /\ Distinct(toRemove')
             /\ Queued' \ {Server} = Ended \cup {fd}
             /\ Queued' \subseteq listeners
             /\ Server \in Queued' => shutdowns' > 0
  <2>1. shutdowns + n <= MaxShutdowns /\ toRemove' = t \o <<fd>>
    BY <1>4 DEF ReadShutdowns
  <2>2. /\ t \in Seq(Fds)
        /\ Distinct(t)
        /\ ToSet(t) = Queued \cup (IF n = 1 THEN {Server} ELSE {})
        /\ n = 1 => Server \in listeners
    BY <1>1, <2>1
  <2> HIDE DEF t
  <2>3. toRemove' = Append(t, fd)
    BY <1>0, <2>1, <2>2, AppendIsConcat
  <2>4. Distinct(toRemove') /\ ToSet(toRemove') = ToSet(t) \cup {fd}
    BY <1>0, <2>2, <2>3, QueueAppend
  <2>5. Queued' = Queued \cup (IF n = 1 THEN {Server} ELSE {}) \cup {fd}
    BY <2>2, <2>4 DEF Queued
  <2>6. Queued \subseteq listeners
    BY DEF RemovalInv
  <2>7. Server \in Queued' => shutdowns' > 0
    BY <1>2, <1>4, <2>5
  <2> QED
    BY <2>2, <2>4, <2>5, <2>6, <2>7 DEF Ended
<1> QED
  BY <1>3, <1>4

(* The entry at the cursor is due: its listener has not ended. *)
LEMMA DueHasNotEnded ==
  ASSUME StallBound < InactivityPeriod, ListInv, RemovalInv,
         NEW fd, AtDueEntry(fd)
  PROVE  fd \notin Ended
<1>1. timers \in Seq(Timer) /\ cursor \in 1..Len(timers)
  BY DEF ListInv, TypeOK, MonitorTypeOK, AtDueEntry
<1>2. timers[cursor] \in Timer
  BY <1>1
<1>3. timers[cursor].left \in Int /\ clock \in 0..StallBound /\ now \in 0..clock
  BY <1>2 DEF ListInv, TypeOK, MonitorTypeOK, Timer, Left
<1>4. timers[cursor].left + clock <= StallBound
  BY <1>3 DEF IsDue, AtDueEntry
<1>5. cursor \in DOMAIN timers /\ pc = "scan" /\ timers[cursor].fd = fd
  BY <1>1 DEF AtDueEntry
<1> QED
  BY <1>3, <1>4, <1>5 DEF RemovalInv, Rested

(* The activity list after the callback of fd. *)
LEMMA EndedRested ==
  ASSUME ListInv, RemovalInv, NEW fd \in listeners,
         pc \in {"dispatch", "scan"}
  PROVE  /\ Rested(Refresh(timers, fd), clock, Ended)
         /\ Rested(Refresh(timers, fd), clock, Ended \cup {fd})
<1>1. timers \in Seq(Timer) /\ fd \in Fds /\ clock \in Nat
  BY DEF ListInv, TypeOK, MonitorTypeOK
<1>2. Match(timers, listeners) /\ Rested(timers, clock, Ended)
  BY DEF ListInv, RemovalInv, Running, Stopped
<1> QED
  BY <1>1, <1>2, RefreshRested

LEMMA RemovalInvInit == RemovalInit => RemovalInv
BY EmptyQueue
DEF RemovalInit, Init, MonitorInit, RemovalInv, Queued, Ended, Stopped

LEMMA RemovalInvNext ==
  ASSUME MaxShutdowns <= 1, StallBound < InactivityPeriod
  PROVE  ListInv /\ RemovalInv /\ [RemovalNext]_rvars => RemovalInv'
<1> SUFFICES ASSUME ListInv, RemovalInv, [RemovalNext]_rvars
             PROVE  RemovalInv'
  OBVIOUS
<1> USE DEF Running, Stopped
<1>0. /\ timers \in Seq(Timer)
      /\ toRemove \in Seq(Fds)
      /\ clock \in Nat
      /\ listeners \subseteq Fds
      /\ kind \in [Fds -> Kind]
      /\ batch \subseteq listeners
      /\ shutdowns \in Nat
  BY DEF ListInv, BatchInv, TypeOK, MonitorTypeOK, RemovalInv
(* The callback of fd has run; who has ended before is as it was, or fd is *)
(* one of them now.                                                        *)
<1>1. ASSUME NEW fd \in listeners, pc \in {"dispatch", "scan"}, pc' = pc,
             timers' = Refresh(timers, fd), batch' \subseteq batch,
             Distinct(toRemove'), Queued' \subseteq listeners,
             Server \in Queued' => shutdowns' > 0,
             shutdowns' \in Nat, shutdowns' >= shutdowns,
             \/ Ended' = Ended
             \/ Ended' = Ended \cup {fd} /\ fd \notin batch',
             UNCHANGED <<listeners, clock, kind>>
      PROVE  RemovalInv'
  <2>1. Rested(timers', clock', Ended')
    BY <1>1, EndedRested
  <2>2. shutdowns' = 0 => shutdowns = 0
    BY <1>0, <1>1
  <2> QED
    BY <1>1, <2>1, <2>2 DEF RemovalInv
<1>2. CASE Enroll(Server)
  BY <1>0, <1>2, ServerIsFd, EmptyQueue
  DEF RemovalInv, Queued, Ended, Enroll, enroll, add, KindOf
<1>3. CASE Start
  BY <1>3 DEF RemovalInv, Queued, Ended, Start, process_events, registryVars,
    removalVars
<1>4. CASE Wait /\ UNCHANGED removalVars
  <2>1. Queued = {} /\ toRemove' = toRemove /\ pc = "wait"
    BY <1>4, EmptyQueue
    DEF RemovalInv, Queued, Wait, NothingToWaitFor, WaitReturns
  <2> QED
    BY <1>4, <2>1 DEF RemovalInv, Queued, Ended, Rested, Wait,
      NothingToWaitFor, WaitReturns, registryVars, removalVars
<1>5. ASSUME NEW fd \in Fds, NEW conn \in Fds, Accept(fd, conn)
      PROVE  RemovalInv'
  <2>1. /\ fd \in listeners
        /\ conn \notin listeners
        /\ pc = "dispatch"
        /\ kind[fd] = "http_service"
        /\ accept_connection(fd, conn)
    BY <1>0, <1>5 DEF Accept, accept_connection, AtEvent, Services, RemovalInv
  <2>2. fd = Server /\ conn # Server
    BY <1>0, <2>1 DEF RemovalInv
  <2> DEFINE t == PushBack(timers, conn)
             L == listeners \cup {conn}
  <2>3. t \in Seq(Timer) /\ Match(t, L)
    BY <2>1, PushStep
  <2>4. Rested(t, clock, Ended)
    BY <1>0, <2>1, PushRested DEF RemovalInv
  <2> HIDE DEF t
  <2>5. Rested(Refresh(t, fd), clock, Ended)
    BY <1>0, <2>1, <2>3, <2>4, RefreshRested
  <2>6. timers' = Refresh(t, fd) /\ clock' = clock
    BY <2>1 DEF accept_connection, add, t
  <2>7. /\ kind' = [kind EXCEPT ![conn] = "http_session"]
        /\ listeners' = L
        /\ batch' = batch \ {fd}
        /\ UNCHANGED <<pc, toRemove, shutdowns>>
    BY <1>5, <2>1 DEF Accept, accept_connection, add, SessionKind
  <2> QED
    BY <1>0, <2>1, <2>2, <2>5, <2>6, <2>7 DEF RemovalInv, Queued, Ended
<1>6. ASSUME NEW fd \in Fds, NEW n \in 0..MaxShutdowns,
             ReadyContinues(fd, n) \/ ReadyEnds(fd, n)
      PROVE  RemovalInv'
  <2>1. /\ fd \in listeners
        /\ fd \in batch
        /\ pc = "dispatch"
        /\ kind[fd] = "http_session"
    BY <1>0, <1>6 DEF ReadyContinues, ReadyEnds, AtEvent
  <2>2. fd # Server /\ fd \notin Queued
    BY <2>1 DEF RemovalInv, Ended
  <2>3. /\ ReadShutdowns(n, <<>>) \/ ReadShutdowns(n, <<fd>>)
        /\ timers' = Refresh(timers, fd)
        /\ batch' = batch \ {fd}
        /\ UNCHANGED <<pc, listeners, clock, kind>>
    BY <1>6 DEF ReadyContinues, ReadyEnds, EventDone, registryVars
  <2>4. shutdowns' \in Nat /\ shutdowns' >= shutdowns
    BY <1>0, <2>3 DEF ReadShutdowns
  <2>5. /\ Distinct(toRemove')
        /\ Queued' \subseteq listeners
        /\ Server \in Queued' => shutdowns' > 0
        /\ Ended' = Ended \/ Ended' = Ended \cup {fd}
    BY <2>1, <2>2, <2>3, ReadQueue DEF Ended
  <2> QED
    BY <1>1, <2>1, <2>3, <2>4, <2>5
<1>7. ASSUME NEW fd \in Fds, IdleEnds(fd)
      PROVE  RemovalInv'
  <2>1. /\ fd \in listeners
        /\ pc = "scan"
        /\ AtDueEntry(fd)
        /\ kind[fd] = "http_session"
        /\ batch = {}
    BY <1>7 DEF IdleEnds, AtDueEntry, ListInv, BatchInv
  <2>2. fd # Server /\ fd \notin Queued
    BY <2>1, DueHasNotEnded DEF RemovalInv, Ended
  <2>3. /\ toRemove' = Append(toRemove, fd)
        /\ timers' = Refresh(timers, fd)
        /\ UNCHANGED <<pc, batch, listeners, clock, kind, shutdowns>>
    BY <1>7 DEF IdleEnds, deferred_remove, IdleDone, registryVars
  <2>4. Queued' = Queued \cup {fd} /\ Distinct(toRemove')
    BY <1>0, <2>1, <2>2, <2>3, QueueAppend DEF RemovalInv, Queued
  <2>5. Ended' = Ended \cup {fd}
    BY <2>2, <2>4 DEF Ended
  <2>6. /\ Queued' \subseteq listeners
        /\ Server \in Queued' => shutdowns' > 0
        /\ shutdowns' >= shutdowns
    BY <1>0, <2>1, <2>2, <2>3, <2>4 DEF RemovalInv
  <2> QED
    BY <1>0, <1>1, <2>1, <2>3, <2>4, <2>5, <2>6
<1>8. ASSUME NEW fd \in Fds, ServiceIdle(fd)
      PROVE  RemovalInv'
  <2>1. /\ fd \in listeners
        /\ pc = "scan"
        /\ timers' = Refresh(timers, fd)
        /\ UNCHANGED <<pc, batch, listeners, toRemove, clock, kind, shutdowns>>
    BY <1>8 DEF ServiceIdle, IdleIgnored, AtDueEntry, IdleDone, registryVars
  <2>2. /\ Distinct(toRemove')
        /\ Queued' \subseteq listeners
        /\ Server \in Queued' => shutdowns' > 0
        /\ Ended' = Ended
        /\ shutdowns' >= shutdowns
    BY <1>0, <2>1 DEF RemovalInv, Queued, Ended
  <2> QED
    BY <1>0, <1>1, <2>1, <2>2
<1>9. CASE (StartScan \/ EndScan) /\ UNCHANGED registryVars
             /\ UNCHANGED removalVars
  BY <1>9 DEF RemovalInv, Queued, Ended, StartScan, EndScan, registryVars,
    removalVars
<1>10. CASE RemoveQueued /\ UNCHANGED removalVars
  <2> DEFINE fd == Head(toRemove)
  <2>1. /\ Queued' = Queued \ {fd}
        /\ Distinct(toRemove')
        /\ fd \in Queued
    BY <1>0, <1>10, QueueTail DEF RemovalInv, Queued, RemoveQueued
  <2>2. /\ pc = "flush"
        /\ pc' = "flush"
        /\ listeners' = listeners \ {fd}
        /\ kind' = [kind EXCEPT ![fd] = "none"]
        /\ batch' = batch
        /\ shutdowns' = shutdowns
    BY <1>10 DEF RemoveQueued, FlushRemove, removalVars
  <2>3. batch = {}
    BY <2>2 DEF ListInv, BatchInv
  <2> HIDE DEF fd
  <2>4. shutdowns' = 0 => Server \in listeners'
    BY <2>1, <2>2 DEF RemovalInv
  <2> QED
    BY <1>0, <2>1, <2>2, <2>3, <2>4, ServerIsFd DEF RemovalInv
<1>11. CASE FlushDone /\ UNCHANGED removalVars
  BY <1>11 DEF RemovalInv, Queued, Ended, FlushDone, CallReturns,
    registryVars, removalVars
<1>12. CASE Throws
  <2>1. /\ pc' = "thrown"
        /\ UNCHANGED <<listeners, kind, shutdowns>>
    BY <1>12 DEF Throws, WaitFails, AcceptFails, AddConnectionFails,
      CallbackThrows, add_fails, registryVars, removalVars
  <2> QED
    BY <2>1 DEF RemovalInv
<1>13. CASE Quieter
  <2>1. UNCHANGED <<pc, listeners, toRemove, batch, kind, shutdowns>>
    BY <1>13 DEF Quieter, TimePasses, Tick, registryVars
  <2>2. Queued' = Queued /\ Ended' = Ended
    BY <2>1 DEF Queued, Ended
  <2>3. ASSUME pc \in {"dispatch", "scan"}
        PROVE  Rested(timers', clock', Ended')
    <3>1. Rested(timers, clock, Ended)
      BY <2>3 DEF RemovalInv
    <3>2. timers' = Age(timers) /\ clock' = clock + 1
      BY <1>13, <2>3 DEF Quieter, TimePasses, Tick
    <3> QED
      BY <1>0, <2>2, <3>1, <3>2, AgeRested
  <2> QED
    BY <2>1, <2>2, <2>3 DEF RemovalInv
<1>14. CASE (Done /\ UNCHANGED removalVars) \/ UNCHANGED rvars
  BY <1>14 DEF RemovalInv, Queued, Ended, Done, rvars, vars, monitorVars,
    registryVars, removalVars
<1> QED
  BY <1>2, <1>3, <1>4, <1>5, <1>6, <1>7, <1>8, <1>9, <1>10, <1>11, <1>12,
    <1>13, <1>14 DEF RemovalNext, RemovalLoop, Monitor, Callbacks

(* One message `shutdown' does no harm: with it the queue of removals      *)
(* still names listeners, each once, so that the assertion of              *)
(* flush_fds_to_remove holds although a session has removed a descriptor   *)
(* that is not its own.  It holds if no call of                            *)
(* wait_for_and_dispatch_events takes as long as the inactivity period.    *)
THEOREM OneShutdownIsSafe ==
  ASSUME MaxShutdowns <= 1, StallBound < InactivityPeriod
  PROVE  RemovalSpec => []RemovalIsSafe
<1>1. RemovalInit => ListInv
  BY ListInit DEF RemovalInit
<1>2. ListInv /\ RemovalInv => RemovalIsSafe
  BY DEF ListInv, BatchInv, RemovalInv, RemovalIsSafe, EventsAreLive,
    TimersMatchListeners, Match, FlushFindsListener, Distinct
<1> QED
  BY <1>1, <1>2, RemovalInvInit, RemovalListNext, RemovalInvNext, PTL
  DEF RemovalSpec
=============================================================================
