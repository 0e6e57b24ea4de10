------------------------ MODULE ServiceRegistryProofs ------------------------
(***************************************************************************)
(* Proofs about ServiceRegistry, for any number of descriptors, any        *)
(* inactivity period and any bound on a stall.                             *)
(***************************************************************************)
EXTENDS ServiceRegistry, SequenceTheorems, TLAPS

USE PeriodAssumption, StallAssumption, ServicesAssumption, CaughtAssumption

-----------------------------------------------------------------------------
(* The activity list on its own. *)

(* The entries of s are those of the descriptors in L, one for each.       *)
Match(s, L) ==
  /\ L = {s[k].fd : k \in DOMAIN s}
  /\ \A j, k \in DOMAIN s : s[j].fd = s[k].fd => j = k

Ordered(s) == \A j, k \in DOMAIN s : j < k => s[j].left <= s[k].left

(* Every entry of t is one of s. *)
EntriesOf(t, s) == \A k \in DOMAIN t : \E j \in DOMAIN s : t[k] = s[j]

LEMMA FreshType == ASSUME NEW fd \in Fds PROVE Fresh(fd) \in Timer
BY DEF Fresh, Timer, Left

LEMMA RemoveAtElements ==
  ASSUME NEW s \in Seq(Timer), NEW k \in 1..Len(s)
  PROVE  /\ RemoveAt(s, k) \in Seq(Timer)
         /\ Len(RemoveAt(s, k)) = Len(s) - 1
         /\ \A i \in 1..(Len(s) - 1) :
              RemoveAt(s, k)[i] = IF i < k THEN s[i] ELSE s[i + 1]
<1> DEFINE a == SubSeq(s, 1, k - 1)
           b == SubSeq(s, k + 1, Len(s))
<1>1. /\ a \in Seq(Timer)
      /\ Len(a) = k - 1
      /\ \A i \in 1..(k - 1) : a[i] = s[i]
  <2>1. \A i \in 1..(k - 1) : s[i] \in Timer
    OBVIOUS
  <2> QED
    BY <2>1, SubSeqProperties
<1>2. /\ b \in Seq(Timer)
      /\ Len(b) = Len(s) - k
      /\ \A i \in 1..(Len(s) - k) : b[i] = s[k + i]
  <2>1. \A i \in (k + 1)..Len(s) : s[i] \in Timer
    OBVIOUS
  <2>2. /\ b \in Seq(Timer)
        /\ Len(b) = IF k + 1 <= Len(s) THEN Len(s) - (k + 1) + 1 ELSE 0
        /\ \A i \in 1..(Len(s) - (k + 1) + 1) : b[i] = s[k + 1 + i - 1]
    BY <2>1, SubSeqProperties
  <2> QED
    BY <2>2
<1>3. RemoveAt(s, k) = a \o b
  BY DEF RemoveAt
<1> HIDE DEF a, b
<1>4. /\ a \o b \in Seq(Timer)
      /\ Len(a \o b) = Len(a) + Len(b)
      /\ \A i \in 1..(Len(a) + Len(b)) :
           (a \o b)[i] = IF i <= Len(a) THEN a[i] ELSE b[i - Len(a)]
  BY <1>1, <1>2, ConcatProperties, ZenonT(60)
<1>5. ASSUME NEW i \in 1..(Len(s) - 1)
      PROVE  (a \o b)[i] = IF i < k THEN s[i] ELSE s[i + 1]
  <2>1. CASE i < k
    BY <2>1, <1>1, <1>2, <1>4
  <2>2. CASE ~(i < k)
    <3>1. (a \o b)[i] = b[i - (k - 1)]
      BY <2>2, <1>1, <1>2, <1>4
    <3>2. i - (k - 1) \in 1..(Len(s) - k)
      BY <2>2
    <3>3. b[i - (k - 1)] = s[k + (i - (k - 1))]
      BY <3>2, <1>2
    <3>4. k + (i - (k - 1)) = i + 1
      OBVIOUS
    <3>5. (a \o b)[i] = s[i + 1]
      BY <3>1, <3>3, <3>4
    <3> QED
      BY <2>2, <3>5
  <2> QED
    BY <2>1, <2>2
<1> QED
  BY <1>1, <1>2, <1>3, <1>4, <1>5

LEMMA AppendElements ==
  ASSUME NEW s \in Seq(Timer), NEW e \in Timer
  PROVE  /\ Append(s, e) \in Seq(Timer)
         /\ Len(Append(s, e)) = Len(s) + 1
         /\ \A i \in 1..(Len(s) + 1) :
              Append(s, e)[i] = IF i <= Len(s) THEN s[i] ELSE e
BY AppendProperties

LEMMA PushBackKeepsList ==
  ASSUME NEW s \in Seq(Timer), NEW L, NEW fd \in Fds, Match(s, L), fd \notin L
  PROVE  /\ PushBack(s, fd) \in Seq(Timer)
         /\ Match(PushBack(s, fd), L \cup {fd})
         /\ Ordered(s) => Ordered(PushBack(s, fd))
<1> DEFINE t == PushBack(s, fd)
<1>1. /\ t \in Seq(Timer)
      /\ Len(t) = Len(s) + 1
      /\ \A i \in 1..(Len(s) + 1) :
           t[i] = IF i <= Len(s) THEN s[i] ELSE Fresh(fd)
  BY FreshType, AppendElements DEF PushBack
<1> HIDE DEF t
<1>2. Fresh(fd).fd = fd /\ Fresh(fd).left = InactivityPeriod
  BY DEF Fresh
<1>3. \A i \in 1..Len(s) : s[i].fd \in L
  BY DEF Match
<1>4. L \cup {fd} = {t[k].fd : k \in DOMAIN t}
  <2>1. ASSUME NEW f \in L \cup {fd} PROVE \E k \in DOMAIN t : t[k].fd = f
    <3>1. CASE f = fd
      <4>1. Len(s) + 1 \in DOMAIN t /\ t[Len(s) + 1] = Fresh(fd)
        BY <1>1
      <4> QED
        BY <4>1, <3>1, <1>2
    <3>2. CASE f \in L
      <4>1. PICK j \in DOMAIN s : s[j].fd = f
        BY <3>2 DEF Match
      <4>2. j \in DOMAIN t /\ t[j] = s[j]
        BY <1>1
      <4> QED
        BY <4>1, <4>2
    <3> QED
      BY <3>1, <3>2
  <2>2. ASSUME NEW k \in DOMAIN t PROVE t[k].fd \in L \cup {fd}
    <3>1. k \in 1..(Len(s) + 1)
      BY <1>1
    <3> QED
      BY <1>1, <1>2, <1>3, <3>1
  <2> QED
    BY <2>1, <2>2
<1>5. \A j, k \in DOMAIN t : t[j].fd = t[k].fd => j = k
  BY <1>1, <1>2, <1>3 DEF Match
<1>6. Ordered(s) => Ordered(t)
  <2>1. ASSUME NEW i \in 1..Len(s)
        PROVE  s[i].left \in Int /\ s[i].left <= InactivityPeriod
    <3>1. s[i] \in Timer
      OBVIOUS
    <3> QED
      BY <3>1 DEF Timer, Left
  <2> QED
    BY <1>1, <1>2, <2>1 DEF Ordered
<1> QED
  BY <1>1, <1>4, <1>5, <1>6 DEF Match, t

(* With one entry for each descriptor, TimerOf finds it. *)
LEMMA TimerOfFinds ==
  ASSUME NEW s \in Seq(Timer), NEW L, NEW fd \in L, Match(s, L)
  PROVE  TimerOf(s, fd) \in 1..Len(s) /\ s[TimerOf(s, fd)].fd = fd
<1>1. PICK k \in DOMAIN s : s[k].fd = fd
  BY DEF Match
<1>2. \A j \in DOMAIN s : s[j].fd = fd => j <= k
  BY <1>1 DEF Match
<1>3. \E i \in DOMAIN s : /\ s[i].fd = fd
                          /\ \A j \in DOMAIN s : s[j].fd = fd => j <= i
  BY <1>1, <1>2
<1> QED
  BY <1>3 DEF TimerOf

LEMMA EraseKeepsList ==
  ASSUME NEW s \in Seq(Timer), NEW L, NEW fd \in L, Match(s, L)
  PROVE  /\ EraseTimer(s, fd) \in Seq(Timer)
         /\ Len(EraseTimer(s, fd)) = Len(s) - 1
         /\ Match(EraseTimer(s, fd), L \ {fd})
         /\ Ordered(s) => Ordered(EraseTimer(s, fd))
         /\ EntriesOf(EraseTimer(s, fd), s)
<1> DEFINE m == TimerOf(s, fd)
           t == EraseTimer(s, fd)
<1>1. m \in 1..Len(s) /\ s[m].fd = fd
  BY TimerOfFinds
<1>2. /\ t \in Seq(Timer)
      /\ Len(t) = Len(s) - 1
      /\ \A i \in 1..(Len(s) - 1) : t[i] = IF i < m THEN s[i] ELSE s[i + 1]
  BY <1>1, RemoveAtElements DEF EraseTimer
<1> HIDE DEF m, t
<1>3. DOMAIN t = 1..(Len(s) - 1) /\ DOMAIN s = 1..Len(s)
  BY <1>2
<1>4. L \ {fd} = {t[k].fd : k \in DOMAIN t}
  <2>1. ASSUME NEW f \in L \ {fd} PROVE \E k \in DOMAIN t : t[k].fd = f
    <3>1. PICK j \in DOMAIN s : s[j].fd = f
      BY DEF Match
    <3>2. j # m
      BY <3>1, <1>1
    <3>3. CASE j < m
      BY <3>1, <3>3, <1>1, <1>2, <1>3
    <3>4. CASE j > m
      <4>1. j - 1 \in DOMAIN t /\ t[j - 1] = s[j]
        BY <3>4, <1>1, <1>2, <1>3
      <4> QED
        BY <4>1, <3>1
    <3> QED
      BY <3>2, <3>3, <3>4, <1>1, <1>3
  <2>2. ASSUME NEW k \in DOMAIN t PROVE t[k].fd \in L \ {fd}
    <3>1. CASE k < m
      <4>1. k \in DOMAIN s /\ k # m /\ t[k] = s[k]
        BY <3>1, <1>1, <1>2, <1>3
      <4> QED
        BY <4>1, <1>1, <1>3 DEF Match
    <3>2. CASE k >= m
      <4>1. k + 1 \in DOMAIN s /\ k + 1 # m /\ t[k] = s[k + 1]
        BY <3>2, <1>1, <1>2, <1>3
      <4> QED
        BY <4>1, <1>1, <1>3 DEF Match
    <3> QED
      BY <3>1, <3>2, <1>1, <1>3
  <2> QED
    BY <2>1, <2>2
<1> DEFINE g(i) == IF i < m THEN i ELSE i + 1
<1>8. \A i \in DOMAIN t : g(i) \in DOMAIN s /\ t[i] = s[g(i)]
  BY <1>1, <1>2, <1>3
<1>9. \A i, j \in DOMAIN t : i < j => g(i) < g(j)
  BY <1>1, <1>3
<1>10. \A i, j \in DOMAIN t : g(i) = g(j) => i = j
  BY <1>1, <1>3
<1> HIDE DEF g
<1>5. \A j, k \in DOMAIN t : t[j].fd = t[k].fd => j = k
  BY <1>8, <1>10 DEF Match
<1>6. Ordered(s) => Ordered(t)
  BY <1>8, <1>9 DEF Ordered
<1>7. EntriesOf(t, s)
  BY <1>1, <1>2, <1>3 DEF EntriesOf
<1> QED
  BY <1>2, <1>4, <1>5, <1>6, <1>7 DEF Match, t

LEMMA RefreshKeepsList ==
  ASSUME NEW s \in Seq(Timer), NEW L, NEW fd \in L, fd \in Fds, Match(s, L)
  PROVE  /\ Refresh(s, fd) \in Seq(Timer)
         /\ Len(Refresh(s, fd)) = Len(s)
         /\ Match(Refresh(s, fd), L)
         /\ Ordered(s) => Ordered(Refresh(s, fd))
         /\ \A k \in DOMAIN Refresh(s, fd) :
              \/ Refresh(s, fd)[k] = Fresh(fd)
              \/ \E j \in DOMAIN s :
                   Refresh(s, fd)[k] = s[j] /\ s[j].fd # fd
<1> DEFINE e == EraseTimer(s, fd)
<1>1. /\ e \in Seq(Timer)
      /\ Len(e) = Len(s) - 1
      /\ Match(e, L \ {fd})
      /\ Ordered(s) => Ordered(e)
      /\ EntriesOf(e, s)
  BY EraseKeepsList
<1>2. Refresh(s, fd) = PushBack(e, fd)
  BY DEF Refresh, PushBack
<1> HIDE DEF e
<1>3. /\ PushBack(e, fd) \in Seq(Timer)
      /\ Match(PushBack(e, fd), (L \ {fd}) \cup {fd})
      /\ Ordered(e) => Ordered(PushBack(e, fd))
  BY <1>1, PushBackKeepsList
<1>4. (L \ {fd}) \cup {fd} = L
  OBVIOUS
<1>5. /\ Len(PushBack(e, fd)) = Len(e) + 1
      /\ \A k \in 1..(Len(e) + 1) :
           PushBack(e, fd)[k] = IF k <= Len(e) THEN e[k] ELSE Fresh(fd)
  BY <1>1, FreshType, AppendElements DEF PushBack
<1>6. ASSUME NEW k \in DOMAIN PushBack(e, fd)
      PROVE  \/ PushBack(e, fd)[k] = Fresh(fd)
             \/ \E j \in DOMAIN s : PushBack(e, fd)[k] = s[j] /\ s[j].fd # fd
  <2>1. k \in 1..(Len(e) + 1) /\ DOMAIN e = 1..Len(e)
    BY <1>1, <1>3, <1>5
  <2>2. CASE k <= Len(e)
    <3>1. PushBack(e, fd)[k] = e[k] /\ k \in DOMAIN e
      BY <2>1, <2>2, <1>5
    <3>2. e[k].fd \in L \ {fd}
      BY <3>1, <1>1 DEF Match
    <3> QED
      BY <3>1, <3>2, <1>1 DEF EntriesOf
  <2>3. CASE ~(k <= Len(e))
    BY <2>1, <2>3, <1>5
  <2> QED
    BY <2>2, <2>3
<1>7. Len(PushBack(e, fd)) = Len(s)
  BY <1>1, <1>5
<1>8. Match(PushBack(e, fd), L)
  BY <1>3, <1>4
<1>9. Ordered(s) => Ordered(PushBack(e, fd))
  BY <1>1, <1>3
<1> QED
  BY <1>2, <1>3, <1>6, <1>7, <1>8, <1>9

LEMMA AgeKeepsList ==
  ASSUME NEW s \in Seq(Timer)
  PROVE  /\ Age(s) \in Seq(Timer)
         /\ Len(Age(s)) = Len(s)
         /\ \A k \in 1..Len(s) :
              Age(s)[k].fd = s[k].fd /\ Age(s)[k].left >= s[k].left - 1
         /\ Ordered(s) => Ordered(Age(s))
         /\ \A L : Match(s, L) => Match(Age(s), L)
<1> DEFINE t == Age(s)
<1>1. DOMAIN t = 1..Len(s) /\ DOMAIN s = 1..Len(s) /\ Len(s) \in Nat
  BY DEF Age
<1>2. \A k \in 1..Len(s) : t[k] = [s[k] EXCEPT !.left = Later(@)]
  BY DEF Age
<1> HIDE DEF t
<1>3. ASSUME NEW k \in 1..Len(s)
      PROVE  /\ t[k] \in Timer
             /\ t[k].fd = s[k].fd
             /\ t[k].left = Later(s[k].left)
             /\ s[k].left \in Left
             /\ t[k].left >= s[k].left - 1
  <2>1. s[k] \in Timer
    OBVIOUS
  <2>2. s[k].fd \in Fds /\ s[k].left \in Left
    BY <2>1 DEF Timer
  <2>3. \A x \in Left : Later(x) \in Left /\ Later(x) >= x - 1
    BY DEF Left, Later
  <2>4. t[k] = [fd |-> s[k].fd, left |-> Later(s[k].left)]
    BY <2>1, <1>2 DEF Timer
  <2> QED
    BY <2>2, <2>3, <2>4 DEF Timer
<1>4. t \in Seq(Timer) /\ Len(t) = Len(s)
  <2>1. t = [k \in 1..Len(s) |-> t[k]]
    BY <1>1 DEF t, Age
  <2>2. t \in [1..Len(s) -> Timer]
    BY <2>1, <1>3
  <2>3. t \in Seq(Timer)
    BY <2>2, <1>1, SeqDef
  <2> QED
    BY <2>3, <1>1, LenProperties
<1>5. Ordered(s) => Ordered(t)
  <2>1. \A x, y \in Left : x <= y => Later(x) <= Later(y)
    BY DEF Left, Later
  <2> QED
    BY <2>1, <1>1, <1>3 DEF Ordered
<1>6. \A L : Match(s, L) => Match(t, L)
  BY <1>1, <1>3 DEF Match
<1> QED
  BY <1>3, <1>4, <1>5, <1>6 DEF t

LEMMA EmptyList ==
  /\ <<>> \in Seq(Timer)
  /\ Match(<<>>, {})
  /\ Ordered(<<>>)
BY DEF Match, Ordered

-----------------------------------------------------------------------------
(* Events are live.  This needs no assumption about time or errors. *)

BatchInv ==
  /\ batch \subseteq listeners
  /\ pc \notin {"dispatch", "thrown"} => batch = {}

LEMMA BatchNext == BatchInv /\ [Next]_vars => BatchInv'
<1> SUFFICES ASSUME BatchInv, [Next]_vars PROVE BatchInv'
  OBVIOUS
<1> USE DEF BatchInv
<1>1. CASE Setup
  BY <1>1 DEF Setup, enroll, EnrollFails, process_events, add, add_fails
<1>2. CASE Wait
  BY <1>2 DEF Wait, NothingToWaitFor, WaitReturns
<1>3. CASE Dispatch
  BY <1>3 DEF Dispatch, accept_connection, SessionEnds, SessionContinues,
    AdmSessionEnds, AdmSessionContinues, AdmShutdown, SourceReady,
    SourceEnds, SourceClears, AtEvent, EventDone, add
<1>4. CASE Scan
  BY <1>4 DEF Scan, StartScan, IdleInput, IdleOutput, IdleSourceEnds,
    IdleSourceClears, IdleIgnored, EndScan, AtDueEntry, IdleDone
<1>5. CASE Flush
  BY <1>5 DEF Flush, RemoveQueued, FlushDone, ClearRegistry, FlushRemove,
    FlushClear, CallReturns
<1>6. CASE Failure
  BY <1>6 DEF Failure, WaitFails, AcceptFails, AddConnectionFails,
    HandlerThrows, ClearFails, AtEvent, CallbackThrows, add_fails
<1>7. CASE TimePasses
  BY <1>7 DEF TimePasses, Tick
<1>8. CASE UNCHANGED vars
  BY <1>8 DEF vars, monitorVars
<1> QED
  BY <1>1, <1>2, <1>3, <1>4, <1>5, <1>6, <1>7, <1>8 DEF Next, Loop, Done

(* An event returned by epoll_wait always points at a live listener, even  *)
(* if a session ends, the registry is to be cleared or an enroll has       *)
(* failed while the batch is dispatched.                                   *)
THEOREM EventsStayLive == Spec => []EventsAreLive
<1>1. Init => BatchInv
  BY DEF Init, MonitorInit, BatchInv
<1>2. BatchInv => EventsAreLive
  BY DEF BatchInv, EventsAreLive
<1> QED
  BY <1>1, <1>2, BatchNext, PTL DEF Spec

-----------------------------------------------------------------------------
(* Types and the activity list, for an application that does not go on     *)
(* after a failed enroll.                                                  *)

ListInv ==
  /\ TypeOK
  /\ BatchInv
  /\ Running => Match(timers, listeners)
  /\ Ordered(timers)

(* The timer of a listener is restarted and nothing is registered. *)
LEMMA RefreshStep ==
  ASSUME ListInv, NEW fd \in listeners, Running
  PROVE  /\ Refresh(timers, fd) \in Seq(Timer)
         /\ Len(Refresh(timers, fd)) = Len(timers)
         /\ Match(Refresh(timers, fd), listeners)
         /\ Ordered(Refresh(timers, fd))
<1>1. timers \in Seq(Timer) /\ fd \in Fds
  BY DEF ListInv, TypeOK, MonitorTypeOK
<1>2. Match(timers, listeners) /\ Ordered(timers)
  BY DEF ListInv
<1> QED
  BY <1>1, <1>2, RefreshKeepsList

(* A descriptor that has no listener is pushed on the list. *)
LEMMA PushStep ==
  ASSUME ListInv, NEW fd \in Fds \ listeners, Running
  PROVE  /\ PushBack(timers, fd) \in Seq(Timer)
         /\ Match(PushBack(timers, fd), listeners \cup {fd})
         /\ Ordered(PushBack(timers, fd))
<1>1. timers \in Seq(Timer)
  BY DEF ListInv, TypeOK, MonitorTypeOK
<1>2. Match(timers, listeners) /\ Ordered(timers)
  BY DEF ListInv
<1> QED
  BY <1>1, <1>2, PushBackKeepsList

(* finalize_event keeps the types of what it writes. *)
LEMMA FinalizeType ==
  ASSUME TypeOK, NEW fd \in Fds, NEW d \in Direction,
         FinalizeContinues(fd, d)
  PROVE  /\ interest' \in [Fds -> ListenOn \cup {{}}]
         /\ dir' \in [Fds -> Direction]
         /\ events' \in [Fds -> ListenOn]
<1> USE DEF TypeOK, MonitorTypeOK
<1>1. {d} \in ListenOn
  BY DEF ListenOn, Direction
<1>2. dir' \in [Fds -> Direction]
  BY DEF FinalizeContinues
<1>3. CASE events[fd] # {d}
  <2>1. interest' = [interest EXCEPT ![fd] = {d}]
    BY <1>3 DEF FinalizeContinues, modify
  <2>2. events' = [events EXCEPT ![fd] = {d}]
    BY <1>3 DEF FinalizeContinues
  <2> QED
    BY <1>1, <1>2, <2>1, <2>2
<1>4. CASE events[fd] = {d}
  BY <1>2, <1>4 DEF FinalizeContinues
<1> QED
  BY <1>3, <1>4

LEMMA DeferredRemoveType ==
  ASSUME TypeOK, NEW fd \in Fds, deferred_remove(fd)
  PROVE  toRemove' \in Seq(Fds)
BY AppendProperties DEF TypeOK, MonitorTypeOK, deferred_remove

LEMMA ListInit == Init => ListInv
<1> SUFFICES ASSUME Init PROVE ListInv
  OBVIOUS
<1> USE DEF Init, MonitorInit
<1>1. shouldClear \in BOOLEAN
  BY Zenon
<1>2. TypeOK
  BY <1>1, EmptyList DEF TypeOK, MonitorTypeOK, Kind, Services, Sessions,
    Direction, ListenOn, Inside, Stopped
<1> QED
  BY <1>2, EmptyList DEF ListInv, BatchInv

(* A step other than an enroll that fails and is survived. *)
LEMMA ListStep ==
  ASSUME ListInv, [Next]_vars,
         EnrollErrorCaught => \A fd \in Enrollable : ~EnrollFails(fd)
  PROVE  ListInv'
<1>0. BatchInv'
  BY BatchNext DEF ListInv
<1> USE <1>0 DEF ListInv, BatchInv, TypeOK, MonitorTypeOK, Kind, Services,
      Sessions, Direction, ListenOn, Inside, Stopped, Running, registryVars
<1>1. ASSUME NEW fd \in Enrollable, enroll(fd) PROVE ListInv'
  <2>1. fd \in Fds \ listeners /\ Running
    BY <1>1 DEF enroll, Enrollable
  <2>2. KindOf(fd) \in Kind
    BY DEF KindOf, Enrollable
  <2> QED
    BY <1>1, <2>1, <2>2, PushStep DEF enroll, add
<1>2. ASSUME NEW fd \in Enrollable, EnrollFails(fd) PROVE ListInv'
  <2>1. fd \in Fds \ listeners /\ Running
    BY <1>2 DEF EnrollFails, Enrollable
  <2> QED
    BY <1>2, <2>1, PushStep DEF EnrollFails, add_fails
<1>3. CASE process_events
  BY <1>3 DEF process_events
<1>4. CASE Wait
  BY <1>4 DEF Wait, NothingToWaitFor, WaitReturns
<1>5. ASSUME NEW fd \in Fds, NEW conn \in Fds, accept_connection(fd, conn)
      PROVE  ListInv'
  <2>1. fd \in listeners /\ conn \in Fds \ listeners /\ Running
    BY <1>5 DEF accept_connection, AtEvent
  <2> DEFINE t == PushBack(timers, conn)
             L == listeners \cup {conn}
  <2>2. t \in Seq(Timer) /\ Match(t, L) /\ Ordered(t)
    BY <2>1, PushStep
  <2> HIDE DEF t
  <2>3. /\ Refresh(t, fd) \in Seq(Timer)
        /\ Match(Refresh(t, fd), L)
        /\ Ordered(Refresh(t, fd))
    BY <2>1, <2>2, RefreshKeepsList
  <2>4. timers' = Refresh(t, fd) /\ listeners' = L
    BY <1>5 DEF accept_connection, add, t
  <2> QED
    BY <1>5, <2>3, <2>4 DEF accept_connection, add, SessionKind, AtEvent
<1>6. ASSUME NEW fd \in Fds, NEW d \in Direction,
             SessionEnds(fd, d) \/ SessionContinues(fd, d)
      PROVE  ListInv'
  <2>1. fd \in listeners /\ Running
    BY <1>6 DEF SessionEnds, SessionContinues, AtEvent
  <2>2. CASE SessionEnds(fd, d)
    <3>1. toRemove' \in Seq(Fds)
      BY <2>2, DeferredRemoveType DEF SessionEnds
    <3>2. /\ timers' \in Seq(Timer)
          /\ Match(timers', listeners)
          /\ Ordered(timers')
      BY <2>1, <2>2, RefreshStep DEF SessionEnds, EventDone
    <3> QED
      BY <2>2, <3>1, <3>2 DEF SessionEnds, EventDone
  <2>3. CASE SessionContinues(fd, d)
    <3>1. FinalizeContinues(fd, d)
      BY <2>3 DEF SessionContinues
    <3>2. /\ interest' \in [Fds -> ListenOn \cup {{}}]
          /\ dir' \in [Fds -> Direction]
          /\ events' \in [Fds -> ListenOn]
      BY <3>1, FinalizeType
    <3>3. /\ timers' \in Seq(Timer)
          /\ Match(timers', listeners)
          /\ Ordered(timers')
      BY <2>1, <2>3, RefreshStep DEF SessionContinues, EventDone
    <3> QED
      BY <2>3, <3>2, <3>3 DEF SessionContinues, EventDone
  <2> QED
    BY <1>6, <2>2, <2>3
<1>7. ASSUME NEW fd \in Fds,
             \/ AdmSessionEnds(fd) \/ AdmSessionContinues(fd) \/ AdmShutdown(fd)
             \/ SourceEnds(fd)
      PROVE  ListInv'
  <2>1. fd \in listeners /\ Running
    BY <1>7 DEF AdmSessionEnds, AdmSessionContinues, AdmShutdown, SourceEnds,
      AtEvent
  <2>2. CASE AdmSessionEnds(fd) \/ SourceEnds(fd)
    <3>1. toRemove' \in Seq(Fds)
      BY <2>2, DeferredRemoveType DEF AdmSessionEnds, SourceEnds
    <3>2. /\ timers' \in Seq(Timer)
          /\ Match(timers', listeners)
          /\ Ordered(timers')
      BY <2>1, <2>2, RefreshStep DEF AdmSessionEnds, SourceEnds, EventDone
    <3> QED
      BY <2>2, <3>1, <3>2 DEF AdmSessionEnds, SourceEnds, EventDone
  <2>3. CASE AdmSessionContinues(fd) \/ AdmShutdown(fd)
    <3>1. FinalizeContinues(fd, "read") /\ "read" \in Direction
      BY <2>3 DEF AdmSessionContinues, AdmShutdown
    <3>2. shouldClear' \in BOOLEAN
      BY <2>3, Zenon DEF AdmSessionContinues, AdmShutdown, deferred_clear
    <3>3. /\ interest' \in [Fds -> ListenOn \cup {{}}]
          /\ dir' \in [Fds -> Direction]
          /\ events' \in [Fds -> ListenOn]
      BY <3>1, FinalizeType
    <3>4. /\ timers' \in Seq(Timer)
          /\ Match(timers', listeners)
          /\ Ordered(timers')
      BY <2>1, <2>3, RefreshStep
      DEF AdmSessionContinues, AdmShutdown, EventDone
    <3> QED
      BY <2>3, <3>2, <3>3, <3>4
      DEF AdmSessionContinues, AdmShutdown, EventDone
  <2> QED
    BY <1>7, <2>2, <2>3
<1>8. ASSUME NEW fd \in Fds,
             SourceReady(fd) \/ SourceClears(fd) \/ IdleSourceClears(fd)
      PROVE  ListInv'
  <2>1. fd \in listeners /\ Running
    BY <1>8 DEF SourceReady, SourceClears, IdleSourceClears, AtEvent,
      AtDueEntry
  <2>2. cursor' \in Nat \ {0}
    BY <1>8 DEF SourceReady, SourceClears, IdleSourceClears, EventDone,
      IdleDone
  <2>3. shouldClear' \in BOOLEAN
    BY <1>8, Zenon DEF SourceReady, SourceClears, IdleSourceClears,
      deferred_clear
  <2>4. /\ timers' \in Seq(Timer)
        /\ Match(timers', listeners)
        /\ Ordered(timers')
    BY <1>8, <2>1, RefreshStep DEF SourceReady, SourceClears,
      IdleSourceClears, EventDone, IdleDone
  <2> QED
    BY <1>8, <2>2, <2>3, <2>4 DEF SourceReady, SourceClears,
      IdleSourceClears, EventDone, IdleDone
<1>9. CASE StartScan /\ UNCHANGED registryVars
  <2>1. /\ pc' = "scan"
        /\ cursor' \in Nat \ {0}
        /\ clock' \in 0..StallBound
        /\ now' \in 0..clock'
    BY <1>9 DEF StartScan
  <2>2. UNCHANGED <<listeners, interest, timers, toRemove, shouldClear, batch,
                    kind, dir, events>>
    BY <1>9 DEF StartScan
  <2>3. MonitorTypeOK'
    BY <2>1, <2>2
  <2>4. Match(timers', listeners') /\ Ordered(timers')
    BY <1>9, <2>2 DEF StartScan
  <2> QED
    BY <2>2, <2>3, <2>4
<1>10. ASSUME NEW fd \in Fds,
              IdleInput(fd) \/ IdleOutput(fd) \/ IdleSourceEnds(fd)
                \/ IdleIgnored(fd)
       PROVE  ListInv'
  <2>1. fd \in listeners /\ Running
    BY <1>10 DEF IdleInput, IdleOutput, IdleSourceEnds, IdleIgnored, AtDueEntry
  <2>2. cursor' \in Nat \ {0}
    BY <1>10 DEF IdleInput, IdleOutput, IdleSourceEnds, IdleIgnored, IdleDone
  <2>3. CASE IdleInput(fd)
    <3>1. FinalizeContinues(fd, "write") /\ "write" \in Direction
      BY <2>3 DEF IdleInput
    <3> QED
      BY <2>1, <2>2, <2>3, <3>1, RefreshStep, FinalizeType
      DEF IdleInput, IdleDone
  <2>4. CASE IdleOutput(fd) \/ IdleSourceEnds(fd) \/ IdleIgnored(fd)
    <3>1. toRemove' \in Seq(Fds)
      BY <2>4, DeferredRemoveType DEF IdleOutput, IdleSourceEnds, IdleIgnored
    <3>2. /\ timers' \in Seq(Timer)
          /\ Match(timers', listeners)
          /\ Ordered(timers')
      BY <2>1, <2>4, RefreshStep
        DEF IdleOutput, IdleSourceEnds, IdleIgnored, IdleDone
    <3> QED
      BY <2>2, <2>4, <3>1, <3>2
        DEF IdleOutput, IdleSourceEnds, IdleIgnored, IdleDone
  <2> QED
    BY <1>10, <2>3, <2>4
<1>11. CASE EndScan /\ UNCHANGED registryVars
  BY <1>11 DEF EndScan
<1>12. CASE RemoveQueued
  <2> DEFINE fd == Head(toRemove)
  <2>1. fd \in listeners /\ fd \in Fds /\ toRemove' \in Seq(Fds) /\ Running
    BY <1>12 DEF RemoveQueued
  <2>2. /\ timers' \in Seq(Timer)
        /\ Match(timers', listeners \ {fd})
        /\ Ordered(timers')
    BY <1>12, <2>1, EraseKeepsList DEF RemoveQueued, FlushRemove
  <2> QED
    BY <1>12, <2>1, <2>2 DEF RemoveQueued, FlushRemove
<1>13. CASE FlushDone
  BY <1>13 DEF FlushDone, CallReturns
<1>14. CASE ClearRegistry
  <2>1. shouldClear' \in BOOLEAN
    BY <1>14, Zenon DEF ClearRegistry, FlushClear
  <2>2. /\ timers' \in Seq(Timer)
        /\ Match(timers', listeners')
        /\ Ordered(timers')
        /\ listeners' = {}
    BY <1>14, EmptyList DEF ClearRegistry, FlushClear
  <2>3. interest' \in [Fds -> ListenOn \cup {{}}] /\ kind' \in [Fds -> Kind]
    BY <1>14 DEF ClearRegistry, FlushClear
  <2>4. toRemove' \in Seq(Fds)
    BY <1>14 DEF ClearRegistry, FlushClear
  <2>5. /\ pc' = "wait"
        /\ cursor' \in Nat \ {0}
        /\ clock' \in 0..StallBound
        /\ now' \in 0..clock'
    BY <1>14 DEF ClearRegistry, CallReturns
  <2>6. MonitorTypeOK'
    BY <2>1, <2>2, <2>3, <2>4, <2>5
  <2> QED
    BY <1>14, <2>2, <2>3, <2>6 DEF ClearRegistry
<1>15. CASE WaitFails /\ UNCHANGED registryVars
  BY <1>15 DEF WaitFails
<1>16. ASSUME NEW fd \in Fds, AcceptFails(fd) \/ HandlerThrows(fd)
       PROVE  ListInv'
  BY <1>16 DEF AcceptFails, HandlerThrows, CallbackThrows
<1>17. ASSUME NEW fd \in Fds, NEW conn \in Fds, AddConnectionFails(fd, conn)
       PROVE  ListInv'
  <2>1. conn \in Fds \ listeners /\ Running
    BY <1>17 DEF AddConnectionFails, AtEvent
  <2> QED
    BY <1>17, <2>1, PushStep DEF AddConnectionFails, CallbackThrows, add_fails
<1>18. CASE ClearFails
  BY <1>18 DEF ClearFails
<1>19. CASE TimePasses
  <2>1. /\ timers' \in Seq(Timer)
        /\ Ordered(timers')
        /\ Running => Match(timers', listeners)
    BY <1>19, AgeKeepsList DEF TimePasses, Tick
  <2>2. clock' \in 0..StallBound /\ now' \in 0..clock'
    BY <1>19 DEF TimePasses, Tick
  <2>3. UNCHANGED <<pc, listeners, interest, toRemove, shouldClear, batch,
                    cursor, kind, dir, events>>
    BY <1>19 DEF TimePasses, Tick
  <2>4. TypeOK'
    BY <2>1, <2>2, <2>3
  <2> QED
    BY <2>1, <2>3, <2>4
<1>20. CASE UNCHANGED vars
  BY <1>20 DEF vars, monitorVars
<1> QED
  BY <1>1, <1>2, <1>3, <1>4, <1>5, <1>6, <1>7, <1>8, <1>9, <1>10, <1>11,
    <1>12, <1>13, <1>14, <1>15, <1>16, <1>17, <1>18, <1>19, <1>20
  DEF Next, Setup, Loop, Wait, Dispatch, Scan, Flush, Failure, Done

LEMMA ListNext ==
  ASSUME ~EnrollErrorCaught
  PROVE  ListInv /\ [Next]_vars => ListInv'
BY ListStep

-----------------------------------------------------------------------------
(* The properties of the activity list. *)

(* Every variable keeps its type; in particular no deadline is ever        *)
(* further away than the inactivity period.                                *)
THEOREM TypeCorrect == ASSUME ~EnrollErrorCaught PROVE Spec => []TypeOK
<1>1. ListInv => TypeOK
  BY DEF ListInv
<1> QED
  BY <1>1, ListInit, ListNext, PTL DEF Spec

(* m_listeners and m_fd_activity_timestamps name the same descriptors, so  *)
(* long as the application does not go on after a failed enroll.           *)
THEOREM TimersMatch ==
  ASSUME ~EnrollErrorCaught PROVE Spec => []TimersMatchListeners
<1>1. ListInv => TimersMatchListeners
  BY DEF ListInv, TimersMatchListeners, Match
<1> QED
  BY <1>1, ListInit, ListNext, PTL DEF Spec

(* m_fd_activity_timestamps stays in the order of the deadlines.           *)
THEOREM TimersStaySorted ==
  ASSUME ~EnrollErrorCaught PROVE Spec => []TimersSorted
<1>1. ListInv => TimersSorted
  BY DEF ListInv, TimersSorted, Ordered
<1> QED
  BY <1>1, ListInit, ListNext, PTL DEF Spec

-----------------------------------------------------------------------------
(* The queue of removals.  That a session is not queued twice depends on   *)
(* time: its end restarts its timer, so that the scan of the same call     *)
(* passes it over, provided that the call does not take as long as the     *)
(* inactivity period.                                                      *)

Distinct(s) == \A j, k \in DOMAIN s : s[j] = s[k] => j = k

(* The entries of the descriptors in Q were restarted in a call that has   *)
(* lasted c ticks.                                                         *)
Rested(s, c, Q) ==
  \A k \in DOMAIN s : s[k].fd \in Q => s[k].left + c >= InactivityPeriod

QueueInv ==
  /\ Running => /\ Queued \subseteq listeners
                /\ Distinct(toRemove)
                /\ batch \cap Queued = {}
                /\ \A fd \in Queued : kind[fd] \notin Services
  /\ pc \in {"setup", "wait"} => toRemove = <<>>
  /\ pc \in {"dispatch", "scan"} => Rested(timers, clock, Queued)

LEMMA QueueAppend ==
  ASSUME NEW s \in Seq(Fds), NEW fd \in Fds
  PROVE  /\ ToSet(Append(s, fd)) = ToSet(s) \cup {fd}
         /\ Distinct(s) /\ fd \notin ToSet(s) => Distinct(Append(s, fd))
<1> DEFINE t == Append(s, fd)
<1>1. /\ t \in Seq(Fds)
      /\ Len(t) = Len(s) + 1
      /\ \A i \in 1..Len(s) : t[i] = s[i]
      /\ t[Len(s) + 1] = fd
  BY AppendProperties
<1> HIDE DEF t
<1>2. DOMAIN t = 1..(Len(s) + 1) /\ DOMAIN s = 1..Len(s) /\ Len(s) \in Nat
  BY <1>1
<1>3. ToSet(t) = ToSet(s) \cup {fd}
  <2>1. ASSUME NEW x \in ToSet(t) PROVE x \in ToSet(s) \cup {fd}
    BY <1>1, <1>2 DEF ToSet
  <2>2. ASSUME NEW x \in ToSet(s) \cup {fd} PROVE x \in ToSet(t)
    BY <1>1, <1>2 DEF ToSet
  <2> QED
    BY <2>1, <2>2
<1>4. Distinct(s) /\ fd \notin ToSet(s) => Distinct(t)
  BY <1>1, <1>2 DEF Distinct, ToSet
<1> QED
  BY <1>3, <1>4 DEF t

LEMMA QueueTail ==
  ASSUME NEW s \in Seq(Fds), s # <<>>, Distinct(s)
  PROVE  /\ ToSet(Tail(s)) = ToSet(s) \ {Head(s)}
         /\ Head(s) \in ToSet(s)
         /\ Distinct(Tail(s))
<1> DEFINE t == Tail(s)
<1>1. /\ Len(s) \in Nat \ {0}
      /\ DOMAIN s = 1..Len(s)
      /\ DOMAIN t = 1..(Len(s) - 1)
      /\ \A i \in 1..(Len(s) - 1) : t[i] = s[i + 1]
      /\ Head(s) = s[1]
  BY HeadTailProperties, EmptySeq
<1> HIDE DEF t
<1>2. ASSUME NEW x \in ToSet(t) PROVE x \in ToSet(s) \ {Head(s)}
  <2>1. PICK i \in 1..(Len(s) - 1) : x = t[i]
    BY <1>1 DEF ToSet
  <2>2. i + 1 \in DOMAIN s /\ x = s[i + 1] /\ i + 1 # 1
    BY <2>1, <1>1
  <2>3. x # s[1]
    BY <2>2, <1>1 DEF Distinct
  <2> QED
    BY <2>2, <2>3, <1>1 DEF ToSet
<1>3. ASSUME NEW x \in ToSet(s) \ {Head(s)} PROVE x \in ToSet(t)
  <2>1. PICK i \in 1..Len(s) : x = s[i]
    BY <1>1 DEF ToSet
  <2>2. i - 1 \in 1..(Len(s) - 1) /\ t[i - 1] = s[i]
    BY <2>1, <1>1
  <2> QED
    BY <2>1, <2>2, <1>1 DEF ToSet
<1>4. Head(s) \in ToSet(s)
  BY <1>1 DEF ToSet
<1>5. Distinct(t)
  BY <1>1 DEF Distinct
<1> QED
  BY <1>2, <1>3, <1>4, <1>5 DEF t

LEMMA EmptyQueue == ToSet(<<>>) = {} /\ Distinct(<<>>)
BY DEF ToSet, Distinct

(* Restarting the timer of fd keeps the others rested and adds fd. *)
LEMMA RefreshRested ==
  ASSUME NEW s \in Seq(Timer), NEW L, NEW fd \in L, fd \in Fds, Match(s, L),
         NEW c \in Nat, NEW Q, Rested(s, c, Q)
  PROVE  /\ Rested(Refresh(s, fd), c, Q)
         /\ Rested(Refresh(s, fd), c, Q \cup {fd})
<1> DEFINE t == Refresh(s, fd)
<1>1. \A k \in DOMAIN t : \/ t[k] = Fresh(fd)
                          \/ \E j \in DOMAIN s : t[k] = s[j] /\ s[j].fd # fd
  BY RefreshKeepsList
<1> HIDE DEF t
<1>2. Fresh(fd).left + c >= InactivityPeriod
  BY DEF Fresh
<1>3. ASSUME NEW k \in DOMAIN t, t[k].fd \in Q \cup {fd}
      PROVE  t[k].left + c >= InactivityPeriod
  <2>1. CASE t[k] = Fresh(fd)
    BY <2>1, <1>2
  <2>2. CASE \E j \in DOMAIN s : t[k] = s[j] /\ s[j].fd # fd
    BY <2>2, <1>3 DEF Rested
  <2> QED
    BY <1>1, <2>1, <2>2
<1> QED
  BY <1>3 DEF Rested, t

LEMMA PushRested ==
  ASSUME NEW s \in Seq(Timer), NEW fd \in Fds, NEW c \in Nat, NEW Q,
         Rested(s, c, Q)
  PROVE  Rested(PushBack(s, fd), c, Q)
<1> DEFINE t == PushBack(s, fd)
<1>1. /\ DOMAIN t = 1..(Len(s) + 1)
      /\ DOMAIN s = 1..Len(s)
      /\ Len(s) \in Nat
      /\ \A i \in 1..(Len(s) + 1) :
           t[i] = IF i <= Len(s) THEN s[i] ELSE Fresh(fd)
  BY FreshType, AppendElements DEF PushBack
<1> HIDE DEF t
<1>2. Fresh(fd).left + c >= InactivityPeriod
  BY DEF Fresh
<1> QED
  BY <1>1, <1>2 DEF Rested, t

LEMMA AgeRested ==
  ASSUME NEW s \in Seq(Timer), NEW c \in Nat, NEW Q, Rested(s, c, Q)
  PROVE  Rested(Age(s), c + 1, Q)
<1> DEFINE t == Age(s)
<1>1. /\ t \in Seq(Timer)
      /\ Len(t) = Len(s)
      /\ \A k \in 1..Len(s) :
           t[k].fd = s[k].fd /\ t[k].left >= s[k].left - 1
  BY AgeKeepsList
<1> HIDE DEF t
<1>2. ASSUME NEW k \in DOMAIN t, t[k].fd \in Q
      PROVE  t[k].left + (c + 1) >= InactivityPeriod
  <2>1. k \in DOMAIN s /\ k \in 1..Len(s)
    BY <1>1
  <2>2. s[k] \in Timer /\ t[k] \in Timer
    BY <1>1, <2>1
  <2>3. s[k].left \in Int /\ t[k].left \in Int
    BY <2>2 DEF Timer, Left
  <2>4. s[k].left + c >= InactivityPeriod
    BY <1>1, <1>2, <2>1 DEF Rested
  <2> QED
    BY <1>1, <2>1, <2>3, <2>4
<1> QED
  BY <1>2 DEF Rested, t
LEMMA QueueInit == Init => QueueInv
BY EmptyQueue DEF Init, MonitorInit, QueueInv, Queued, Stopped

(* A session whose event is dispatched, or whose entry is due, has not     *)
(* ended in this call.                                                     *)
LEMMA EventIsNotQueued ==
  ASSUME QueueInv, NEW fd, NEW kinds, AtEvent(fd, kinds)
  PROVE  fd \notin Queued
BY DEF QueueInv, AtEvent, Running, Stopped

LEMMA DueIsNotQueued ==
  ASSUME StallBound < InactivityPeriod, ListInv, QueueInv, pc = "scan",
         cursor <= Len(timers), IsDue(timers[cursor])
  PROVE  timers[cursor].fd \notin Queued
<1>1. timers \in Seq(Timer) /\ cursor \in 1..Len(timers)
  BY DEF ListInv, TypeOK, MonitorTypeOK
<1>2. timers[cursor] \in Timer
  BY <1>1
<1>3. timers[cursor].left \in Int /\ clock \in 0..StallBound /\ now \in 0..clock
  BY <1>2 DEF ListInv, TypeOK, MonitorTypeOK, Timer, Left
<1>4. timers[cursor].left + clock <= StallBound
  BY <1>3 DEF IsDue
<1>5. cursor \in DOMAIN timers
  BY <1>1
<1> QED
  BY <1>3, <1>4, <1>5 DEF QueueInv, Rested

(* The queue after a session has ended. *)
LEMMA QueueGrows ==
  ASSUME ListInv, QueueInv, Running, NEW fd \in listeners \ Queued,
         deferred_remove(fd)
  PROVE  Queued' = Queued \cup {fd} /\ Distinct(toRemove')
<1>1. toRemove \in Seq(Fds) /\ fd \in Fds
  BY DEF ListInv, TypeOK, MonitorTypeOK
<1> QED
  BY <1>1, QueueAppend DEF QueueInv, Queued, deferred_remove

(* The activity list after the callback of fd. *)
LEMMA RestedStep ==
  ASSUME ListInv, QueueInv, NEW fd \in listeners, pc \in {"dispatch", "scan"}
  PROVE  /\ Rested(Refresh(timers, fd), clock, Queued)
         /\ Rested(Refresh(timers, fd), clock, Queued \cup {fd})
<1>1. timers \in Seq(Timer) /\ fd \in Fds /\ clock \in Nat
  BY DEF ListInv, TypeOK, MonitorTypeOK
<1>2. Match(timers, listeners) /\ Rested(timers, clock, Queued)
  BY DEF ListInv, QueueInv, Running, Stopped
<1> QED
  BY <1>1, <1>2, RefreshRested

LEMMA QueueNext ==
  ASSUME ~EnrollErrorCaught, StallBound < InactivityPeriod
  PROVE  ListInv /\ QueueInv /\ [Next]_vars => QueueInv'
<1> SUFFICES ASSUME ListInv, QueueInv, [Next]_vars PROVE QueueInv'
  OBVIOUS
<1> USE DEF Running, Stopped
<1>0. /\ timers \in Seq(Timer)
      /\ toRemove \in Seq(Fds)
      /\ clock \in Nat
      /\ listeners \subseteq Fds
      /\ kind \in [Fds -> Kind]
      /\ batch \subseteq listeners
  BY DEF ListInv, BatchInv, TypeOK, MonitorTypeOK
(* Steps in which the timer of a listener is restarted and no session ends. *)
<1>1. ASSUME NEW fd \in listeners, pc \in {"dispatch", "scan"}, pc' = pc,
             timers' = Refresh(timers, fd), batch' \subseteq batch,
             UNCHANGED <<listeners, toRemove, clock, kind>>
      PROVE  QueueInv'
  BY <1>1, RestedStep DEF QueueInv, Queued
(* Steps in which a session ends. *)
<1>2. ASSUME NEW fd \in listeners \ Queued, pc \in {"dispatch", "scan"},
             pc' = pc, timers' = Refresh(timers, fd), deferred_remove(fd),
             batch' \subseteq batch \ {fd}, kind[fd] \notin Services,
             UNCHANGED <<listeners, clock, kind>>
      PROVE  QueueInv'
  <2>1. Queued' = Queued \cup {fd} /\ Distinct(toRemove')
    BY <1>2, QueueGrows
  <2>2. Rested(timers', clock', Queued')
    BY <1>2, <2>1, RestedStep
  <2> QED
    BY <1>2, <2>1, <2>2 DEF QueueInv
<1>3. ASSUME NEW fd \in Enrollable, enroll(fd) \/ EnrollFails(fd)
      PROVE  QueueInv'
  BY <1>3, EmptyQueue DEF QueueInv, Queued, enroll, EnrollFails
<1>4. CASE process_events
  BY <1>4 DEF QueueInv, Queued, process_events, registryVars
<1>5. CASE Wait
  <2>1. Queued = {} /\ toRemove' = toRemove
    BY <1>5, EmptyQueue
    DEF QueueInv, Queued, Wait, NothingToWaitFor, WaitReturns
  <2> QED
    BY <1>5, <2>1
    DEF QueueInv, Queued, Rested, Wait, NothingToWaitFor, WaitReturns
<1>6. ASSUME NEW fd \in Fds, NEW conn \in Fds, accept_connection(fd, conn)
      PROVE  QueueInv'
  <2>1. fd \in listeners /\ conn \notin listeners /\ pc = "dispatch"
    BY <1>0, <1>6 DEF accept_connection, AtEvent
  <2> DEFINE t == PushBack(timers, conn)
             L == listeners \cup {conn}
  <2>2. t \in Seq(Timer) /\ Match(t, L)
    BY <2>1, PushStep
  <2>3. Rested(t, clock, Queued)
    BY <1>0, <2>1, PushRested DEF QueueInv
  <2> HIDE DEF t
  <2>4. Rested(Refresh(t, fd), clock, Queued)
    BY <1>0, <2>1, <2>2, <2>3, RefreshRested
  <2>5. timers' = Refresh(t, fd)
    BY <1>6 DEF accept_connection, add, t
  <2>6. \A f \in Queued : kind'[f] = kind[f]
    BY <1>0, <1>6, <2>1 DEF accept_connection, QueueInv
  <2> QED
    BY <1>6, <2>1, <2>4, <2>5, <2>6
    DEF QueueInv, Queued, accept_connection, add
<1>7. ASSUME NEW fd \in Fds, NEW d \in Direction,
             SessionEnds(fd, d) \/ SessionContinues(fd, d)
      PROVE  QueueInv'
  <2>1. fd \in listeners \ Queued /\ kind[fd] \notin Services
    BY <1>0, <1>7, EventIsNotQueued
    DEF SessionEnds, SessionContinues, AtEvent, Services
  <2> QED
    BY <1>1, <1>2, <1>7, <2>1
    DEF SessionEnds, SessionContinues, AtEvent, EventDone
<1>8. ASSUME NEW fd \in Fds,
             \/ AdmSessionEnds(fd) \/ AdmSessionContinues(fd) \/ AdmShutdown(fd)
             \/ SourceEnds(fd)
      PROVE  QueueInv'
  <2>1. fd \in listeners \ Queued /\ kind[fd] \notin Services
    BY <1>0, <1>8, EventIsNotQueued
    DEF AdmSessionEnds, AdmSessionContinues, AdmShutdown, SourceEnds, AtEvent,
      Services
  <2> QED
    BY <1>1, <1>2, <1>8, <2>1
    DEF AdmSessionEnds, AdmSessionContinues, AdmShutdown, SourceEnds, AtEvent,
      EventDone, registryVars
<1>9. ASSUME NEW fd \in Fds,
             SourceReady(fd) \/ SourceClears(fd) \/ IdleSourceClears(fd)
      PROVE  QueueInv'
  BY <1>0, <1>1, <1>9 DEF SourceReady, SourceClears, IdleSourceClears,
    AtEvent, AtDueEntry, EventDone, IdleDone, registryVars
<1>10. ASSUME NEW fd \in Fds,
              IdleInput(fd) \/ IdleOutput(fd) \/ IdleSourceEnds(fd)
                \/ IdleIgnored(fd)
       PROVE  QueueInv'
  <2>1. AtDueEntry(fd)
    BY <1>10 DEF IdleInput, IdleOutput, IdleSourceEnds, IdleIgnored
  <2>2. fd \in listeners \ Queued
    BY <2>1, DueIsNotQueued DEF AtDueEntry
  <2>3. batch = {}
    BY <2>1 DEF AtDueEntry, ListInv, BatchInv
  <2>4. IdleOutput(fd) \/ IdleSourceEnds(fd) => kind[fd] \notin Services
    BY DEF IdleOutput, IdleSourceEnds, Services
  <2> QED
    BY <1>1, <1>2, <1>10, <2>1, <2>2, <2>3, <2>4
    DEF IdleInput, IdleOutput, IdleSourceEnds, IdleIgnored, AtDueEntry,
      IdleDone, registryVars
<1>11. CASE (StartScan \/ EndScan) /\ UNCHANGED registryVars
  BY <1>11 DEF QueueInv, Queued, StartScan, EndScan, registryVars
<1>12. CASE RemoveQueued
  <2>1. /\ Queued' = Queued \ {Head(toRemove)}
        /\ Distinct(toRemove')
    BY <1>0, <1>12, QueueTail DEF QueueInv, Queued, RemoveQueued
  <2>2. \A f \in Queued' : kind'[f] = kind[f]
    BY <1>0, <1>12, <2>1 DEF RemoveQueued, QueueInv
  <2> QED
    BY <1>12, <2>1, <2>2 DEF QueueInv, RemoveQueued, FlushRemove
<1>13. CASE FlushDone
  BY <1>13 DEF QueueInv, Queued, FlushDone, CallReturns, registryVars
<1>14. CASE ClearRegistry
  <2>1. toRemove' = <<>> /\ pc' = "wait"
    BY <1>14 DEF ClearRegistry, FlushClear, CallReturns
  <2>2. Queued' = {} /\ Distinct(toRemove')
    BY <2>1, EmptyQueue DEF Queued
  <2> QED
    BY <2>1, <2>2 DEF QueueInv
<1>15. CASE Failure
  <2>1. pc' = "thrown"
    BY <1>15 DEF Failure, WaitFails, AcceptFails, AddConnectionFails,
      HandlerThrows, ClearFails, CallbackThrows
  <2> QED
    BY <2>1 DEF QueueInv
<1>16. CASE TimePasses
  <2>1. Queued' = Queued
    BY <1>16 DEF TimePasses, Tick, Queued
  <2>2. ASSUME pc \in {"dispatch", "scan"}
        PROVE  Rested(timers', clock', Queued')
    <3>1. Rested(timers, clock, Queued)
      BY <2>2 DEF QueueInv
    <3>2. timers' = Age(timers) /\ clock' = clock + 1
      BY <1>16, <2>2 DEF TimePasses, Tick
    <3> QED
      BY <1>0, <2>1, <3>1, <3>2, AgeRested
  <2> QED
    BY <1>16, <2>1, <2>2 DEF QueueInv, TimePasses, Tick, registryVars
<1>17. CASE UNCHANGED vars
  BY <1>17 DEF QueueInv, Queued, vars, monitorVars, registryVars
<1> QED
  BY <1>3, <1>4, <1>5, <1>6, <1>7, <1>8, <1>9, <1>10, <1>11, <1>12, <1>13,
    <1>14, <1>15, <1>16, <1>17
  DEF Next, Setup, Loop, Dispatch, Scan, Flush, Done

(* Whatever is in m_fds_to_remove has a listener, once: the assertion of   *)
(* flush_fds_to_remove holds if no call of wait_for_and_dispatch_events    *)
(* takes as long as the inactivity period.                                 *)
THEOREM QueueIsSound ==
  ASSUME ~EnrollErrorCaught, StallBound < InactivityPeriod
  PROVE  Spec => []FlushFindsListener
<1>1. QueueInv => FlushFindsListener
  BY DEF QueueInv, FlushFindsListener, Distinct
<1> QED
  BY <1>1, ListInit, ListNext, QueueInit, QueueNext, PTL DEF Spec

(* Under the same condition fd_is_idle is not called for a session that    *)
(* has ended.                                                              *)
THEOREM EndedIsNotIdle ==
  ASSUME ~EnrollErrorCaught, StallBound < InactivityPeriod
  PROVE  Spec => []NoIdleAfterTermination
<1>1. ListInv /\ QueueInv => NoIdleAfterTermination
  BY DueIsNotQueued DEF NoIdleAfterTermination
<1> QED
  BY <1>1, ListInit, ListNext, QueueInit, QueueNext, PTL DEF Spec
-----------------------------------------------------------------------------
(* What the kernel watches. *)

(* finalize_event of a session that is still in step leaves it in step.    *)
LEMMA FinalizeInStep ==
  ASSUME TypeOK, InterestMatchesSession, Running, NEW fd \in listeners,
         kind[fd] \in Sessions, fd \notin Queued, NEW d \in Direction,
         FinalizeContinues(fd, d), Queued' = Queued,
         UNCHANGED <<pc, listeners, kind>>
  PROVE  InterestMatchesSession'
<1>1. /\ interest \in [Fds -> ListenOn \cup {{}}]
      /\ dir \in [Fds -> Direction]
      /\ events \in [Fds -> ListenOn]
      /\ fd \in Fds
      /\ listeners \subseteq Fds
  BY DEF TypeOK, MonitorTypeOK
<1>2. interest[fd] = {dir[fd]} /\ events[fd] = {dir[fd]}
  BY DEF InterestMatchesSession
<1>3. dir' = [dir EXCEPT ![fd] = d]
  BY DEF FinalizeContinues
<1>4. interest' = [interest EXCEPT ![fd] = {d}]
  BY <1>1, <1>2 DEF FinalizeContinues, modify
<1>5. events' = [events EXCEPT ![fd] = {d}]
  BY <1>1, <1>2 DEF FinalizeContinues
<1> QED
  BY <1>1, <1>3, <1>4, <1>5 DEF InterestMatchesSession, Running

LEMMA InterestNext ==
  ASSUME StallBound < InactivityPeriod
  PROVE  ListInv /\ QueueInv /\ InterestMatchesSession /\ [Next]_vars
           => InterestMatchesSession'
<1> SUFFICES ASSUME ListInv, QueueInv, InterestMatchesSession, [Next]_vars
             PROVE  InterestMatchesSession'
  OBVIOUS
<1> USE DEF Running, Stopped
<1>0. /\ TypeOK
      /\ toRemove \in Seq(Fds)
      /\ listeners \subseteq Fds
      /\ kind \in [Fds -> Kind]
      /\ interest \in [Fds -> ListenOn \cup {{}}]
      /\ dir \in [Fds -> Direction]
      /\ events \in [Fds -> ListenOn]
      /\ batch \subseteq listeners
  BY DEF ListInv, BatchInv, TypeOK, MonitorTypeOK
<1>1. ASSUME UNCHANGED <<listeners, interest, toRemove, registryVars>>,
             pc' \notin Stopped => pc \notin Stopped
      PROVE  InterestMatchesSession'
  BY <1>1 DEF InterestMatchesSession, Queued, registryVars
<1>2. ASSUME NEW fd \in listeners \ Queued, deferred_remove(fd), pc' = pc,
             pc \notin Stopped, UNCHANGED <<listeners, interest, events, kind>>,
             \A f \in listeners \ {fd} : dir'[f] = dir[f]
      PROVE  InterestMatchesSession'
  <2>1. Queued' = Queued \cup {fd}
    BY <1>2, QueueGrows
  <2> QED
    BY <1>2, <2>1 DEF InterestMatchesSession
<1>3. CASE Setup
  <2>1. ASSUME NEW fd \in Enrollable, enroll(fd)
        PROVE  InterestMatchesSession'
    <3>1. fd \in Fds /\ KindOf(fd) \notin Sessions
      BY DEF Enrollable, KindOf, Sessions
    <3> QED
      BY <1>0, <2>1, <3>1 DEF InterestMatchesSession, Queued, enroll, add
  <2>2. ASSUME NEW fd \in Enrollable, EnrollFails(fd)
        PROVE  InterestMatchesSession'
    BY <1>1, <2>2 DEF EnrollFails, add_fails
  <2>3. CASE process_events
    BY <1>1, <2>3 DEF process_events
  <2> QED
    BY <1>3, <2>1, <2>2, <2>3 DEF Setup
<1>4. CASE Wait
  BY <1>1, <1>4 DEF Wait, NothingToWaitFor, WaitReturns
<1>5. ASSUME NEW fd \in Fds, NEW conn \in Fds, accept_connection(fd, conn)
      PROVE  InterestMatchesSession'
  BY <1>0, <1>5 DEF InterestMatchesSession, Queued, accept_connection, add,
    AtEvent
<1>6. ASSUME NEW fd \in Fds, NEW d \in Direction, SessionEnds(fd, d)
      PROVE  InterestMatchesSession'
  <2>1. fd \in listeners \ Queued
    BY <1>0, <1>6, EventIsNotQueued DEF SessionEnds, AtEvent
  <2> QED
    BY <1>0, <1>2, <1>6, <2>1 DEF SessionEnds, AtEvent, EventDone
<1>7. ASSUME NEW fd \in Fds, AdmSessionEnds(fd) \/ SourceEnds(fd)
      PROVE  InterestMatchesSession'
  <2>1. fd \in listeners \ Queued
    BY <1>0, <1>7, EventIsNotQueued DEF AdmSessionEnds, SourceEnds, AtEvent
  <2> QED
    BY <1>2, <1>7, <2>1 DEF AdmSessionEnds, SourceEnds, AtEvent,
      EventDone, registryVars
<1>8. ASSUME NEW fd \in Fds, NEW d \in Direction,
             \/ SessionContinues(fd, d)
             \/ (AdmSessionContinues(fd) \/ AdmShutdown(fd)) /\ d = "read"
      PROVE  InterestMatchesSession'
  <2>1. fd \in listeners \ Queued /\ kind[fd] \in Sessions
    BY <1>0, <1>8, EventIsNotQueued
    DEF SessionContinues, AdmSessionContinues, AdmShutdown, AtEvent, Sessions
  <2>2. /\ FinalizeContinues(fd, d)
        /\ Queued' = Queued
        /\ UNCHANGED <<pc, listeners, kind>>
        /\ Running
    BY <1>8 DEF SessionContinues, AdmSessionContinues, AdmShutdown, Queued,
      EventDone, AtEvent
  <2> QED
    BY <1>0, <2>1, <2>2, FinalizeInStep
<1>9. ASSUME NEW fd \in Fds,
             SourceReady(fd) \/ SourceClears(fd) \/ IdleSourceClears(fd)
      PROVE  InterestMatchesSession'
  BY <1>1, <1>9 DEF SourceReady, SourceClears, IdleSourceClears, EventDone,
    IdleDone
<1>10. ASSUME NEW fd \in Fds,
              IdleInput(fd) \/ IdleOutput(fd) \/ IdleSourceEnds(fd)
       PROVE  InterestMatchesSession'
  <2>1. AtDueEntry(fd)
    BY <1>10 DEF IdleInput, IdleOutput, IdleSourceEnds
  <2>2. fd \in listeners \ Queued
    BY <2>1, DueIsNotQueued DEF AtDueEntry
  <2>3. CASE IdleInput(fd)
    <3>1. /\ FinalizeContinues(fd, "write")
          /\ "write" \in Direction
          /\ Queued' = Queued
          /\ UNCHANGED <<pc, listeners, kind>>
          /\ Running
          /\ kind[fd] \in Sessions
      BY <2>1, <2>3 DEF IdleInput, IdleDone, AtDueEntry, Direction, Queued,
        Sessions
    <3> QED
      BY <1>0, <2>2, <3>1, FinalizeInStep
  <2>4. CASE IdleOutput(fd) \/ IdleSourceEnds(fd)
    BY <1>2, <2>1, <2>2, <2>4 DEF IdleOutput, IdleSourceEnds, IdleDone,
      AtDueEntry, registryVars
  <2> QED
    BY <1>10, <2>3, <2>4
<1>11. ASSUME NEW fd \in Fds, IdleIgnored(fd) PROVE InterestMatchesSession'
  BY <1>1, <1>11 DEF IdleIgnored, IdleDone
<1>12. CASE (StartScan \/ EndScan) /\ UNCHANGED registryVars
  BY <1>1, <1>12 DEF StartScan, EndScan
<1>13. CASE RemoveQueued
  <2>1. Queued' = Queued \ {Head(toRemove)}
    BY <1>0, <1>13, QueueTail DEF QueueInv, Queued, RemoveQueued
  <2> QED
    BY <1>0, <1>13, <2>1 DEF InterestMatchesSession, RemoveQueued, FlushRemove
<1>14. CASE FlushDone
  BY <1>1, <1>14 DEF FlushDone, CallReturns
<1>15. CASE ClearRegistry
  BY <1>15 DEF InterestMatchesSession, ClearRegistry, FlushClear
<1>16. CASE Failure
  <2>1. pc' = "thrown"
    BY <1>16 DEF Failure, WaitFails, AcceptFails, AddConnectionFails,
      HandlerThrows, ClearFails, CallbackThrows
  <2> QED
    BY <2>1 DEF InterestMatchesSession
<1>17. CASE TimePasses
  BY <1>1, <1>17 DEF TimePasses, Tick
<1>18. CASE UNCHANGED vars
  BY <1>1, <1>18 DEF vars, monitorVars
<1>19. "read" \in Direction
  BY DEF Direction
<1> QED
  BY <1>3, <1>4, <1>5, <1>6, <1>7, <1>8, <1>9, <1>10, <1>11, <1>12, <1>13,
    <1>14, <1>15, <1>16, <1>17, <1>18, <1>19
  DEF Next, Loop, Dispatch, Scan, Flush, Done

(* The session, connection_event_handler::events and the interest list of  *)
(* the kernel agree on the direction, for every session that has not       *)
(* ended.                                                                  *)
THEOREM InterestInStep ==
  ASSUME ~EnrollErrorCaught, StallBound < InactivityPeriod
  PROVE  Spec => []InterestMatchesSession
<1>1. Init => InterestMatchesSession
  BY DEF Init, MonitorInit, InterestMatchesSession
<1> QED
  BY <1>1, InterestNext, ListInit, ListNext, QueueInit, QueueNext, PTL
  DEF Spec

-----------------------------------------------------------------------------
(* Which step may close what. *)

(* Only flush_fds_to_remove closes a descriptor. *)
LEMMA OnlyFlushCloses ==
  ASSUME [Next]_vars, NEW fd \in listeners \ listeners'
  PROVE  \/ RemoveQueued /\ fd = Head(toRemove)
         \/ ClearRegistry
<1>1. CASE Setup
  BY <1>1 DEF Setup, enroll, EnrollFails, process_events, add, add_fails
<1>2. CASE Wait
  BY <1>2 DEF Wait, NothingToWaitFor, WaitReturns
<1>3. CASE Dispatch
  BY <1>3 DEF Dispatch, accept_connection, SessionEnds, SessionContinues,
    AdmSessionEnds, AdmSessionContinues, AdmShutdown, SourceReady,
    SourceEnds, SourceClears, add
<1>4. CASE Scan
  BY <1>4 DEF Scan, StartScan, IdleInput, IdleOutput, IdleSourceEnds,
    IdleSourceClears, IdleIgnored, EndScan
<1>5. CASE Flush
  BY <1>5 DEF Flush, RemoveQueued, FlushDone, FlushRemove
<1>6. CASE Failure
  BY <1>6 DEF Failure, WaitFails, AcceptFails, AddConnectionFails,
    HandlerThrows, ClearFails, add_fails
<1>7. CASE TimePasses
  BY <1>7 DEF TimePasses, Tick
<1>8. CASE UNCHANGED vars
  BY <1>8 DEF vars, monitorVars
<1> QED
  BY <1>1, <1>2, <1>3, <1>4, <1>5, <1>6, <1>7, <1>8 DEF Next, Loop, Done

LEMMA HeadIsQueued ==
  ASSUME ListInv, RemoveQueued PROVE Head(toRemove) \in Queued
<1>1. toRemove \in Seq(Fds) /\ toRemove # <<>>
  BY DEF ListInv, TypeOK, MonitorTypeOK, RemoveQueued
<1>2. Head(toRemove) = toRemove[1] /\ 1 \in DOMAIN toRemove
  BY <1>1, EmptySeq
<1> QED
  BY <1>2 DEF Queued, ToSet

(* A descriptor is closed by flush_fds_to_remove alone, and only if it was *)
(* queued or the registry is cleared, however the callbacks interleave.    *)
THEOREM OnlyQueuedAreClosed ==
  ASSUME ~EnrollErrorCaught PROVE Spec => ClosedOnlyByFlush
<1>1. ASSUME ListInv, [Next]_vars
      PROVE  [\A fd \in listeners \ listeners' :
                pc = "flush" /\ (shouldClear \/ fd \in Queued)]_vars
  BY <1>1, OnlyFlushCloses, HeadIsQueued DEF RemoveQueued, ClearRegistry
<1> QED
  BY <1>1, ListInit, ListNext, PTL DEF Spec, ClosedOnlyByFlush

(* Without a request to clear the registry, no service is closed.          *)
THEOREM ServicesAreKept ==
  ASSUME ~EnrollErrorCaught, StallBound < InactivityPeriod
  PROVE  Spec => ServicesStay
<1>1. ASSUME ListInv, QueueInv, [Next]_vars
      PROVE  [\A fd \in listeners \ listeners' :
                shouldClear \/ kind[fd] \notin Services]_vars
  <2>1. ASSUME NEW fd \in listeners \ listeners'
        PROVE  shouldClear \/ kind[fd] \notin Services
    <3>1. CASE RemoveQueued /\ fd = Head(toRemove)
      BY <1>1, <3>1, HeadIsQueued DEF QueueInv, Running, Stopped, RemoveQueued
    <3>2. CASE ClearRegistry
      BY <3>2 DEF ClearRegistry
    <3> QED
      BY <1>1, <3>1, <3>2, OnlyFlushCloses
  <2> QED
    BY <2>1
<1> QED
  BY <1>1, ListInit, ListNext, QueueInit, QueueNext, PTL
  DEF Spec, ServicesStay
=============================================================================
