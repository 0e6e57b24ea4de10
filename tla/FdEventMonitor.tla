--------------------------- MODULE FdEventMonitor ---------------------------
(***************************************************************************)
(* The state of class fd_event_monitor (io_fd_event_monitor.hpp) and its   *)
(* operations.  The callbacks of the listeners belong to the module that   *)
(* extends this one: an action of that module is one whole callback, the   *)
(* calls it makes on the registry and the bookkeeping of the monitor       *)
(* around it included.                                                     *)
(*                                                                         *)
(* Time is relative.  A timer entry holds the ticks left until its         *)
(* deadline; left <= 0 means that the deadline has passed.  `clock' counts *)
(* the ticks since epoll_wait returned and `now' is the value of `clock'   *)
(* that process_idle_fds sampled.                                          *)
(***************************************************************************)
EXTENDS Integers, Sequences, FiniteSets, SequencesExt

CONSTANTS
  Fds,              \* the file descriptor numbers of the process
  InactivityPeriod, \* inactivity_period, in ticks
  StallBound        \* the most ticks that one call may spend after epoll_wait

ASSUME PeriodAssumption == InactivityPeriod \in Nat \ {0}
ASSUME StallAssumption == StallBound \in Nat

VARIABLES
  pc,          \* where the thread is in wait_for_and_dispatch_events
  listeners,   \* keys of m_listeners
  interest,    \* the kernel's interest list: the events registered for an fd
  timers,      \* m_fd_activity_timestamps
  toRemove,    \* m_fds_to_remove
  shouldClear, \* m_reg_should_be_cleared
  batch,       \* events returned by epoll_wait and not dispatched yet
  cursor,      \* the iterator of process_idle_fds; Len(timers) + 1 is end()
  clock,       \* ticks since epoll_wait returned
  now          \* the time process_idle_fds sampled

monitorVars == <<pc, listeners, interest, timers, toRemove, shouldClear,
                 batch, cursor, clock, now>>

(* listen_on: read_is_possible, write_is_possible, readwrite_is_possible.  *)
Direction == {"read", "write"}
ListenOn == {{"read"}, {"write"}, Direction}

Inside == {"dispatch", "scan", "flush"}
Stopped == {"ended", "thrown"}

Left == (-StallBound)..InactivityPeriod
Timer == [fd : Fds, left : Left]

MonitorTypeOK ==
  /\ pc \in {"setup", "wait"} \cup Inside \cup Stopped
  /\ listeners \subseteq Fds
  /\ interest \in [Fds -> ListenOn \cup {{}}]
  /\ timers \in Seq(Timer)
  /\ toRemove \in Seq(Fds)
  /\ shouldClear \in BOOLEAN
  /\ batch \subseteq Fds
  /\ cursor \in Nat \ {0}
  /\ clock \in 0..StallBound
  /\ now \in 0..clock

MonitorInit ==
  /\ pc = "setup"
  /\ listeners = {}
  /\ interest = [fd \in Fds |-> {}]
  /\ timers = <<>>
  /\ toRemove = <<>>
  /\ shouldClear = FALSE
  /\ batch = {}
  /\ cursor = 1
  /\ clock = 0
  /\ now = 0

-----------------------------------------------------------------------------
(* The activity list.  A listener owns one node of it, m_timer.  It is the *)
(* last entry that names the listener's fd: an earlier one can only be a   *)
(* node that a failed add left behind, and such a node never moves.        *)

Fresh(fd) == [fd |-> fd, left |-> InactivityPeriod]

PushBack(s, fd) == Append(s, Fresh(fd))

TimerOf(s, fd) ==
  CHOOSE k \in DOMAIN s : /\ s[k].fd = fd
                          /\ \A j \in DOMAIN s : s[j].fd = fd => j <= k

(* listener::remove_from *)
EraseTimer(s, fd) == RemoveAt(s, TimerOf(s, fd))

(* A listener that restarts its timer without moving it. *)
RestartInPlace(s, fd) == [s EXCEPT ![TimerOf(s, fd)] = Fresh(fd)]

(* The end of listener::fd_is_ready and listener::fd_is_idle: restart the  *)
(* timer and splice its node to the end of the list.                       *)
Refresh(s, fd) == Append(EraseTimer(s, fd), Fresh(fd))

(* One tick.  An entry stops at -StallBound: it is then due at any time    *)
(* that process_idle_fds may have sampled.                                 *)
Later(t) == IF t = -StallBound THEN t ELSE t - 1
Age(s) == [k \in DOMAIN s |-> [s[k] EXCEPT !.left = Later(@)]]

(* A deadline taken to have passed one tick too early. *)
IsDueEarly(entry) == entry.left + (clock - now) <= 1

(* `i->first > now' is false *)
IsDue(entry) == entry.left + (clock - now) <= 0

Tick ==
  /\ \/ pc \in {"setup", "wait"} /\ UNCHANGED clock
     \/ pc \in Inside /\ clock < StallBound /\ clock' = clock + 1
  /\ timers' = Age(timers)
  /\ UNCHANGED <<pc, listeners, interest, toRemove, shouldClear, batch,
                 cursor, now>>

-----------------------------------------------------------------------------
(* Registration. *)

(* add: `list' is m_fd_activity_timestamps when the call returns to the    *)
(* monitor.  The assertion of add, that fd has no listener, holds because  *)
(* a listener owns its fd and the kernel does not hand out an open one.    *)
add(fd, events, list) ==
  /\ listeners' = listeners \cup {fd}
  /\ interest' = [interest EXCEPT ![fd] = events]
  /\ timers' = list

(* add when epoll_ctl fails: the listener is erased and closes its fd; the *)
(* timestamp that was pushed before stays in the list.                     *)
add_fails(fd) ==
  /\ timers' = PushBack(timers, fd)
  /\ UNCHANGED <<listeners, interest>>

modify(fd, events) == interest' = [interest EXCEPT ![fd] = events]

deferred_remove(fd) == toRemove' = Append(toRemove, fd)

deferred_clear == shouldClear' = TRUE

-----------------------------------------------------------------------------
(* wait_for_and_dispatch_events *)

(* No listener is left: the call returns false. *)
NothingToWaitFor ==
  /\ pc = "wait"
  /\ listeners = {}
  /\ pc' = "ended"
  /\ UNCHANGED <<listeners, interest, timers, toRemove, shouldClear, batch,
                 cursor, clock, now>>

(* epoll_wait returns, because descriptors are ready or after 1000 ms.     *)
(* The buffer has room for every listener, and a hang-up is reported       *)
(* whatever the interest: any set of registered fds may be returned.       *)
WaitReturns ==
  /\ pc = "wait"
  /\ listeners # {}
  /\ \E ready \in SUBSET listeners : batch' = ready
  /\ pc' = "dispatch"
  /\ UNCHANGED <<listeners, interest, timers, toRemove, shouldClear,
                 cursor, clock, now>>

(* epoll_wait returns -1 (EINTR included): the exception leaves the loop.  *)
WaitFails ==
  /\ pc = "wait"
  /\ listeners # {}
  /\ pc' = "thrown"
  /\ UNCHANGED <<listeners, interest, timers, toRemove, shouldClear, batch,
                 cursor, clock, now>>

(* fd_is_ready that does not restart the timer. *)
EventKeepsTimer(fd, list) ==
  /\ batch' = batch \ {fd}
  /\ timers' = list
  /\ UNCHANGED <<pc, cursor, clock, now>>

(* The event of fd is taken from the batch, its callback has run and left  *)
(* the activity list as `list', and the timer of fd is restarted.          *)
EventDone(fd, list) ==
  /\ batch' = batch \ {fd}
  /\ timers' = Refresh(list, fd)
  /\ UNCHANGED <<pc, cursor, clock, now>>

(* A callback throws: nothing after it in the call is executed. *)
CallbackThrows(fd) ==
  /\ batch' = batch \ {fd}
  /\ pc' = "thrown"
  /\ UNCHANGED <<cursor, clock, now>>

(* process_idle_fds starts once the batch is empty. *)
StartScan ==
  /\ pc = "dispatch"
  /\ batch = {}
  /\ pc' = "scan"
  /\ cursor' = 1
  /\ now' = clock
  /\ UNCHANGED <<listeners, interest, timers, toRemove, shouldClear, batch,
                 clock>>

(* The loop of process_idle_fds is at an entry that is due. *)
AtDueEntry(fd) ==
  /\ pc = "scan"
  /\ cursor <= Len(timers)
  /\ timers[cursor].fd = fd
  /\ IsDue(timers[cursor])
  /\ fd \in listeners

(* fd_is_idle has run for the entry at the cursor.  Its last statement     *)
(* splices the node of fd to the end of the list, so that `++i', when the  *)
(* cursor is at that node, arrives at end().                               *)
IdleDone(fd) ==
  /\ timers' = Refresh(timers, fd)
  /\ cursor' = IF TimerOf(timers, fd) = cursor THEN Len(timers) + 1
                                               ELSE cursor + 1
  /\ UNCHANGED <<pc, batch, clock, now>>

EndScan ==
  /\ pc = "scan"
  /\ cursor <= Len(timers) => ~IsDue(timers[cursor])
  /\ pc' = "flush"
  /\ UNCHANGED <<listeners, interest, timers, toRemove, shouldClear, batch,
                 cursor, clock, now>>

(* The call returns true and process_events makes the next one. *)
CallReturns ==
  /\ pc' = "wait"
  /\ cursor' = 1
  /\ clock' = 0
  /\ now' = 0

(* flush_fds_to_remove that forgets the timer of the fd it removes. *)
FlushRemoveKeepsTimer(fd) ==
  /\ listeners' = listeners \ {fd}
  /\ interest' = [interest EXCEPT ![fd] = {}]
  /\ UNCHANGED timers

(* One iteration of the loop of flush_fds_to_remove. *)
FlushRemove(fd) ==
  /\ listeners' = listeners \ {fd}
  /\ interest' = [interest EXCEPT ![fd] = {}]
  /\ timers' = EraseTimer(timers, fd)

(* *this = fd_event_monitor{} *)
FlushClear ==
  /\ listeners' = {}
  /\ interest' = [fd \in Fds |-> {}]
  /\ timers' = <<>>
  /\ toRemove' = <<>>
  /\ shouldClear' = FALSE
=============================================================================
