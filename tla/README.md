# A verification of west

west is a header-only web server template (C++20): a single thread, an epoll
event loop with a registry of listeners, and an HTTP/1.1 session per connection
that hands requests to an application's *request handler*. This directory holds
TLA+ models of the event loop, of the session and of both together, of the
request header parser and the response header, of the sockets, of the utilities
and of the echo application, the TLC runs that check them, and TLAPS proofs of
safety properties for every value of the constants.

Paths below are relative to the repository (`lib/...`, `bin/...`).

## 1. Inventory

| part | source | state | operations |
|---|---|---|---|
| `fd_event_monitor` | `lib/io_fd_event_monitor.hpp` | `m_listeners`, `m_fd_activity_timestamps`, `m_fds_to_remove`, `m_reg_should_be_cleared`, the epoll instance and its interest list | `add`, `modify`, `deferred_remove`, `deferred_clear`, `wait_for_and_dispatch_events` (with `process_idle_fds` and `flush_fds_to_remove`) |
| `service_registry` | `lib/service_registry.hpp` | the monitor; per connection the session and `events` | `enroll` (server socket, input fd), `process_events`, `accept_connection`, `finalize_event` |
| HTTP glue | `lib/http_server.hpp`, `lib/http_session_factory.hpp` | none | `enroll_http_service`, direction to `listen_on` |
| echo application | `bin/http_echo.cpp` | `m_response_body`, `m_read_offset`; the administrative connection | the callbacks of `echo_http_request`; `socket_is_ready` of the administrative service (`shutdown` clears the registry), `socket_is_idle`; `main` |
| `request_processor` | `lib/http_request_processor.hpp`, `lib/http_request_state_transitions.hpp` | `m_state`, two 64 KiB buffers, `session` | `socket_is_ready`, `socket_is_idle` |
| session states | `lib/http_wait_for_data.hpp`, `lib/http_read_request_header.hpp`, `lib/http_read_request_body.hpp`, `lib/http_write_response_header.hpp`, `lib/http_write_response_body.hpp`, `lib/http_session.hpp` | bytes left, parser, serializer | `socket_is_ready` of each |
| `io_adapter` | `lib/io_adapter.hpp` | `buffer_span` | `transfer_data` |
| request handler | `lib/http_request_handler.hpp` (concept) | the application's | five callbacks |
| sockets | `lib/io_inet_server_socket.hpp` | `m_fd`, `m_port`; `m_read_disabled` | the search for a port, `listen`, `accept`; `read`, `write`, `stop_reading` |
| header parser | `lib/http_request_header_parser.hpp` | `m_current_state`, `m_state_after_newline`, `m_buffer`, `m_current_field_name`, `m_req_header` | `parse` |
| response header | `lib/http_response_header_serializer.hpp`, `response_info` of `lib/http_session.hpp` | fields, `m_string_to_write`, `m_range_to_write` | `field_map::append`, the constructor, `serialize` |
| header types, utilities | `lib/http_message_header.hpp`, `lib/http_utils.hpp`, `lib/utils.hpp` | none | `field_map`, validation, conversions, cookies, URI components |
| fd wrappers | `lib/io_fd.hpp`, `lib/io_signal_fd.hpp`, `lib/system_error.hpp` | one fd | system calls |

How they interact. `process_events` calls `wait_for_and_dispatch_events` until
it returns false. One call waits for events, calls `fd_is_ready` of the listener
of each event, then `fd_is_idle` of listeners whose 20 s have passed, then
carries out the removals that the callbacks asked for. A server socket's
`fd_is_ready` accepts a connection and registers it; a connection's calls
`socket_is_ready` or `socket_is_idle` of the session and applies the result in
`finalize_event`: remove the fd, or change the events it listens on. The session
runs its state machine until the socket blocks, and calls the request handler.

What is hard. Nothing runs in parallel, so there are no data races; what
interleaves are the callbacks of one batch, the passing of time, the client, the
cuts that the socket makes in the data, and failures of system calls and
handlers. The hazards, each at its line, are the `hazards` of `PROJECT.json`.
They are of six sorts: removals and clears that are deferred while raw pointers
are outstanding; an activity list whose order and contents two loops rely on;
byte counts kept in several places; waking up, ending and expiring; parsers that
keep half-read strings from one call to the next; and iterators and descriptors
that change their owner while something may fail.

What makes each part correct:

* monitor and registry: no event is dispatched to a freed listener; listeners,
  activity list, interest list and removal queue stay consistent; only the flush
  closes descriptors; silent sessions expire; a shutdown ends the loop;
* session: requests and responses are framed exactly, the header limit is exact,
  a refused session comes to an end, a session waits only if there is nothing to
  do, and it ends when its client is gone;
* request handler: the callbacks come in the promised order;
* server: loop and session agree on what the session waits for and when it ends,
  and no client keeps a connection by doing nothing;
* header parser: the result depends on the bytes and not on how they are cut, and
  on an accepted header the length of the body is beyond doubt;
* response header: it has the fields that the handler set and no others, and the
  length that is announced is the length that is written;
* echo handler: its iterator is valid when used, and it answers the whole request;
* sockets: no descriptor leaks, and a server listens where it says;
* utilities: a cookie string or an escaped text gives what it means.

## 2. Modules

| module | models |
|---|---|
| `FdEventMonitor` | the members of `fd_event_monitor` and its operations, without the callbacks |
| `ServiceRegistry` | extends it with the listeners: enrolling, accepting, sessions seen from outside, input descriptors; the event loop; properties |
| `ServiceRegistryProofs` | proofs about `ServiceRegistry` |
| `RequestProcessor` | one session from inside: `request_processor`, the five states, `transfer_data`, the socket; properties |
| `HandlerProtocol` | abstract: the life of a request handler as the sequence of its callbacks |
| `RequestProcessorProofs` | proofs about `RequestProcessor`, among them that it implements `HandlerProtocol` |
| `HttpServer` | composes the two: the loop, with a `RequestProcessor` behind one of its connections |
| `HttpServerProofs` | that `HttpServer` implements `ServiceRegistry`, and that loop and session agree |
| `RemovableService`, `RemovableServiceProofs` | extends `ServiceRegistry` with sessions that remove their service |
| `EchoSession`, `EchoSessionProofs` | `RequestProcessor` with `echo_http_request` as its handler |
| `MessageHeader` | characters, names and values, `field_map`, numbers, texts, as operators |
| `RequestHeaderParser` | `request_header_parser`, byte by byte, and what `read_request_header` makes of its result |
| `RequestGrammar` | reference: a request header as a grammar |
| `ResponseHeader` | the response header from the handler to the send buffer |
| `CookieParser` | `parse_cookie_string`, and what a cookie string means |
| `UriComponent` | `encode_uri_component`, `decode_uri_component`, and what an escaped text means |
| `TextLemmas` | what can be proved of texts, numbers, maps and the grammar without a state |
| `TextProofs` | proofs about the four modules with text in them |
| `ServerSocket`, `ServerSocketProofs` | server sockets, ports, descriptors and their owners |
| `MC_...` | instances for TLC |

Definitions next to an action that describe a wrong version of it
(`FlushSkipped`, `RestartInPlace`, `ContentCountsSpan`, ...) are the mutants of
`PROJECT.json`: put in the place of the action, each makes a property fail.

### FdEventMonitor and ServiceRegistry

An action is one whole callback, together with what the monitor does around it:
the removal of the event from the batch, the calls on the registry, the restart
of the timer and the splice of its node. `pc` is where the thread is: `setup`
(before `process_events`), `wait`, `dispatch`, `scan` (`process_idle_fds`),
`flush`, and `ended` or `thrown` once the loop has been left. `batch` is the set
of events not yet dispatched; the kernel may return any set of registered fds,
in any order (an event for a hang-up comes whatever the interest).

Time is relative, which keeps the state space finite: an entry of the activity
list has the ticks `left` to its deadline, and a tick lowers all of them. Below
`-StallBound` a deadline stays where it is: it is then due at every time that
`process_idle_fds` can have sampled (`now`). `clock` counts ticks within one
call, and `StallBound` is how long the callbacks of one call may take.

`m_timer` of a listener is the last entry with the fd of the listener. Only
`add` that fails can leave another entry for the fd, and that entry is older and
never moves.

The repository has no handler of an input descriptor. `SourceReady`, `SourceEnds`
and `SourceClears` are what one may do with its own descriptor and with the
registry: return, remove the descriptor, clear; `IdleIgnored`, `IdleSourceEnds` and
`IdleSourceClears` the same when it is idle.

Failures: `epoll_wait` (`WaitFails`), `accept` (`AcceptFails`), `epoll_ctl` in
`add` (`EnrollFails`, `AddConnectionFails`), an exception of a request handler,
of an input descriptor's handler or of `modify` (`HandlerThrows`) and the
construction of the new monitor in a clear (`ClearFails`). They all leave the
loop; with `EnrollErrorCaught` the application catches the exception of `enroll`
and goes on.

A session's inside is not seen here: an event either ends it or leaves it
waiting in some direction; inactivity turns input into output (408) and ends a
session that waits for output.

### RequestProcessor

An action is one iteration of `transfer_data` or one callback of the event loop.
Bytes are counted. `msg` holds the true lengths of the message that the parser
is in, chosen when its first byte is looked at, and `pos` how much of it has left
the receive buffer; `wrote` counts what has reached the socket of the current
response. These are history variables, there so that the counters of the program
(`left`, `buffered`, `send`, `headLeft`) can be compared with the truth.

`DataArrives(n)` is `inet_connection::read` with any number of bytes,
`EndOfInput`, `InputWouldBlock` and `InputError` its other outcomes. A socket
reported ready does not block at once (`woken`). The parser is represented by
what `transfer_data` sees of it: it takes the whole span and wants more, stops
at an error in any byte, or completes at the end of the header. A handler may
take any part of what it is given, stall, refuse or fail; it supplies no more
than the length it announced, which the code assumes as well.

### HandlerProtocol

`need` is what the handler has not been given of the request body, `owe` what it
has not been asked for of the response. `RequestProcessor` implements it with
`need <- left` while a body is read and 0 otherwise, and `owe <- supply`. A
`finalize_state` that reports an error is followed directly by the overload for
errors; the two count as one callback, `error`. `call` carries the last callback
and the parity of their number, so that two equal ones in a row are two steps.

### HttpServer

`ServiceRegistry` lets a session do anything a session may do;
`RequestProcessor` assumes that it is called back. `HttpServer` removes both
assumptions for one connection, `Conn`: the registry's variables and, through
`INSTANCE RequestProcessor WITH pc <- spc`, those of its session. An event for
`Conn` enters the session (`EnterSession`), which then takes steps of its own
(`RunSession`) while the loop stands still; the step with which
`socket_is_ready` returns is also the `finalize_event` of the registry, with the
status and the direction that the session has at that moment. The other
connections, and services, are seen from outside.

The kernel reports `Conn` by what is registered for it: never for input if its
client is silent, always if the end of its input is there to be read
(`EpollWaitReturns`). A client may stop at any time, except between the report
that its bytes have come and the read that takes them.

### RemovableService

The sessions in `lib/service_registry.test.cpp` call `event_monitor.remove` with
the descriptor of their own server when they read `shutdown`. `ReadyContinues`
and `ReadyEnds` read any number of such messages; `MaxShutdowns` bounds them. The
history variable `quiet` counts the ticks since an fd was last called, apart from
the timers of the monitor.

### Headers: MessageHeader, RequestHeaderParser, RequestGrammar, ResponseHeader

A character is the number of its byte, a string a sequence of them. `field_map`
is a function from names as they were first written; `append` looks for a name
that differs in case only and joins the values with a comma, as the map with
`iless` does. `to_number` has the width of its type: a value above `SizeMax` is
no number. `SizeMax` and `VersionMax` are constants, so that the limits can be
reached. `Names` lists the names of a map in its order.

An action of `RequestHeaderParser` is one turn of the loop in `parse`: `Collect`
for the states that put all characters but one into the buffer, and one action
for the end of each state. `Call` gives `parse` the next span, `OutOfData` ends
the call. `RequestGrammar` says the same without states: it cuts a text at its
separators, each found as the first place (`Place`) after the one before. An
operator `From...` says what a text means from a place on; `FieldLines` gives
all the lines of fields from a place on, and `FieldsOf` the map that lines give,
position by position and not line by line: the first line with a name decides
how the name is written, and the others are joined to it. `Unfolded` says what
each byte adds to a value that is continued over several lines.

`ResponseHeader` follows `response_info`: the handler appends fields or throws,
may refuse a request whose header it has already filled in, the serializer makes
the text, the state with the serializer is moved into `m_state`, and
`make_state_handler` reads the length back out of the fields. `MoveIntoState`
models the small strings of the library: a text of at most 15 bytes stays in the
object, and `m_range_to_write` would be left pointing into the old one.

### EchoSession

The three members of `echo_http_request` as lengths: `body` of
`m_response_body`, `offset` of `m_read_offset` (or `Stale`, if the string has
changed since it was set), and `head`, a history variable with the length of the
text of the current header. Each callback is conjoined with the action of
`RequestProcessor` in which it is called.

### CookieParser and UriComponent

An action is one turn of the loop. The cookie store is the caller's and may hold
cookies before the call. `Pairs` says what a string means from a place on, by
recursion over the places. Encoding is an operator; the decoder is a state
machine, since its accumulator and its state live from one character to the next.
It puts a byte together with `|`, which is modelled bit by bit (`Or`); other than
upper-case digits it does not reject, and what it makes of them is modelled as
well. `Unescaped` is the set of what an escaped text means: one text, or none.

`MC_Texts` puts the four machines that turn text into data or data into text
(parser, response header, cookies, URI components) into one run. They do not
interact: `subject` says which of them is at work, and the other three rest in
an initial state.

### ServerSocket

`main` of `bin/http_echo.cpp` makes its servers one after the other, each trying
ports until `bind` succeeds; then connections are accepted. Every system call may
fail; an exception unwinds (`unwind`), destroying what is owned. A connection on
its way into the registry moves from owner to owner: the `fd_owner` in `accept`,
the `inet_connection` that it returns (`AcceptReturns`), the session
(`create_session`), the registry (`Register`). `owner` says what each of them
holds, and `SetUpFails` and the return of `accept_connection` close what is left
in them. Other processes take and release ports at any time. A port is an `int` that is cast to 16 bits
(`PortSpace`), and port 0 means any to `bind`.

## 3. Runs

| run | instance | shows |
|---|---|---|
| `registry_safety` | two services, two further fds, period 2, stall 1 | `EventsAreLive`, `TimersMatchListeners`, `TimersSorted`, `FlushFindsListener`, `NoIdleAfterTermination`, `InterestMatchesSession` (about 1.07 million states, symmetric in the two connections) |
| `registry_liveness` | one service, one input fd, one further fd, period 2, stall 1, fair | `SilentSessionExpires`, `EndedSessionCloses`, `ShutdownEndsLoop`, `ServicesStay`, `ClosedOnlyByFlush` |
| `processor` | buffer 3, header limit 3, headers to 4, bodies and responses to 3, handlers that stall | `BodyIsFramed`, `HeaderIsLimited`, `ResponseIsFramed`, `RefusalWindsDown`, `HandlerSeesProtocol` |
| `echo` | buffer and limit 2, headers and bodies to 3, header texts and messages to 2, fair | `OffsetIsValid`, `EchoIsWhole`, `ParkedForAReason`, `EchoImplementsProcessor`, `SessionEnds` (about 110 thousand states) |
| `server` | one service, `Conn` and another connection; period 1, stall 0; buffer, limit, headers, bodies and responses of 1; fair | `WatchedForItsState`, `EndIsAgreed`, `ServerImplementsRegistry`, `StoppedClientIsClosed` (about 1.33 million states) |
| `removal` | one service, two connections, one message `shutdown`, fair | `RemovalIsSafe`, `NoEarlyExpiry`, `RemovalEndsLoop` |
| `texts` | requests: headers with up to two fields and three versions, and each with one byte replaced by one of seven, spans of 1 and 8; responses: two codes, five fields (bad names and line breaks among them), lengths to 12, spans of 1 and 16; cookies: all strings to length 7 over `a b = ;` and space, an empty store and one with `a`; URI components: all single bytes, texts to length 3 over 11 bytes, escaped texts to length 5 over 5 bytes | `FieldsAreValid`, `MatchesGrammar`, `LengthIsUnambiguous`; `RangeSurvivesMove`, `LengthIsAnnounced`, `TextGivesFields`; `StoreIsSafe`, `MatchesCookieMeaning`; `MatchesEscapes` (about 3.2 million states) |
| `sockets` | four descriptors, two servers (one with a send size), ports 2 and 3 of 4, fair | `NoDescriptorLeaks`, `PortIsOurs`, `SetUpEnds` |
| `registry_stall` | stall = period | violates `FlushFindsListener` |
| `registry_enroll_error` | a failed `enroll` is survived | violates `IdleFindsListener` |
| `registry_idle_scan` | one service, one further fd | violates `IdleScanVisitsAllDue` |
| `processor_error_last` | smaller, no stalls | violates `ErrorResponseIsLast` |

The runs that find a violation are disagreements between the code and what an
assertion, a test or the README of the repository says; `findings` in
`PROJECT.json` quotes the lines. In short: (1) the idle scan serves one
descriptor in a call, since the splice takes the iterator to the end; (2) a
session that ends in a call of 20 s or more is queued for removal twice; (3)
`add` that fails leaves its timestamp behind; (4) the bytes behind a refused
header are answered as another request. The requests in the tests that (4) quotes
have no bytes behind them: that the error is the last response in that case too is
inferred from these tests, from `stop_reading`, and from the reset of the buffer
that a refused body brings.

Three further observations have no run of their own. `deferred_remove` is not
idempotent: two clients that stop the server in one call, or one that asks
twice, queue its descriptor twice (`removal.cfg` with `MaxShutdowns = 2` makes
`RemovalIsSafe` fail). An exception leaves `m_fds_to_remove` filled, so that a
session that had ended is called again if an application resumes
`process_events`. And the parser collects a field name up to the colon whatever
is in it, across line ends too, where `doc/request_header_parser_states.puml`
admits token characters only; `FieldsAreValid` and `MatchesGrammar` show that
no such name is ever stored.

Why the bounds are enough. In the registry, two connections are the fewest for
which one session's callback can disturb another's event, timer or removal, and
for which two entries compete for the idle scan; descriptors are reused, so that
runs of any number of connections are covered. A period of 2 and a stall of 1
distinguish fresh, aged and overdue entries and let time pass within a call. In
the session, a buffer of 3 with a header limit of 3 makes headers below, at and
above the limit, bodies that end inside, at and beyond a buffer, and requests
that begin in the middle of one; the response header of 4 is longer than the
buffer. The theorems remove the bounds for the safety properties.

In `registry_liveness` the service, the input descriptor and the session compete
for the idle check, of which there is one in a call. In `server` a session, its
neighbour and the service do. Sizes of 1 bring every state of the session and
every result of `socket_is_ready`, pipelined requests included, since the
session begins again after each response; `processor` has the larger sizes, and
headers above the limit. With stall 0 the callbacks of a call take no time;
`registry_safety` and `removal` have time that passes within a call.

In `texts` the name `L` stands for `Content-Length` and 99 for the largest
number: two fields are enough for a name to be repeated, in another case, with
equal, different, empty and too large values, and one replaced byte puts every
delimiter into every state. Spans of 1 and 8 cut the input at every byte. The
shortest response header that can be written, with a phrase of one character, is
18 bytes, 3 more than a small string holds; the lengths go past one digit. Cookie
strings of 7 characters hold two cookies with something wrong in either. The ports
2 and 3 of 4 in `sockets` end at the limit of the type, as 65535 does.

Deadlock is checked in every run; a loop that has ended, or a closed session,
stutters explicitly (`Done`, `Closed`).

### Fairness

* `WF(Loop \/ Failure)` of the registry: the thread runs; it does not stop in
  the middle of a call. (Which of the two happens is not assumed.)
* `WF(process_events)`: an application that has set up its services runs them.
* `SF(TimePasses)`: time passes. It is strong because a loop that is kept busy
  enters and leaves the states in which the model lets it pass.
* `WF(EchoNext /\ pc = "running")` of the echo session: `socket_is_ready` runs
  until it returns. `WF(EchoNext /\ Wake)`: a session is called back in the end,
  because its socket is ready or it is idle, which is `SilentSessionExpires` of
  the registry.
* `WF(ServerLoop)` and `SF(TimePasses)` in `HttpServer`: the thread and the clock,
  and nothing of the session. `StoppedClientIsClosed` holds all the same: that a
  session is called back, which `EchoSession` assumes, is what the loop does.
* `WF(RemovalLoop)` and `SF(Quieter)` in `RemovableService`: the same two.
* `WF(Program)` in `ServerSocket`: the thread runs. Other processes need not.

No fairness is assumed of the client, of epoll or of particular outcomes.
`SilentSessionExpires` assumes of the environment only what it says: the fd is
not reported any more.

## 4. Proofs

All constants are arbitrary: any set of descriptors and of services, any period,
buffer size, limit and length. Assumptions of the modules: the period, the sizes
and limits are positive, services are descriptors and of one kind each; the
phrases of `to_string(status)`, and the names and values that a handler appends,
are strings of bytes, the phrases not empty and without line breaks, which the
literals of the function are; `Content-Length` is a token, and a handler appends
it once, as the echo handler does.

**Registry** (`ServiceRegistryProofs`). Three invariants, each resting on the one
before.

1. `BatchInv`: outstanding events belong to listeners, and there are none outside
   `dispatch`. The second part is needed because the flush removes listeners. It
   gives `EventsStayLive`, with no assumption on time or errors.
2. `ListInv`: types, `BatchInv`, one entry per listener (`Match`) and order
   (`Ordered`). The list operations are treated as lemmas on sequences:
   `PushBackKeepsList`, `EraseKeepsList`, `RefreshKeepsList`, `AgeKeepsList`. The
   order survives because a restarted timer is the latest possible one and is
   put last, and because a tick is monotone. This gives `TypeCorrect`,
   `TimersMatch`, `TimersStaySorted` and `OnlyQueuedAreClosed`, assuming
   `~EnrollErrorCaught`: the run `registry_enroll_error` shows that the
   assumption is needed.
3. `QueueInv`: queued fds are distinct, have a listener, are no services, have no
   outstanding event, and were restarted in this call: `left + clock` is at least
   the period (`Rested`). An entry is due only if `left + clock` is at most the
   stall bound, so with `StallBound < InactivityPeriod` a queued fd is never due
   (`DueIsNotQueued`). This gives `QueueIsSound`, `EndedIsNotIdle`,
   `ServicesAreKept` and, with the property itself as a further invariant,
   `InterestInStep`; `registry_stall` shows that the condition on the stall is
   needed.

**Session** (`RequestProcessorProofs`). `Inv` adds to types, `BodyIsFramed`,
`HeaderIsLimited` and `ResponseIsFramed`, which are inductive together, that the
last callback agrees with the state (`CallMatchesState`), which the refinement
needs. It gives `TypeCorrect`, `BodyFraming`, `HeaderLimiting`,
`ResponseFraming`, and from it `ParkingIsJustified` (for handlers that do not
stall) and `ImplementsProtocol`: the initial states of the session are initial
states of `HandlerProtocol` under the mapping, and every step is one of its steps
or a stutter.

`RefusalEnds` bounds what a session still does once `stop_reading` has been
called: what is in the receive buffer together with what the message being
answered has taken from it never grows, and gets smaller with each request that is
begun. A session may therefore answer bytes behind a refused header (observation
4 of section 3), but no more requests than it held bytes. That nothing more is
read is one half; the other half is that no response begins before a byte of its
request has been consumed, or else the same bytes would be answered again and
again. `ByteConsumed` is that, and what it needs of the states before: a header
that is accepted has at least one byte, and a session that waits for a header has
nothing left in the buffer.

**Server** (`HttpServerProofs`). `ServerRefinesRegistry`: every step of loop and
session together is a step of `ServiceRegistry` or leaves its variables alone.
The returning step of a session is a `SessionEnds` or `SessionContinues` with
whatever direction it has. With it the theorems about the registry hold of the
server; `ServerEventsAreLive` is one of them.

Towards the session the server is not a refinement, because a descriptor is
given to one connection after another: `SessionSteps` says that every step of
the server is a step of `RequestProcessor`, leaves the session alone, or puts it
into an initial state. Its inductive invariant is therefore one of the server
too, and gives `ServerFramesMessages` and, for handlers that do not stall,
`ServerParksForAReason`. `SP` is the module of the session's proofs,
instantiated as `Session` is, so that its lemmas are used as they stand.

`EndsAreAgreed` and `ConnectionIsWatched` relate the two halves. `AgreeInv` says
that the thread is inside the session only while it dispatches the event of
`Conn`, that the session is closed exactly as long as `Conn` waits for its
removal, and that a session which waits does so in the direction that the
registry has for it. It is inductive relative to `RegistryInv` (the invariants of
the registry, by the refinement) and `KindsInv` (`Conn` is a session whenever it
has a listener): that an idle check does not meet a closed session is `QueueInv`.
From there the two theorems have the conditions of `QueueIsSound`.

**Removal** (`RemovableServiceProofs`). `ListInv` needs nothing of the session, so
`RemovalKeepsListeners` holds for any number of messages `shutdown` and any
stall (`ListStep` is the part of the registry's proof that both use).
`IdleIsQuiet` needs no condition either: `QuietInv` says of each entry of the
activity list that what it has left and how long its descriptor has been quiet
make up the period, or that the descriptor has been quiet for all of it; a tick
moves one unit from the first to the second. For `OneShutdownIsSafe` the invariant
`RemovalInv` is `QueueInv` with one exception, the service: it may be queued
while it has an outstanding event or a timer that is due, which is harmless,
since its listener never asks for its own removal. It is queued at most once
because there is one message; with two, the theorem fails, as the observation in
section 3 says.

**Echo** (`EchoSessionProofs`). `EchoRefinesProcessor`: the echo handler is one of
those that `RequestProcessor` admits, so that the theorems about sessions hold
of the application. This needs that it supplies neither more nor, in the end,
less than it announced, and that is the inductive invariant: the iterator is
valid in the states that write, and behind it is what the session still
expects. It gives `EchoOffset`, and `EchoWhole`, for which the invariant says how
much of the body has been collected while it is read.

**Recursion** (`TextLemmas`). The recursive functions of the models (`Decimal`,
`FieldLines`, `Pairs`, `Unescaped`, and `Numeral` and `FlattenSeq`, which have one
inside) are values that a `CHOOSE` picks; that one exists has to be proved. The
induction theorems of the library have an operator as a parameter; `Induction`
and `StrongInduction` have a set in its place and follow from the fact that a set
of numbers has a least element. `Recursion` says once and for all that a function
exists which follows a step, if the step looks only at arguments of a smaller
size: the number itself, the length of a text, or the distance of a place from the
end. Each of the functions then unfolds as it is written (`LinesUnfold`,
`DecimalUnfolds`, `UnescapedUnfolds`, ...). `FlattenLayout` says where in a
concatenation its pieces are.

**Parser** (`TextProofs`). For all inputs, spans and widths. `IInv` adds to
`TypeOK` and `FieldsAreValid` what the states promise each other: `Handover`
(which states find the buffer or the field name empty) and `Places` (where in the
input the parser is: a state after a newline has one behind it). There is one
lemma per action; the ones that store a field rest on `AppendKeepsValid`, which
says that two valid values joined by a comma are a valid value, and on
`RtrimType`. It gives `ParserTypes`, `ParserHandsOver` (the parser's assertion),
`ParserStoresValidFields` and `ParserEndsAtBlankLine`.

`ParserMatchesGrammar` says that after any number of calls the parser has the
result, and at the end the header, that the grammar gives to the bytes taken so
far. `MatchesGrammar` alone is far from inductive: while it reads, it says only
that more data are needed. `GrammarInv` says for each state (`Reading`) how far
the text has been cut and what is still open, and it says so for *every* text that
begins with the bytes taken, not only for these: in the state that reads the
target, the meaning of each longer prefix of the input is what follows a method
that ends at a known place (`InTarget`). So each end of a state replaces one
operator of the grammar by the next (`MethodStep`, ..., `MinorStep`,
`BreakStep`). The lines that are complete are a history that the invariant
quantifies over (`LinesRead`), and `FieldsGrow` says that one more line does to
`FieldsOf` what `append` does to the map, whatever the case of its name. The
hardest part is a value over several lines: a '\r' ends the value or not
according to bytes that have not been read yet, and the parser has meanwhile
written the unfolded text to its buffer. `OfValue` says that no line break so far
ends the value and that the buffer is what `Unfolded` makes of the bytes; how
far the line break has come is `InText`, `TextBreaks`, `TextBroken` and
`Continues` in the four states.

`ParserLengthIsUnambiguous` follows from there: the fields of an accepted request
are `FieldsOf` of the lines that it is made of, and of those only one can have
given the length, because a value that was joined has a comma in it and is no
number (`LengthOfLines`).

**Cookies** (`TextProofs`). `CookieTypes` and `CookieStoreIsSafe`, for all strings
and stores: the second is inductive together with what the key and the buffer hold
while they are read. `CookiesMatchMeaning` has the invariant `MeaningInv`: the
first n pairs that the string means have been added to the store and were all new,
the key and the buffer are cut out of the string at known places, and the rest of
the string means the pairs from n + 1 on, with the error or success at its end.

**URI components** (`TextProofs`). `DecodingMatchesEscapes`, for all texts and
every value that `decoded_value` may have at first: `DecodeInv` says that what the
text means begins with what has been decoded and goes on with a meaning of the
rest, where the rest begins at the last per cent sign while an escape is read, and
that the accumulator has the upper half of the byte between the two digits. That
`|` then adds the lower half is a lemma about bits. That what
`encode_uri_component` writes means the text is proved by induction over the text.

**Response header** (`TextProofs`). For all codes, fields and lengths.
`DecimalIsNumeral` says that `std::from_chars` undoes `std::to_string`.
`AnnouncedLengthIsWritten` rests on it: its invariant `LengthInv`
says that the map holds the digits of the announced length under one name, or no
length, and the lemmas `AppendOther` and `AppendLength` that other fields do not
touch it. `FieldsAreWrittenInOrder` says what `Names` returns for every map: each
name once, in the order of `stricmp`, which is irreflexive, transitive and, on
names that differ in more than case, total. `RangeIsKept` follows from the length
of the status line: with the fields, whose text is a string by
`FieldTextsType`, and the empty line, every header has at least 16 characters,
one more than the 15 of a small string (`LocalCapacity <= 15` is its condition,
and what the library has). `ResponseIsLines`: no field can hold a line
break, neither when it is appended nor after values have been joined, so that
each is one line of the header, and the status is an error exactly if the handler
was asked for one.

`ResponseGivesFields` says that what is written can be read: a client that reads
the header as the grammar of fields has it finds the map of the handler, with the
same names, the same values and nothing else. `MapInv` says that the map holds
only what `field_map::append` accepts. The text is laid out as a whole first line,
one piece for each name in the order of the map and an empty line
(`TextIsComposed`); each piece is read as the line that it was written from, since
a name has no colon, and a value neither a line break nor white space at its ends
(`ComposedReads`); so the lines are those of the map in its order
(`AllLinesRead`), and these give the map again, because no two of its names
differ in case only (`OrderedLinesGiveMap`).

**Sockets** (`ServerSocketProofs`). `SocketTypes`, `SocketsDoNotLeak` and
`SocketPorts`, for any number of servers, descriptors and ports. The strengthening
says which servers have a descriptor in which phase, which owner
holds a connection in which step of `accept_connection` (`OwnerStage`), and that a
port is bound only by a server's descriptor that is open.

The type theorems, `ParserHandsOver`, `ParserEndsAtBlankLine`,
`FieldsAreWrittenInOrder` and `ResponseIsLines` are proved and have no run; all
the other theorems state properties that a run checks too.

**Only model-checked**:

* the liveness properties `SilentSessionExpires`, `EndedSessionCloses`,
  `ShutdownEndsLoop`, `SessionEnds`, `StoppedClientIsClosed`, `RemovalEndsLoop`
  and `SetUpEnds`, which need fairness;
* the four violations.

## 5. Not modelled

* The phrases of `to_string(status)` and the texts of errors; `is_printable`,
  which calls itself and which nothing uses.
* `connect_to` and the text forms of addresses, which clients and logs use;
  `open`, `create_pipe` and `signal_fd`, each a system call whose descriptor is
  owned as in `ServerSocket`. A signal descriptor is a `Sources` of the registry.
* Memory: an allocation that fails. RAII wrappers, beyond who owns a descriptor.
* A handler of an input descriptor that adds, modifies or removes other
  descriptors. (A session that removes another one is `RemovableService`.)
* An application that catches an exception of `process_events` and calls it
  again: the repository has none.
* Test doubles (`stubs/`), build scripts, the example page.
* That a handler which asks to be called later is woken by nothing but its
  socket or the idle check is a limit of the design. It is why
  `ParkedForAReason` is checked and proved for handlers that do not, of which the
  echo handler is one.

## 6. Plan

Done: the modules of section 2, their runs and the proofs of section 4. Every
safety invariant, action property and refinement of a passing run is proved for
all values of the constants that meet the conditions of section 4. What is worth
doing next:

1. that what one session does to the registry in one callback is also what two
   of them do: a server in which each connection has its session;
2. the parser's grammar and the header limit together: that a request whose
   header is accepted by the parser within the limit of the session is accepted
   by the session, with `RequestHeaderParser` in the place of the counts of
   `RequestProcessor`.
