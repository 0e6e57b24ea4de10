-------------------------- MODULE RequestProcessor --------------------------
(***************************************************************************)
(* One HTTP session: request_processor (http_request_processor.hpp), its   *)
(* five states, and the loop io_adapter::transfer_data that four of them   *)
(* run.  An action is one iteration of that loop, with the socket or       *)
(* handler call it makes, or one callback from the event loop.             *)
(*                                                                         *)
(* Bytes are counted, not represented.  What the client sends is decided   *)
(* when it is looked at: `msg' has the true lengths of the message that    *)
(* the parser is in, and `pos' how many bytes of it have left the receive  *)
(* buffer, so that (left, buffered), the server's bookkeeping, can be      *)
(* compared with the truth.  In the same way `wrote' counts the bytes of   *)
(* the current response that have reached the socket.                      *)
(***************************************************************************)
EXTENDS Integers

CONSTANTS
  BufferSize,      \* size of the receive and of the send buffer
  HeaderLimit,     \* max_header_size of read_request_header
  MaxHead,         \* bound: longest request header
  MaxBody,         \* bound: longest request body
  MaxResponse,     \* bound: longest response body
  ResponseHead,    \* length of a serialized response header
  HandlerMayStall  \* whether the request handler may return `try later'

ASSUME SizesAssumption ==
  /\ BufferSize \in Nat \ {0}
  /\ HeaderLimit \in Nat \ {0}
  /\ MaxHead \in Nat \ {0}
  /\ MaxBody \in Nat
  /\ MaxResponse \in Nat
  /\ ResponseHead \in Nat \ {0}
ASSUME StallsAssumption == HandlerMayStall \in BOOLEAN

VARIABLES
  pc,           \* parked in the event loop, in socket_is_ready, or closed
  status,       \* request_processor_status of the last return
  state,        \* the alternative that m_state holds
  left,         \* bytes_to_read of the current state
  buffered,     \* bytes in the receive buffer
  readDisabled, \* inet_connection::m_read_disabled
  send,         \* bytes in the send buffer
  headLeft,     \* bytes of m_range_to_write of the header serializer
  length,       \* Content-Length of the current response
  supply,       \* bytes of the response body that the handler still has
  client,       \* whether the client still sends: active, silent or gone
  woken,        \* the direction reported ready, until the socket is used
  msg,          \* the message that the parser is in
  pos,          \* bytes of msg that have left the receive buffer
  wrote,        \* bytes of the current response given to the socket
  call          \* the last callback of the request handler, and its parity

inputVars == <<buffered, readDisabled, msg, pos>>
outputVars == <<send, headLeft, length, supply, wrote>>
vars == <<pc, status, state, left, inputVars, outputVars, client, woken, call>>

Message == [head : 1..MaxHead, body : 0..MaxBody]
Total(m) == m.head + m.body

InputStates == {"wait_for_data", "read_request_header", "read_request_body"}
OutputStates == {"write_response_header", "write_response_body"}
Callback == {"none", "accept", "content", "finish", "supply", "error"}
Status == {"more_data_needed", "completed", "application_error", "io_error"}

Least(a, b) == IF a <= b THEN a ELSE b

TypeOK ==
  /\ pc \in {"parked", "running", "closed"}
  /\ status \in Status
  /\ state \in InputStates \cup OutputStates
  /\ left \in Nat
  /\ buffered \in 0..BufferSize
  /\ readDisabled \in BOOLEAN
  /\ send \in 0..BufferSize
  /\ headLeft \in 0..ResponseHead
  /\ length \in 0..MaxResponse
  /\ supply \in 0..MaxResponse
  /\ client \in {"active", "silent", "gone"}
  /\ woken \in {"none", "read", "write"}
  /\ msg \in Message
  /\ pos \in Nat
  /\ wrote \in Nat
  /\ call \in [op : Callback, parity : {0, 1}]

(* The event loop has registered the connection and waits for input. *)
Init ==
  /\ pc = "parked"
  /\ status = "more_data_needed"
  /\ state = "read_request_header"
  /\ left = HeaderLimit
  /\ buffered = 0
  /\ readDisabled = FALSE
  /\ send = 0
  /\ headLeft = 0
  /\ length = 0
  /\ supply = 0
  /\ client = "active"
  /\ woken = "none"
  /\ msg \in Message
  /\ pos = 0
  /\ wrote = 0
  /\ call = [op |-> "none", parity |-> 0]

-----------------------------------------------------------------------------
(* What the actions have in common. *)

In(st) == pc = "running" /\ state = st

Calls(op) == call' = [op |-> op, parity |-> 1 - call.parity]

Return(st) ==
  /\ status' = st
  /\ pc' = IF st = "more_data_needed" THEN "parked" ELSE "closed"

Continue == UNCHANGED <<pc, status>>

(* A response of n body bytes is begun: response_info is reset, the        *)
(* handler fills in the header fields, and the serializer is made.         *)
BeginResponse(n) ==
  /\ state' = "write_response_header"
  /\ left' = 0
  /\ headLeft' = ResponseHead
  /\ length' = n
  /\ supply' = n
  /\ wrote' = 0
  /\ UNCHANGED <<send, client, woken, msg>>

(* case client_error_detected of request_processor::socket_is_ready, with  *)
(* an error response of any length.                                        *)
ClientError ==
  /\ \E n \in 0..MaxResponse : BeginResponse(n)
  /\ readDisabled' = TRUE
  /\ Calls("error")

-----------------------------------------------------------------------------
(* The socket, as inet_connection shows it. *)

DataArrives(n) ==
  /\ ~readDisabled
  /\ client = "active"
  /\ buffered' = n
  /\ woken' = "none"

EndOfInput == readDisabled \/ client = "gone"

InputWouldBlock == ~readDisabled /\ client # "gone" /\ woken # "read"

InputError == ~readDisabled

(* The client stops: it falls silent or it closes its side. *)
ClientStops ==
  /\ client = "active"
  /\ woken # "read"
  /\ client' \in {"silent", "gone"}
  /\ UNCHANGED <<pc, status, state, left, inputVars, outputVars, woken, call>>

-----------------------------------------------------------------------------
(* Callbacks from the event loop. *)

(* request_processor::socket_is_ready starts.  Readiness is never reported *)
(* in vain: the first use of the socket in that direction does not block.  *)
SocketIsReady ==
  /\ pc = "parked"
  /\ state \in InputStates => client # "silent" \/ readDisabled
  /\ pc' = "running"
  /\ woken' = IF state \in InputStates THEN "read" ELSE "write"
  /\ UNCHANGED <<status, state, left, inputVars, outputVars, client, call>>

(* socket_is_idle while waiting for input: 408 Request Timeout. *)
SocketIsIdleInput ==
  /\ pc = "parked"
  /\ state \in InputStates
  /\ ClientError
  /\ Return("more_data_needed")
  /\ UNCHANGED <<buffered, pos>>

(* socket_is_idle while waiting for output. *)
SocketIsIdleOutput ==
  /\ pc = "parked"
  /\ state \in OutputStates
  /\ Return("completed")
  /\ UNCHANGED <<state, left, inputVars, outputVars, client, woken, call>>

-----------------------------------------------------------------------------
(* wait_for_data *)

(* make_state_handler<read_request_header>.  The bytes that come next are  *)
(* taken for the start of a message, whatever they are.                    *)
StartHeader ==
  /\ state' = "read_request_header"
  /\ left' = HeaderLimit
  /\ msg' \in Message
  /\ pos' = 0
  /\ Continue
  /\ UNCHANGED <<readDisabled, outputVars, client, call>>

(* The rest of the previous read holds a pipelined request. *)
WaitFindsData ==
  /\ In("wait_for_data")
  /\ buffered > 0
  /\ StartHeader
  /\ UNCHANGED <<buffered, woken>>

WaitReadsData ==
  /\ In("wait_for_data")
  /\ buffered = 0
  /\ \E n \in 1..BufferSize : DataArrives(n)
  /\ StartHeader

WaitBlocks ==
  /\ In("wait_for_data")
  /\ buffered = 0
  /\ InputWouldBlock
  /\ Return("more_data_needed")
  /\ UNCHANGED <<state, left, inputVars, outputVars, client, woken, call>>

(* End of file taken for a read that would block. *)
WaitEndsParked ==
  /\ In("wait_for_data")
  /\ buffered = 0
  /\ EndOfInput \/ InputError
  /\ Return("more_data_needed")
  /\ UNCHANGED <<state, left, inputVars, outputVars, client, woken, call>>

(* Nothing was read and the read did not block: connection_closed, for an  *)
(* error of the socket too.                                                *)
WaitEnds ==
  /\ In("wait_for_data")
  /\ buffered = 0
  /\ EndOfInput \/ InputError
  /\ Return("completed")
  /\ UNCHANGED <<state, left, inputVars, outputVars, client, woken, call>>

-----------------------------------------------------------------------------
(* transfer_data, for the two states that read a request. *)

NeedsInput ==
  /\ pc = "running"
  /\ state \in {"read_request_header", "read_request_body"}
  /\ left > 0
  /\ buffered = 0

InputArrives ==
  /\ NeedsInput
  /\ \E n \in 1..BufferSize : DataArrives(n)
  /\ Continue
  /\ UNCHANGED <<state, left, readDisabled, msg, pos, outputVars, client,
                 call>>

InputBlocks ==
  /\ NeedsInput
  /\ InputWouldBlock
  /\ Return("more_data_needed")
  /\ UNCHANGED <<state, left, inputVars, outputVars, client, woken, call>>

(* make_read_response: the client has closed its side within a request. *)
InputTruncated ==
  /\ NeedsInput
  /\ EndOfInput
  /\ ClientError
  /\ Continue
  /\ UNCHANGED <<buffered, pos>>

InputFails ==
  /\ NeedsInput
  /\ InputError
  /\ Return("io_error")
  /\ UNCHANGED <<state, left, inputVars, outputVars, client, woken, call>>

(* buffer.span_to_read(bytes_to_read) *)
Span == Least(left, buffered)

(* buffer.consume_elements(n) *)
Consume(n) ==
  /\ buffered' = buffered - n
  /\ pos' = pos + n

-----------------------------------------------------------------------------
(* read_request_header *)

HasHeaderBytes == In("read_request_header") /\ left > 0 /\ buffered > 0
HeaderRest == msg.head - pos

(* The limit is reached before the end of the header. *)
HeaderTooLarge ==
  /\ In("read_request_header")
  /\ left = 0
  /\ ClientError
  /\ Continue
  /\ UNCHANGED <<buffered, pos>>

(* transfer_data with bytes_to_read passed by value. *)
ParseMoreByValue ==
  /\ HasHeaderBytes
  /\ Span < HeaderRest
  /\ Consume(Span)
  /\ Continue
  /\ UNCHANGED <<state, left, readDisabled, msg, outputVars, client, woken,
                 call>>

(* request_header_parser::parse consumes the span and wants more. *)
ParseMore ==
  /\ HasHeaderBytes
  /\ Span < HeaderRest
  /\ Consume(Span)
  /\ left' = left - Span
  /\ Continue
  /\ UNCHANGED <<state, readDisabled, msg, outputVars, client, woken, call>>

(* The byte at which the parser stops is left in the buffer. *)
HeaderRefusedUnconsumed ==
  /\ HasHeaderBytes
  /\ \E k \in 1..Least(Span, HeaderRest) : Consume(k - 1)
  /\ ClientError
  /\ Continue

(* The parser stops at an error in the k-th byte of the span, or the       *)
(* header ends there and is refused, for its version, for its              *)
(* Content-Length or by the handler, whose call is directly followed by    *)
(* the one for the error.  The rest of the buffer is kept.                 *)
HeaderRefused ==
  /\ HasHeaderBytes
  /\ \E k \in 1..Least(Span, HeaderRest) : Consume(k)
  /\ ClientError
  /\ Continue

(* The header is complete and the handler accepts it. *)
HeaderAccepted ==
  /\ HasHeaderBytes
  /\ HeaderRest <= Span
  /\ Consume(HeaderRest)
  /\ state' = "read_request_body"
  /\ left' = msg.body
  /\ Calls("accept")
  /\ Continue
  /\ UNCHANGED <<readDisabled, msg, outputVars, client, woken>>

-----------------------------------------------------------------------------
(* read_request_body *)

HasBodyBytes == In("read_request_body") /\ left > 0 /\ buffered > 0

(* bytes_to_read reduced by the size of the span, not by what was taken. *)
ContentCountsSpan ==
  /\ HasBodyBytes
  /\ \E n \in 1..Span : Consume(n) /\ left' = left - Span
  /\ Calls("content")
  /\ Continue
  /\ UNCHANGED <<state, readDisabled, msg, outputVars, client, woken>>

(* process_request_content takes n bytes and wants to go on. *)
Content ==
  /\ HasBodyBytes
  /\ \E n \in 1..Span : Consume(n) /\ left' = left - n
  /\ Calls("content")
  /\ Continue
  /\ UNCHANGED <<state, readDisabled, msg, outputVars, client, woken>>

(* It takes n bytes, perhaps none, and asks to be called later. *)
ContentStalls ==
  /\ HasBodyBytes
  /\ HandlerMayStall
  /\ \E n \in 0..Span : n < left /\ Consume(n) /\ left' = left - n
  /\ Calls("content")
  /\ Return("more_data_needed")
  /\ woken' = "none"
  /\ UNCHANGED <<state, readDisabled, msg, outputVars, client>>

(* It fails after n bytes; so does one that takes all that is left of the  *)
(* body and asks to be called later.  The receive buffer is emptied.       *)
ContentRefused ==
  /\ HasBodyBytes
  /\ \E n \in 0..Span : pos' = pos + n
  /\ buffered' = 0
  /\ ClientError
  /\ Continue

(* The body taken for complete when the buffer is empty. *)
BodyFinishedEarly == In("read_request_body") /\ buffered = 0

(* bytes_to_read is 0: map_error_code() *)
BodyFinished == In("read_request_body") /\ left = 0

(* The body is complete and the handler sets up its response. *)
RequestFinished ==
  /\ BodyFinished
  /\ \E n \in 0..MaxResponse : BeginResponse(n)
  /\ Calls("finish")
  /\ Continue
  /\ UNCHANGED <<readDisabled, buffered, pos>>

(* The handler's finalize_state reports an error, which it is given back.  *)
RequestRefused ==
  /\ BodyFinished
  /\ ClientError
  /\ Continue
  /\ UNCHANGED <<buffered, pos>>

-----------------------------------------------------------------------------
(* transfer_data, for the two states that write a response. *)

HasOutput ==
  /\ pc = "running"
  /\ send > 0
  /\ \/ state = "write_response_header"
     \/ state = "write_response_body" /\ left > 0

(* inet_connection::write takes n bytes.  There is no limit to the header. *)
OutputTaken ==
  /\ HasOutput
  /\ \E n \in 1..send :
       /\ send' = send - n
       /\ wrote' = wrote + n
       /\ IF state = "write_response_body"
          THEN n <= left /\ left' = left - n
          ELSE UNCHANGED left
  /\ woken' = "none"
  /\ Continue
  /\ UNCHANGED <<state, inputVars, headLeft, length, supply, client, call>>

OutputBlocks ==
  /\ HasOutput
  /\ woken # "write"
  /\ Return("more_data_needed")
  /\ UNCHANGED <<state, left, inputVars, outputVars, client, woken, call>>

(* make_write_response: an error, or nothing was written. *)
OutputFails ==
  /\ HasOutput
  /\ Return("io_error") \/ Return("completed")
  /\ UNCHANGED <<state, left, inputVars, outputVars, client, woken, call>>

-----------------------------------------------------------------------------
(* write_response_header *)

(* response_header_serializer::serialize *)
SerializeHeader ==
  /\ In("write_response_header")
  /\ send = 0
  /\ headLeft > 0
  /\ send' = Least(BufferSize, headLeft)
  /\ headLeft' = headLeft - Least(BufferSize, headLeft)
  /\ Continue
  /\ UNCHANGED <<state, left, inputVars, length, supply, wrote, client, woken,
                 call>>

(* A serializer that ends the state when it has handed out its last byte.  *)
HeaderSerialized ==
  /\ In("write_response_header")
  /\ headLeft = 0
  /\ state' = "write_response_body"
  /\ left' = length
  /\ Continue
  /\ UNCHANGED <<inputVars, outputVars, client, woken, call>>

(* The serializer has nothing left and the buffer has been written. *)
HeaderWritten ==
  /\ In("write_response_header")
  /\ send = 0
  /\ headLeft = 0
  /\ state' = "write_response_body"
  /\ left' = length
  /\ Continue
  /\ UNCHANGED <<inputVars, outputVars, client, woken, call>>

-----------------------------------------------------------------------------
(* write_response_body *)

NeedsOutput == In("write_response_body") /\ left > 0 /\ send = 0

(* read_response_content fills in n bytes.  A handler supplies no more     *)
(* than it announced.                                                      *)
Supply ==
  /\ NeedsOutput
  /\ \E n \in 1..Least(BufferSize, supply) : send' = n /\ supply' = supply - n
  /\ Calls("supply")
  /\ Continue
  /\ UNCHANGED <<state, left, inputVars, headLeft, length, wrote, client,
                 woken>>

(* It fills in n bytes, perhaps none, and asks to be called later. *)
SupplyStalls ==
  /\ NeedsOutput
  /\ HandlerMayStall
  /\ \E n \in 0..Least(BufferSize, supply) :
       send' = n /\ supply' = supply - n
  /\ Calls("supply")
  /\ Return("more_data_needed")
  /\ woken' = "none"
  /\ UNCHANGED <<state, left, inputVars, headLeft, length, wrote, client>>

(* It fails, and the session ends with what is in the buffer. *)
SupplyFails ==
  /\ NeedsOutput
  /\ Calls("supply")
  /\ Return("application_error")
  /\ UNCHANGED <<state, left, inputVars, outputVars, client, woken>>

ResponseWritten ==
  /\ In("write_response_body")
  /\ left = 0
  /\ state' = "wait_for_data"
  /\ Continue
  /\ UNCHANGED <<left, inputVars, outputVars, client, woken, call>>

-----------------------------------------------------------------------------
ReadRequest ==
  \/ WaitFindsData \/ WaitReadsData \/ WaitBlocks \/ WaitEnds
  \/ InputArrives \/ InputBlocks \/ InputTruncated \/ InputFails
  \/ HeaderTooLarge \/ ParseMore \/ HeaderRefused \/ HeaderAccepted
  \/ Content \/ ContentStalls \/ ContentRefused
  \/ RequestFinished \/ RequestRefused

WriteResponse ==
  \/ OutputTaken \/ OutputBlocks \/ OutputFails
  \/ SerializeHeader \/ HeaderWritten
  \/ Supply \/ SupplyStalls \/ SupplyFails \/ ResponseWritten

Wake == SocketIsReady \/ SocketIsIdleInput \/ SocketIsIdleOutput

Closed == pc = "closed" /\ UNCHANGED vars

Next == ReadRequest \/ WriteResponse \/ Wake \/ ClientStops \/ Closed

Spec == Init /\ [][Next]_vars

-----------------------------------------------------------------------------
(* Correctness. *)

(* The server's count of what is left of a request body agrees with the    *)
(* message: the handler is given exactly the body, however the bytes were  *)
(* cut up by the socket, by the buffer and by the handler, and the next    *)
(* header is looked for at the byte after it.                              *)
BodyIsFramed ==
  /\ state = "read_request_body" => pos + left = Total(msg)
  /\ state \in OutputStates \cup {"wait_for_data"}
       => readDisabled \/ pos = Total(msg)

(* The count of read_request_header agrees with the bytes parsed, and the  *)
(* parser never passes the end of a header unnoticed: a header as long as  *)
(* the limit is still accepted, and the limit refuses only a longer one.   *)
HeaderIsLimited ==
  state = "read_request_header" =>
    pos + left = HeaderLimit /\ pos < msg.head

(* Every byte of a response that was begun is in exactly one place: not    *)
(* made yet, in the send buffer, or written; and a response is left behind *)
(* only when all of it is written, so that responses neither overlap nor   *)
(* miss a byte.                                                            *)
ResponseIsFramed ==
  LET whole == ResponseHead + length IN
  /\ state = "write_response_header" =>
       /\ wrote + send + headLeft = ResponseHead
       /\ supply = length
  /\ state = "write_response_body" =>
       /\ wrote + send + supply = whole
       /\ wrote + left = whole
  /\ state \in InputStates => send = 0 /\ wrote \in {0, whole}
  /\ state = "wait_for_data" => wrote = whole

(* A session that waits for its client has nothing to do: it does not wait *)
(* for input while it holds unread bytes of a request, nor for room in the *)
(* socket while it has nothing to write.                                   *)
ParkedForAReason ==
  pc = "parked" => IF state \in InputStates THEN buffered = 0
                   ELSE send > 0 \/ headLeft > 0

(* The response to a request that was refused is the last one: after       *)
(* stop_reading no other response is begun.                                *)
ErrorResponseIsLast ==
  [][readDisabled /\ state \in InputStates => state' \in InputStates]_vars

(* A refused session winds down.  It goes on with what its receive buffer  *)
(* holds, so that one refusal may follow another; but each request that it *)
(* begins has taken at least a byte of the one before for good, and no     *)
(* byte is added, so that it answers at most as many requests as it held   *)
(* bytes when it was refused.  What counts down is what the buffer holds   *)
(* and what the message that is answered has taken from it.                *)
RefusalWindsDown ==
  [][readDisabled =>
       /\ readDisabled'
       /\ pos' + buffered' <= pos + buffered
       /\ state = "wait_for_data" /\ state' = "read_request_header"
            => pos' + buffered' < pos + buffered]_vars

(* A session whose client falls silent or goes away is closed in the end,  *)
(* whatever is in the buffers and however many requests are still in them. *)
SessionEnds == client # "active" ~> pc = "closed"

(* What the handler sees is HandlerProtocol.  It still needs what is left  *)
(* of the body being read, and owes what it has not supplied of the        *)
(* response being written.                                                 *)
Need == IF state = "read_request_body" THEN left ELSE 0

Handler == INSTANCE HandlerProtocol WITH need <- Need, owe <- supply

(* The callbacks of the request handler come in the promised order and     *)
(* with the promised amounts, whatever the client and the socket do.       *)
HandlerSeesProtocol == Handler!HSpec
=============================================================================
