---------------------------- MODULE EchoSession ----------------------------
(***************************************************************************)
(* A session of the echo application: RequestProcessor together with       *)
(* echo_http_request of bin/http_echo.cpp as its request handler.          *)
(*                                                                         *)
(* RequestProcessor leaves open how much a handler takes, announces and    *)
(* supplies, and assumes that it supplies what it announced.  Here the     *)
(* handler decides, from the two members it keeps between its calls.       *)
(***************************************************************************)
EXTENDS RequestProcessor

CONSTANTS
  MaxText,    \* bound: length of a header as text
  MaxMessage  \* bound: length of an error message

ASSUME EchoAssumption ==
  /\ MaxText \in Nat \ {0}
  /\ MaxMessage \in Nat
  /\ MaxText + MaxBody <= MaxResponse
  /\ MaxMessage <= MaxResponse

VARIABLES
  body,    \* length of m_response_body
  offset,  \* m_read_offset, as a distance from its begin
  head     \* length of the text of the current header

echo == <<body, offset, head>>
evars == <<vars, echo>>

(* An iterator that was never set, or that a change of the string has made *)
(* invalid.                                                                *)
Stale == -1

EchoInit ==
  /\ Init
  /\ body = 0
  /\ offset = Stale
  /\ head = 0

-----------------------------------------------------------------------------
(* The functions of echo_http_request. *)

finalize_header ==
  /\ head' \in 1..MaxText
  /\ body' = head'
  /\ offset' = Stale

(* m_response_body = buffer *)
process_request_content_assigned(n) ==
  /\ body' = n
  /\ offset' = Stale
  /\ UNCHANGED head

process_request_content(n) ==
  /\ body' = body + n
  /\ offset' = Stale
  /\ UNCHANGED head

(* m_read_offset is left to the constructor. *)
finalize_body_without_offset ==
  /\ length' = body
  /\ UNCHANGED echo

finalize_body ==
  /\ length' = body
  /\ offset' = 0
  /\ UNCHANGED <<body, head>>

finalize_error ==
  /\ length' <= MaxMessage
  /\ body' = length'
  /\ offset' = 0
  /\ UNCHANGED head

(* m_read_offset is not advanced. *)
read_response_content_again(n) ==
  /\ offset # Stale
  /\ n = Least(BufferSize, body - offset)
  /\ UNCHANGED echo

(* The buffer is filled at the next call. *)
read_response_content_later(n) ==
  /\ offset # Stale
  /\ n = 0
  /\ UNCHANGED echo

(* Fills n bytes of the buffer. *)
read_response_content(n) ==
  /\ offset # Stale
  /\ n = Least(BufferSize, body - offset)
  /\ offset' = offset + n
  /\ UNCHANGED <<body, head>>

-----------------------------------------------------------------------------
EchoAccept == HeaderAccepted /\ finalize_header

(* It takes the whole span. *)
EchoContent ==
  /\ Content
  /\ buffered' = buffered - Span
  /\ process_request_content(Span)

EchoFinish == RequestFinished /\ finalize_body

(* The errors that a request may have, the handler itself having none. *)
EchoError ==
  /\ \/ SocketIsIdleInput \/ InputTruncated \/ HeaderTooLarge
     \/ HeaderRefused
  /\ finalize_error

(* What it supplies is put into the send buffer; nothing, and the session  *)
(* waits for the socket.                                                   *)
EchoSupply ==
  /\ NeedsOutput
  /\ \E n \in 0..BufferSize :
       /\ read_response_content(n)
       /\ send' = n
       /\ supply' = supply - n
       /\ IF n > 0 THEN Continue ELSE Return("more_data_needed")
  /\ Calls("supply")
  /\ UNCHANGED <<state, left, inputVars, headLeft, length, wrote, client,
                 woken>>

(* The steps in which the handler is not called. *)
EchoOther ==
  /\ \/ ClientStops \/ SocketIsReady \/ SocketIsIdleOutput
     \/ WaitFindsData \/ WaitReadsData \/ WaitBlocks \/ WaitEnds
     \/ InputArrives \/ InputBlocks \/ InputFails \/ ParseMore
     \/ OutputTaken \/ OutputBlocks \/ OutputFails
     \/ SerializeHeader \/ HeaderWritten \/ ResponseWritten
     \/ Closed
  /\ UNCHANGED echo

EchoNext ==
  \/ EchoAccept \/ EchoContent \/ EchoFinish \/ EchoError \/ EchoSupply
  \/ EchoOther

EchoSpec == EchoInit /\ [][EchoNext]_evars

(* socket_is_ready runs until it returns; the event loop calls a session   *)
(* back in the end, because its socket is ready or because it is idle      *)
(* (StoppedClientIsClosed of module HttpServer).                           *)
FairEchoSpec ==
  /\ EchoSpec
  /\ WF_evars(EchoNext /\ pc = "running")
  /\ WF_evars(EchoNext /\ Wake)

-----------------------------------------------------------------------------
(* Correctness. *)

(* m_read_offset is used only while it points into m_response_body, though *)
(* every callback that changes the string invalidates it; and the bytes    *)
(* behind it are the ones that the session has still to be supplied with.  *)
OffsetIsValid ==
  state \in OutputStates =>
    offset \in 0..body /\ body - offset = supply

(* The response to a request that was not refused is the whole request:    *)
(* the text of its header and its body, however the body came in pieces,   *)
(* and nothing of an earlier request on the connection.                    *)
EchoIsWhole ==
  state \in OutputStates /\ ~readDisabled => length = head + msg.body

(* The echo handler is a handler such as RequestProcessor assumes, so that *)
(* what is shown there holds of the echo application.                      *)
EchoImplementsProcessor == Spec
=============================================================================
