--------------------------- MODULE HandlerProtocol ---------------------------
(***************************************************************************)
(* What the author of a request handler may rely on: the order in which    *)
(* the framework calls the functions of the concept request_handler        *)
(* (http_request_handler.hpp), and the amounts of data that are exchanged. *)
(* This is the life of one handler as its own object sees it; sockets,     *)
(* buffers and the states of the session are not part of it.               *)
(***************************************************************************)
EXTENDS Integers

CONSTANTS
  MaxBody,     \* bound: longest request body
  MaxResponse  \* bound: longest response body

VARIABLES
  call,  \* the last callback and the parity of their number
  need,  \* bytes of the request body that the handler has not been given
  owe    \* bytes of the response body that it has not been asked for

hvars == <<call, need, owe>>

HInit ==
  /\ call = [op |-> "none", parity |-> 0]
  /\ need = 0
  /\ owe = 0

Called(op) == call' = [op |-> op, parity |-> 1 - call.parity]

(* A response is over, or there was none yet: a request may begin. *)
Between == call.op \in {"none", "finish", "supply", "error"} /\ owe = 0

WithinRequest == call.op \in {"accept", "content"}

(* finalize_state(request_header const&): a request begins. *)
HAccept ==
  /\ Between
  /\ Called("accept")
  /\ need' \in 0..MaxBody
  /\ UNCHANGED owe

(* process_request_content: some of the body, never more than is left. *)
HContent ==
  /\ WithinRequest
  /\ need > 0
  /\ Called("content")
  /\ need' \in 0..need
  /\ UNCHANGED owe

(* finalize_state(field_map&): the whole body has been given. *)
HFinish ==
  /\ WithinRequest
  /\ need = 0
  /\ Called("finish")
  /\ owe' \in 0..MaxResponse
  /\ UNCHANGED need

(* finalize_state(field_map&, finalize_state_result&&): the request, which *)
(* may have been given only in part, is answered with an error.  If the    *)
(* error is what the handler itself returned from finalize_state, that     *)
(* call and this one follow each other directly and count as one.          *)
HError ==
  /\ Between \/ WithinRequest
  /\ Called("error")
  /\ need' = 0
  /\ owe' \in 0..MaxResponse

(* read_response_content: only while some of the response is due. *)
HSupply ==
  /\ call.op \in {"finish", "error", "supply"}
  /\ owe > 0
  /\ Called("supply")
  /\ owe' \in 0..owe
  /\ UNCHANGED need

HNext == HAccept \/ HContent \/ HFinish \/ HError \/ HSupply

HSpec == HInit /\ [][HNext]_hvars
=============================================================================
