----------------------- MODULE RequestProcessorProofs -----------------------
(***************************************************************************)
(* Proofs about RequestProcessor, for buffers, limits, messages and        *)
(* responses of every size.                                                *)
(***************************************************************************)
EXTENDS RequestProcessor, TLAPS

(* The last callback agrees with the state, and a handler that is not      *)
(* writing a response has nothing left to supply.                          *)
CallMatchesState ==
  /\ state \in {"wait_for_data", "read_request_header"} =>
       call.op \in {"none", "finish", "supply", "error"}
  /\ state = "read_request_body" => call.op \in {"accept", "content"}
  /\ state = "write_response_header" => call.op \in {"finish", "error"}
  /\ state = "write_response_body" => call.op \in {"finish", "error", "supply"}
  /\ state \in InputStates => supply = 0

(* The inductive invariant. *)
Inv ==
  /\ TypeOK
  /\ BodyIsFramed
  /\ HeaderIsLimited
  /\ ResponseIsFramed
  /\ CallMatchesState

USE SizesAssumption, StallsAssumption

LEMMA InvInit == Init => Inv
<1> USE DEF Init, Inv
<1>1. Init => TypeOK
  <2>1. Init => readDisabled \in BOOLEAN
    BY Zenon
  <2> QED
    BY <2>1 DEF TypeOK, Message, Callback, Status, InputStates, OutputStates
<1>2. Init => BodyIsFramed /\ HeaderIsLimited /\ ResponseIsFramed
  BY DEF BodyIsFramed, HeaderIsLimited, ResponseIsFramed, Message, Total,
         InputStates, OutputStates
<1>3. Init => CallMatchesState
  BY DEF CallMatchesState, InputStates
<1> QED
  BY <1>1, <1>2, <1>3

LEMMA InvNext == Inv /\ [Next]_vars => Inv'
<1> SUFFICES ASSUME Inv, [Next]_vars PROVE Inv'
  OBVIOUS
<1> USE DEF Inv, TypeOK, BodyIsFramed, HeaderIsLimited, ResponseIsFramed,
            CallMatchesState, Message, Total, InputStates, OutputStates,
            Callback, Status, In, Calls, Return, Continue, inputVars,
            outputVars
<1>1. CASE WaitFindsData
  BY <1>1 DEF WaitFindsData, StartHeader
<1>2. CASE WaitReadsData
  BY <1>2 DEF WaitReadsData, DataArrives, StartHeader
<1>3. CASE WaitBlocks
  BY <1>3 DEF WaitBlocks
<1>4. CASE WaitEnds
  BY <1>4 DEF WaitEnds
<1>5. CASE InputArrives
  BY <1>5 DEF InputArrives, DataArrives, NeedsInput
<1>6. CASE InputBlocks
  BY <1>6 DEF InputBlocks, NeedsInput
<1>7. CASE InputTruncated
  BY <1>7 DEF InputTruncated, ClientError, NeedsInput, BeginResponse
<1>8. CASE InputFails
  BY <1>8 DEF InputFails, NeedsInput
<1>9. CASE HeaderTooLarge
  BY <1>9 DEF HeaderTooLarge, ClientError, BeginResponse
<1>10. CASE ParseMore
  BY <1>10 DEF ParseMore, Span, Consume, HasHeaderBytes, HeaderRest, Least
<1>11. CASE HeaderRefused
  BY <1>11 DEF HeaderRefused, ClientError, Span, Least, Consume,
    HasHeaderBytes, HeaderRest, BeginResponse
<1>12. CASE HeaderAccepted
  BY <1>12 DEF HeaderAccepted, Span, Consume, HasHeaderBytes, HeaderRest,
    Least
<1>13. CASE Content
  BY <1>13 DEF Content, Span, Consume, HasBodyBytes, Least
<1>14. CASE ContentStalls
  BY <1>14 DEF ContentStalls, Span, Consume, HasBodyBytes, Least
<1>15. CASE ContentRefused
  BY <1>15 DEF ContentRefused, ClientError, Span, HasBodyBytes,
    BeginResponse, Least
<1>16. CASE RequestFinished
  BY <1>16 DEF RequestFinished, BeginResponse, BodyFinished
<1>17. CASE RequestRefused
  BY <1>17 DEF RequestRefused, ClientError, BodyFinished, BeginResponse
<1>18. CASE OutputTaken
  BY <1>18 DEF OutputTaken, HasOutput
<1>19. CASE OutputBlocks
  BY <1>19 DEF OutputBlocks, HasOutput
<1>20. CASE OutputFails
  BY <1>20 DEF OutputFails, HasOutput
<1>21. CASE SerializeHeader
  BY <1>21 DEF SerializeHeader, Least
<1>22. CASE HeaderWritten
  BY <1>22 DEF HeaderWritten
<1>23. CASE Supply
  BY <1>23 DEF Supply, Least, NeedsOutput
<1>24. CASE SupplyStalls
  BY <1>24 DEF SupplyStalls, Least, NeedsOutput
<1>25. CASE SupplyFails
  BY <1>25 DEF SupplyFails, NeedsOutput
<1>26. CASE ResponseWritten
  BY <1>26 DEF ResponseWritten
<1>27. CASE SocketIsReady
  BY <1>27 DEF SocketIsReady
<1>28. CASE SocketIsIdleInput
  BY <1>28 DEF SocketIsIdleInput, ClientError, BeginResponse
<1>29. CASE SocketIsIdleOutput
  BY <1>29 DEF SocketIsIdleOutput
<1>30. CASE ClientStops
  BY <1>30 DEF ClientStops
<1>31. CASE Closed
  BY <1>31 DEF Closed, vars
<1>32. CASE UNCHANGED vars
  BY <1>32 DEF vars
<1> QED
  BY <1>1, <1>2, <1>3, <1>4, <1>5, <1>6, <1>7, <1>8, <1>9, <1>10, <1>11,
    <1>12, <1>13, <1>14, <1>15, <1>16, <1>17, <1>18, <1>19, <1>20, <1>21,
    <1>22, <1>23, <1>24, <1>25, <1>26, <1>27, <1>28, <1>29, <1>30, <1>31,
    <1>32
  DEF Next, ReadRequest, WriteResponse, Wake

(* Every behaviour of a session keeps the counters within their ranges:    *)
(* no buffer is overrun and no count of bytes wraps below zero.            *)
THEOREM TypeCorrect == Spec => []TypeOK
<1>1. Inv => TypeOK
  BY DEF Inv
<1> QED
  BY InvInit, InvNext, <1>1, PTL DEF Spec

(* A request body is handed over exactly, and the next header is looked    *)
(* for at the byte after it, for every way of cutting up the input.        *)
THEOREM BodyFraming == Spec => []BodyIsFramed
<1>1. Inv => BodyIsFramed
  BY DEF Inv
<1> QED
  BY InvInit, InvNext, <1>1, PTL DEF Spec

(* The limit of the request header is counted exactly, whatever it is.     *)
THEOREM HeaderLimiting == Spec => []HeaderIsLimited
<1>1. Inv => HeaderIsLimited
  BY DEF Inv
<1> QED
  BY InvInit, InvNext, <1>1, PTL DEF Spec

(* Responses neither overlap nor lose a byte, for every size of the send   *)
(* buffer and every way in which the socket takes the output.              *)
THEOREM ResponseFraming == Spec => []ResponseIsFramed
<1>1. Inv => ResponseIsFramed
  BY DEF Inv
<1> QED
  BY InvInit, InvNext, <1>1, PTL DEF Spec
-----------------------------------------------------------------------------
(* Why each further request of a refused session costs it a byte: no       *)
(* response is begun before a byte of its request has been consumed,       *)
(* unless there is none.                                                   *)
ByteConsumed ==
  /\ state = "read_request_body" => pos > 0
  /\ pc = "parked" /\ state \in {"wait_for_data", "read_request_header"}
       => buffered = 0
  /\ readDisabled /\ state \in OutputStates \cup {"wait_for_data"}
       => pos > 0 \/ buffered = 0

LEMMA ByteConsumedNext ==
  Inv /\ ByteConsumed /\ [Next]_vars => ByteConsumed'
<1> SUFFICES ASSUME Inv, ByteConsumed, [Next]_vars PROVE ByteConsumed'
  OBVIOUS
<1> USE DEF ByteConsumed, Inv, TypeOK, HeaderIsLimited, Message, InputStates,
            OutputStates, In, Return, Continue, inputVars, outputVars
<1>1. CASE WaitFindsData
  BY <1>1 DEF WaitFindsData, StartHeader
<1>2. CASE WaitReadsData
  BY <1>2 DEF WaitReadsData, DataArrives, StartHeader
<1>3. CASE WaitBlocks
  BY <1>3 DEF WaitBlocks
<1>4. CASE WaitEnds
  BY <1>4 DEF WaitEnds
<1>5. CASE InputArrives
  BY <1>5 DEF InputArrives, DataArrives, NeedsInput
<1>6. CASE InputBlocks
  BY <1>6 DEF InputBlocks, NeedsInput
<1>7. CASE InputTruncated
  BY <1>7 DEF InputTruncated, ClientError, NeedsInput, BeginResponse
<1>8. CASE InputFails
  BY <1>8 DEF InputFails, NeedsInput
<1>9. CASE HeaderTooLarge
  BY <1>9 DEF HeaderTooLarge, ClientError, BeginResponse
<1>10. CASE ParseMore
  BY <1>10 DEF ParseMore, Span, Consume, HasHeaderBytes, HeaderRest, Least
<1>11. CASE HeaderRefused
  BY <1>11 DEF HeaderRefused, ClientError, Span, Least, Consume,
    HasHeaderBytes, HeaderRest, BeginResponse
<1>12. CASE HeaderAccepted
  BY <1>12 DEF HeaderAccepted, Span, Consume, HasHeaderBytes, HeaderRest,
    Least
<1>13. CASE Content
  BY <1>13 DEF Content, Span, Consume, HasBodyBytes, Least
<1>14. CASE ContentStalls
  BY <1>14 DEF ContentStalls, Span, Consume, HasBodyBytes, Least
<1>15. CASE ContentRefused
  BY <1>15 DEF ContentRefused, ClientError, Span, HasBodyBytes,
    BeginResponse, Least
<1>16. CASE RequestFinished
  BY <1>16 DEF RequestFinished, BeginResponse, BodyFinished
<1>17. CASE RequestRefused
  BY <1>17 DEF RequestRefused, ClientError, BodyFinished, BeginResponse
<1>18. CASE OutputTaken
  BY <1>18 DEF OutputTaken, HasOutput
<1>19. CASE OutputBlocks
  BY <1>19 DEF OutputBlocks, HasOutput
<1>20. CASE OutputFails
  BY <1>20 DEF OutputFails, HasOutput
<1>21. CASE SerializeHeader
  BY <1>21 DEF SerializeHeader, Least
<1>22. CASE HeaderWritten
  BY <1>22 DEF HeaderWritten
<1>23. CASE Supply
  BY <1>23 DEF Supply, Least, NeedsOutput
<1>24. CASE SupplyStalls
  BY <1>24 DEF SupplyStalls, Least, NeedsOutput
<1>25. CASE SupplyFails
  BY <1>25 DEF SupplyFails, NeedsOutput
<1>26. CASE ResponseWritten
  BY <1>26 DEF ResponseWritten
<1>27. CASE SocketIsReady
  BY <1>27 DEF SocketIsReady
<1>28. CASE SocketIsIdleInput
  BY <1>28 DEF SocketIsIdleInput, ClientError, BeginResponse
<1>29. CASE SocketIsIdleOutput
  BY <1>29 DEF SocketIsIdleOutput
<1>30. CASE ClientStops
  BY <1>30 DEF ClientStops
<1>31. CASE Closed
  BY <1>31 DEF Closed, vars
<1>32. CASE UNCHANGED vars
  BY <1>32 DEF vars
<1> QED
  BY <1>1, <1>2, <1>3, <1>4, <1>5, <1>6, <1>7, <1>8, <1>9, <1>10, <1>11,
    <1>12, <1>13, <1>14, <1>15, <1>16, <1>17, <1>18, <1>19, <1>20, <1>21,
    <1>22, <1>23, <1>24, <1>25, <1>26, <1>27, <1>28, <1>29, <1>30, <1>31,
    <1>32
  DEF Next, ReadRequest, WriteResponse, Wake

(* What a step does once reading has been stopped. *)
LEMMA RefusedStep ==
  ASSUME Inv, ByteConsumed, [Next]_vars, readDisabled
  PROVE  /\ readDisabled'
         /\ pos' + buffered' <= pos + buffered
         /\ state = "wait_for_data" /\ state' = "read_request_header"
              => pos' + buffered' < pos + buffered
<1> USE DEF Inv, TypeOK, HeaderIsLimited, Message, In, inputVars
<1>1. CASE WaitFindsData
  BY <1>1 DEF WaitFindsData, StartHeader, ByteConsumed
<1>2. CASE WaitReadsData
  BY <1>2 DEF WaitReadsData, DataArrives, StartHeader
<1>3. CASE WaitBlocks
  BY <1>3 DEF WaitBlocks
<1>4. CASE WaitEnds
  BY <1>4 DEF WaitEnds
<1>5. CASE InputArrives
  BY <1>5 DEF InputArrives, DataArrives, NeedsInput
<1>6. CASE InputBlocks
  BY <1>6 DEF InputBlocks, NeedsInput
<1>7. CASE InputTruncated
  BY <1>7 DEF InputTruncated, ClientError, NeedsInput, BeginResponse
<1>8. CASE InputFails
  BY <1>8 DEF InputFails, NeedsInput
<1>9. CASE HeaderTooLarge
  BY <1>9 DEF HeaderTooLarge, ClientError, BeginResponse
<1>10. CASE ParseMore
  BY <1>10 DEF ParseMore, Span, Consume, HasHeaderBytes, HeaderRest, Least
<1>11. CASE HeaderRefused
  BY <1>11 DEF HeaderRefused, ClientError, Span, Least, Consume,
    HasHeaderBytes, HeaderRest, BeginResponse
<1>12. CASE HeaderAccepted
  BY <1>12 DEF HeaderAccepted, Span, Consume, HasHeaderBytes, HeaderRest,
    Least
<1>13. CASE Content
  BY <1>13 DEF Content, Span, Consume, HasBodyBytes, Least
<1>14. CASE ContentStalls
  BY <1>14 DEF ContentStalls, Span, Consume, HasBodyBytes, Least
<1>15. CASE ContentRefused
  BY <1>15 DEF ContentRefused, ClientError, Span, HasBodyBytes,
    BeginResponse, Least
<1>16. CASE RequestFinished
  BY <1>16 DEF RequestFinished, BeginResponse, BodyFinished
<1>17. CASE RequestRefused
  BY <1>17 DEF RequestRefused, ClientError, BodyFinished, BeginResponse
<1>18. CASE OutputTaken
  BY <1>18 DEF OutputTaken, HasOutput
<1>19. CASE OutputBlocks
  BY <1>19 DEF OutputBlocks, HasOutput
<1>20. CASE OutputFails
  BY <1>20 DEF OutputFails, HasOutput
<1>21. CASE SerializeHeader
  BY <1>21 DEF SerializeHeader, Least
<1>22. CASE HeaderWritten
  BY <1>22 DEF HeaderWritten
<1>23. CASE Supply
  BY <1>23 DEF Supply, Least, NeedsOutput
<1>24. CASE SupplyStalls
  BY <1>24 DEF SupplyStalls, Least, NeedsOutput
<1>25. CASE SupplyFails
  BY <1>25 DEF SupplyFails, NeedsOutput
<1>26. CASE ResponseWritten
  BY <1>26 DEF ResponseWritten
<1>27. CASE SocketIsReady
  BY <1>27 DEF SocketIsReady
<1>28. CASE SocketIsIdleInput
  BY <1>28 DEF SocketIsIdleInput, ClientError, BeginResponse
<1>29. CASE SocketIsIdleOutput
  BY <1>29 DEF SocketIsIdleOutput
<1>30. CASE ClientStops
  BY <1>30 DEF ClientStops
<1>31. CASE Closed
  BY <1>31 DEF Closed, vars
<1>32. CASE UNCHANGED vars
  BY <1>32 DEF vars
<1> QED
  BY <1>1, <1>2, <1>3, <1>4, <1>5, <1>6, <1>7, <1>8, <1>9, <1>10, <1>11,
    <1>12, <1>13, <1>14, <1>15, <1>16, <1>17, <1>18, <1>19, <1>20, <1>21,
    <1>22, <1>23, <1>24, <1>25, <1>26, <1>27, <1>28, <1>29, <1>30, <1>31,
    <1>32
  DEF Next, ReadRequest, WriteResponse, Wake

(* A refused session begins fewer requests than it holds bytes, whatever   *)
(* the size of its buffer.                                                 *)
THEOREM RefusalEnds == Spec => RefusalWindsDown
<1>1. Init => ByteConsumed
  BY DEF Init, ByteConsumed, OutputStates
<1>2. Inv /\ ByteConsumed /\ [Next]_vars =>
        [readDisabled =>
           /\ readDisabled'
           /\ pos' + buffered' <= pos + buffered
           /\ state = "wait_for_data" /\ state' = "read_request_header"
                => pos' + buffered' < pos + buffered]_vars
  BY RefusedStep
<1> QED
  BY InvInit, InvNext, ByteConsumedNext, <1>1, <1>2, PTL
  DEF Spec, RefusalWindsDown

-----------------------------------------------------------------------------
LEMMA ParkedNext ==
  ASSUME ~HandlerMayStall
  PROVE  ParkedForAReason /\ [Next]_vars => ParkedForAReason'
<1> SUFFICES ASSUME ParkedForAReason, [Next]_vars PROVE ParkedForAReason'
  OBVIOUS
<1> USE DEF ParkedForAReason, InputStates, OutputStates, In, Return, Continue,
            inputVars, outputVars
<1>1. CASE WaitFindsData
  BY <1>1 DEF WaitFindsData, StartHeader
<1>2. CASE WaitReadsData
  BY <1>2 DEF WaitReadsData, DataArrives, StartHeader
<1>3. CASE WaitBlocks
  BY <1>3 DEF WaitBlocks
<1>4. CASE WaitEnds
  BY <1>4 DEF WaitEnds
<1>5. CASE InputArrives
  BY <1>5 DEF InputArrives, DataArrives, NeedsInput
<1>6. CASE InputBlocks
  BY <1>6 DEF InputBlocks, NeedsInput
<1>7. CASE InputTruncated
  BY <1>7 DEF InputTruncated, ClientError, NeedsInput, BeginResponse
<1>8. CASE InputFails
  BY <1>8 DEF InputFails, NeedsInput
<1>9. CASE HeaderTooLarge
  BY <1>9 DEF HeaderTooLarge, ClientError, BeginResponse
<1>10. CASE ParseMore
  BY <1>10 DEF ParseMore, Span, Consume, HasHeaderBytes, HeaderRest, Least
<1>11. CASE HeaderRefused
  BY <1>11 DEF HeaderRefused, ClientError, Span, Least, Consume,
    HasHeaderBytes, HeaderRest, BeginResponse
<1>12. CASE HeaderAccepted
  BY <1>12 DEF HeaderAccepted, Span, Consume, HasHeaderBytes, HeaderRest,
    Least
<1>13. CASE Content
  BY <1>13 DEF Content, Span, Consume, HasBodyBytes, Least
<1>14. CASE ContentStalls
  BY <1>14 DEF ContentStalls, Span, Consume, HasBodyBytes, Least
<1>15. CASE ContentRefused
  BY <1>15 DEF ContentRefused, ClientError, Span, HasBodyBytes,
    BeginResponse, Least
<1>16. CASE RequestFinished
  BY <1>16 DEF RequestFinished, BeginResponse, BodyFinished
<1>17. CASE RequestRefused
  BY <1>17 DEF RequestRefused, ClientError, BodyFinished, BeginResponse
<1>18. CASE OutputTaken
  BY <1>18 DEF OutputTaken, HasOutput
<1>19. CASE OutputBlocks
  BY <1>19 DEF OutputBlocks, HasOutput
<1>20. CASE OutputFails
  BY <1>20 DEF OutputFails, HasOutput
<1>21. CASE SerializeHeader
  BY <1>21 DEF SerializeHeader, Least
<1>22. CASE HeaderWritten
  BY <1>22 DEF HeaderWritten
<1>23. CASE Supply
  BY <1>23 DEF Supply, Least, NeedsOutput
<1>24. CASE SupplyStalls
  BY <1>24 DEF SupplyStalls, Least, NeedsOutput
<1>25. CASE SupplyFails
  BY <1>25 DEF SupplyFails, NeedsOutput
<1>26. CASE ResponseWritten
  BY <1>26 DEF ResponseWritten
<1>27. CASE SocketIsReady
  BY <1>27 DEF SocketIsReady
<1>28. CASE SocketIsIdleInput
  BY <1>28 DEF SocketIsIdleInput, ClientError, BeginResponse
<1>29. CASE SocketIsIdleOutput
  BY <1>29 DEF SocketIsIdleOutput
<1>30. CASE ClientStops
  BY <1>30 DEF ClientStops
<1>31. CASE Closed
  BY <1>31 DEF Closed, vars
<1>32. CASE UNCHANGED vars
  BY <1>32 DEF vars
<1> QED
  BY <1>1, <1>2, <1>3, <1>4, <1>5, <1>6, <1>7, <1>8, <1>9, <1>10, <1>11,
    <1>12, <1>13, <1>14, <1>15, <1>16, <1>17, <1>18, <1>19, <1>20, <1>21,
    <1>22, <1>23, <1>24, <1>25, <1>26, <1>27, <1>28, <1>29, <1>30, <1>31,
    <1>32
  DEF Next, ReadRequest, WriteResponse, Wake

(* With a handler that never asks to be called later, a session waits only *)
(* for what the event loop can report: it never waits for input while it   *)
(* holds unread bytes of a request.                                        *)
THEOREM ParkingIsJustified ==
  ASSUME ~HandlerMayStall
  PROVE  Spec => []ParkedForAReason
<1>1. Init => ParkedForAReason
  BY DEF Init, ParkedForAReason, InputStates
<1> QED
  BY <1>1, ParkedNext, PTL DEF Spec

-----------------------------------------------------------------------------
(* One step of the session is one step of the handler's protocol, or none. *)
LEMMA ProtocolStep ==
  Inv /\ [Next]_vars => [Handler!HNext]_(Handler!hvars)
<1> SUFFICES ASSUME Inv, [Next]_vars
             PROVE  [Handler!HNext]_(Handler!hvars)
  OBVIOUS
<1> USE DEF Inv, TypeOK, ResponseIsFramed, CallMatchesState, Message,
            InputStates, OutputStates, Callback, In, Calls, inputVars,
            outputVars, Need, Handler!hvars, Handler!HNext, Handler!HAccept,
            Handler!HContent, Handler!HFinish, Handler!HError,
            Handler!HSupply, Handler!Called, Handler!Between,
            Handler!WithinRequest
<1>1. CASE WaitFindsData
  BY <1>1 DEF WaitFindsData, StartHeader
<1>2. CASE WaitReadsData
  BY <1>2 DEF WaitReadsData, DataArrives, StartHeader
<1>3. CASE WaitBlocks
  BY <1>3 DEF WaitBlocks
<1>4. CASE WaitEnds
  BY <1>4 DEF WaitEnds
<1>5. CASE InputArrives
  BY <1>5 DEF InputArrives, DataArrives, NeedsInput
<1>6. CASE InputBlocks
  BY <1>6 DEF InputBlocks, NeedsInput
<1>7. CASE InputTruncated
  BY <1>7 DEF InputTruncated, ClientError, NeedsInput, BeginResponse
<1>8. CASE InputFails
  BY <1>8 DEF InputFails, NeedsInput
<1>9. CASE HeaderTooLarge
  BY <1>9 DEF HeaderTooLarge, ClientError, BeginResponse
<1>10. CASE ParseMore
  BY <1>10 DEF ParseMore, Span, Consume, HasHeaderBytes, HeaderRest, Least
<1>11. CASE HeaderRefused
  BY <1>11 DEF HeaderRefused, ClientError, Span, Least, Consume,
    HasHeaderBytes, HeaderRest, BeginResponse
<1>12. CASE HeaderAccepted
  BY <1>12 DEF HeaderAccepted, Span, Consume, HasHeaderBytes, HeaderRest,
    Least
<1>13. CASE Content
  BY <1>13 DEF Content, Span, Consume, HasBodyBytes, Least
<1>14. CASE ContentStalls
  BY <1>14 DEF ContentStalls, Span, Consume, HasBodyBytes, Least
<1>15. CASE ContentRefused
  BY <1>15 DEF ContentRefused, ClientError, Span, HasBodyBytes,
    BeginResponse, Least
<1>16. CASE RequestFinished
  BY <1>16 DEF RequestFinished, BeginResponse, BodyFinished
<1>17. CASE RequestRefused
  BY <1>17 DEF RequestRefused, ClientError, BodyFinished, BeginResponse
<1>18. CASE OutputTaken
  BY <1>18 DEF OutputTaken, HasOutput
<1>19. CASE OutputBlocks
  BY <1>19 DEF OutputBlocks, HasOutput
<1>20. CASE OutputFails
  BY <1>20 DEF OutputFails, HasOutput
<1>21. CASE SerializeHeader
  BY <1>21 DEF SerializeHeader, Least
<1>22. CASE HeaderWritten
  BY <1>22 DEF HeaderWritten
<1>23. CASE Supply
  BY <1>23 DEF Supply, Least, NeedsOutput
<1>24. CASE SupplyStalls
  BY <1>24 DEF SupplyStalls, Least, NeedsOutput
<1>25. CASE SupplyFails
  BY <1>25 DEF SupplyFails, NeedsOutput
<1>26. CASE ResponseWritten
  BY <1>26 DEF ResponseWritten
<1>27. CASE SocketIsReady
  BY <1>27 DEF SocketIsReady
<1>28. CASE SocketIsIdleInput
  BY <1>28 DEF SocketIsIdleInput, ClientError, BeginResponse
<1>29. CASE SocketIsIdleOutput
  BY <1>29 DEF SocketIsIdleOutput
<1>30. CASE ClientStops
  BY <1>30 DEF ClientStops
<1>31. CASE Closed
  BY <1>31 DEF Closed, vars
<1>32. CASE UNCHANGED vars
  BY <1>32 DEF vars
<1> QED
  BY <1>1, <1>2, <1>3, <1>4, <1>5, <1>6, <1>7, <1>8, <1>9, <1>10, <1>11,
    <1>12, <1>13, <1>14, <1>15, <1>16, <1>17, <1>18, <1>19, <1>20, <1>21,
    <1>22, <1>23, <1>24, <1>25, <1>26, <1>27, <1>28, <1>29, <1>30, <1>31,
    <1>32
  DEF Next, ReadRequest, WriteResponse, Wake

(* The session implements HandlerProtocol: for every size of the buffers   *)
(* and of the messages the handler's functions are called in the promised  *)
(* order and with the promised amounts.                                    *)
THEOREM ImplementsProtocol == Spec => HandlerSeesProtocol
<1>1. Init => Handler!HInit
  BY DEF Init, Need, Handler!HInit
<1> QED
  BY InvInit, InvNext, <1>1, ProtocolStep, PTL
  DEF Spec, HandlerSeesProtocol, Handler!HSpec
=============================================================================
