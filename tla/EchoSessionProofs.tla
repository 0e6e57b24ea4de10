------------------------- MODULE EchoSessionProofs -------------------------
(***************************************************************************)
(* Proofs about EchoSession: the echo handler meets what RequestProcessor  *)
(* assumes of a handler, for buffers, requests and texts of every size.    *)
(***************************************************************************)
EXTENDS EchoSession, RequestProcessorProofs

(* What the handler has collected of the request that is being read. *)
Collected ==
  state = "read_request_body" => body = head + msg.body - left

EchoInv ==
  /\ body \in Nat
  /\ head \in 0..MaxText
  /\ offset \in Nat \cup {Stale}
  /\ OffsetIsValid
  /\ EchoIsWhole
  /\ Collected

(* What is due of a response that is being written, and the handler has it. *)
LEMMA SupplyIsDue ==
  ASSUME Inv, NeedsOutput
  PROVE  /\ supply = left
         /\ supply \in Nat \ {0}
         /\ state \in OutputStates
BY DEF Inv, TypeOK, ResponseIsFramed, NeedsOutput, In, OutputStates

(* Every step of the echo session is one of RequestProcessor. *)
LEMMA EchoStep ==
  ASSUME Inv, EchoInv, [EchoNext]_evars
  PROVE  [Next]_vars
<1>1. CASE EchoAccept
  BY <1>1 DEF EchoAccept, Next, ReadRequest
<1>2. CASE EchoContent
  BY <1>2 DEF EchoContent, Next, ReadRequest
<1>3. CASE EchoFinish
  BY <1>3 DEF EchoFinish, Next, ReadRequest
<1>4. CASE EchoError
  BY <1>4 DEF EchoError, Next, ReadRequest, Wake
<1>5. CASE EchoSupply
  <2>1. NeedsOutput /\ supply \in Nat \ {0} /\ body - offset = supply
    BY <1>5, SupplyIsDue DEF EchoSupply, EchoInv, OffsetIsValid
  <2>2. PICK n \in 0..BufferSize :
          /\ n = Least(BufferSize, supply)
          /\ send' = n /\ supply' = supply - n
          /\ IF n > 0 THEN Continue ELSE Return("more_data_needed")
    BY <1>5, <2>1 DEF EchoSupply, read_response_content
  <2>3. n \in 1..Least(BufferSize, supply)
    BY <2>1, <2>2, SizesAssumption DEF Least
  <2>4. Supply
    BY <1>5, <2>2, <2>3 DEF EchoSupply, Supply
  <2> QED BY <2>4 DEF Next, WriteResponse
<1>6. CASE EchoOther
  BY <1>6 DEF EchoOther, Next, ReadRequest, WriteResponse, Wake
<1>7. CASE UNCHANGED evars
  BY <1>7 DEF evars
<1> QED BY <1>1, <1>2, <1>3, <1>4, <1>5, <1>6, <1>7 DEF EchoNext

LEMMA EchoInvInit == EchoInit => EchoInv
BY EchoAssumption
   DEF EchoInit, EchoInv, Init, OffsetIsValid, EchoIsWhole, Collected,
       OutputStates, Stale

(* Nothing is taken from a body whose iterator is at its beginning. *)
LEMMA NothingTaken ==
  ASSUME NEW n \in Nat, NEW m, NEW k, m = 0, k = n
  PROVE  k - m = n
OBVIOUS

LEMMA EchoInvNext ==
  ASSUME Inv, EchoInv, [EchoNext]_evars
  PROVE  EchoInv'
<1> USE EchoAssumption
    DEF EchoInv, OffsetIsValid, EchoIsWhole, Collected, OutputStates,
        InputStates, Stale
<1>0. Inv'
  BY EchoStep, InvNext
<1>1. CASE EchoAccept
  BY <1>1 DEF EchoAccept, HeaderAccepted, finalize_header, Inv, TypeOK,
              Message
<1>2. CASE EchoContent
  <2>1. /\ state = "read_request_body" /\ state' = state /\ msg' = msg
        /\ left' = left - Span /\ body' = body + Span
        /\ offset' = Stale /\ head' = head
    BY <1>2 DEF EchoContent, Content, HasBodyBytes, In, Consume, Inv, TypeOK,
                process_request_content, Span, Least
  <2>2. Span \in Nat
    BY DEF Span, Least, Inv, TypeOK
  <2> QED BY <2>1, <2>2 DEF Inv, TypeOK, Message
<1>3. CASE EchoFinish
  <2>1. /\ state = "read_request_body" /\ left = 0
        /\ state' = "write_response_header"
        /\ length' = body /\ supply' = length'
        /\ offset' = 0 /\ UNCHANGED <<body, head, msg, readDisabled>>
    BY <1>3 DEF EchoFinish, RequestFinished, BodyFinished, In, BeginResponse,
                finalize_body
  <2> QED BY <2>1 DEF Inv, TypeOK, Message
<1>4. CASE EchoError
  <2>1. /\ state' = "write_response_header"
        /\ length' \in 0..MaxResponse /\ supply' = length'
        /\ body' = length' /\ offset' = 0 /\ head' = head
    BY <1>4 DEF EchoError, SocketIsIdleInput, InputTruncated, HeaderTooLarge,
                HeaderRefused, ClientError, BeginResponse, finalize_error
  <2>2. EchoIsWhole'
    BY <1>4, Zenon DEF EchoError, SocketIsIdleInput, InputTruncated,
                       HeaderTooLarge, HeaderRefused, ClientError
  <2>3. length' \in Nat
    BY <2>1, SizesAssumption
  <2>4. /\ offset' \in 0..body' /\ body' - offset' = supply'
        /\ state' # "read_request_body"
    <3> HIDE DEF EchoInv, OffsetIsValid, EchoIsWhole, Collected
    <3>1. offset' \in 0..body'
      BY <2>1, <2>3
    <3>2. body' - offset' = supply'
      BY <2>1, <2>3, NothingTaken
    <3> QED BY <2>1, <3>1, <3>2
  <2>5. body' \in Nat /\ head' \in 0..MaxText /\ offset' \in Nat \cup {Stale}
    BY <2>1, <2>3
  <2> QED BY <2>2, <2>4, <2>5, Zenon
<1>5. CASE EchoSupply
  <2>1. state \in OutputStates /\ supply \in Nat \ {0}
    BY <1>5, SupplyIsDue DEF EchoSupply
  <2>2. PICK n \in 0..BufferSize :
          /\ n = Least(BufferSize, body - offset)
          /\ offset' = offset + n
          /\ supply' = supply - n
    BY <1>5 DEF EchoSupply, read_response_content
  <2>3. UNCHANGED <<state, length, readDisabled, msg, body, head>>
    BY <1>5 DEF EchoSupply, read_response_content, inputVars
  <2> QED BY <2>1, <2>2, <2>3 DEF Least
<1>6. CASE EchoOther
  <2>1. UNCHANGED echo
    BY <1>6 DEF EchoOther
  <2>2. CASE /\ state' = state
             /\ UNCHANGED <<length, supply, readDisabled, msg>>
             /\ state = "read_request_body" => left' = left
    BY <2>1, <2>2 DEF echo
  <2>3. CASE state' \in {"wait_for_data", "read_request_header"}
    BY <2>1, <2>3 DEF echo
  <2>4. CASE HeaderWritten
    BY <2>1, <2>4 DEF echo, HeaderWritten, In, inputVars, outputVars
  <2>5. CASE WaitFindsData \/ WaitReadsData \/ ResponseWritten
    BY <2>3, <2>5 DEF WaitFindsData, WaitReadsData, StartHeader,
                      ResponseWritten
  <2>6. CASE \/ ClientStops \/ SocketIsReady \/ SocketIsIdleOutput
             \/ WaitBlocks \/ WaitEnds \/ InputArrives \/ InputBlocks
             \/ InputFails \/ OutputBlocks \/ OutputFails \/ Closed
    BY <2>2, <2>6 DEF ClientStops, SocketIsReady, SocketIsIdleOutput,
         WaitBlocks, WaitEnds, InputArrives, InputBlocks, InputFails,
         OutputBlocks, OutputFails, Closed, inputVars, outputVars, vars
  <2>7. CASE ParseMore \/ OutputTaken \/ SerializeHeader
    BY <2>2, <2>7 DEF ParseMore, HasHeaderBytes, OutputTaken, HasOutput,
         SerializeHeader, In, inputVars, outputVars
  <2> QED BY <1>6, <2>4, <2>5, <2>6, <2>7 DEF EchoOther
<1>7. CASE UNCHANGED evars
  BY <1>7 DEF evars, vars, echo, inputVars, outputVars
<1> QED BY <1>1, <1>2, <1>3, <1>4, <1>5, <1>6, <1>7 DEF EchoNext

LEMMA EchoInvariant == EchoSpec => [](Inv /\ EchoInv)
<1>1. EchoInit => Inv /\ EchoInv
  BY InvInit, EchoInvInit DEF EchoInit
<1>2. Inv /\ EchoInv /\ [EchoNext]_evars => Inv' /\ EchoInv'
  BY EchoStep, InvNext, EchoInvNext
<1> QED BY <1>1, <1>2, PTL DEF EchoSpec

(* The echo application's session is a behaviour of RequestProcessor, and  *)
(* the theorems of RequestProcessorProofs hold of it.                      *)
THEOREM EchoRefinesProcessor == EchoSpec => EchoImplementsProcessor
<1>1. EchoInit => Init
  BY DEF EchoInit
<1>2. Inv /\ EchoInv /\ [EchoNext]_evars => [Next]_vars
  BY EchoStep
<1> QED BY <1>1, <1>2, EchoInvariant, PTL
       DEF EchoSpec, EchoImplementsProcessor, Spec

(* m_read_offset is valid whenever read_response_content may be called. *)
THEOREM EchoOffset == EchoSpec => []OffsetIsValid
<1>1. EchoInv => OffsetIsValid
  BY DEF EchoInv
<1> QED BY <1>1, EchoInvariant, PTL

(* The response to an accepted request is its header and its body. *)
THEOREM EchoWhole == EchoSpec => []EchoIsWhole
<1>1. EchoInv => EchoIsWhole
  BY DEF EchoInv
<1> QED BY <1>1, EchoInvariant, PTL
=============================================================================
