--------------------------- MODULE ResponseHeader ---------------------------
(***************************************************************************)
(* A response header on its way from the request handler to the send       *)
(* buffer: response_info in request_processor, which the handler fills     *)
(* with field_map::append, response_header_serializer, and the length that *)
(* write_response_body is made with.                                       *)
(***************************************************************************)
EXTENDS RequestGrammar

CONSTANTS
  Reason,         \* the codes of status, with the phrases of to_string
  HandlerFields,  \* fields that a handler may append beside its length
  MaxLength,      \* bound: the longest response body
  MaxText,        \* bound: fields are appended while their text is shorter
  WriteSizes,      \* sizes of the spans that serialize is given
  LocalCapacity   \* what a std::string holds without allocating: 15

(* enum class status *)
status ==
  (200..206) \cup (300..304) \cup {307, 308} \cup (400..418)
    \cup {421, 422, 423, 425, 426, 428, 429, 431, 451} \cup (500..505)

ASSUME ReasonAssumption ==
  /\ DOMAIN Reason \subseteq status
  /\ \A code \in DOMAIN Reason :
       /\ Reason[code] \in Seq(Byte) \ {<<>>}
       /\ \A i \in DOMAIN Reason[code] : Reason[code][i] \notin {CR, LF}
ASSUME BoundsAssumption ==
  /\ MaxLength \in 0..SizeMax
  /\ MaxText \in Nat
  /\ LocalCapacity \in Nat
  /\ WriteSizes \subseteq Nat \ {0}

ASSUME HandlerAssumption ==
  \A f \in HandlerFields :
    /\ f.name \in Seq(Byte)
    /\ f.value \in Seq(Byte)
    /\ ~SameName(f.name, ContentLength)

VARIABLES
  phase,      \* who has the header: nobody, the handler, the serializer...
  forError,   \* the handler is in finalize_state for an error
  fields,     \* response_info.header.fields
  announced,  \* the length that the handler has appended, if any
  text,       \* m_string_to_write
  taken,      \* bytes of it before m_range_to_write
  dangling,   \* m_range_to_write points into a string that is gone
  bodyLength  \* m_bytes_to_write of write_response_body

responseVars == <<phase, forError, fields, announced, text, taken, dangling,
                  bodyLength>>

serializer == <<text, taken, dangling, bodyLength>>

is_error(code) == code >= 400 /\ code < 599

(* is_error knows every error among the codes, whatever its limits are. *)
ASSUME ErrorsAssumption == \A code \in status : code >= 400 <=> is_error(code)

ResponseInit ==
  /\ phase = "idle"
  /\ forError = FALSE
  /\ fields = NoFields
  /\ announced = None
  /\ text = <<>>
  /\ taken = 0
  /\ dangling = FALSE
  /\ bodyLength = 0

-----------------------------------------------------------------------------
(* response_info is reset, and a finalize_state of the handler is called. *)
Begin ==
  /\ phase \in {"idle", "body"}
  /\ phase' = "handler"
  /\ forError' \in BOOLEAN
  /\ fields' = NoFields
  /\ announced' = None
  /\ UNCHANGED serializer

(* fields.append("Content-Length", std::to_string(n)) *)
SetLength ==
  /\ phase = "handler"
  /\ announced = None
  /\ \E n \in 0..MaxLength :
       /\ announced' = n
       /\ fields' = append(fields, ContentLength, Decimal[n])
  /\ UNCHANGED <<phase, forError, serializer>>

(* field_map::append that trusts its caller. *)
SetFieldUnchecked ==
  /\ phase = "handler"
  /\ Len(FieldTexts(fields)) < MaxText
  /\ \E f \in HandlerFields :
       fields' = append(fields, f.name, f.value) /\ UNCHANGED phase
  /\ UNCHANGED <<forError, announced, serializer>>

(* field_map::append(std::string&&, std::string&&), which throws when the  *)
(* name or the value is not valid.                                         *)
SetField ==
  /\ phase = "handler"
  /\ Len(FieldTexts(fields)) < MaxText
  /\ \E f \in HandlerFields :
       IF IsFieldName(f.name) /\ IsFieldValue(f.value)
       THEN fields' = append(fields, f.name, f.value) /\ UNCHANGED phase
       ELSE phase' = "thrown" /\ UNCHANGED fields
  /\ UNCHANGED <<forError, announced, serializer>>

(* A status line without the protocol. *)
StatusLineBare(code) ==
  VersionText(version(1, 1)) \o <<SP>> \o Decimal[code] \o <<SP>>
    \o Reason[code] \o CRLF

StatusLine(code) ==
  HTTP \o <<Slash>> \o VersionText(version(1, 1)) \o <<SP>> \o Decimal[code]
    \o <<SP>> \o Reason[code] \o CRLF

(* The constructor of response_header_serializer. *)
MakeSerializer(code) ==
  /\ phase' = "made"
  /\ text' = StatusLine(code) \o FieldTexts(fields) \o CRLF
  /\ taken' = 0
  /\ dangling' = FALSE
  /\ UNCHANGED <<forError, fields, announced, bodyLength>>

(* finalize_state returns an error, and response_info is used again. *)
RefuseKeepsFields ==
  /\ phase = "handler"
  /\ ~forError
  /\ \E code \in DOMAIN Reason : is_error(code)
  /\ forError' = TRUE
  /\ announced' = None
  /\ UNCHANGED <<phase, fields, serializer>>

(* finalize_state returns an error: case client_error_detected resets      *)
(* response_info and calls the handler again, for the error.               *)
Refuse ==
  /\ phase = "handler"
  /\ ~forError
  /\ \E code \in DOMAIN Reason : is_error(code)
  /\ forError' = TRUE
  /\ fields' = NoFields
  /\ announced' = None
  /\ UNCHANGED <<phase, serializer>>

(* The status line is set, and the state that writes the header is made. *)
Finish ==
  /\ phase = "handler"
  /\ \E code \in DOMAIN Reason :
       (is_error(code) <=> forError) /\ MakeSerializer(code)

(* The new state is moved into m_state.  The text moves with it if it is   *)
(* allocated; if it is not, the range is left behind.                      *)
MoveIntoState ==
  /\ phase = "made"
  /\ phase' = "header"
  /\ dangling' = (Len(text) <= LocalCapacity)
  /\ UNCHANGED <<forError, fields, announced, text, taken, bodyLength>>

serialize ==
  /\ phase = "header"
  /\ taken < Len(text)
  /\ \E n \in WriteSizes :
       taken' = IF taken + n < Len(text) THEN taken + n ELSE Len(text)
  /\ UNCHANGED <<phase, forError, fields, announced, text, dangling,
                 bodyLength>>

(* make_state_handler<write_response_body> *)
MakeBody ==
  /\ phase = "header"
  /\ taken = Len(text)
  /\ phase' = "body"
  /\ bodyLength' = get_content_length(fields)
  /\ UNCHANGED <<forError, fields, announced, text, taken, dangling>>

(* The exception leaves process_events. *)
Thrown == phase = "thrown" /\ UNCHANGED responseVars

ResponseNext ==
  \/ Begin \/ SetLength \/ SetField \/ Refuse \/ Finish
  \/ MoveIntoState \/ serialize \/ MakeBody \/ Thrown

ResponseSpec == ResponseInit /\ [][ResponseNext]_responseVars

-----------------------------------------------------------------------------
(* Correctness. *)

(* m_range_to_write, which is not adjusted when the serializer is moved,   *)
(* points into m_string_to_write all the same: no status and no choice of  *)
(* fields makes a text that fits into the string object itself.            *)
RangeSurvivesMove == phase = "header" => ~dangling

(* The length that write_response_body counts down from is the one that    *)
(* the handler announced last: the assertion in make_state_handler holds,  *)
(* also when the handler had filled in a header before it refused.         *)
LengthIsAnnounced ==
  phase = "body" =>
    bodyLength = IF announced = None THEN 0 ELSE announced

(* A client that reads the header finds the fields that the handler had    *)
(* put into it, each with its value and no other: what goes into the map   *)
(* cannot change the shape of the response.                                *)
TextGivesFields ==
  phase \in {"made", "header"} =>
    LET first == Place(text, CR, 1, Len(text)) + 2
        section == FieldLines(text, Len(text))[first]
    IN section.ec = "completed" /\ FieldsOf(section.lines) = fields
=============================================================================
