------------------------ MODULE RequestHeaderParser ------------------------
(***************************************************************************)
(* request_header_parser (http_request_header_parser.hpp) and what         *)
(* read_request_header makes of its result.                                *)
(*                                                                         *)
(* A client sends one of the Inputs.  The socket cuts it up: every call of *)
(* parse gets a span of the bytes that follow, and takes them one by one   *)
(* until the span is empty, the header is complete or there is an error.   *)
(* An action is one turn of the loop in parse.                             *)
(***************************************************************************)
EXTENDS RequestGrammar

CONSTANTS
  Inputs,    \* what clients may send
  SpanSizes  \* how many bytes a call of parse may be given

ASSUME InputsAssumption == Inputs \subseteq Seq(Byte)
ASSUME SpansAssumption == SpanSizes \subseteq Nat \ {0}

VARIABLES
  input,        \* what the client sends
  pos,          \* bytes of it that have been taken: ptr
  spanEnd,      \* end of the span of the current call of parse
  ec,           \* result of the last call, or "parsing" within a call
  state,        \* m_current_state
  afterNewline, \* m_state_after_newline
  buffer,       \* m_buffer
  fieldName,    \* m_current_field_name
  header,       \* m_req_header
  answer,       \* what read_request_header makes of it
  length        \* request_info.content_length

control == <<state, afterNewline>>
strings == <<buffer, fieldName>>
outcome == <<answer, length>>
vars == <<input, pos, spanEnd, ec, control, strings, header, outcome>>

(* The states that put every character into the buffer but one. *)
Stop ==
  [req_line_read_method                 |-> SP,
   req_line_read_req_target             |-> SP,
   req_line_read_protocol_name          |-> Slash,
   req_line_read_protocol_version_major |-> Dot,
   req_line_read_protocol_version_minor |-> CR,
   fields_read_name                     |-> Colon,
   fields_read_value                    |-> CR]

State ==
  DOMAIN Stop \cup
  {"fields_terminate_at_no_field_name", "fields_skip_ws_before_field_value",
   "fields_check_continuation", "fields_skip_ws_after_newline",
   "expect_linefeed", "expect_linefeed_and_return"}

ParseError ==
  {"bad_request_method", "bad_request_target", "wrong_protocol",
   "bad_protocol_version", "expected_linefeed", "bad_field_name",
   "bad_field_value"}

EmptyHeader ==
  [method |-> <<>>, target |-> <<>>, version |-> version(0, 0),
   fields |-> NoFields]

Init ==
  /\ input \in Inputs
  /\ pos = 0
  /\ spanEnd = 0
  /\ ec = "more_data_needed"
  /\ state = "req_line_read_method"
  /\ afterNewline = "req_line_read_method"
  /\ buffer = <<>>
  /\ fieldName = <<>>
  /\ header = EmptyHeader
  /\ answer = "none"
  /\ length = 0

-----------------------------------------------------------------------------
(* Calls of parse. *)

Call ==
  /\ ec = "more_data_needed"
  /\ pos < Len(input)
  /\ \E n \in SpanSizes : pos + n <= Len(input) /\ spanEnd' = pos + n
  /\ ec' = "parsing"
  /\ UNCHANGED <<input, pos, control, strings, header, outcome>>

(* A parser that keeps its buffer in a variable of parse. *)
OutOfDataForgets ==
  /\ ec = "parsing"
  /\ pos = spanEnd
  /\ ec' = "more_data_needed"
  /\ buffer' = <<>>
  /\ UNCHANGED <<input, pos, spanEnd, control, fieldName, header, outcome>>

OutOfData ==
  /\ ec = "parsing"
  /\ pos = spanEnd
  /\ ec' = "more_data_needed"
  /\ UNCHANGED <<input, pos, spanEnd, control, strings, header, outcome>>

ch == input[pos + 1]

(* The loop takes a character in state s. *)
In(s) ==
  /\ ec = "parsing"
  /\ pos < spanEnd
  /\ state = s
  /\ pos' = pos + 1
  /\ UNCHANGED <<input, spanEnd, outcome>>

Goto(s) == state' = s /\ UNCHANGED <<ec, afterNewline>>

(* '\r': a line feed must follow, and then state s. *)
ExpectLinefeedThen(s) ==
  /\ state' = "expect_linefeed"
  /\ afterNewline' = s
  /\ UNCHANGED ec

Fail(code) == ec' = code /\ UNCHANGED <<control, strings, header>>

(* The default branches that only collect. *)
Collect ==
  \E s \in DOMAIN Stop :
    /\ In(s)
    /\ ch # Stop[s]
    /\ buffer' = Append(buffer, ch)
    /\ UNCHANGED <<ec, control, fieldName, header>>

-----------------------------------------------------------------------------
(* The request line. *)

EndMethod ==
  /\ In("req_line_read_method")
  /\ ch = SP
  /\ IF IsMethod(buffer)
     THEN /\ Goto("req_line_read_req_target")
          /\ header' = [header EXCEPT !.method = buffer]
          /\ buffer' = <<>>
          /\ UNCHANGED fieldName
     ELSE Fail("bad_request_method")

EndTarget ==
  /\ In("req_line_read_req_target")
  /\ ch = SP
  /\ IF IsTarget(buffer)
     THEN /\ Goto("req_line_read_protocol_name")
          /\ header' = [header EXCEPT !.target = buffer]
          /\ buffer' = <<>>
          /\ UNCHANGED fieldName
     ELSE Fail("bad_request_target")

EndProtocolName ==
  /\ In("req_line_read_protocol_name")
  /\ ch = Slash
  /\ IF buffer = HTTP
     THEN /\ Goto("req_line_read_protocol_version_major")
          /\ buffer' = <<>>
          /\ UNCHANGED <<fieldName, header>>
     ELSE Fail("wrong_protocol")

EndMajor ==
  /\ In("req_line_read_protocol_version_major")
  /\ ch = Dot
  /\ LET val == to_number(buffer, VersionMax) IN
     IF val # None
     THEN /\ Goto("req_line_read_protocol_version_minor")
          /\ header' = [header EXCEPT !.version.major = val]
          /\ buffer' = <<>>
          /\ UNCHANGED fieldName
     ELSE Fail("bad_protocol_version")

EndMinor ==
  /\ In("req_line_read_protocol_version_minor")
  /\ ch = CR
  /\ LET val == to_number(buffer, VersionMax) IN
     IF val # None
     THEN /\ ExpectLinefeedThen("fields_terminate_at_no_field_name")
          /\ header' = [header EXCEPT !.version.minor = val]
          /\ buffer' = <<>>
          /\ UNCHANGED fieldName
     ELSE Fail("bad_protocol_version")

Linefeed ==
  /\ In("expect_linefeed")
  /\ IF ch = LF
     THEN Goto(afterNewline) /\ UNCHANGED <<strings, header>>
     ELSE Fail("expected_linefeed")

-----------------------------------------------------------------------------
(* The fields. *)

(* The first character of a name is not looked at, ':' included. *)
StartField ==
  /\ In("fields_terminate_at_no_field_name")
  /\ IF ch = CR
     THEN Goto("expect_linefeed_and_return") /\ UNCHANGED buffer
     ELSE Goto("fields_read_name") /\ buffer' = Append(buffer, ch)
  /\ UNCHANGED <<fieldName, header>>

EndName ==
  /\ In("fields_read_name")
  /\ ch = Colon
  /\ Goto("fields_skip_ws_before_field_value")
  /\ fieldName' = buffer
  /\ buffer' = <<>>
  /\ UNCHANGED header

StartValue ==
  /\ In("fields_skip_ws_before_field_value")
  /\ ch # CR
  /\ IF is_strict_whitespace(ch)
     THEN UNCHANGED <<ec, control, buffer>>
     ELSE Goto("fields_read_value") /\ buffer' = Append(buffer, ch)
  /\ UNCHANGED <<fieldName, header>>

(* A field without a value is stored at once, and is not continued. *)
EmptyValue ==
  /\ In("fields_skip_ws_before_field_value")
  /\ ch = CR
  /\ IF IsFieldName(fieldName)
     THEN /\ header' = [header EXCEPT !.fields = append(@, fieldName, <<>>)]
          /\ fieldName' = <<>>
          /\ ExpectLinefeedThen("fields_terminate_at_no_field_name")
          /\ UNCHANGED buffer
     ELSE Fail("bad_field_name")

EndValue ==
  /\ In("fields_read_value")
  /\ ch = CR
  /\ ExpectLinefeedThen("fields_check_continuation")
  /\ UNCHANGED <<strings, header>>

(* White space at the start of a line: the value goes on. *)
ContinueValue ==
  /\ In("fields_check_continuation")
  /\ is_strict_whitespace(ch)
  /\ Goto("fields_skip_ws_after_newline")
  /\ UNCHANGED <<strings, header>>

(* The character after a value's line shows that the value is complete.    *)
(* It is the first one of the next name, or of the end of the header.      *)
StoreField ==
  /\ In("fields_check_continuation")
  /\ ~is_strict_whitespace(ch)
  /\ LET value == rtrim(buffer) IN
     IF ~IsFieldName(fieldName) THEN Fail("bad_field_name")
     ELSE IF ~IsFieldValue(value)
     THEN /\ ec' = "bad_field_value"
          /\ fieldName' = <<>>
          /\ buffer' = value
          /\ UNCHANGED <<control, header>>
     ELSE /\ header' = [header EXCEPT !.fields = append(@, fieldName, value)]
          /\ fieldName' = <<>>
          /\ IF ch = CR
             THEN Goto("expect_linefeed_and_return") /\ buffer' = <<>>
             ELSE Goto("fields_read_name") /\ buffer' = <<ch>>

SkipWsAfterNewline ==
  /\ In("fields_skip_ws_after_newline")
  /\ IF ch = CR
     THEN ExpectLinefeedThen("fields_check_continuation") /\ UNCHANGED buffer
     ELSE IF is_strict_whitespace(ch)
     THEN UNCHANGED <<ec, control, buffer>>
     ELSE Goto("fields_read_value") /\ buffer' = buffer \o <<SP, ch>>
  /\ UNCHANGED <<fieldName, header>>

FinalLinefeed ==
  /\ In("expect_linefeed_and_return")
  /\ ec' = IF ch = LF THEN "completed" ELSE "expected_linefeed"
  /\ UNCHANGED <<control, strings, header>>

-----------------------------------------------------------------------------
(* read_request_header, when parse is done. *)

(* take_result, and the two tests before the handler gets the header. *)
HeaderCompleted ==
  /\ ec = "completed"
  /\ answer = "none"
  /\ LET content_length == get_content_length(header.fields) IN
     IF header.version # version(1, 1)
     THEN answer' = "http_version_not_supported" /\ UNCHANGED length
     ELSE IF content_length = None
     THEN answer' = "bad_request" /\ UNCHANGED length
     ELSE answer' = "accepted" /\ length' = content_length
  /\ UNCHANGED <<input, pos, spanEnd, ec, control, strings, header>>

HeaderRefused ==
  /\ ec \in ParseError
  /\ answer = "none"
  /\ answer' = "bad_request"
  /\ UNCHANGED <<input, pos, spanEnd, ec, control, strings, header, length>>

Parse ==
  \/ Call \/ OutOfData \/ Collect
  \/ EndMethod \/ EndTarget \/ EndProtocolName \/ EndMajor \/ EndMinor
  \/ Linefeed \/ StartField \/ EndName \/ StartValue \/ EmptyValue
  \/ EndValue \/ ContinueValue \/ StoreField \/ SkipWsAfterNewline
  \/ FinalLinefeed \/ HeaderCompleted \/ HeaderRefused

(* An answer has been found, or the client sends no more. *)
Done ==
  /\ answer # "none" \/ (ec = "more_data_needed" /\ pos = Len(input))
  /\ UNCHANGED vars

Next == Parse \/ Done

Spec == Init /\ [][Next]_vars

-----------------------------------------------------------------------------
(* Correctness. *)

HeaderType ==
  /\ DOMAIN header = {"method", "target", "version", "fields"}
  /\ header.method \in Seq(Byte)
  /\ header.target \in Seq(Byte)
  /\ header.version \in [major : 0..VersionMax, minor : 0..VersionMax]
  /\ DOMAIN header.fields \subseteq Seq(Byte)
  /\ \A name \in DOMAIN header.fields : header.fields[name] \in Seq(Byte)

(* The types, and ptr is never moved past the end of the span that parse   *)
(* was given, nor the span past what was read.                             *)
TypeOK ==
  /\ input \in Seq(Byte)
  /\ pos \in 0..spanEnd
  /\ spanEnd \in 0..Len(input)
  /\ ec \in {"more_data_needed", "parsing", "completed"} \cup ParseError
  /\ state \in State
  /\ afterNewline \in State
  /\ buffer \in Seq(Byte)
  /\ fieldName \in Seq(Byte)
  /\ HeaderType
  /\ answer \in {"none", "accepted", "bad_request",
                 "http_version_not_supported"}
  /\ length \in 0..SizeMax

(* The states between a name and the end of its value. *)
ReadsValue ==
  \/ state \in {"fields_skip_ws_before_field_value", "fields_read_value",
                "fields_check_continuation", "fields_skip_ws_after_newline"}
  \/ state = "expect_linefeed" /\ afterNewline = "fields_check_continuation"

(* The two strings that the states share are handed over empty: the       *)
(* assertion of fields_skip_ws_before_field_value holds, no state starts  *)
(* with what an earlier one collected, and a name is remembered exactly   *)
(* while its value is read.                                               *)
BufferIsHandedOver ==
  /\ state \in {"fields_skip_ws_before_field_value",
                "fields_terminate_at_no_field_name",
                "expect_linefeed_and_return"} => buffer = <<>>
  /\ state = "fields_read_name" => buffer # <<>>
  /\ ec # "bad_field_value" => (ReadsValue <=> fieldName # <<>>)

(* Whatever a client sends, and however its bytes arrive, what is stored   *)
(* of it is clean: names are tokens and differ in more than their case,    *)
(* values are printable with white space only inside, so that no header    *)
(* holds a line break; this is kept by lists that are put together from    *)
(* several lines.                                                          *)
FieldsAreValid ==
  /\ \A name \in DOMAIN header.fields :
       IsFieldName(name) /\ IsFieldValue(header.fields[name])
  /\ \A a, b \in DOMAIN header.fields : SameName(a, b) => a = b

(* A header is complete when the bytes taken end with an empty line, so    *)
(* that the next byte is the first one of the body; and no sooner than the *)
(* request line has been read.                                             *)
EndsAtBlankLine ==
  ec = "completed" =>
    /\ pos >= 4
    /\ SubSeq(input, pos - 3, pos) = CRLF \o CRLF
    /\ IsMethod(header.method)
    /\ IsTarget(header.target)

Result == IF ec = "parsing" THEN "more_data_needed" ELSE ec

(* After every byte the parser has found what the grammar says of the      *)
(* bytes so far, wherever the socket has cut them: the same result, the    *)
(* same error at the same byte, and in the end the same header.            *)
MatchesGrammar ==
  LET meaning == Meaning(input, pos) IN
  /\ Result = meaning.ec
  /\ ec = "completed" => header = meaning.header

(* A request is accepted only if its length is beyond doubt: the lines     *)
(* that give a length, whatever the case of their names, hold one number,  *)
(* and that is the number of bytes that read_request_body will take.       *)
LengthIsUnambiguous ==
  answer = "accepted" =>
    LET lines == Meaning(input, pos).lines
        lengths == {i \in DOMAIN lines : SameName(lines[i][1], ContentLength)}
        given == {i \in lengths : lines[i][2] # <<>>}
    IN IF lengths = {} THEN length = 0
       ELSE \E i \in given : given = {i} /\ length = Numeral(lines[i][2])
=============================================================================
