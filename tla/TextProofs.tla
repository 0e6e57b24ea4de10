----------------------------- MODULE TextProofs -----------------------------
(***************************************************************************)
(* Proofs about what turns text into data and data into text:              *)
(* RequestHeaderParser for every set of inputs and every way of cutting    *)
(* them into spans, CookieParser for every string and every store,         *)
(* UriComponent for every text, and ResponseHeader for all codes, fields   *)
(* and lengths.                                                            *)
(***************************************************************************)
EXTENDS RequestHeaderParser, ResponseHeader, CookieParser, UriComponent,
        TextLemmas

-----------------------------------------------------------------------------
(* The invariant. *)

(* The parser has not reached an end yet. *)
Working == ec \in {"more_data_needed", "parsing"}

(* What a state says about the bytes just taken: they are the part of a    *)
(* line break, or of the two that end the header, that comes before it.    *)
LastBytes ==
  /\ state = "expect_linefeed" => pos >= 1 /\ input[pos] = CR
  /\ state \in {"fields_terminate_at_no_field_name",
                "fields_check_continuation"} =>
       pos >= 2 /\ input[pos - 1] = CR /\ input[pos] = LF
  /\ state = "expect_linefeed_and_return" =>
       /\ pos >= 3
       /\ input[pos - 2] = CR
       /\ input[pos - 1] = LF
       /\ input[pos] = CR

(* Two states can follow a line feed; before one of them the buffer has    *)
(* been given away.                                                        *)
AfterNewline ==
  state = "expect_linefeed" =>
    \/ afterNewline = "fields_check_continuation"
    \/ afterNewline = "fields_terminate_at_no_field_name" /\ buffer = <<>>

RequestLineRead ==
  /\ state # "req_line_read_method" => IsMethod(header.method)
  /\ state \notin {"req_line_read_method", "req_line_read_req_target"} =>
       IsTarget(header.target)

Handover == BufferIsHandedOver /\ AfterNewline

Places == RequestLineRead /\ (Working => LastBytes) /\ EndsAtBlankLine

IInv == TypeOK /\ FieldsAreValid /\ Handover /\ Places

LEMMA StateNames ==
  /\ DOMAIN Stop = {"req_line_read_method", "req_line_read_req_target",
                    "req_line_read_protocol_name",
                    "req_line_read_protocol_version_major",
                    "req_line_read_protocol_version_minor",
                    "fields_read_name", "fields_read_value"}
  /\ State = DOMAIN Stop \cup
       {"fields_terminate_at_no_field_name",
        "fields_skip_ws_before_field_value", "fields_check_continuation",
        "fields_skip_ws_after_newline", "expect_linefeed",
        "expect_linefeed_and_return"}
BY DEF Stop, State

(* The parts of the type invariant. *)
PlaceType ==
  /\ input \in Seq(Byte)
  /\ pos \in 0..spanEnd
  /\ spanEnd \in 0..Len(input)
  /\ answer \in {"none", "accepted", "bad_request",
                 "http_version_not_supported"}
  /\ length \in 0..SizeMax

ControlType ==
  /\ ec \in {"more_data_needed", "parsing", "completed"} \cup ParseError
  /\ state \in State
  /\ afterNewline \in State

StringType == buffer \in Seq(Byte) /\ fieldName \in Seq(Byte)

Header == HeaderType /\ FieldsAreValid

LEMMA Parts ==
  IInv <=> /\ PlaceType /\ ControlType /\ StringType
           /\ Header /\ Handover /\ Places
BY DEF IInv, TypeOK, PlaceType, ControlType, StringType, Header

LEMMA Combine ==
  ASSUME PlaceType', ControlType', StringType', Header', Handover', Places'
  PROVE  IInv'
BY DEF IInv, TypeOK, PlaceType, ControlType, StringType, Header

(* What every step of the loop does. *)
LEMMA LoopStep ==
  ASSUME IInv, NEW s, In(s)
  PROVE  /\ ec = "parsing" /\ state = s /\ Working /\ LastBytes
         /\ ch \in Byte /\ ch = input[pos + 1]
         /\ pos \in Nat /\ pos + 1 \in 1..Len(input)
         /\ pos' = pos + 1 /\ input' = input
         /\ PlaceType'
BY DEF IInv, Places, TypeOK, In, Working, PlaceType, ch, outcome

(* A step of the loop that ends in an error leaves everything else as it   *)
(* is.                                                                     *)
LEMMA FailKeeps ==
  ASSUME IInv, NEW s, In(s), NEW code \in ParseError, Fail(code)
  PROVE  IInv'
<1>0. /\ PlaceType' /\ ec = "parsing"
      /\ ~Working' /\ ec' # "completed" /\ ec' = code
  BY LoopStep DEF Fail, Working, ParseError
<1>1. ControlType' /\ StringType' /\ Header'
  BY <1>0, Parts DEF ControlType, StringType, Header, HeaderType,
                     FieldsAreValid, Fail, control, strings
<1>2. Handover'
  BY <1>0, Parts DEF Handover, BufferIsHandedOver, ReadsValue, AfterNewline,
                     Fail, control, strings
<1>3. Places'
  BY <1>0, Parts DEF Places, RequestLineRead, EndsAtBlankLine, Fail, control
<1> QED BY <1>0, <1>1, <1>2, <1>3, Combine

(* A step that leaves the header alone. *)
LEMMA HeaderUntouched ==
  ASSUME IInv, header' = header
  PROVE  /\ Header'
         /\ state # "req_line_read_method" => IsMethod(header'.method)
         /\ state \notin {"req_line_read_method", "req_line_read_req_target"}
              => IsTarget(header'.target)
BY DEF IInv, TypeOK, Header, HeaderType, FieldsAreValid, Places,
       RequestLineRead

(* A step that stores a field. *)
LEMMA FieldStored ==
  ASSUME IInv, NEW name \in Seq(Byte), NEW value \in Seq(Byte),
         IsFieldName(name), IsFieldValue(value),
         header' = [header EXCEPT !.fields = append(@, name, value)]
  PROVE  /\ Header'
         /\ header'.method = header.method
         /\ header'.target = header.target
<1>1. FieldsType(header.fields) /\ ValidFields(header.fields)
  BY DEF IInv, TypeOK, HeaderType, FieldsAreValid, FieldsType, ValidFields
<1>2. header'.fields = append(header.fields, name, value)
  BY DEF IInv, TypeOK, HeaderType
<1>3. FieldsType(header'.fields) /\ ValidFields(header'.fields)
  BY <1>1, <1>2, AppendKeepsValid
<1>4. /\ DOMAIN header' = DOMAIN header
      /\ header'.method = header.method
      /\ header'.target = header.target
      /\ header'.version = header.version
  BY DEF IInv, TypeOK, HeaderType
<1> QED BY <1>3, <1>4 DEF IInv, TypeOK, Header, HeaderType, FieldsAreValid,
                          FieldsType, ValidFields

LEMMA SpaceIsByte == SP \in Byte
BY DEF SP, Byte

(* Four bytes that are two line breaks. *)
LEMMA BlankLine ==
  ASSUME NEW s \in Seq(Byte), NEW n \in 4..Len(s),
         s[n - 3] = CR, s[n - 2] = LF, s[n - 1] = CR, s[n] = LF
  PROVE  SubSeq(s, n - 3, n) = CRLF \o CRLF
<1> DEFINE t == SubSeq(s, n - 3, n)
           u == CRLF \o CRLF
<1>1. t \in Seq(Byte) /\ Len(t) = 4
  OBVIOUS
<1>2. t[1] = CR /\ t[2] = LF /\ t[3] = CR /\ t[4] = LF
  OBVIOUS
<1>3. /\ u \in Seq(Byte) /\ Len(u) = 4
      /\ u[1] = CR /\ u[2] = LF /\ u[3] = CR /\ u[4] = LF
  BY DEF CRLF, CR, LF, Byte
<1> HIDE DEF t, u
<1>4. \A i \in 1..4 : t[i] = u[i]
  BY <1>2, <1>3
<1>5. t = u
  BY <1>1, <1>3, <1>4, SeqEqual
<1> QED BY <1>5 DEF t, u

-----------------------------------------------------------------------------
(* The invariant holds initially, and every step keeps it. *)

LEMMA InitIInv == Init => IInv
<1> SUFFICES ASSUME Init PROVE IInv
  OBVIOUS
<1>0. input \in Seq(Byte)
  BY InputsAssumption DEF Init
<1>1. TypeOK
  BY <1>0, StateNames, WidthAssumption
     DEF Init, TypeOK, HeaderType, EmptyHeader, NoFields, version
<1>2. FieldsAreValid
  BY DEF Init, FieldsAreValid, EmptyHeader, NoFields
<1>3. Handover
  BY DEF Init, Handover, BufferIsHandedOver, ReadsValue, AfterNewline
<1>4. Places
  BY DEF Init, Places, RequestLineRead, Working, LastBytes, EndsAtBlankLine
<1> QED BY <1>1, <1>2, <1>3, <1>4 DEF IInv

LEMMA EndMethodKeeps ==
  ASSUME IInv, EndMethod
  PROVE  IInv'
<1>0. In("req_line_read_method")
  BY DEF EndMethod
<1>1. /\ ec = "parsing" /\ Working /\ LastBytes /\ PlaceType'
      /\ state = "req_line_read_method"
      /\ ch \in Byte /\ ch = input[pos + 1]
      /\ pos \in Nat /\ pos + 1 \in 1..Len(input)
      /\ pos' = pos + 1 /\ input' = input
  BY <1>0, LoopStep
<1>2. CASE ~(IsMethod(buffer))
  BY <1>0, <1>2, FailKeeps DEF EndMethod, ParseError
<1>3. CASE IsMethod(buffer)
  <2>1. ControlType'
    BY <1>1, <1>3, StateNames, Parts DEF ControlType, EndMethod, Goto
  <2>2. StringType'
    BY <1>1, <1>3, Parts DEF StringType, EndMethod, Goto
  <2>3. Header'
    BY <1>1, <1>3, Parts DEF Header, HeaderType, FieldsAreValid, StringType,
       EndMethod
  <2>4. RequestLineRead'
    BY <1>1, <1>3, Parts DEF Header, HeaderType, Places, RequestLineRead,
       EndMethod, Goto
  <2>5. Handover'
    BY <1>1, <1>3, Parts DEF Handover, BufferIsHandedOver, ReadsValue,
       AfterNewline, StringType, EndMethod, Goto
  <2>6. LastBytes'
    BY <1>1, <1>3 DEF LastBytes, EndMethod, Goto
  <2>7. EndsAtBlankLine'
    BY <1>1, <1>3 DEF EndsAtBlankLine, EndMethod, Goto
  <2> QED BY <1>1, <2>1, <2>2, <2>3, <2>4, <2>5, <2>6, <2>7, Combine DEF Places
<1> QED BY <1>2, <1>3

LEMMA EndTargetKeeps ==
  ASSUME IInv, EndTarget
  PROVE  IInv'
<1>0. In("req_line_read_req_target")
  BY DEF EndTarget
<1>1. /\ ec = "parsing" /\ Working /\ LastBytes /\ PlaceType'
      /\ state = "req_line_read_req_target"
      /\ ch \in Byte /\ ch = input[pos + 1]
      /\ pos \in Nat /\ pos + 1 \in 1..Len(input)
      /\ pos' = pos + 1 /\ input' = input
  BY <1>0, LoopStep
<1>2. CASE ~(IsTarget(buffer))
  BY <1>0, <1>2, FailKeeps DEF EndTarget, ParseError
<1>3. CASE IsTarget(buffer)
  <2>1. ControlType'
    BY <1>1, <1>3, StateNames, Parts DEF ControlType, EndTarget, Goto
  <2>2. StringType'
    BY <1>1, <1>3, Parts DEF StringType, EndTarget, Goto
  <2>3. Header'
    BY <1>1, <1>3, Parts DEF Header, HeaderType, FieldsAreValid, StringType,
       EndTarget
  <2>4. RequestLineRead'
    BY <1>1, <1>3, Parts DEF Header, HeaderType, Places, RequestLineRead,
       EndTarget, Goto
  <2>5. Handover'
    BY <1>1, <1>3, Parts DEF Handover, BufferIsHandedOver, ReadsValue,
       AfterNewline, StringType, EndTarget, Goto
  <2>6. LastBytes'
    BY <1>1, <1>3 DEF LastBytes, EndTarget, Goto
  <2>7. EndsAtBlankLine'
    BY <1>1, <1>3 DEF EndsAtBlankLine, EndTarget, Goto
  <2> QED BY <1>1, <2>1, <2>2, <2>3, <2>4, <2>5, <2>6, <2>7, Combine DEF Places
<1> QED BY <1>2, <1>3

LEMMA EndProtocolNameKeeps ==
  ASSUME IInv, EndProtocolName
  PROVE  IInv'
<1>0. In("req_line_read_protocol_name")
  BY DEF EndProtocolName
<1>1. /\ ec = "parsing" /\ Working /\ LastBytes /\ PlaceType'
      /\ state = "req_line_read_protocol_name"
      /\ ch \in Byte /\ ch = input[pos + 1]
      /\ pos \in Nat /\ pos + 1 \in 1..Len(input)
      /\ pos' = pos + 1 /\ input' = input
  BY <1>0, LoopStep
<1>2. CASE ~(buffer = HTTP)
  BY <1>0, <1>2, FailKeeps DEF EndProtocolName, ParseError
<1>3. CASE buffer = HTTP
  <2>1. ControlType'
    BY <1>1, <1>3, StateNames, Parts DEF ControlType, EndProtocolName, Goto
  <2>2. StringType'
    BY <1>1, <1>3, Parts DEF StringType, EndProtocolName, Goto
  <2>3. header' = header /\ Header'
    BY <1>1, <1>3, HeaderUntouched DEF EndProtocolName
  <2>4. RequestLineRead'
    BY <1>1, <1>3, <2>3, Parts DEF Places, RequestLineRead, EndProtocolName,
       Goto
  <2>5. Handover'
    BY <1>1, <1>3, Parts DEF Handover, BufferIsHandedOver, ReadsValue,
       AfterNewline, StringType, EndProtocolName, Goto
  <2>6. LastBytes'
    BY <1>1, <1>3 DEF LastBytes, EndProtocolName, Goto
  <2>7. EndsAtBlankLine'
    BY <1>1, <1>3 DEF EndsAtBlankLine, EndProtocolName, Goto
  <2> QED BY <1>1, <2>1, <2>2, <2>3, <2>4, <2>5, <2>6, <2>7, Combine DEF Places
<1> QED BY <1>2, <1>3

LEMMA EndMajorKeeps ==
  ASSUME IInv, EndMajor
  PROVE  IInv'
<1>0. In("req_line_read_protocol_version_major")
  BY DEF EndMajor
<1>1. /\ ec = "parsing" /\ Working /\ LastBytes /\ PlaceType'
      /\ state = "req_line_read_protocol_version_major"
      /\ ch \in Byte /\ ch = input[pos + 1]
      /\ pos \in Nat /\ pos + 1 \in 1..Len(input)
      /\ pos' = pos + 1 /\ input' = input
  BY <1>0, LoopStep
<1>2. CASE ~(to_number(buffer, VersionMax) # None)
  BY <1>0, <1>2, FailKeeps DEF EndMajor, ParseError
<1>3. CASE to_number(buffer, VersionMax) # None
  <2>1. ControlType'
    BY <1>1, <1>3, StateNames, Parts DEF ControlType, EndMajor, Goto
  <2>2. StringType'
    BY <1>1, <1>3, Parts DEF StringType, EndMajor, Goto
  <2>3. Header'
    <3> DEFINE val == to_number(buffer, VersionMax)
    <3>1. val \in 0..VersionMax
      BY <1>3, ToNumberType
    <3>2. header' = [header EXCEPT !.version.major = val]
      BY <1>3 DEF EndMajor
    <3>3. header'.version \in [major : 0..VersionMax, minor : 0..VersionMax]
      BY <3>1, <3>2, Parts DEF Header, HeaderType
    <3>4. /\ DOMAIN header' = DOMAIN header
          /\ header'.method = header.method
          /\ header'.target = header.target
          /\ header'.fields = header.fields
      BY <3>2, Parts DEF Header, HeaderType
    <3> QED BY <3>3, <3>4, Parts DEF Header, HeaderType, FieldsAreValid
  <2>4. RequestLineRead'
    BY <1>1, <1>3, Parts DEF Header, HeaderType, Places, RequestLineRead,
       EndMajor, Goto
  <2>5. Handover'
    BY <1>1, <1>3, Parts DEF Handover, BufferIsHandedOver, ReadsValue,
       AfterNewline, StringType, EndMajor, Goto
  <2>6. LastBytes'
    BY <1>1, <1>3 DEF LastBytes, EndMajor, Goto
  <2>7. EndsAtBlankLine'
    BY <1>1, <1>3 DEF EndsAtBlankLine, EndMajor, Goto
  <2> QED BY <1>1, <2>1, <2>2, <2>3, <2>4, <2>5, <2>6, <2>7, Combine DEF Places
<1> QED BY <1>2, <1>3

LEMMA EndMinorKeeps ==
  ASSUME IInv, EndMinor
  PROVE  IInv'
<1>0. In("req_line_read_protocol_version_minor")
  BY DEF EndMinor
<1>1. /\ ec = "parsing" /\ Working /\ LastBytes /\ PlaceType'
      /\ state = "req_line_read_protocol_version_minor"
      /\ ch \in Byte /\ ch = input[pos + 1]
      /\ pos \in Nat /\ pos + 1 \in 1..Len(input)
      /\ pos' = pos + 1 /\ input' = input
  BY <1>0, LoopStep
<1>2. CASE ~(to_number(buffer, VersionMax) # None)
  BY <1>0, <1>2, FailKeeps DEF EndMinor, ParseError
<1>3. CASE to_number(buffer, VersionMax) # None
  <2>1. ControlType'
    BY <1>1, <1>3, StateNames, Parts DEF ControlType, EndMinor,
       ExpectLinefeedThen
  <2>2. StringType'
    BY <1>1, <1>3, Parts DEF StringType, EndMinor, ExpectLinefeedThen
  <2>3. Header'
    <3> DEFINE val == to_number(buffer, VersionMax)
    <3>1. val \in 0..VersionMax
      BY <1>3, ToNumberType
    <3>2. header' = [header EXCEPT !.version.minor = val]
      BY <1>3 DEF EndMinor
    <3>3. header'.version \in [major : 0..VersionMax, minor : 0..VersionMax]
      BY <3>1, <3>2, Parts DEF Header, HeaderType
    <3>4. /\ DOMAIN header' = DOMAIN header
          /\ header'.method = header.method
          /\ header'.target = header.target
          /\ header'.fields = header.fields
      BY <3>2, Parts DEF Header, HeaderType
    <3> QED BY <3>3, <3>4, Parts DEF Header, HeaderType, FieldsAreValid
  <2>4. RequestLineRead'
    BY <1>1, <1>3, Parts DEF Header, HeaderType, Places, RequestLineRead,
       EndMinor, ExpectLinefeedThen
  <2>5. Handover'
    BY <1>1, <1>3, Parts DEF Handover, BufferIsHandedOver, ReadsValue,
       AfterNewline, StringType, EndMinor, ExpectLinefeedThen
  <2>6. LastBytes'
    BY <1>1, <1>3 DEF LastBytes, EndMinor, ExpectLinefeedThen
  <2>7. EndsAtBlankLine'
    BY <1>1, <1>3 DEF EndsAtBlankLine, EndMinor, ExpectLinefeedThen
  <2> QED BY <1>1, <2>1, <2>2, <2>3, <2>4, <2>5, <2>6, <2>7, Combine DEF Places
<1> QED BY <1>2, <1>3

LEMMA LinefeedKeeps ==
  ASSUME IInv, Linefeed
  PROVE  IInv'
<1>0. In("expect_linefeed")
  BY DEF Linefeed
<1>1. /\ ec = "parsing" /\ Working /\ LastBytes /\ PlaceType'
      /\ state = "expect_linefeed"
      /\ ch \in Byte /\ ch = input[pos + 1]
      /\ pos \in Nat /\ pos + 1 \in 1..Len(input)
      /\ pos' = pos + 1 /\ input' = input
  BY <1>0, LoopStep
<1>2. CASE ~(ch = LF)
  BY <1>0, <1>2, FailKeeps DEF Linefeed, ParseError
<1>3. CASE ch = LF
  <2>1. ControlType'
    BY <1>1, <1>3, StateNames, Parts DEF ControlType, Handover,
       AfterNewline, Linefeed, Goto, strings
  <2>2. StringType'
    BY <1>1, <1>3, Parts DEF StringType, Linefeed, Goto, strings
  <2>3. header' = header /\ Header'
    BY <1>1, <1>3, HeaderUntouched DEF Linefeed
  <2>4. RequestLineRead'
    BY <1>1, <1>3, <2>3, Parts DEF Places, RequestLineRead, Handover,
       AfterNewline, Linefeed, Goto, strings
  <2>5. Handover'
    BY <1>1, <1>3, Parts DEF Handover, BufferIsHandedOver, ReadsValue,
       AfterNewline, StringType, Linefeed, Goto, strings
  <2>6. LastBytes'
    BY <1>1, <1>3, Parts DEF LastBytes, Handover, AfterNewline, Linefeed,
       Goto, strings
  <2>7. EndsAtBlankLine'
    BY <1>1, <1>3 DEF EndsAtBlankLine, Linefeed, Goto, strings
  <2> QED BY <1>1, <2>1, <2>2, <2>3, <2>4, <2>5, <2>6, <2>7, Combine DEF Places
<1> QED BY <1>2, <1>3

LEMMA StartFieldKeeps ==
  ASSUME IInv, StartField
  PROVE  IInv'
<1>0. In("fields_terminate_at_no_field_name")
  BY DEF StartField
<1>1. /\ ec = "parsing" /\ Working /\ LastBytes /\ PlaceType'
      /\ state = "fields_terminate_at_no_field_name"
      /\ ch \in Byte /\ ch = input[pos + 1]
      /\ pos \in Nat /\ pos + 1 \in 1..Len(input)
      /\ pos' = pos + 1 /\ input' = input
  BY <1>0, LoopStep
<1>2. ControlType'
  BY <1>1, StateNames, Parts DEF ControlType, StartField, Goto
<1>3. StringType'
  BY <1>1, Parts DEF StringType, StartField, Goto
<1>4. header' = header /\ Header'
  BY <1>1, HeaderUntouched DEF StartField
<1>5. RequestLineRead'
  BY <1>1, <1>4, Parts DEF Places, RequestLineRead, StartField, Goto
<1>6. Handover'
  BY <1>1, Parts DEF Handover, BufferIsHandedOver, ReadsValue, AfterNewline,
     StringType, StartField, Goto
<1>7. LastBytes'
  BY <1>1 DEF LastBytes, StartField, Goto
<1>8. EndsAtBlankLine'
  BY <1>1 DEF EndsAtBlankLine, StartField, Goto
<1> QED BY <1>1, <1>2, <1>3, <1>4, <1>5, <1>6, <1>7, <1>8, Combine DEF Places

LEMMA EndNameKeeps ==
  ASSUME IInv, EndName
  PROVE  IInv'
<1>0. In("fields_read_name")
  BY DEF EndName
<1>1. /\ ec = "parsing" /\ Working /\ LastBytes /\ PlaceType'
      /\ state = "fields_read_name"
      /\ ch \in Byte /\ ch = input[pos + 1]
      /\ pos \in Nat /\ pos + 1 \in 1..Len(input)
      /\ pos' = pos + 1 /\ input' = input
  BY <1>0, LoopStep
<1>2. ControlType'
  BY <1>1, StateNames, Parts DEF ControlType, EndName, Goto
<1>3. StringType'
  BY <1>1, Parts DEF StringType, EndName, Goto
<1>4. header' = header /\ Header'
  BY <1>1, HeaderUntouched DEF EndName
<1>5. RequestLineRead'
  BY <1>1, <1>4, Parts DEF Places, RequestLineRead, EndName, Goto
<1>6. Handover'
  BY <1>1, Parts DEF Handover, BufferIsHandedOver, ReadsValue, AfterNewline,
     StringType, EndName, Goto
<1>7. LastBytes'
  BY <1>1 DEF LastBytes, EndName, Goto
<1>8. EndsAtBlankLine'
  BY <1>1 DEF EndsAtBlankLine, EndName, Goto
<1> QED BY <1>1, <1>2, <1>3, <1>4, <1>5, <1>6, <1>7, <1>8, Combine DEF Places

LEMMA StartValueKeeps ==
  ASSUME IInv, StartValue
  PROVE  IInv'
<1>0. In("fields_skip_ws_before_field_value")
  BY DEF StartValue
<1>1. /\ ec = "parsing" /\ Working /\ LastBytes /\ PlaceType'
      /\ state = "fields_skip_ws_before_field_value"
      /\ ch \in Byte /\ ch = input[pos + 1]
      /\ pos \in Nat /\ pos + 1 \in 1..Len(input)
      /\ pos' = pos + 1 /\ input' = input
  BY <1>0, LoopStep
<1>2. ControlType'
  BY <1>1, StateNames, Parts DEF ControlType, StartValue, Goto, control
<1>3. StringType'
  BY <1>1, Parts DEF StringType, StartValue, Goto, control
<1>4. header' = header /\ Header'
  BY <1>1, HeaderUntouched DEF StartValue
<1>5. RequestLineRead'
  BY <1>1, <1>4, Parts DEF Places, RequestLineRead, StartValue, Goto,
     control
<1>6. Handover'
  BY <1>1, Parts DEF Handover, BufferIsHandedOver, ReadsValue, AfterNewline,
     StringType, StartValue, Goto, control
<1>7. LastBytes'
  BY <1>1 DEF LastBytes, StartValue, Goto, control
<1>8. EndsAtBlankLine'
  BY <1>1 DEF EndsAtBlankLine, StartValue, Goto, control
<1> QED BY <1>1, <1>2, <1>3, <1>4, <1>5, <1>6, <1>7, <1>8, Combine DEF Places

LEMMA EmptyValueKeeps ==
  ASSUME IInv, EmptyValue
  PROVE  IInv'
<1>0. In("fields_skip_ws_before_field_value")
  BY DEF EmptyValue
<1>1. /\ ec = "parsing" /\ Working /\ LastBytes /\ PlaceType'
      /\ state = "fields_skip_ws_before_field_value"
      /\ ch \in Byte /\ ch = input[pos + 1]
      /\ pos \in Nat /\ pos + 1 \in 1..Len(input)
      /\ pos' = pos + 1 /\ input' = input
  BY <1>0, LoopStep
<1>2. CASE ~(IsFieldName(fieldName))
  BY <1>0, <1>2, FailKeeps DEF EmptyValue, ParseError
<1>3. CASE IsFieldName(fieldName)
  <2>1. ControlType'
    BY <1>1, <1>3, StateNames, Parts DEF ControlType, EmptyValue,
       ExpectLinefeedThen
  <2>2. StringType'
    BY <1>1, <1>3, Parts DEF StringType, EmptyValue, ExpectLinefeedThen
  <2>3. /\ Header'
        /\ header'.method = header.method
        /\ header'.target = header.target
    <3>1. header' = [header EXCEPT !.fields = append(@, fieldName, <<>>)]
      BY <1>3 DEF EmptyValue
    <3>2. <<>> \in Seq(Byte) /\ IsFieldValue(<<>>) /\ fieldName \in Seq(Byte)
      BY Parts DEF IsFieldValue, StringType
    <3> QED BY <1>3, <3>1, <3>2, FieldStored
  <2>4. RequestLineRead'
    BY <1>1, <1>3, <2>3, Parts DEF Places, RequestLineRead, EmptyValue,
       ExpectLinefeedThen
  <2>5. Handover'
    BY <1>1, <1>3, Parts DEF Handover, BufferIsHandedOver, ReadsValue,
       AfterNewline, StringType, EmptyValue, ExpectLinefeedThen
  <2>6. LastBytes'
    BY <1>1, <1>3 DEF LastBytes, EmptyValue, ExpectLinefeedThen
  <2>7. EndsAtBlankLine'
    BY <1>1, <1>3 DEF EndsAtBlankLine, EmptyValue, ExpectLinefeedThen
  <2> QED BY <1>1, <2>1, <2>2, <2>3, <2>4, <2>5, <2>6, <2>7, Combine DEF Places
<1> QED BY <1>2, <1>3

LEMMA EndValueKeeps ==
  ASSUME IInv, EndValue
  PROVE  IInv'
<1>0. In("fields_read_value")
  BY DEF EndValue
<1>1. /\ ec = "parsing" /\ Working /\ LastBytes /\ PlaceType'
      /\ state = "fields_read_value"
      /\ ch \in Byte /\ ch = input[pos + 1]
      /\ pos \in Nat /\ pos + 1 \in 1..Len(input)
      /\ pos' = pos + 1 /\ input' = input
  BY <1>0, LoopStep
<1>2. ControlType'
  BY <1>1, StateNames, Parts DEF ControlType, EndValue, ExpectLinefeedThen,
     strings
<1>3. StringType'
  BY <1>1, Parts DEF StringType, EndValue, ExpectLinefeedThen, strings
<1>4. header' = header /\ Header'
  BY <1>1, HeaderUntouched DEF EndValue
<1>5. RequestLineRead'
  BY <1>1, <1>4, Parts DEF Places, RequestLineRead, EndValue,
     ExpectLinefeedThen, strings
<1>6. Handover'
  BY <1>1, Parts DEF Handover, BufferIsHandedOver, ReadsValue, AfterNewline,
     StringType, EndValue, ExpectLinefeedThen, strings
<1>7. LastBytes'
  BY <1>1 DEF LastBytes, EndValue, ExpectLinefeedThen, strings
<1>8. EndsAtBlankLine'
  BY <1>1 DEF EndsAtBlankLine, EndValue, ExpectLinefeedThen, strings
<1> QED BY <1>1, <1>2, <1>3, <1>4, <1>5, <1>6, <1>7, <1>8, Combine DEF Places

LEMMA ContinueValueKeeps ==
  ASSUME IInv, ContinueValue
  PROVE  IInv'
<1>0. In("fields_check_continuation")
  BY DEF ContinueValue
<1>1. /\ ec = "parsing" /\ Working /\ LastBytes /\ PlaceType'
      /\ state = "fields_check_continuation"
      /\ ch \in Byte /\ ch = input[pos + 1]
      /\ pos \in Nat /\ pos + 1 \in 1..Len(input)
      /\ pos' = pos + 1 /\ input' = input
  BY <1>0, LoopStep
<1>2. ControlType'
  BY <1>1, StateNames, Parts DEF ControlType, ContinueValue, Goto, strings
<1>3. StringType'
  BY <1>1, Parts DEF StringType, ContinueValue, Goto, strings
<1>4. header' = header /\ Header'
  BY <1>1, HeaderUntouched DEF ContinueValue
<1>5. RequestLineRead'
  BY <1>1, <1>4, Parts DEF Places, RequestLineRead, ContinueValue, Goto,
     strings
<1>6. Handover'
  BY <1>1, Parts DEF Handover, BufferIsHandedOver, ReadsValue, AfterNewline,
     StringType, ContinueValue, Goto, strings
<1>7. LastBytes'
  BY <1>1 DEF LastBytes, ContinueValue, Goto, strings
<1>8. EndsAtBlankLine'
  BY <1>1 DEF EndsAtBlankLine, ContinueValue, Goto, strings
<1> QED BY <1>1, <1>2, <1>3, <1>4, <1>5, <1>6, <1>7, <1>8, Combine DEF Places

LEMMA SkipWsAfterNewlineKeeps ==
  ASSUME IInv, SkipWsAfterNewline
  PROVE  IInv'
<1>0. In("fields_skip_ws_after_newline")
  BY DEF SkipWsAfterNewline
<1>1. /\ ec = "parsing" /\ Working /\ LastBytes /\ PlaceType'
      /\ state = "fields_skip_ws_after_newline"
      /\ ch \in Byte /\ ch = input[pos + 1]
      /\ pos \in Nat /\ pos + 1 \in 1..Len(input)
      /\ pos' = pos + 1 /\ input' = input
  BY <1>0, LoopStep
<1>2. ControlType'
  BY <1>1, StateNames, Parts DEF ControlType, SkipWsAfterNewline, Goto,
     ExpectLinefeedThen, control
<1>3. StringType'
  <2>1. <<SP, ch>> \in Seq(Byte)
    BY <1>1, SpaceIsByte
  <2>2. buffer' \in {buffer, buffer \o <<SP, ch>>} /\ fieldName' = fieldName
    BY DEF SkipWsAfterNewline, Goto
  <2>3. buffer \in Seq(Byte) /\ fieldName \in Seq(Byte)
    BY Parts DEF StringType
  <2>4. buffer \o <<SP, ch>> \in Seq(Byte)
    BY <2>1, <2>3
  <2> QED BY <2>2, <2>3, <2>4 DEF StringType
<1>4. header' = header /\ Header'
  BY <1>1, HeaderUntouched DEF SkipWsAfterNewline
<1>5. RequestLineRead'
  BY <1>1, <1>4, Parts DEF Places, RequestLineRead, SkipWsAfterNewline,
     Goto, ExpectLinefeedThen, control
<1>6. Handover'
  BY <1>1, Parts DEF Handover, BufferIsHandedOver, ReadsValue, AfterNewline,
     StringType, SkipWsAfterNewline, Goto, ExpectLinefeedThen, control
<1>7. LastBytes'
  BY <1>1 DEF LastBytes, SkipWsAfterNewline, Goto, ExpectLinefeedThen,
     control
<1>8. EndsAtBlankLine'
  BY <1>1 DEF EndsAtBlankLine, SkipWsAfterNewline, Goto, ExpectLinefeedThen,
     control
<1> QED BY <1>1, <1>2, <1>3, <1>4, <1>5, <1>6, <1>7, <1>8, Combine DEF Places

LEMMA CollectKeeps ==
  ASSUME IInv, Collect
  PROVE  IInv'
<1> PICK s \in DOMAIN Stop :
      /\ In(s)
      /\ ch # Stop[s]
      /\ buffer' = Append(buffer, ch)
      /\ UNCHANGED <<ec, control, fieldName, header>>
  BY DEF Collect
<1>1. /\ PlaceType' /\ state = s /\ ec = "parsing" /\ ch \in Byte
  BY LoopStep
<1>2. ControlType' /\ StringType' /\ Header'
  BY <1>1, HeaderUntouched, Parts DEF ControlType, StringType, control
<1>3. Handover'
  <2>1. buffer' # <<>>
    BY <1>1, Parts DEF StringType
  <2> QED BY <1>1, <2>1, StateNames, Parts
         DEF Handover, BufferIsHandedOver, ReadsValue, AfterNewline, control
<1>4. Places'
  BY <1>1, StateNames, Parts
     DEF Places, RequestLineRead, LastBytes, EndsAtBlankLine, control
<1> QED BY <1>1, <1>2, <1>3, <1>4, Combine

LEMMA StoreFieldKeeps ==
  ASSUME IInv, StoreField
  PROVE  IInv'
<1> DEFINE value == rtrim(buffer)
<1>0. In("fields_check_continuation")
  BY DEF StoreField
<1>1. /\ ec = "parsing" /\ Working /\ LastBytes /\ PlaceType'
      /\ state = "fields_check_continuation"
      /\ ch \in Byte /\ ch = input[pos + 1]
      /\ pos \in Nat /\ pos + 1 \in 1..Len(input)
      /\ pos' = pos + 1 /\ input' = input
  BY <1>0, LoopStep
<1>2. fieldName \in Seq(Byte) /\ value \in Seq(Byte)
  BY RtrimType, Parts DEF StringType
<1> HIDE DEF value
<1>3. CASE ~IsFieldName(fieldName)
  BY <1>0, <1>3, FailKeeps DEF StoreField, ParseError
<1>4. CASE IsFieldName(fieldName) /\ ~IsFieldValue(value)
  <2>1. /\ ec' = "bad_field_value" /\ fieldName' = <<>> /\ buffer' = value
        /\ UNCHANGED <<control, header>>
    BY <1>4 DEF StoreField, value
  <2>2. ControlType' /\ StringType' /\ Header'
    BY <1>2, <2>1, HeaderUntouched, Parts
       DEF ControlType, ParseError, StringType, control
  <2>3. Handover' /\ Places'
    BY <1>1, <2>1, Parts
       DEF Handover, BufferIsHandedOver, AfterNewline, Places,
           RequestLineRead, Working, EndsAtBlankLine, control
  <2> QED BY <1>1, <2>2, <2>3, Combine
<1>5. CASE IsFieldName(fieldName) /\ IsFieldValue(value)
  <2>1. /\ header' = [header EXCEPT !.fields = append(@, fieldName, value)]
        /\ fieldName' = <<>>
        /\ \/ /\ ch = CR
              /\ Goto("expect_linefeed_and_return")
              /\ buffer' = <<>>
           \/ Goto("fields_read_name") /\ buffer' = <<ch>>
    BY <1>5 DEF StoreField, value
  <2>2. /\ Header'
        /\ header'.method = header.method
        /\ header'.target = header.target
    BY <1>2, <1>5, <2>1, FieldStored
  <2>3. ControlType'
    BY <1>1, <2>1, StateNames, Parts DEF ControlType, Goto
  <2>7. StringType'
    <3>1. <<ch>> \in Seq(Byte) /\ <<>> \in Seq(Byte)
      BY <1>1
    <3> QED BY <2>1, <3>1 DEF StringType
  <2>4. Handover'
    BY <2>1 DEF Handover, BufferIsHandedOver, ReadsValue, AfterNewline, Goto
  <2>5. RequestLineRead' /\ EndsAtBlankLine'
    BY <1>1, <2>1, <2>2, Parts
       DEF Places, RequestLineRead, EndsAtBlankLine, Goto
  <2>6. LastBytes'
    BY <1>1, <2>1 DEF LastBytes, Goto
  <2> QED BY <1>1, <2>2, <2>3, <2>7, <2>4, <2>5, <2>6, Combine DEF Places
<1> QED BY <1>3, <1>4, <1>5

LEMMA FinalLinefeedKeeps ==
  ASSUME IInv, FinalLinefeed
  PROVE  IInv'
<1>0. In("expect_linefeed_and_return")
  BY DEF FinalLinefeed
<1>1. /\ ec = "parsing" /\ LastBytes /\ PlaceType'
      /\ state = "expect_linefeed_and_return"
      /\ ch = input[pos + 1]
      /\ pos \in Nat /\ pos + 1 \in 1..Len(input)
      /\ pos' = pos + 1 /\ input' = input
  BY <1>0, LoopStep
<1>2. CASE ch # LF
  BY <1>0, <1>2, FailKeeps DEF FinalLinefeed, Fail, ParseError
<1>3. CASE ch = LF
  <2>1. /\ ec' = "completed"
        /\ UNCHANGED <<control, strings, header>>
    BY <1>3 DEF FinalLinefeed
  <2>2. ControlType' /\ StringType' /\ Header'
    BY <2>1, HeaderUntouched, Parts
       DEF ControlType, StringType, control, strings
  <2>3. Handover'
    BY <1>1, <2>1, Parts DEF Handover, BufferIsHandedOver, ReadsValue,
                             AfterNewline, control, strings
  <2>4. RequestLineRead' /\ ~Working'
    BY <2>1, Parts DEF Places, RequestLineRead, Working, control
  <2>5. EndsAtBlankLine'
    <3>1. pos' \in 4..Len(input) /\ input \in Seq(Byte)
      BY <1>1, Parts DEF LastBytes, PlaceType
    <3>2. /\ input[pos' - 3] = CR /\ input[pos' - 2] = LF
          /\ input[pos' - 1] = CR /\ input[pos'] = LF
      BY <1>1, <1>3 DEF LastBytes
    <3>3. SubSeq(input', pos' - 3, pos') = CRLF \o CRLF
      BY <1>1, <3>1, <3>2, BlankLine
    <3>4. IsMethod(header'.method) /\ IsTarget(header'.target)
      BY <1>1, <2>1, HeaderUntouched
    <3>5. pos' >= 4
      BY <3>1
    <3> QED BY <3>3, <3>4, <3>5 DEF EndsAtBlankLine
  <2> QED BY <1>1, <2>2, <2>3, <2>4, <2>5, Combine DEF Places
<1> QED BY <1>2, <1>3

(* The steps between two calls of parse. *)
LEMMA CallKeeps ==
  ASSUME IInv, Call \/ OutOfData
  PROVE  IInv'
<1>1. /\ ec \in {"more_data_needed", "parsing"}
      /\ ec' \in {"more_data_needed", "parsing"}
      /\ UNCHANGED <<input, pos, control, strings, header, outcome>>
  BY DEF Call, OutOfData
<1>2. PlaceType'
  BY <1>1, SpansAssumption, Parts DEF PlaceType, Call, OutOfData, outcome
<1>3. ControlType' /\ StringType' /\ Header'
  BY <1>1, HeaderUntouched, Parts
     DEF ControlType, StringType, control, strings
<1>4. Handover'
  BY <1>1, Parts DEF Handover, BufferIsHandedOver, ReadsValue, AfterNewline,
                     control, strings
<1>5. Places'
  BY <1>1, Parts DEF Places, RequestLineRead, Working, LastBytes,
                     EndsAtBlankLine, control
<1> QED BY <1>2, <1>3, <1>4, <1>5, Combine

LEMMA AnswerKeeps ==
  ASSUME IInv, HeaderCompleted \/ HeaderRefused
  PROVE  IInv'
<1>1. UNCHANGED <<input, pos, spanEnd, ec, control, strings, header>>
  BY DEF HeaderCompleted, HeaderRefused
<1>2. PlaceType'
  BY <1>1, WidthAssumption, ToNumberType, Parts
     DEF PlaceType, HeaderCompleted, HeaderRefused, get_content_length
<1>3. ControlType' /\ StringType' /\ Header'
  BY <1>1, HeaderUntouched, Parts
     DEF ControlType, StringType, control, strings
<1>4. Handover' /\ Places'
  BY <1>1, Parts
     DEF Handover, BufferIsHandedOver, ReadsValue, AfterNewline, Places,
         RequestLineRead, Working, LastBytes, EndsAtBlankLine, control, strings
<1> QED BY <1>2, <1>3, <1>4, Combine

LEMMA NextKeeps == IInv /\ [Next]_vars => IInv'
<1> SUFFICES ASSUME IInv, [Next]_vars PROVE IInv'
  OBVIOUS
<1>1. CASE UNCHANGED vars
  <2>1. UNCHANGED <<input, pos, spanEnd, ec, state, afterNewline, buffer,
                    fieldName, header, answer, length>>
    BY <1>1 DEF vars, control, strings, outcome
  <2>2. PlaceType' /\ ControlType' /\ StringType' /\ Header'
    BY <2>1, HeaderUntouched, Parts DEF PlaceType, ControlType, StringType
  <2>3. Handover'
    BY <2>1, Parts
       DEF Handover, BufferIsHandedOver, ReadsValue, AfterNewline
  <2>4. Places'
    BY <2>1, Parts
       DEF Places, RequestLineRead, Working, LastBytes, EndsAtBlankLine
  <2> QED BY <2>2, <2>3, <2>4, Combine
<1>2. CASE Parse
  BY <1>2, CallKeeps, CollectKeeps, EndMethodKeeps, EndTargetKeeps,
     EndProtocolNameKeeps, EndMajorKeeps, EndMinorKeeps, LinefeedKeeps,
     StartFieldKeeps, EndNameKeeps, StartValueKeeps, EmptyValueKeeps,
     EndValueKeeps, ContinueValueKeeps, StoreFieldKeeps,
     SkipWsAfterNewlineKeeps, FinalLinefeedKeeps, AnswerKeeps DEF Parse
<1> QED BY <1>1, <1>2 DEF Next, Done

LEMMA IInvHolds == Spec => []IInv
<1>1. Init => IInv
  BY InitIInv
<1>2. IInv /\ [Next]_vars => IInv'
  BY NextKeeps
<1> QED BY <1>1, <1>2, PTL DEF Spec

-----------------------------------------------------------------------------
(* The members of request_header_parser keep their types. *)
THEOREM ParserTypes == Spec => []TypeOK
<1>1. IInv => TypeOK
  BY DEF IInv
<1> QED BY <1>1, IInvHolds, PTL

(* The states of the parser hand m_buffer and m_current_field_name over    *)
(* empty; the assertion in fields_skip_ws_before_field_value never fails.  *)
THEOREM ParserHandsOver == Spec => []BufferIsHandedOver
<1>1. IInv => BufferIsHandedOver
  BY DEF IInv, Handover
<1> QED BY <1>1, IInvHolds, PTL

(* Whatever is sent, the field_map holds tokens, which differ in more than *)
(* their case, and printable values.                                       *)
THEOREM ParserStoresValidFields == Spec => []FieldsAreValid
<1>1. IInv => FieldsAreValid
  BY DEF IInv
<1> QED BY <1>1, IInvHolds, PTL

(* parse returns completed only after the line break of an empty line, and *)
(* with a method and a target.                                             *)
THEOREM ParserEndsAtBlankLine == Spec => []EndsAtBlankLine
<1>1. IInv => EndsAtBlankLine
  BY DEF IInv, Places
<1> QED BY <1>1, IInvHolds, PTL

-----------------------------------------------------------------------------
(* The parser and the grammar. *)

(* What each state says of the bytes taken so far. *)
Reading ==
  /\ state = "req_line_read_method" => InMethod(input, pos, buffer, header)
  /\ state = "req_line_read_req_target" => InTarget(input, pos, buffer, header)
  /\ state = "req_line_read_protocol_name" =>
       InProtocol(input, pos, buffer, header)
  /\ state = "req_line_read_protocol_version_major" =>
       InMajor(input, pos, buffer, header)
  /\ state = "req_line_read_protocol_version_minor" =>
       InMinor(input, pos, buffer, header)
  /\ state = "expect_linefeed"
       /\ afterNewline = "fields_terminate_at_no_field_name" =>
       AtBreak(input, pos, header) \/ NoValueBreaks(input, pos, header)
  /\ state = "fields_terminate_at_no_field_name" => AtLine(input, pos, header)
  /\ state = "fields_read_name" => InName(input, pos, buffer, header)
  /\ state = "fields_skip_ws_before_field_value" =>
       BeforeValue(input, pos, fieldName, header)
  /\ state = "fields_read_value" =>
       \E v : /\ OfValue(input, pos, v, buffer, fieldName, header)
              /\ InText(input, pos, v)
  /\ state = "expect_linefeed"
       /\ afterNewline = "fields_check_continuation" =>
       \E v : /\ OfValue(input, pos, v, buffer, fieldName, header)
              /\ TextBreaks(input, pos)
  /\ state = "fields_check_continuation" =>
       \E v : /\ OfValue(input, pos, v, buffer, fieldName, header)
              /\ TextBroken(input, pos, v)
  /\ state = "fields_skip_ws_after_newline" =>
       \E v : /\ OfValue(input, pos, v, buffer, fieldName, header)
              /\ Continues(input, pos, v)
  /\ state = "expect_linefeed_and_return" => AtLastBreak(input, pos, header)

(* What an end says of them. *)
Finished ==
  /\ ec = "completed" =>
       \E lines \in Seq(StringPair) :
         /\ Meaning(input, pos)
              = [ec |-> "completed", header |-> header, lines |-> lines]
         /\ header.fields = FieldsOf(lines)
  /\ ec \in ParseError => Meaning(input, pos) = Stopped(ec)

GrammarInv == (Working => Reading) /\ Finished

LEMMA ReadingNeedsMore ==
  ASSUME IInv, Reading PROVE Meaning(input, pos) = Stopped(More)
<1>1. input \in Seq(Byte) /\ pos \in 0..Len(input) /\ state \in State
      /\ AfterNewline
  BY DEF IInv, TypeOK, Handover
<1>2. CASE state \in {"req_line_read_method", "req_line_read_req_target",
                      "req_line_read_protocol_name",
                      "req_line_read_protocol_version_major",
                      "req_line_read_protocol_version_minor"}
  <2>1. \/ InMethod(input, pos, buffer, header)
        \/ InTarget(input, pos, buffer, header)
        \/ InProtocol(input, pos, buffer, header)
        \/ InMajor(input, pos, buffer, header)
        \/ InMinor(input, pos, buffer, header)
    BY <1>2 DEF Reading
  <2> QED
    BY <1>1, <2>1, LineNeedsMore
<1>3. CASE state \in {"fields_terminate_at_no_field_name", "fields_read_name",
                      "fields_skip_ws_before_field_value",
                      "expect_linefeed_and_return"}
  <2>1. \/ AtLine(input, pos, header)
        \/ InName(input, pos, buffer, header)
        \/ BeforeValue(input, pos, fieldName, header)
        \/ AtLastBreak(input, pos, header)
    BY <1>3 DEF Reading
  <2> QED
    BY <1>1, <2>1, AtLineMore, InNameMore, BeforeValueMore, LastBreakMore
<1>4. CASE state \in {"fields_read_value", "fields_check_continuation",
                      "fields_skip_ws_after_newline"}
  <2>1. \E v : OfValue(input, pos, v, buffer, fieldName, header)
    BY <1>4 DEF Reading
  <2> QED
    BY <1>1, <2>1, OfValueMore
<1>5. CASE state = "expect_linefeed"
  <2>1. \/ AtBreak(input, pos, header)
        \/ NoValueBreaks(input, pos, header)
        \/ \E v : OfValue(input, pos, v, buffer, fieldName, header)
    BY <1>1, <1>5 DEF Reading, AfterNewline
  <2> QED
    BY <1>1, <2>1, LineNeedsMore, NoValueMore, OfValueMore
<1> QED
  BY <1>1, <1>2, <1>3, <1>4, <1>5, StateNames

LEMMA GrammarInvMeans == ASSUME IInv, GrammarInv PROVE MatchesGrammar
<1>1. CASE Working
  <2>1. Meaning(input, pos).ec = More
    BY <1>1, ReadingNeedsMore DEF GrammarInv, Stopped
  <2> QED
    BY <1>1, <2>1 DEF MatchesGrammar, Result, Working, More
<1>2. CASE ec = "completed"
  BY <1>2 DEF GrammarInv, Finished, MatchesGrammar, Result
<1>3. CASE ec \in ParseError
  <2>1. Meaning(input, pos).ec = ec
    BY <1>3 DEF GrammarInv, Finished, Stopped
  <2> QED
    BY <1>3, <2>1 DEF MatchesGrammar, Result, ParseError
<1>4. ec \in {"more_data_needed", "parsing", "completed"} \cup ParseError
  BY DEF IInv, TypeOK
<1> QED
  BY <1>1, <1>2, <1>3, <1>4 DEF Working

LEMMA GrammarInit == Init => GrammarInv
<1> SUFFICES ASSUME Init PROVE GrammarInv
  OBVIOUS
<1>1. input \in Seq(Byte) /\ 0 \in 0..Len(input)
  BY InputsAssumption, LenProperties DEF Init
<1>2. Collects(input, 0, <<>>, SP, 0 + 1)
  BY <1>1, CollectsNothing
<1>3. InMethod(input, pos, buffer, header)
  BY <1>2 DEF Init, InMethod, EmptyHeader, HeaderOf
<1>4. Reading
  BY <1>3 DEF Init, Reading
<1>5. Finished
  BY DEF Init, Finished, ParseError
<1> QED
  BY <1>4, <1>5 DEF GrammarInv

(* What a step of the loop starts from. *)
LEMMA Turn ==
  ASSUME IInv, GrammarInv, NEW s, In(s)
  PROVE  /\ Reading /\ ec = "parsing" /\ state = s
         /\ input \in Seq(Byte) /\ pos \in Nat /\ pos + 1 <= Len(input)
         /\ pos' = pos + 1 /\ input' = input /\ ch = input[pos + 1]
         /\ buffer \in Seq(Byte) /\ fieldName \in Seq(Byte)
<1>1. input \in Seq(Byte) /\ buffer \in Seq(Byte) /\ fieldName \in Seq(Byte)
  BY DEF IInv, TypeOK
<1>2. /\ ec = "parsing" /\ state = s /\ Working
      /\ ch = input[pos + 1] /\ pos \in Nat /\ pos + 1 \in 1..Len(input)
      /\ pos' = pos + 1 /\ input' = input
  BY LoopStep
<1>3. pos + 1 <= Len(input)
  BY <1>1, <1>2, LenProperties
<1> QED
  BY <1>1, <1>2, <1>3 DEF GrammarInv

(* A step that goes on, and one that ends. *)
LEMMA ReadsOn == Reading' /\ ec' = "parsing" => GrammarInv'
<1> SUFFICES ASSUME Reading', ec' = "parsing" PROVE GrammarInv'
  OBVIOUS
<1>1. Finished'
  BY DEF Finished, ParseError
<1> QED
  BY <1>1 DEF GrammarInv

LEMMA EndsWrong ==
  ASSUME NEW code \in ParseError, ec' = code, input' = input, pos' = pos + 1,
         Meaning(input, pos + 1) = Stopped(code)
  PROVE  GrammarInv'
BY DEF GrammarInv, Finished, ParseError, Working

LEMMA CodesAreErrors ==
  /\ "bad_request_method" \in ParseError /\ "bad_request_target" \in ParseError
  /\ "wrong_protocol" \in ParseError /\ "bad_protocol_version" \in ParseError
  /\ "expected_linefeed" \in ParseError /\ "bad_field_name" \in ParseError
  /\ "bad_field_value" \in ParseError
BY DEF ParseError

LEMMA EndMethodReads ==
  ASSUME IInv, GrammarInv, EndMethod PROVE GrammarInv'
<1>0. In("req_line_read_method") /\ ch = SP
  BY DEF EndMethod
<1>1. /\ Reading /\ ec = "parsing" /\ state = "req_line_read_method"
      /\ input \in Seq(Byte) /\ pos \in Nat /\ pos + 1 <= Len(input)
      /\ pos' = pos + 1 /\ input' = input /\ ch = input[pos + 1]
  BY <1>0, Turn
<1>2. InMethod(input, pos, buffer, header)
  BY <1>1 DEF Reading
<1>3. /\ IsMethod(buffer) =>
           InTarget(input, pos + 1, <<>>, [header EXCEPT !.method = buffer])
      /\ ~IsMethod(buffer) =>
           Meaning(input, pos + 1) = Stopped("bad_request_method")
  BY <1>0, <1>1, <1>2, MethodStep
<1>4. CASE IsMethod(buffer)
  <2>1. /\ state' = "req_line_read_req_target" /\ ec' = "parsing"
        /\ header' = [header EXCEPT !.method = buffer] /\ buffer' = <<>>
    BY <1>1, <1>4 DEF EndMethod, Goto
  <2>2. InTarget(input', pos', buffer', header')
    BY <1>1, <1>3, <1>4, <2>1
  <2>3. Reading'
    BY <2>1, <2>2 DEF Reading
  <2> QED
    BY <2>1, <2>3, ReadsOn
<1>5. CASE ~IsMethod(buffer)
  <2>1. ec' = "bad_request_method"
    BY <1>5 DEF EndMethod, Fail
  <2> QED
    BY <1>1, <1>3, <1>5, <2>1, EndsWrong, CodesAreErrors
<1> QED
  BY <1>4, <1>5

LEMMA EndTargetReads ==
  ASSUME IInv, GrammarInv, EndTarget PROVE GrammarInv'
<1>0. In("req_line_read_req_target") /\ ch = SP
  BY DEF EndTarget
<1>1. /\ Reading /\ ec = "parsing" /\ state = "req_line_read_req_target"
      /\ input \in Seq(Byte) /\ pos \in Nat /\ pos + 1 <= Len(input)
      /\ pos' = pos + 1 /\ input' = input /\ ch = input[pos + 1]
  BY <1>0, Turn
<1>2. InTarget(input, pos, buffer, header)
  BY <1>1 DEF Reading
<1>3. /\ IsTarget(buffer) =>
           InProtocol(input, pos + 1, <<>>, [header EXCEPT !.target = buffer])
      /\ ~IsTarget(buffer) =>
           Meaning(input, pos + 1) = Stopped("bad_request_target")
  BY <1>0, <1>1, <1>2, TargetStep
<1>4. CASE IsTarget(buffer)
  <2>1. /\ state' = "req_line_read_protocol_name" /\ ec' = "parsing"
        /\ header' = [header EXCEPT !.target = buffer] /\ buffer' = <<>>
    BY <1>1, <1>4 DEF EndTarget, Goto
  <2>2. InProtocol(input', pos', buffer', header')
    BY <1>1, <1>3, <1>4, <2>1
  <2>3. Reading'
    BY <2>1, <2>2 DEF Reading
  <2> QED
    BY <2>1, <2>3, ReadsOn
<1>5. CASE ~IsTarget(buffer)
  <2>1. ec' = "bad_request_target"
    BY <1>5 DEF EndTarget, Fail
  <2> QED
    BY <1>1, <1>3, <1>5, <2>1, EndsWrong, CodesAreErrors
<1> QED
  BY <1>4, <1>5

LEMMA EndProtocolNameReads ==
  ASSUME IInv, GrammarInv, EndProtocolName PROVE GrammarInv'
<1>0. In("req_line_read_protocol_name") /\ ch = Slash
  BY DEF EndProtocolName
<1>1. /\ Reading /\ ec = "parsing" /\ state = "req_line_read_protocol_name"
      /\ input \in Seq(Byte) /\ pos \in Nat /\ pos + 1 <= Len(input)
      /\ pos' = pos + 1 /\ input' = input /\ ch = input[pos + 1]
  BY <1>0, Turn
<1>2. InProtocol(input, pos, buffer, header)
  BY <1>1 DEF Reading
<1>3. /\ buffer = HTTP => InMajor(input, pos + 1, <<>>, header)
      /\ buffer # HTTP => Meaning(input, pos + 1) = Stopped("wrong_protocol")
  BY <1>0, <1>1, <1>2, ProtocolStep
<1>4. CASE buffer = HTTP
  <2>1. /\ state' = "req_line_read_protocol_version_major" /\ ec' = "parsing"
        /\ header' = header /\ buffer' = <<>>
    BY <1>1, <1>4 DEF EndProtocolName, Goto
  <2>2. InMajor(input', pos', buffer', header')
    BY <1>1, <1>3, <1>4, <2>1
  <2>3. Reading'
    BY <2>1, <2>2 DEF Reading
  <2> QED
    BY <2>1, <2>3, ReadsOn
<1>5. CASE buffer # HTTP
  <2>1. ec' = "wrong_protocol"
    BY <1>5 DEF EndProtocolName, Fail
  <2> QED
    BY <1>1, <1>3, <1>5, <2>1, EndsWrong, CodesAreErrors
<1> QED
  BY <1>4, <1>5

LEMMA EndMajorReads ==
  ASSUME IInv, GrammarInv, EndMajor PROVE GrammarInv'
<1>0. In("req_line_read_protocol_version_major") /\ ch = Dot
  BY DEF EndMajor
<1>1. /\ Reading /\ ec = "parsing"
      /\ state = "req_line_read_protocol_version_major"
      /\ input \in Seq(Byte) /\ pos \in Nat /\ pos + 1 <= Len(input)
      /\ pos' = pos + 1 /\ input' = input /\ ch = input[pos + 1]
  BY <1>0, Turn
<1>2. InMajor(input, pos, buffer, header)
  BY <1>1 DEF Reading
<1>3. PICK val : val = to_number(buffer, VersionMax)
  OBVIOUS
<1>4. /\ val # None =>
           InMinor(input, pos + 1, <<>>, [header EXCEPT !.version.major = val])
      /\ val = None =>
           Meaning(input, pos + 1) = Stopped("bad_protocol_version")
  BY <1>0, <1>1, <1>2, <1>3, MajorStep
<1>5. CASE val # None
  <2>1. /\ state' = "req_line_read_protocol_version_minor" /\ ec' = "parsing"
        /\ header' = [header EXCEPT !.version.major = val] /\ buffer' = <<>>
    BY <1>1, <1>3, <1>5 DEF EndMajor, Goto
  <2>2. InMinor(input', pos', buffer', header')
    BY <1>1, <1>4, <1>5, <2>1
  <2>3. Reading'
    BY <2>1, <2>2 DEF Reading
  <2> QED
    BY <2>1, <2>3, ReadsOn
<1>6. CASE val = None
  <2>1. ec' = "bad_protocol_version"
    BY <1>3, <1>6 DEF EndMajor, Fail
  <2> QED
    BY <1>1, <1>4, <1>6, <2>1, EndsWrong, CodesAreErrors
<1> QED
  BY <1>5, <1>6

LEMMA EndMinorReads ==
  ASSUME IInv, GrammarInv, EndMinor PROVE GrammarInv'
<1>0. In("req_line_read_protocol_version_minor") /\ ch = CR
  BY DEF EndMinor
<1>1. /\ Reading /\ ec = "parsing"
      /\ state = "req_line_read_protocol_version_minor"
      /\ input \in Seq(Byte) /\ pos \in Nat /\ pos + 1 <= Len(input)
      /\ pos' = pos + 1 /\ input' = input /\ ch = input[pos + 1]
  BY <1>0, Turn
<1>2. InMinor(input, pos, buffer, header)
  BY <1>1 DEF Reading
<1>3. PICK val : val = to_number(buffer, VersionMax)
  OBVIOUS
<1>4. /\ val # None =>
           AtBreak(input, pos + 1, [header EXCEPT !.version.minor = val])
      /\ val = None =>
           Meaning(input, pos + 1) = Stopped("bad_protocol_version")
  BY <1>0, <1>1, <1>2, <1>3, MinorStep
<1>5. CASE val # None
  <2>1. /\ state' = "expect_linefeed" /\ ec' = "parsing"
        /\ afterNewline' = "fields_terminate_at_no_field_name"
        /\ header' = [header EXCEPT !.version.minor = val] /\ buffer' = <<>>
    BY <1>1, <1>3, <1>5 DEF EndMinor, ExpectLinefeedThen
  <2>2. AtBreak(input', pos', header')
    BY <1>1, <1>4, <1>5, <2>1
  <2>3. Reading'
    BY <2>1, <2>2 DEF Reading
  <2> QED
    BY <2>1, <2>3, ReadsOn
<1>6. CASE val = None
  <2>1. ec' = "bad_protocol_version"
    BY <1>3, <1>6 DEF EndMinor, Fail
  <2> QED
    BY <1>1, <1>4, <1>6, <2>1, EndsWrong, CodesAreErrors
<1> QED
  BY <1>5, <1>6

LEMMA LinefeedReads ==
  ASSUME IInv, GrammarInv, Linefeed PROVE GrammarInv'
<1>0. In("expect_linefeed")
  BY DEF Linefeed
<1>1. /\ Reading /\ ec = "parsing" /\ state = "expect_linefeed"
      /\ input \in Seq(Byte) /\ pos \in Nat /\ pos + 1 <= Len(input)
      /\ pos' = pos + 1 /\ input' = input /\ ch = input[pos + 1]
  BY <1>0, Turn
<1>2. \/ afterNewline = "fields_terminate_at_no_field_name"
      \/ afterNewline = "fields_check_continuation"
  BY <1>1 DEF IInv, Handover, AfterNewline
<1>3. CASE ch # LF
  <2>1. ec' = "expected_linefeed"
    BY <1>3 DEF Linefeed, Fail
  <2>2. \/ AtBreak(input, pos, header)
        \/ NoValueBreaks(input, pos, header)
        \/ \E v : /\ OfValue(input, pos, v, buffer, fieldName, header)
                  /\ TextBreaks(input, pos)
    BY <1>1, <1>2 DEF Reading
  <2>3. Meaning(input, pos + 1) = Stopped("expected_linefeed")
    BY <1>1, <1>3, <2>2, BreakStep, NoValueEnds, TextBreaksStep
  <2> QED
    BY <1>1, <2>1, <2>3, EndsWrong, CodesAreErrors
<1>4. CASE ch = LF
  <2>1. /\ state' = afterNewline /\ ec' = "parsing" /\ buffer' = buffer
        /\ fieldName' = fieldName /\ header' = header
    BY <1>1, <1>4 DEF Linefeed, Goto, strings
  <2>2. CASE afterNewline = "fields_terminate_at_no_field_name"
    <3>1. AtBreak(input, pos, header) \/ NoValueBreaks(input, pos, header)
      BY <1>1, <2>2 DEF Reading
    <3>2. AtLine(input, pos + 1, header)
      BY <1>1, <1>4, <3>1, BreakStep, NoValueEnds
    <3>3. AtLine(input', pos', header')
      BY <1>1, <2>1, <3>2
    <3>4. Reading'
      BY <2>1, <2>2, <3>3 DEF Reading
    <3> QED
      BY <2>1, <3>4, ReadsOn
  <2>3. CASE afterNewline = "fields_check_continuation"
    <3>1. PICK v : /\ OfValue(input, pos, v, buffer, fieldName, header)
                   /\ TextBreaks(input, pos)
      BY <1>1, <2>3 DEF Reading
    <3>2. /\ OfValue(input, pos + 1, v, buffer, fieldName, header)
          /\ TextBroken(input, pos + 1, v)
      BY <1>1, <1>4, <3>1, TextBreaksStep
    <3>3. /\ OfValue(input', pos', v, buffer', fieldName', header')
          /\ TextBroken(input', pos', v)
      BY <1>1, <2>1, <3>2
    <3>4. Reading'
      BY <2>1, <2>3, <3>3 DEF Reading
    <3> QED
      BY <2>1, <3>4, ReadsOn
  <2> QED
    BY <1>2, <2>2, <2>3
<1> QED
  BY <1>3, <1>4

LEMMA AppendNothing ==
  ASSUME NEW x \in Byte PROVE Append(<<>>, x) = <<x>>
OBVIOUS

LEMMA CharIsByte ==
  ASSUME NEW s \in Seq(Byte), NEW p \in Nat, p + 1 <= Len(s)
  PROVE  s[p + 1] \in Byte
<1>1. p + 1 \in 1..Len(s)
  BY LenProperties
<1> QED
  BY <1>1, ElementOfSeq

LEMMA StartFieldReads ==
  ASSUME IInv, GrammarInv, StartField PROVE GrammarInv'
<1>0. In("fields_terminate_at_no_field_name")
  BY DEF StartField
<1>1. /\ Reading /\ ec = "parsing"
      /\ state = "fields_terminate_at_no_field_name"
      /\ input \in Seq(Byte) /\ pos \in Nat /\ pos + 1 <= Len(input)
      /\ pos' = pos + 1 /\ input' = input /\ ch = input[pos + 1]
  BY <1>0, Turn
<1>2. AtLine(input, pos, header) /\ buffer = <<>>
  BY <1>1 DEF Reading, IInv, Handover, BufferIsHandedOver
<1>3. /\ ch = CR => AtLastBreak(input, pos + 1, header)
      /\ ch # CR => InName(input, pos + 1, <<ch>>, header)
  BY <1>1, <1>2, LineStep
<1>4. ec' = "parsing" /\ header' = header
  BY <1>1 DEF StartField, Goto
<1>5. CASE ch = CR
  <2>1. state' = "expect_linefeed_and_return"
    BY <1>5 DEF StartField, Goto
  <2>2. AtLastBreak(input', pos', header')
    BY <1>1, <1>3, <1>4, <1>5
  <2>3. Reading'
    BY <2>1, <2>2 DEF Reading
  <2> QED
    BY <1>4, <2>3, ReadsOn
<1>6. CASE ch # CR
  <2>1. state' = "fields_read_name" /\ buffer' = <<ch>>
    BY <1>1, <1>2, <1>6, CharIsByte, AppendNothing DEF StartField, Goto
  <2>2. InName(input', pos', buffer', header')
    BY <1>1, <1>3, <1>4, <1>6, <2>1
  <2>3. Reading'
    BY <2>1, <2>2 DEF Reading
  <2> QED
    BY <1>4, <2>3, ReadsOn
<1> QED
  BY <1>5, <1>6

LEMMA EndNameReads ==
  ASSUME IInv, GrammarInv, EndName PROVE GrammarInv'
<1>0. In("fields_read_name") /\ ch = Colon
  BY DEF EndName
<1>1. /\ Reading /\ ec = "parsing" /\ state = "fields_read_name"
      /\ input \in Seq(Byte) /\ pos \in Nat /\ pos + 1 <= Len(input)
      /\ pos' = pos + 1 /\ input' = input /\ ch = input[pos + 1]
  BY <1>0, Turn
<1>2. InName(input, pos, buffer, header)
  BY <1>1 DEF Reading
<1>3. BeforeValue(input, pos + 1, buffer, header)
  BY <1>0, <1>1, <1>2, NameStep
<1>4. /\ ec' = "parsing" /\ header' = header /\ fieldName' = buffer
      /\ state' = "fields_skip_ws_before_field_value"
  BY <1>1 DEF EndName, Goto
<1>5. BeforeValue(input', pos', fieldName', header')
  BY <1>1, <1>3, <1>4
<1>6. Reading'
  BY <1>4, <1>5 DEF Reading
<1> QED
  BY <1>4, <1>6, ReadsOn

LEMMA StartValueReads ==
  ASSUME IInv, GrammarInv, StartValue PROVE GrammarInv'
<1>0. In("fields_skip_ws_before_field_value") /\ ch # CR
  BY DEF StartValue
<1>1. /\ Reading /\ ec = "parsing"
      /\ state = "fields_skip_ws_before_field_value"
      /\ input \in Seq(Byte) /\ pos \in Nat /\ pos + 1 <= Len(input)
      /\ pos' = pos + 1 /\ input' = input /\ ch = input[pos + 1]
  BY <1>0, Turn
<1>2. BeforeValue(input, pos, fieldName, header) /\ buffer = <<>>
  BY <1>1 DEF Reading, IInv, Handover, BufferIsHandedOver
<1>4. ec' = "parsing" /\ header' = header /\ fieldName' = fieldName
  BY <1>1 DEF StartValue, Goto
<1>5. CASE is_strict_whitespace(ch)
  <2>0. BeforeValue(input, pos + 1, fieldName, header)
    BY <1>1, <1>2, <1>5, WhiteStep
  <2>1. state' = "fields_skip_ws_before_field_value"
    BY <1>1, <1>5 DEF StartValue, control
  <2>2. BeforeValue(input', pos', fieldName', header')
    BY <1>1, <1>4, <2>0
  <2>3. Reading'
    BY <2>1, <2>2 DEF Reading
  <2> QED
    BY <1>4, <2>3, ReadsOn
<1>6. CASE ~is_strict_whitespace(ch)
  <2>0. /\ OfValue(input, pos + 1, pos + 1, <<ch>>, fieldName, header)
        /\ InText(input, pos + 1, pos + 1)
    BY <1>0, <1>1, <1>2, <1>6, StartStep
  <2>1. state' = "fields_read_value" /\ buffer' = <<ch>>
    BY <1>1, <1>2, <1>6, CharIsByte, AppendNothing DEF StartValue, Goto
  <2>2. /\ OfValue(input', pos', pos + 1, buffer', fieldName', header')
        /\ InText(input', pos', pos + 1)
    BY <1>1, <1>4, <2>0, <2>1
  <2>3. Reading'
    BY <2>1, <2>2 DEF Reading
  <2> QED
    BY <1>4, <2>3, ReadsOn
<1> QED
  BY <1>5, <1>6

LEMMA EmptyValueReads ==
  ASSUME IInv, GrammarInv, EmptyValue PROVE GrammarInv'
<1>0. In("fields_skip_ws_before_field_value") /\ ch = CR
  BY DEF EmptyValue
<1>1. /\ Reading /\ ec = "parsing"
      /\ state = "fields_skip_ws_before_field_value"
      /\ input \in Seq(Byte) /\ pos \in Nat /\ pos + 1 <= Len(input)
      /\ pos' = pos + 1 /\ input' = input /\ ch = input[pos + 1]
      /\ fieldName \in Seq(Byte)
  BY <1>0, Turn
<1>2. BeforeValue(input, pos, fieldName, header)
  BY <1>1 DEF Reading
<1>3. /\ ~IsFieldName(fieldName) =>
           Meaning(input, pos + 1) = Stopped("bad_field_name")
      /\ IsFieldName(fieldName) =>
           NoValueBreaks(input, pos + 1,
             [header EXCEPT !.fields = append(@, fieldName, <<>>)])
  BY <1>0, <1>1, <1>2, NoValueStep
<1>4. CASE IsFieldName(fieldName)
  <2>1. /\ state' = "expect_linefeed" /\ ec' = "parsing"
        /\ afterNewline' = "fields_terminate_at_no_field_name"
        /\ header' = [header EXCEPT !.fields = append(@, fieldName, <<>>)]
    BY <1>1, <1>4 DEF EmptyValue, ExpectLinefeedThen
  <2>2. NoValueBreaks(input', pos', header')
    BY <1>1, <1>3, <1>4, <2>1
  <2>3. Reading'
    BY <2>1, <2>2 DEF Reading
  <2> QED
    BY <2>1, <2>3, ReadsOn
<1>5. CASE ~IsFieldName(fieldName)
  <2>1. ec' = "bad_field_name"
    BY <1>5 DEF EmptyValue, Fail
  <2> QED
    BY <1>1, <1>3, <1>5, <2>1, EndsWrong, CodesAreErrors
<1> QED
  BY <1>4, <1>5

LEMMA EndValueReads ==
  ASSUME IInv, GrammarInv, EndValue PROVE GrammarInv'
<1>0. In("fields_read_value") /\ ch = CR
  BY DEF EndValue
<1>1. /\ Reading /\ ec = "parsing" /\ state = "fields_read_value"
      /\ input \in Seq(Byte) /\ pos \in Nat /\ pos + 1 <= Len(input)
      /\ pos' = pos + 1 /\ input' = input /\ ch = input[pos + 1]
  BY <1>0, Turn
<1>2. PICK v : /\ OfValue(input, pos, v, buffer, fieldName, header)
               /\ InText(input, pos, v)
  BY <1>1 DEF Reading
<1>3. /\ OfValue(input, pos + 1, v, buffer, fieldName, header)
      /\ TextBreaks(input, pos + 1)
  BY <1>0, <1>1, <1>2, TextStep
<1>4. /\ ec' = "parsing" /\ header' = header /\ fieldName' = fieldName
      /\ buffer' = buffer /\ state' = "expect_linefeed"
      /\ afterNewline' = "fields_check_continuation"
  BY <1>1 DEF EndValue, ExpectLinefeedThen, strings
<1>5. /\ OfValue(input', pos', v, buffer', fieldName', header')
      /\ TextBreaks(input', pos')
  BY <1>1, <1>3, <1>4
<1>6. Reading'
  BY <1>4, <1>5 DEF Reading
<1> QED
  BY <1>4, <1>6, ReadsOn

LEMMA ContinueValueReads ==
  ASSUME IInv, GrammarInv, ContinueValue PROVE GrammarInv'
<1>0. In("fields_check_continuation") /\ is_strict_whitespace(ch)
  BY DEF ContinueValue
<1>1. /\ Reading /\ ec = "parsing" /\ state = "fields_check_continuation"
      /\ input \in Seq(Byte) /\ pos \in Nat /\ pos + 1 <= Len(input)
      /\ pos' = pos + 1 /\ input' = input /\ ch = input[pos + 1]
  BY <1>0, Turn
<1>2. PICK v : /\ OfValue(input, pos, v, buffer, fieldName, header)
               /\ TextBroken(input, pos, v)
  BY <1>1 DEF Reading
<1>3. /\ OfValue(input, pos + 1, v, buffer, fieldName, header)
      /\ Continues(input, pos + 1, v)
  BY <1>0, <1>1, <1>2, ContinueStep
<1>4. /\ ec' = "parsing" /\ header' = header /\ fieldName' = fieldName
      /\ buffer' = buffer /\ state' = "fields_skip_ws_after_newline"
  BY <1>1 DEF ContinueValue, Goto, strings
<1>5. /\ OfValue(input', pos', v, buffer', fieldName', header')
      /\ Continues(input', pos', v)
  BY <1>1, <1>3, <1>4
<1>6. Reading'
  BY <1>4, <1>5 DEF Reading
<1> QED
  BY <1>4, <1>6, ReadsOn

LEMMA StoreFieldReads ==
  ASSUME IInv, GrammarInv, StoreField PROVE GrammarInv'
<1>0. In("fields_check_continuation") /\ ~is_strict_whitespace(ch)
  BY DEF StoreField
<1>1. /\ Reading /\ ec = "parsing" /\ state = "fields_check_continuation"
      /\ input \in Seq(Byte) /\ pos \in Nat /\ pos + 1 <= Len(input)
      /\ pos' = pos + 1 /\ input' = input /\ ch = input[pos + 1]
      /\ fieldName \in Seq(Byte)
  BY <1>0, Turn
<1>2. PICK v : /\ OfValue(input, pos, v, buffer, fieldName, header)
               /\ TextBroken(input, pos, v)
  BY <1>1 DEF Reading
<1>3. PICK val : val = rtrim(buffer)
  OBVIOUS
<1>4. /\ ~IsFieldName(fieldName) =>
           Meaning(input, pos + 1) = Stopped("bad_field_name")
      /\ IsFieldName(fieldName) /\ ~IsFieldValue(val) =>
           Meaning(input, pos + 1) = Stopped("bad_field_value")
      /\ IsFieldName(fieldName) /\ IsFieldValue(val) =>
           \E lines :
             LinesRead(input, pos + 1, pos + 1,
               [header EXCEPT !.fields = append(@, fieldName, val)], lines)
  BY <1>0, <1>1, <1>2, <1>3, StoreStep
<1>5. CASE ~IsFieldName(fieldName)
  <2>1. ec' = "bad_field_name"
    BY <1>5 DEF StoreField, Fail
  <2> QED
    BY <1>1, <1>4, <1>5, <2>1, EndsWrong, CodesAreErrors
<1>6. CASE IsFieldName(fieldName) /\ ~IsFieldValue(val)
  <2>1. ec' = "bad_field_value"
    BY <1>3, <1>6 DEF StoreField
  <2> QED
    BY <1>1, <1>4, <1>6, <2>1, EndsWrong, CodesAreErrors
<1>7. CASE IsFieldName(fieldName) /\ IsFieldValue(val)
  <2>1. /\ ec' = "parsing"
        /\ header' = [header EXCEPT !.fields = append(@, fieldName, val)]
        /\ ch = CR => state' = "expect_linefeed_and_return"
        /\ ch # CR => state' = "fields_read_name" /\ buffer' = <<ch>>
    BY <1>1, <1>3, <1>7 DEF StoreField, Goto
  <2>2. PICK lines : LinesRead(input, pos + 1, pos + 1, header', lines)
    BY <1>4, <1>7, <2>1
  <2>3. pos + 1 \in 1..Len(input)
    BY <1>1, LenProperties
  <2>4. /\ ch = CR => AtLastBreak(input, pos + 1, header')
        /\ ch # CR => InName(input, pos + 1, <<ch>>, header')
    BY <1>1, <2>2, <2>3, LineBegins
  <2>5. /\ ch = CR => AtLastBreak(input', pos', header')
        /\ ch # CR => InName(input', pos', buffer', header')
    BY <1>1, <2>1, <2>4
  <2>6. Reading'
    BY <2>1, <2>5 DEF Reading
  <2> QED
    BY <2>1, <2>6, ReadsOn
<1> QED
  BY <1>5, <1>6, <1>7

LEMMA SkipWsAfterNewlineReads ==
  ASSUME IInv, GrammarInv, SkipWsAfterNewline PROVE GrammarInv'
<1>0. In("fields_skip_ws_after_newline")
  BY DEF SkipWsAfterNewline
<1>1. /\ Reading /\ ec = "parsing" /\ state = "fields_skip_ws_after_newline"
      /\ input \in Seq(Byte) /\ pos \in Nat /\ pos + 1 <= Len(input)
      /\ pos' = pos + 1 /\ input' = input /\ ch = input[pos + 1]
  BY <1>0, Turn
<1>2. PICK v : /\ OfValue(input, pos, v, buffer, fieldName, header)
               /\ Continues(input, pos, v)
  BY <1>1 DEF Reading
<1>3. /\ ch = CR =>
           /\ OfValue(input, pos + 1, v, buffer, fieldName, header)
           /\ TextBreaks(input, pos + 1)
      /\ is_strict_whitespace(ch) =>
           /\ OfValue(input, pos + 1, v, buffer, fieldName, header)
           /\ Continues(input, pos + 1, v)
      /\ ch # CR /\ ~is_strict_whitespace(ch) =>
           /\ OfValue(input, pos + 1, v, buffer \o <<SP, ch>>, fieldName,
                      header)
           /\ InText(input, pos + 1, v)
  BY <1>1, <1>2, ContinuesStep
<1>4. ec' = "parsing" /\ header' = header /\ fieldName' = fieldName
  BY <1>1 DEF SkipWsAfterNewline, Goto, ExpectLinefeedThen
<1>5. CASE ch = CR
  <2>1. /\ state' = "expect_linefeed" /\ buffer' = buffer
        /\ afterNewline' = "fields_check_continuation"
    BY <1>5 DEF SkipWsAfterNewline, ExpectLinefeedThen
  <2>2. /\ OfValue(input', pos', v, buffer', fieldName', header')
        /\ TextBreaks(input', pos')
    BY <1>1, <1>3, <1>4, <1>5, <2>1
  <2>3. Reading'
    BY <2>1, <2>2 DEF Reading
  <2> QED
    BY <1>4, <2>3, ReadsOn
<1>6. CASE ch # CR /\ is_strict_whitespace(ch)
  <2>1. state' = "fields_skip_ws_after_newline" /\ buffer' = buffer
    BY <1>1, <1>6 DEF SkipWsAfterNewline, control
  <2>2. /\ OfValue(input', pos', v, buffer', fieldName', header')
        /\ Continues(input', pos', v)
    BY <1>1, <1>3, <1>4, <1>6, <2>1
  <2>3. Reading'
    BY <2>1, <2>2 DEF Reading
  <2> QED
    BY <1>4, <2>3, ReadsOn
<1>7. CASE ch # CR /\ ~is_strict_whitespace(ch)
  <2>1. state' = "fields_read_value" /\ buffer' = buffer \o <<SP, ch>>
    BY <1>1, <1>7 DEF SkipWsAfterNewline, Goto
  <2>2. /\ OfValue(input', pos', v, buffer', fieldName', header')
        /\ InText(input', pos', v)
    BY <1>1, <1>3, <1>4, <1>7, <2>1
  <2>3. Reading'
    BY <2>1, <2>2 DEF Reading
  <2> QED
    BY <1>4, <2>3, ReadsOn
<1> QED
  BY <1>5, <1>6, <1>7

LEMMA FinalLinefeedReads ==
  ASSUME IInv, GrammarInv, FinalLinefeed PROVE GrammarInv'
<1>0. In("expect_linefeed_and_return")
  BY DEF FinalLinefeed
<1>1. /\ Reading /\ ec = "parsing" /\ state = "expect_linefeed_and_return"
      /\ input \in Seq(Byte) /\ pos \in Nat /\ pos + 1 <= Len(input)
      /\ pos' = pos + 1 /\ input' = input /\ ch = input[pos + 1]
  BY <1>0, Turn
<1>2. AtLastBreak(input, pos, header)
  BY <1>1 DEF Reading
<1>3. CASE ch # LF
  <2>1. ec' = "expected_linefeed"
    BY <1>3 DEF FinalLinefeed
  <2>2. Meaning(input, pos + 1) = Stopped("expected_linefeed")
    BY <1>1, <1>2, <1>3, EndStep
  <2> QED
    BY <1>1, <2>1, <2>2, EndsWrong, CodesAreErrors
<1>4. CASE ch = LF
  <2>1. ec' = "completed" /\ header' = header
    BY <1>4 DEF FinalLinefeed
  <2>2. PICK lines \in Seq(StringPair) :
          /\ Meaning(input, pos + 1)
               = [ec |-> "completed", header |-> header, lines |-> lines]
          /\ header.fields = FieldsOf(lines)
    BY <1>1, <1>2, <1>4, EndStep
  <2>3. /\ Meaning(input', pos')
             = [ec |-> "completed", header |-> header', lines |-> lines]
        /\ header'.fields = FieldsOf(lines)
    BY <1>1, <2>1, <2>2
  <2>4. Finished'
    BY <2>1, <2>2, <2>3 DEF Finished, ParseError
  <2> QED
    BY <2>1, <2>4 DEF GrammarInv, Working
<1> QED
  BY <1>3, <1>4

LEMMA CollectReads ==
  ASSUME IInv, GrammarInv, Collect PROVE GrammarInv'
<1>0. PICK s \in DOMAIN Stop :
        /\ In(s) /\ ch # Stop[s]
        /\ buffer' = Append(buffer, ch)
        /\ UNCHANGED <<ec, control, fieldName, header>>
  BY DEF Collect
<1>1. /\ Reading /\ ec = "parsing" /\ state = s
      /\ input \in Seq(Byte) /\ pos \in Nat /\ pos + 1 <= Len(input)
      /\ pos' = pos + 1 /\ input' = input /\ ch = input[pos + 1]
  BY <1>0, Turn
<1>2. /\ ec' = "parsing" /\ state' = s /\ afterNewline' = afterNewline
      /\ fieldName' = fieldName /\ header' = header
  BY <1>0, <1>1 DEF control
<1>3. CASE s = "req_line_read_method"
  <2>1. InMethod(input, pos, buffer, header) /\ ch # SP
    BY <1>0, <1>1, <1>3 DEF Reading, Stop
  <2>2. InMethod(input, pos + 1, Append(buffer, ch), header)
    BY <1>1, <2>1, LineCollects
  <2>3. InMethod(input', pos', buffer', header')
    BY <1>0, <1>1, <1>2, <2>2
  <2> QED
    BY <1>2, <1>3, <2>3, ReadsOn DEF Reading
<1>4. CASE s = "req_line_read_req_target"
  <2>1. InTarget(input, pos, buffer, header) /\ ch # SP
    BY <1>0, <1>1, <1>4 DEF Reading, Stop
  <2>2. InTarget(input, pos + 1, Append(buffer, ch), header)
    BY <1>1, <2>1, LineCollects
  <2>3. InTarget(input', pos', buffer', header')
    BY <1>0, <1>1, <1>2, <2>2
  <2> QED
    BY <1>2, <1>4, <2>3, ReadsOn DEF Reading
<1>5. CASE s = "req_line_read_protocol_name"
  <2>1. InProtocol(input, pos, buffer, header) /\ ch # Slash
    BY <1>0, <1>1, <1>5 DEF Reading, Stop
  <2>2. InProtocol(input, pos + 1, Append(buffer, ch), header)
    BY <1>1, <2>1, LineCollects
  <2>3. InProtocol(input', pos', buffer', header')
    BY <1>0, <1>1, <1>2, <2>2
  <2> QED
    BY <1>2, <1>5, <2>3, ReadsOn DEF Reading
<1>6. CASE s = "req_line_read_protocol_version_major"
  <2>1. InMajor(input, pos, buffer, header) /\ ch # Dot
    BY <1>0, <1>1, <1>6 DEF Reading, Stop
  <2>2. InMajor(input, pos + 1, Append(buffer, ch), header)
    BY <1>1, <2>1, LineCollects
  <2>3. InMajor(input', pos', buffer', header')
    BY <1>0, <1>1, <1>2, <2>2
  <2> QED
    BY <1>2, <1>6, <2>3, ReadsOn DEF Reading
<1>7. CASE s = "req_line_read_protocol_version_minor"
  <2>1. InMinor(input, pos, buffer, header) /\ ch # CR
    BY <1>0, <1>1, <1>7 DEF Reading, Stop
  <2>2. InMinor(input, pos + 1, Append(buffer, ch), header)
    BY <1>1, <2>1, LineCollects
  <2>3. InMinor(input', pos', buffer', header')
    BY <1>0, <1>1, <1>2, <2>2
  <2> QED
    BY <1>2, <1>7, <2>3, ReadsOn DEF Reading
<1>8. CASE s = "fields_read_name"
  <2>1. InName(input, pos, buffer, header) /\ ch # Colon
    BY <1>0, <1>1, <1>8 DEF Reading, Stop
  <2>2. InName(input, pos + 1, Append(buffer, ch), header)
    BY <1>1, <2>1, NameStep
  <2>3. InName(input', pos', buffer', header')
    BY <1>0, <1>1, <1>2, <2>2
  <2> QED
    BY <1>2, <1>8, <2>3, ReadsOn DEF Reading
<1>9. CASE s = "fields_read_value"
  <2>1. PICK v : /\ OfValue(input, pos, v, buffer, fieldName, header)
                 /\ InText(input, pos, v) /\ ch # CR
    BY <1>0, <1>1, <1>9 DEF Reading, Stop
  <2>2. /\ OfValue(input, pos + 1, v, Append(buffer, ch), fieldName, header)
        /\ InText(input, pos + 1, v)
    BY <1>1, <2>1, TextStep
  <2>3. /\ OfValue(input', pos', v, buffer', fieldName', header')
        /\ InText(input', pos', v)
    BY <1>0, <1>1, <1>2, <2>2
  <2> QED
    BY <1>2, <1>9, <2>3, ReadsOn DEF Reading
<1> QED
  BY <1>3, <1>4, <1>5, <1>6, <1>7, <1>8, <1>9 DEF Stop

(* The steps that take no byte. *)
LEMMA OtherReads ==
  ASSUME IInv, GrammarInv,
         \/ Call \/ OutOfData \/ HeaderCompleted \/ HeaderRefused
         \/ UNCHANGED vars
  PROVE  GrammarInv'
<1>1. UNCHANGED <<input, pos, state, afterNewline, buffer, fieldName, header>>
  BY DEF Call, OutOfData, HeaderCompleted, HeaderRefused, vars, control,
         strings, outcome
<1>2. Reading => Reading'
  BY <1>1 DEF Reading
<1>3. CASE Call \/ OutOfData
  <2>1. Working /\ ec' \in {"more_data_needed", "parsing"}
    BY <1>3 DEF Call, OutOfData, Working
  <2> QED
    BY <1>2, <2>1 DEF GrammarInv, Finished, ParseError
<1>4. CASE HeaderCompleted \/ HeaderRefused \/ UNCHANGED vars
  <2>1. ec' = ec
    BY <1>4 DEF HeaderCompleted, HeaderRefused, vars
  <2>2. Finished => Finished'
    BY <1>1, <2>1 DEF Finished
  <2> QED
    BY <1>2, <2>1, <2>2 DEF GrammarInv, Working
<1> QED
  BY <1>3, <1>4

LEMMA GrammarNext == IInv /\ GrammarInv /\ [Next]_vars => GrammarInv'
<1> SUFFICES ASSUME IInv, GrammarInv, [Next]_vars PROVE GrammarInv'
  OBVIOUS
<1>1. CASE UNCHANGED vars
  BY <1>1, OtherReads
<1>2. CASE Parse
  BY <1>2, OtherReads, CollectReads, EndMethodReads, EndTargetReads,
     EndProtocolNameReads, EndMajorReads, EndMinorReads, LinefeedReads,
     StartFieldReads, EndNameReads, StartValueReads, EmptyValueReads,
     EndValueReads, ContinueValueReads, StoreFieldReads,
     SkipWsAfterNewlineReads, FinalLinefeedReads DEF Parse
<1> QED
  BY <1>1, <1>2 DEF Next, Done

LEMMA GrammarInvHolds == Spec => []GrammarInv
<1>1. Init => GrammarInv
  BY GrammarInit
<1>2. IInv /\ GrammarInv /\ [Next]_vars => GrammarInv'
  BY GrammarNext
<1> QED
  BY <1>1, <1>2, IInvHolds, PTL DEF Spec

(* Whatever is sent and however it is cut into spans, parse returns what   *)
(* the grammar says of the bytes taken, and stores the header that the     *)
(* grammar finds in them.                                                  *)
THEOREM ParserMatchesGrammar == Spec => []MatchesGrammar
<1>1. IInv /\ GrammarInv => MatchesGrammar
  BY GrammarInvMeans
<1> QED
  BY <1>1, IInvHolds, GrammarInvHolds, PTL

(* What an accepted request has come from. *)
Accepted ==
  answer = "accepted" =>
    /\ ec = "completed"
    /\ length = get_content_length(header.fields)
    /\ length # None

LEMMA AcceptedMeans ==
  ASSUME GrammarInv, Accepted PROVE LengthIsUnambiguous
<1> SUFFICES ASSUME answer = "accepted" PROVE LengthIsUnambiguous
  BY DEF LengthIsUnambiguous
<1>1. PICK lines \in Seq(StringPair) :
        /\ Meaning(input, pos)
             = [ec |-> "completed", header |-> header, lines |-> lines]
        /\ header.fields = FieldsOf(lines)
  BY DEF GrammarInv, Finished, Accepted
<1>2. Meaning(input, pos).lines = lines
  BY <1>1
<1>3. IF LinesOf(lines, ContentLength) = {} THEN length = 0
      ELSE \E i \in GivenBy(lines, ContentLength) :
             /\ GivenBy(lines, ContentLength) = {i}
             /\ length = Numeral(lines[i][2])
  BY <1>1, LengthOfLines DEF Accepted
<1> QED
  BY <1>2, <1>3, Zenon DEF LengthIsUnambiguous, LinesOf, GivenBy

(* A step of the loop is one of parse, which an answer ends. *)
LEMMA AcceptedNext == Accepted /\ [Next]_vars => Accepted'
<1> SUFFICES ASSUME Accepted, [Next]_vars PROVE Accepted'
  OBVIOUS
<1>1. CASE HeaderCompleted
  <2>1. ec' = ec /\ header' = header /\ ec = "completed"
    BY <1>1 DEF HeaderCompleted
  <2>2. answer' = "accepted" =>
          /\ length' = get_content_length(header.fields)
          /\ get_content_length(header.fields) # None
    BY <1>1 DEF HeaderCompleted
  <2> QED
    BY <2>1, <2>2 DEF Accepted
<1>2. CASE HeaderRefused
  BY <1>2 DEF HeaderRefused, Accepted
<1>3. CASE UNCHANGED vars
  BY <1>3 DEF vars, outcome, Accepted
<1>4. CASE ec \in {"parsing", "more_data_needed"} /\ UNCHANGED outcome
  BY <1>4 DEF outcome, Accepted
<1>5. CASE Parse
  <2>1. \/ ec \in {"parsing", "more_data_needed"} /\ UNCHANGED outcome
        \/ HeaderCompleted \/ HeaderRefused
    BY <1>5 DEF Parse, Call, OutOfData, Collect, EndMethod, EndTarget,
       EndProtocolName, EndMajor, EndMinor, Linefeed, StartField, EndName,
       StartValue, EmptyValue, EndValue, ContinueValue, StoreField,
       SkipWsAfterNewline, FinalLinefeed, In
  <2> QED
    BY <1>1, <1>2, <1>4, <2>1
<1> QED
  BY <1>3, <1>5 DEF Next, Done

LEMMA AcceptedHolds == Spec => []Accepted
<1>1. Init => Accepted
  BY DEF Init, Accepted
<1> QED
  BY <1>1, AcceptedNext, PTL DEF Spec

(* A request that read_request_header accepts has at most one line that    *)
(* gives a length, for every input and however it is cut, and the body is  *)
(* read to that length.                                                    *)
THEOREM ParserLengthIsUnambiguous == Spec => []LengthIsUnambiguous
<1>1. GrammarInv /\ Accepted => LengthIsUnambiguous
  BY AcceptedMeans
<1> QED
  BY <1>1, GrammarInvHolds, AcceptedHolds, PTL

-----------------------------------------------------------------------------
(* parse_cookie_string.  StoreIsSafe is not inductive: that what is        *)
(* inserted is fit for it depends on how the key and the buffer got their  *)
(* contents.                                                               *)

(* While a value is read the key is a token and the buffer has no          *)
(* semicolon; at any other time there is no key.                           *)
Pair ==
  result = "parsing" =>
    IF current_state = "value"
    THEN /\ is_token(key)
         /\ \A i \in DOMAIN cookieBuffer : cookieBuffer[i] # Semicolon
    ELSE key = <<>>

CookieInv == CookieTypeOK /\ StoreIsSafe /\ Pair

LEMMA InsertKeepsStore ==
  ASSUME NEW m, IsStore(m), NEW k \in Seq(Byte), NEW val \in Seq(Byte)
  PROVE  /\ IsStore(insert(m, k, val))
         /\ DOMAIN insert(m, k, val) = DOMAIN m \cup {k}
         /\ \A x \in DOMAIN m : insert(m, k, val)[x] = m[x]
         /\ k \notin DOMAIN m => insert(m, k, val)[k] = val
BY DEF insert, IsStore

(* Inserting a token and a value without semicolon keeps a store safe. *)
LEMMA InsertIsSafe ==
  ASSUME CookieTypeOK, StoreIsSafe, is_token(key),
         \A i \in DOMAIN cookieBuffer : cookieBuffer[i] # Semicolon,
         values' = insert(values, key, cookieBuffer), store' = store
  PROVE  IsStore(values') /\ StoreIsSafe'
<1>1. key \in Seq(Byte) /\ cookieBuffer \in Seq(Byte) /\ IsStore(values)
  BY DEF CookieTypeOK
<1>2. /\ IsStore(values')
      /\ DOMAIN values' = DOMAIN values \cup {key}
      /\ \A x \in DOMAIN values : values'[x] = values[x]
      /\ key \notin DOMAIN values => values'[key] = cookieBuffer
  BY <1>1, InsertKeepsStore
<1>3. \A k \in DOMAIN store : k \in DOMAIN values' /\ values'[k] = store[k]
  BY <1>2 DEF StoreIsSafe
<1>4. ASSUME NEW k \in DOMAIN values' \ DOMAIN store
      PROVE  is_token(k) /\ \A i \in DOMAIN values'[k] :
                              values'[k][i] # Semicolon
  <2>1. CASE k \in DOMAIN values
    BY <1>2, <2>1 DEF StoreIsSafe
  <2>2. CASE k \notin DOMAIN values
    <3>1. k = key /\ values'[k] = cookieBuffer
      BY <1>2, <2>2
    <3> QED BY <3>1
  <2> QED BY <2>1, <2>2
<1> QED BY <1>2, <1>3, <1>4 DEF StoreIsSafe

LEMMA AppendNoSemicolon ==
  ASSUME NEW s \in Seq(Byte), NEW c \in Byte, c # Semicolon,
         \A i \in DOMAIN s : s[i] # Semicolon
  PROVE  \A i \in DOMAIN Append(s, c) : Append(s, c)[i] # Semicolon
OBVIOUS

LEMMA StoreUntouched ==
  ASSUME StoreIsSafe, UNCHANGED <<store, values>>
  PROVE  StoreIsSafe'
BY DEF StoreIsSafe

LEMMA CookieInvInit == CookieInit => CookieInv
BY StringsAssumption, StoresAssumption
   DEF CookieInit, CookieInv, CookieTypeOK, StoreIsSafe, Pair, CookieState

(* The character that a turn takes is one of the string. *)
LEMMA CookieTakes ==
  ASSUME CookieTypeOK, NEW s, InCookie(s)
  PROVE  cookieChar \in Byte /\ ptr' \in 0..Len(str)
BY DEF CookieTypeOK, InCookie, cookieChar

LEMMA CookieInvNext == CookieInv /\ [CookieNext]_cookieVars => CookieInv'
<1> SUFFICES ASSUME CookieInv, [CookieNext]_cookieVars PROVE CookieInv'
  OBVIOUS
<1> CookieTypeOK /\ StoreIsSafe /\ Pair
  BY DEF CookieInv
<1>1. CASE CollectCookie
  <2>1. cookieChar \in Byte /\ ptr' \in 0..Len(str)
    BY <1>1, CookieTakes DEF CollectCookie
  <2>2. /\ UNCHANGED <<str, store, current_state, key, values, result>>
        /\ cookieBuffer' = Append(cookieBuffer, cookieChar)
        /\ current_state = "value" => cookieChar # Semicolon
        /\ result = "parsing"
    BY <1>1 DEF CollectCookie, InCookie
  <2>3. CookieTypeOK'
    BY <2>1, <2>2 DEF CookieTypeOK, IsStore
  <2>4. Pair'
    BY <2>1, <2>2, AppendNoSemicolon DEF Pair, CookieTypeOK
  <2> QED BY <2>2, <2>3, <2>4, StoreUntouched DEF CookieInv
<1>2. CASE EmptyKey \/ InvalidKey \/ OtherThanSpace
  <2>1. ptr' \in 0..Len(str)
    BY <1>2, CookieTakes DEF EmptyKey, InvalidKey, OtherThanSpace
  <2>2. /\ UNCHANGED <<str, store, current_state, key, cookieBuffer, values>>
        /\ result' \in Errors /\ result' # "parsing"
    BY <1>2 DEF EmptyKey, InvalidKey, OtherThanSpace, InCookie, FailCookie,
                cookieStrings, Errors
  <2> QED BY <2>1, <2>2, StoreUntouched DEF CookieInv, CookieTypeOK, IsStore, Pair
<1>3. CASE EndKey
  <2>1. ptr' \in 0..Len(str)
    BY <1>3, CookieTakes DEF EndKey
  <2>2. /\ UNCHANGED <<str, store, values, result>>
        /\ is_token(cookieBuffer) /\ key' = cookieBuffer /\ cookieBuffer' = <<>>
        /\ current_state' = "value"
    BY <1>3 DEF EndKey, InCookie
  <2>3. CookieTypeOK'
    BY <2>1, <2>2 DEF CookieTypeOK, IsStore, CookieState
  <2>4. Pair'
    BY <2>2 DEF Pair
  <2> QED BY <2>2, <2>3, <2>4, StoreUntouched DEF CookieInv
<1>4. CASE EndCookie \/ DuplicatedKey \/ EndWithKey
  <2>1. /\ ptr' \in 0..Len(str)
        /\ UNCHANGED <<str, store>>
        /\ current_state = "value"
        /\ is_token(key)
        /\ \A i \in DOMAIN cookieBuffer : cookieBuffer[i] # Semicolon
    <3>1. CASE EndCookie \/ DuplicatedKey
      BY <3>1, CookieTakes DEF EndCookie, DuplicatedKey, InCookie, Pair
    <3>2. CASE EndWithKey
      BY <3>2 DEF EndWithKey, AtEnd, Pair, CookieTypeOK
    <3> QED BY <1>4, <3>1, <3>2
  <2>2. /\ values' = insert(values, key, cookieBuffer)
        /\ key' = <<>> /\ cookieBuffer' = <<>>
        /\ current_state' \in {current_state, "expect_one_whitespace"}
        /\ \/ result' \in {"no_error", "duplicated_key"}
           \/ result' = result /\ current_state' = "expect_one_whitespace"
    <3>1. CASE EndCookie
      BY <3>1 DEF EndCookie
    <3>2. CASE DuplicatedKey
      BY <3>2 DEF DuplicatedKey
    <3>3. CASE EndWithKey
      BY <3>3 DEF EndWithKey, AtEnd
    <3> QED BY <1>4, <3>1, <3>2, <3>3
  <2>3. IsStore(values') /\ StoreIsSafe'
    BY <2>1, <2>2, InsertIsSafe
  <2>4. CookieTypeOK'
    BY <2>1, <2>2, <2>3 DEF CookieTypeOK, CookieState, Errors
  <2>5. Pair'
    BY <2>2 DEF Pair
  <2> QED BY <2>3, <2>4, <2>5 DEF CookieInv
<1>5. CASE OneSpace
  <2>1. ptr' \in 0..Len(str)
    BY <1>5, CookieTakes DEF OneSpace
  <2>2. /\ UNCHANGED <<str, store, key, cookieBuffer, values, result>>
        /\ current_state = "expect_one_whitespace" /\ current_state' = "key"
        /\ result = "parsing"
    BY <1>5 DEF OneSpace, InCookie, cookieStrings
  <2> QED BY <2>1, <2>2, StoreUntouched
          DEF CookieInv, CookieTypeOK, IsStore, Pair, CookieState
<1>6. CASE EndWithoutKey
  BY <1>6, StoreUntouched
     DEF EndWithoutKey, AtEnd, cookieStrings, CookieInv, CookieTypeOK, IsStore,
         Pair, Errors
<1>7. CASE UNCHANGED cookieVars
  BY <1>7, StoreUntouched
     DEF cookieVars, cookieStrings, CookieInv, CookieTypeOK, IsStore, Pair
<1> QED BY <1>1, <1>2, <1>3, <1>4, <1>5, <1>6, <1>7 DEF CookieNext, CookieDone

LEMMA CookieInvariant == CookieSpec => []CookieInv
BY CookieInvInit, CookieInvNext, PTL DEF CookieSpec

-----------------------------------------------------------------------------
(* parse_cookie_string keeps its types and reads only bytes of the string. *)
THEOREM CookieTypes == CookieSpec => []CookieTypeOK
BY CookieInvariant, PTL DEF CookieInv

(* Whatever the string and the store, and at whatever byte the call stops: *)
(* cookies that were there keep their values, and those that are added     *)
(* have tokens for keys and values without a semicolon.                    *)
THEOREM CookieStoreIsSafe == CookieSpec => []StoreIsSafe
BY CookieInvariant, PTL DEF CookieInv

-----------------------------------------------------------------------------
(* What a cookie string means.  The recursive function Pairs is what its   *)
(* definition says of it, and has pairs of texts in its results.           *)

PairsStep(f, s, i) ==
  LET eq == Place(s, Equals, i, Len(s))
      semi == Place(s, Semicolon, eq + 1, Len(s))
      k == SubSeq(s, i, eq - 1)
      pair == <<k, SubSeq(s, eq + 1, semi - 1)>>
  IN IF eq > Len(s) THEN [pairs |-> <<>>, ec |-> "key_incomplete"]
     ELSE IF k = <<>> THEN [pairs |-> <<>>, ec |-> "empty_key"]
     ELSE IF ~is_token(k) THEN [pairs |-> <<>>, ec |-> "invalid_key"]
     ELSE IF semi > Len(s) THEN [pairs |-> <<pair>>, ec |-> "no_error"]
     ELSE IF semi = Len(s)
     THEN [pairs |-> <<pair>>, ec |-> "key_incomplete"]
     ELSE IF s[semi + 1] # SP
     THEN [pairs |-> <<pair>>, ec |-> "single_space_expected"]
     ELSE [pairs |-> <<pair>> \o f[semi + 2].pairs, ec |-> f[semi + 2].ec]

ReadType == [pairs : Seq(StringPair), ec : {"no_error"} \cup Errors]

LEMMA PairsUnfolds ==
  ASSUME NEW s \in Seq(Byte)
  PROVE  \A i \in 1..(Len(s) + 1) :
           /\ Pairs(s)[i] = PairsStep(Pairs(s), s, i)
           /\ Pairs(s)[i] \in ReadType
<1>0. PICK N \in Nat : N = Len(s)
  BY LenProperties
<1> DEFINE S == 1..(N + 1)
           V == ReadType
           step == [i \in S |-> [f \in [S -> V] |-> PairsStep(f, s, i)]]
           size == [i \in S |-> N + 1 - i]
<1>1. ASSUME NEW i \in S
      PROVE  /\ IsPlace(s, Equals, i, Place(s, Equals, i, Len(s)))
             /\ Place(s, Equals, i, Len(s)) <= N =>
                  IsPlace(s, Semicolon, Place(s, Equals, i, Len(s)) + 1,
                          Place(s, Semicolon, Place(s, Equals, i, Len(s)) + 1, Len(s)))
  <2>1. IsPlace(s, Equals, i, Place(s, Equals, i, Len(s)))
    BY <1>0, PlaceExists
  <2>2. Place(s, Equals, i, Len(s)) <= N => Place(s, Equals, i, Len(s)) + 1 \in 1..(Len(s) + 1)
    BY <1>0, <2>1 DEF IsPlace
  <2> QED
    BY <2>1, <2>2, PlaceExists
<1>2. ASSUME NEW i \in S, NEW f, \A r \in S : i < r => f[r] \in V
      PROVE  PairsStep(f, s, i) \in V
  <2> DEFINE eq == Place(s, Equals, i, Len(s))
             semi == Place(s, Semicolon, eq + 1, Len(s))
             k == SubSeq(s, i, eq - 1)
             val == SubSeq(s, eq + 1, semi - 1)
  <2>1. eq \in i..(N + 1)
    BY <1>0, <1>1 DEF IsPlace
  <2>2. eq <= N => semi \in (eq + 1)..(N + 1)
    BY <1>0, <1>1 DEF IsPlace
  <2> HIDE DEF eq, semi
  <2>3. eq <= N => k \in Seq(Byte) /\ val \in Seq(Byte)
    BY <1>0, <2>1, <2>2, PartType
  <2> HIDE DEF k, val
  <2>4. CASE eq > N
    BY <1>0, <2>4 DEF PairsStep, eq, ReadType, Errors
  <2>5. CASE eq <= N
    <3>1. <<k, val>> \in StringPair
      BY <2>3, <2>5 DEF StringPair
    <3>2. <<<<k, val>>>> \in Seq(StringPair) /\ <<>> \in Seq(StringPair)
      BY <3>1
    <3>3. semi < N => f[semi + 2] \in V
      BY <1>2, <2>1, <2>2, <2>5
    <3>4. semi < N => <<<<k, val>>>> \o f[semi + 2].pairs \in Seq(StringPair)
      BY <3>2, <3>3, ConcatProperties DEF ReadType
    <3>5. PairsStep(f, s, i) =
            IF k = <<>> THEN [pairs |-> <<>>, ec |-> "empty_key"]
            ELSE IF ~is_token(k) THEN [pairs |-> <<>>, ec |-> "invalid_key"]
            ELSE IF semi > N
            THEN [pairs |-> <<<<k, val>>>>, ec |-> "no_error"]
            ELSE IF semi = N
            THEN [pairs |-> <<<<k, val>>>>, ec |-> "key_incomplete"]
            ELSE IF s[semi + 1] # SP
            THEN [pairs |-> <<<<k, val>>>>, ec |-> "single_space_expected"]
            ELSE [pairs |-> <<<<k, val>>>> \o f[semi + 2].pairs,
                  ec |-> f[semi + 2].ec]
      BY <1>0, <2>1, <2>5 DEF PairsStep, eq, semi, k, val
    <3> QED
      BY <2>1, <2>2, <2>5, <3>2, <3>3, <3>4, <3>5 DEF ReadType, Errors
  <2> QED
    BY <2>1, <2>4, <2>5
<1>3. ASSUME NEW i \in S, NEW f \in [S -> V], NEW g \in [S -> V],
             \A r \in S : i < r => f[r] = g[r]
      PROVE  PairsStep(f, s, i) = PairsStep(g, s, i)
  <2> DEFINE eq == Place(s, Equals, i, Len(s))
             semi == Place(s, Semicolon, eq + 1, Len(s))
  <2>1. eq \in i..(N + 1)
    BY <1>0, <1>1 DEF IsPlace
  <2>2. eq <= N => semi \in (eq + 1)..(N + 1)
    BY <1>0, <1>1 DEF IsPlace
  <2> HIDE DEF eq, semi
  <2>3. eq <= N /\ semi < N => f[semi + 2] = g[semi + 2]
    BY <1>3, <2>1, <2>2
  <2>4. CASE eq > N
    BY <1>0, <2>4 DEF PairsStep, eq
  <2>5. CASE eq <= N /\ semi >= N
    BY <1>0, <2>1, <2>2, <2>5 DEF PairsStep, eq, semi
  <2>6. CASE eq <= N /\ semi < N
    BY <1>0, <2>1, <2>2, <2>3, <2>6 DEF PairsStep, eq, semi
  <2> QED
    BY <2>1, <2>2, <2>4, <2>5, <2>6
<1>4. IsRecursion(step, size, S, V)
  <2>1. size \in [S -> Nat]
    OBVIOUS
  <2>2. V # {}
    <3>1. [pairs |-> <<>>, ec |-> "no_error"] \in V
      BY DEF ReadType
    <3> QED
      BY <3>1
  <2>3. \A i, r \in S : size[r] < size[i] <=> i < r
    OBVIOUS
  <2>4. step \in [S -> [[S -> V] -> V]]
    BY <1>2
  <2>5. \A i \in S : \A f, g \in [S -> V] :
          (\A r \in S : size[r] < size[i] => f[r] = g[r])
            => step[i][f] = step[i][g]
    BY <1>3, <2>3
  <2> HIDE DEF S, V, size, step
  <2> QED
    BY <2>1, <2>2, <2>4, <2>5 DEF IsRecursion
<1>5. \E f \in [S -> V] : \A i \in S : f[i] = step[i][f]
  <2> HIDE DEF S, V, size, step
  <2> QED
    BY <1>4, Recursion
<1>6. PICK f \in [S -> V] : \A i \in S : f[i] = step[i][f]
  BY <1>5
<1> DEFINE Is(e) == e = [i \in S |-> PairsStep(e, s, i)]
<1>7. Is(f)
  BY <1>6
<1>8. Pairs(s) = CHOOSE e : Is(e)
  BY <1>0 DEF Pairs, PairsStep
<1>9. Is(Pairs(s))
  <2> HIDE DEF Is
  <2> QED
    BY <1>7, <1>8
<1>10. \A i \in S : Pairs(s)[i] = PairsStep(Pairs(s), s, i)
  BY <1>9
<1> DEFINE T == {n \in Nat : \A i \in S : N + 1 - i = n => Pairs(s)[i] \in V}
<1>11. ASSUME NEW n \in Nat, \A m \in 0..(n - 1) : m \in T PROVE n \in T
  <2> SUFFICES ASSUME NEW i \in S, N + 1 - i = n PROVE Pairs(s)[i] \in V
    OBVIOUS
  <2>1. ASSUME NEW r \in S, i < r PROVE Pairs(s)[r] \in V
    <3>1. N + 1 - r \in 0..(n - 1)
      BY <2>1
    <3> QED
      BY <1>11, <3>1
  <2> HIDE DEF S, V
  <2> QED
    BY <1>2, <1>10, <2>1
<1> HIDE DEF T
<1>12. \A n \in Nat : n \in T
  BY <1>11, StrongInduction
<1>13. ASSUME NEW i \in S PROVE Pairs(s)[i] \in V
  <2>1. N + 1 - i \in Nat
    OBVIOUS
  <2>2. N + 1 - i \in T
    BY <1>12, <2>1
  <2> QED
    BY <2>2 DEF T
<1> QED
  BY <1>0, <1>10, <1>13

Refused(e) == [pairs |-> <<>>, ec |-> e]

(* What the string says from a place on where there is no whole key. *)
LEMMA NoPairAt ==
  ASSUME NEW s \in Seq(Byte), NEW i \in 1..(Len(s) + 1), NEW e,
         IsPlace(s, Equals, i, e)
  PROVE  /\ e > Len(s) => Pairs(s)[i] = Refused("key_incomplete")
         /\ e <= Len(s) /\ SubSeq(s, i, e - 1) = <<>> =>
              Pairs(s)[i] = Refused("empty_key")
         /\ e <= Len(s) /\ SubSeq(s, i, e - 1) # <<>>
              /\ ~is_token(SubSeq(s, i, e - 1)) =>
              Pairs(s)[i] = Refused("invalid_key")
<1>0. PICK N \in Nat : N = Len(s)
  BY LenProperties
<1>1. Place(s, Equals, i, Len(s)) = e /\ e \in i..(N + 1)
  BY <1>0, PlaceIs DEF IsPlace
<1>2. Pairs(s)[i] = PairsStep(Pairs(s), s, i)
  BY PairsUnfolds
<1> DEFINE k == SubSeq(s, i, e - 1)
<1> HIDE DEF k
<1>3. ASSUME e > N PROVE Pairs(s)[i] = Refused("key_incomplete")
  BY <1>0, <1>1, <1>2, <1>3 DEF PairsStep, Refused
<1>4. ASSUME e <= N, k = <<>> PROVE Pairs(s)[i] = Refused("empty_key")
  BY <1>0, <1>1, <1>2, <1>4 DEF PairsStep, Refused, k
<1>5. ASSUME e <= N, k # <<>>, ~is_token(k)
      PROVE  Pairs(s)[i] = Refused("invalid_key")
  BY <1>0, <1>1, <1>2, <1>5 DEF PairsStep, Refused, k
<1> QED
  BY <1>0, <1>3, <1>4, <1>5 DEF k

(* There is a pair at i, with the equals sign at e, and a semicolon or the *)
(* end of the string at m.                                                 *)
IsPair(s, i, e, m) ==
  /\ i \in 1..(Len(s) + 1) /\ e \in Nat /\ m \in Nat
  /\ IsPlace(s, Equals, i, e) /\ e <= Len(s)
  /\ is_token(SubSeq(s, i, e - 1))
  /\ IsPlace(s, Semicolon, e + 1, m)

PairIn(s, i, e, m) == <<SubSeq(s, i, e - 1), SubSeq(s, e + 1, m - 1)>>

(* What the string says from i on where a pair ends before m. *)
SaysPair(s, i, first, m) ==
  /\ m > Len(s) => Pairs(s)[i] = [pairs |-> <<first>>, ec |-> "no_error"]
  /\ m = Len(s) => Pairs(s)[i] = [pairs |-> <<first>>, ec |-> "key_incomplete"]
  /\ m < Len(s) /\ s[m + 1] # SP =>
       Pairs(s)[i] = [pairs |-> <<first>>, ec |-> "single_space_expected"]
  /\ m < Len(s) /\ s[m + 1] = SP =>
       Pairs(s)[i] = [pairs |-> <<first>> \o Pairs(s)[m + 2].pairs,
                      ec |-> Pairs(s)[m + 2].ec]

LEMMA PairAt ==
  ASSUME NEW s \in Seq(Byte), NEW i, NEW e, NEW m, IsPair(s, i, e, m)
  PROVE  SaysPair(s, i, PairIn(s, i, e, m), m)
<1>0. PICK N \in Nat : N = Len(s)
  BY LenProperties
<1> i \in 1..(N + 1) /\ i \in 1..(Len(s) + 1) /\ e \in Nat /\ m \in Nat
  BY <1>0 DEF IsPair
<1>1. Place(s, Equals, i, Len(s)) = e /\ e \in i..N /\ e + 1 \in 1..(Len(s) + 1)
  <2>1. IsPlace(s, Equals, i, e) /\ e <= Len(s)
    BY DEF IsPair
  <2>2. Place(s, Equals, i, Len(s)) = e
    BY <2>1, PlaceIs
  <2> QED
    BY <1>0, <2>1, <2>2 DEF IsPlace
<1>2. Place(s, Semicolon, e + 1, Len(s)) = m /\ m \in (e + 1)..(N + 1)
  <2>1. IsPlace(s, Semicolon, e + 1, m)
    BY DEF IsPair
  <2>2. Place(s, Semicolon, e + 1, Len(s)) = m
    BY <1>1, <2>1, PlaceIs
  <2> QED
    BY <1>0, <2>1, <2>2 DEF IsPlace
<1>3. Pairs(s)[i] = PairsStep(Pairs(s), s, i)
  BY PairsUnfolds
<1> DEFINE k == SubSeq(s, i, e - 1)
           val == SubSeq(s, e + 1, m - 1)
           next == Pairs(s)[m + 2]
<1>4. k # <<>> /\ is_token(k)
  <2>1. is_token(k)
    BY DEF IsPair
  <2> HIDE DEF k
  <2> QED
    BY <2>1 DEF is_token
<1>5. Pairs(s)[i] =
        IF m > N
        THEN [pairs |-> <<<<k, val>>>>, ec |-> "no_error"]
        ELSE IF m = N
        THEN [pairs |-> <<<<k, val>>>>, ec |-> "key_incomplete"]
        ELSE IF s[m + 1] # SP
        THEN [pairs |-> <<<<k, val>>>>, ec |-> "single_space_expected"]
        ELSE [pairs |-> <<<<k, val>>>> \o next.pairs, ec |-> next.ec]
  <2>1. ~(e > Len(s))
    BY <1>0, <1>1
  <2> HIDE DEF k, val
  <2> QED
    BY <1>0, <1>1, <1>2, <1>3, <1>4, <2>1, Zenon DEF PairsStep, k, val
<1> HIDE DEF k, val, next
<1>6. PairIn(s, i, e, m) = <<k, val>>
  BY DEF PairIn, k, val
<1> QED
  BY <1>0, <1>2, <1>5, <1>6 DEF SaysPair, next

-----------------------------------------------------------------------------
(* What has been read, and what is to come. *)

All(s) == Pairs(s)[1]

(* The first n pairs have been read; what is to come begins at b. *)
ToCome(s, n, b) ==
  LET next == Pairs(s)[b] IN
  /\ Len(All(s).pairs) = n + Len(next.pairs)
  /\ \A j \in 1..Len(next.pairs) : All(s).pairs[n + j] = next.pairs[j]
  /\ All(s).ec = next.ec

(* The key of a pair is neither in the store nor that of an earlier pair. *)
IsNewKey(s, st, i) ==
  /\ All(s).pairs[i][1] \notin DOMAIN st
  /\ \A j \in 1..(i - 1) : All(s).pairs[j][1] # All(s).pairs[i][1]

(* m is a store with the first n pairs added to it. *)
AreAdded(s, st, n, m) ==
  /\ n \in 0..Len(All(s).pairs)
  /\ IsStore(m)
  /\ DOMAIN m = DOMAIN st \cup {All(s).pairs[i][1] : i \in 1..n}
  /\ \A x \in DOMAIN st : m[x] = st[x]
  /\ \A i \in 1..n :
       IsNewKey(s, st, i) /\ m[All(s).pairs[i][1]] = All(s).pairs[i][2]

(* Up to p, the key of the pair that begins at b has been read, *)
ReadsKey(s, n, b, p, buf) ==
  /\ ToCome(s, n, b)
  /\ b \in 1..(p + 1)
  /\ buf = SubSeq(s, b, p)
  /\ \A j \in b..p : s[j] # Equals

(* or the key, the equals sign at e, and the value after it, *)
ReadsCookie(s, n, b, e, p, k, buf) ==
  /\ ToCome(s, n, b)
  /\ b \in 1..e
  /\ e \in 1..p
  /\ s[e] = Equals
  /\ \A j \in b..(e - 1) : s[j] # Equals
  /\ k = SubSeq(s, b, e - 1)
  /\ is_token(k)
  /\ buf = SubSeq(s, e + 1, p)
  /\ \A j \in (e + 1)..p : s[j] # Semicolon

(* or a pair, and a semicolon. *)
AfterCookie(s, n, p) ==
  /\ p = Len(s) => n = Len(All(s).pairs) /\ All(s).ec = "key_incomplete"
  /\ p < Len(s) /\ s[p + 1] # SP =>
       n = Len(All(s).pairs) /\ All(s).ec = "single_space_expected"
  /\ p < Len(s) /\ s[p + 1] = SP => ToCome(s, n, p + 2)

CookieProgress ==
  result = "parsing" =>
    \E n \in Nat :
      /\ AreAdded(str, store, n, values)
      /\ \/ /\ current_state = "key"
            /\ \E b \in Nat : ReadsKey(str, n, b, ptr, cookieBuffer)
         \/ /\ current_state = "value"
            /\ \E b, e \in Nat :
                 ReadsCookie(str, n, b, e, ptr, key, cookieBuffer)
         \/ /\ current_state = "expect_one_whitespace"
            /\ AfterCookie(str, n, ptr)
            /\ cookieBuffer = <<>>

MeaningInv == CookieInv /\ CookieProgress /\ MatchesCookieMeaning

LEMMA AllType ==
  ASSUME NEW s \in Seq(Byte)
  PROVE  /\ All(s).pairs \in Seq(StringPair)
         /\ Len(All(s).pairs) \in Nat
         /\ DOMAIN All(s).pairs = 1..Len(All(s).pairs)
         /\ \A i \in 1..Len(All(s).pairs) : All(s).pairs[i][1] \in Seq(Byte)
                                        /\ All(s).pairs[i][2] \in Seq(Byte)
<1>1. 1 \in 1..(Len(s) + 1)
  BY LenProperties
<1>2. All(s) \in ReadType
  BY <1>1, PairsUnfolds DEF All
<1>3. All(s).pairs \in Seq(StringPair)
  BY <1>2 DEF ReadType
<1>4. \A i \in 1..Len(All(s).pairs) : All(s).pairs[i] \in StringPair
  BY <1>3, ElementOfSeq
<1> QED
  BY <1>3, <1>4, LenProperties DEF StringPair

(* The store of a call that has ended is what the string means: all of it, *)
(* or up to a key that was there already.                                  *)
LEMMA MeaningIs ==
  ASSUME NEW s \in Seq(Byte), NEW st, NEW n \in Nat, NEW m, NEW e,
         AreAdded(s, st, n, m),
         \/ n = Len(All(s).pairs) /\ e = All(s).ec
         \/ n < Len(All(s).pairs) /\ ~IsNewKey(s, st, n + 1) /\ e = "duplicated_key"
  PROVE  CookieMeaning(s, st) = [values |-> m, ec |-> e]
<1> DEFINE P == All(s).pairs
           k == [i \in DOMAIN P |-> P[i][1]]
           IsNew(i) == k[i] \notin DOMAIN st /\ \A j \in 1..(i - 1) : k[j] # k[i]
           added == {i \in DOMAIN k : \A j \in 1..i : IsNew(j)}
           vals == [x \in DOMAIN st \cup {k[i] : i \in added} |->
                      IF x \in DOMAIN st THEN st[x]
                      ELSE P[CHOOSE i \in added : k[i] = x][2]]
<1>0. PICK N \in Nat : N = Len(P) /\ DOMAIN P = 1..N
  BY AllType
<1>1. CookieMeaning(s, st)
        = [values |-> vals,
           ec |-> IF added = DOMAIN k THEN All(s).ec ELSE "duplicated_key"]
  BY DEF CookieMeaning, All
<1>2. DOMAIN k = 1..N /\ \A i \in 1..N : k[i] = P[i][1]
  BY <1>0
<1>3. \A i \in 1..N : IsNew(i) <=> IsNewKey(s, st, i)
  <2> HIDE DEF k, P
  <2> QED
    BY <1>2 DEF IsNewKey, P
<1>4. n \in 0..N /\ \A i \in 1..n : IsNewKey(s, st, i)
  BY <1>0 DEF AreAdded
<1>5. n = N \/ (n < N /\ ~IsNewKey(s, st, n + 1))
  BY <1>0
<1> HIDE DEF IsNew, k, P
<1>6. added = 1..n
  <2>1. ASSUME NEW i \in 1..n PROVE i \in added
    BY <1>2, <1>3, <1>4
  <2>2. ASSUME NEW i \in added, ~(i \in 1..n) PROVE FALSE
    <3>1. i \in 1..N /\ i > n /\ n + 1 \in 1..i /\ n < N
      BY <1>2, <1>4, <2>2
    <3> QED
      BY <1>3, <1>5, <2>2, <3>1
  <2> QED
    BY <2>1, <2>2
<1>7. (added = DOMAIN k) <=> n = N
  BY <1>2, <1>4, <1>6
<1> HIDE DEF added
<1>8. vals = m
  <2>1. m \in [DOMAIN m -> Seq(Byte)]
    BY DEF AreAdded, IsStore
  <2>2. {k[i] : i \in added} = {P[i][1] : i \in 1..n}
    BY <1>2, <1>4, <1>6
  <2>3. DOMAIN m = DOMAIN st \cup {k[i] : i \in added}
    BY <2>2 DEF AreAdded, P
  <2>4. ASSUME NEW x \in DOMAIN m
        PROVE  m[x] = IF x \in DOMAIN st THEN st[x]
                      ELSE P[CHOOSE i \in added : k[i] = x][2]
    <3>1. CASE x \in DOMAIN st
      BY <3>1 DEF AreAdded
    <3>2. CASE x \notin DOMAIN st
      <4>1. PICK i \in added : k[i] = x /\ i = CHOOSE y \in added : k[y] = x
        BY <2>3, <3>2
      <4>2. i \in 1..n /\ P[i][1] = x
        BY <1>2, <1>4, <1>6, <4>1
      <4>3. m[P[i][1]] = P[i][2]
        BY <4>2 DEF AreAdded, P
      <4> QED
        BY <3>2, <4>1, <4>2, <4>3
    <3> QED
      BY <3>1, <3>2
  <2> QED
    BY <2>1, <2>3, <2>4
<1>9. (IF added = DOMAIN k THEN All(s).ec ELSE "duplicated_key") = e
  <2>1. (n = N /\ e = All(s).ec) \/ (n < N /\ e = "duplicated_key")
    BY <1>0 DEF P
  <2> QED
    BY <1>4, <1>7, <2>1
<1> HIDE DEF vals
<1> QED
  BY <1>1, <1>8, <1>9

(* There is nothing more to come. *)
LEMMA NothingToCome ==
  ASSUME NEW s \in Seq(Byte), NEW n \in Nat, NEW b, NEW e,
         ToCome(s, n, b), Pairs(s)[b] = Refused(e)
  PROVE  n = Len(All(s).pairs) /\ All(s).ec = e
<1>1. Pairs(s)[b].pairs = <<>> /\ Pairs(s)[b].ec = e
  BY DEF Refused
<1> QED
  BY <1>1 DEF ToCome

(* The next pair is the one that begins at b, and what follows it. *)
LEMMA NextPair ==
  ASSUME NEW s \in Seq(Byte), NEW n \in Nat, NEW b, NEW e, NEW m,
         ToCome(s, n, b), IsPair(s, b, e, m)
  PROVE  /\ n + 1 \in 1..Len(All(s).pairs)
         /\ All(s).pairs[n + 1] = PairIn(s, b, e, m)
         /\ m > Len(s) => n + 1 = Len(All(s).pairs) /\ All(s).ec = "no_error"
         /\ m <= Len(s) => AfterCookie(s, n + 1, m)
<1> DEFINE first == PairIn(s, b, e, m)
           P == All(s).pairs
<1>0. PICK N \in Nat : N = Len(s)
  BY LenProperties
<1> m \in Nat
  BY DEF IsPair
<1>1. SaysPair(s, b, first, m)
  BY PairAt
<1>2. first \in StringPair
  <2>1. /\ b \in 1..(Len(s) + 1) /\ e - 1 \in 0..Len(s)
        /\ e + 1 \in 1..(Len(s) + 1) /\ m - 1 \in 0..Len(s)
    BY <1>0 DEF IsPlace, IsPair
  <2> QED
    BY <2>1, PartType DEF StringPair, PairIn
<1> HIDE DEF first
<1>3. PICK L \in Nat : L = Len(P)
  BY AllType
<1>4. ASSUME NEW r, Pairs(s)[b] = [pairs |-> <<first>>, ec |-> r]
      PROVE  L = n + 1 /\ P[n + 1] = first /\ All(s).ec = r
  <2>1. Pairs(s)[b].pairs = <<first>> /\ Pairs(s)[b].ec = r
    BY <1>4
  <2>2. Len(<<first>>) = 1 /\ <<first>>[1] = first
    OBVIOUS
  <2> QED
    BY <1>3, <2>1, <2>2 DEF ToCome
<1>5. CASE m > N
  <2>1. L = n + 1 /\ P[n + 1] = first /\ All(s).ec = "no_error"
    BY <1>0, <1>1, <1>4, <1>5 DEF SaysPair
  <2> QED
    BY <1>0, <1>3, <1>5, <2>1 DEF first
<1>6. CASE m = N
  <2>1. L = n + 1 /\ P[n + 1] = first /\ All(s).ec = "key_incomplete"
    BY <1>0, <1>1, <1>4, <1>6 DEF SaysPair
  <2> QED
    BY <1>0, <1>3, <1>6, <2>1 DEF first, AfterCookie
<1>7. CASE m < N /\ s[m + 1] # SP
  <2>1. L = n + 1 /\ P[n + 1] = first /\ All(s).ec = "single_space_expected"
    BY <1>0, <1>1, <1>4, <1>7 DEF SaysPair
  <2> QED
    BY <1>0, <1>3, <1>7, <2>1 DEF first, AfterCookie
<1>8. CASE m < N /\ s[m + 1] = SP
  <2> DEFINE next == Pairs(s)[m + 2]
  <2>1. /\ Pairs(s)[b].pairs = <<first>> \o next.pairs
        /\ Pairs(s)[b].ec = next.ec
    <3>1. m < Len(s) /\ s[m + 1] = SP
      BY <1>0, <1>8
    <3>2. Pairs(s)[b] = [pairs |-> <<first>> \o next.pairs, ec |-> next.ec]
      BY <1>1, <3>1, Zenon DEF SaysPair
    <3> HIDE DEF next
    <3> QED
      BY <3>2
  <2>2. m + 2 \in 1..(Len(s) + 1)
    BY <1>0, <1>8
  <2>3. next \in ReadType
    BY <2>2, PairsUnfolds
  <2> HIDE DEF next
  <2>4. next.pairs \in Seq(StringPair) /\ <<first>> \in Seq(StringPair)
        /\ Len(<<first>>) = 1 /\ <<first>>[1] = first
    BY <1>2, <2>3 DEF ReadType
  <2>5. PICK R \in Nat : R = Len(next.pairs)
    BY <2>4, LenProperties
  <2> DEFINE both == <<first>> \o next.pairs
  <2>6. Len(both) = 1 + R
    BY <2>4, <2>5, ConcatProperties
  <2>7. both[1] = first /\ \A j \in 1..R : both[1 + j] = next.pairs[j]
    <3>1. \A x \in 1..(Len(<<first>>) + Len(next.pairs)) :
            both[x] = IF x <= Len(<<first>>) THEN <<first>>[x]
                      ELSE next.pairs[x - Len(<<first>>)]
      BY <2>4, ConcatProperties
    <3>2. \A x \in 1..(1 + R) :
            both[x] = IF x <= 1 THEN <<first>>[x] ELSE next.pairs[x - 1]
      BY <2>4, <2>5, <3>1, Zenon
    <3> HIDE DEF both
    <3> QED
      BY <2>4, <3>2
  <2> HIDE DEF both
  <2>8. L = n + (1 + R) /\ All(s).ec = next.ec
        /\ \A j \in 1..(1 + R) : P[n + j] = both[j]
    BY <1>3, <2>1, <2>6 DEF ToCome, both
  <2>9. P[n + 1] = first /\ n + 1 \in 1..L
    BY <2>7, <2>8
  <2>10. \A j \in 1..R : P[(n + 1) + j] = next.pairs[j]
    <3> SUFFICES ASSUME NEW j \in 1..R PROVE P[(n + 1) + j] = next.pairs[j]
      OBVIOUS
    <3>1. 1 + j \in 1..(1 + R) /\ n + (1 + j) = (n + 1) + j
      OBVIOUS
    <3>2. P[n + (1 + j)] = both[1 + j]
      BY <2>8, <3>1
    <3> QED
      BY <2>7, <3>1, <3>2
  <2>11. L = (n + 1) + R
    BY <2>8
  <2>12. ToCome(s, n + 1, m + 2)
    BY <1>3, <2>5, <2>8, <2>10, <2>11 DEF ToCome, next
  <2> QED
    BY <1>0, <1>3, <1>8, <2>9, <2>12 DEF first, AfterCookie
<1>9. m > N \/ m = N \/ (m < N /\ s[m + 1] # SP)
      \/ (m < N /\ s[m + 1] = SP)
  OBVIOUS
<1> QED
  BY <1>5, <1>6, <1>7, <1>8, <1>9, Zenon

(* Inserting the next pair. *)
LEMMA InsertNext ==
  ASSUME NEW s \in Seq(Byte), NEW st, NEW n \in Nat, NEW m, NEW k, NEW val,
         AreAdded(s, st, n, m), n + 1 \in 1..Len(All(s).pairs),
         All(s).pairs[n + 1] = <<k, val>>
  PROVE  /\ k \notin DOMAIN m => AreAdded(s, st, n + 1, insert(m, k, val))
         /\ k \in DOMAIN m => insert(m, k, val) = m /\ ~IsNewKey(s, st, n + 1)
<1> DEFINE P == All(s).pairs
           m2 == insert(m, k, val)
<1>0. PICK L \in Nat : L = Len(P)
  BY AllType
<1>1. k = P[n + 1][1] /\ val = P[n + 1][2]
      /\ k \in Seq(Byte) /\ val \in Seq(Byte)
  <2>1. P[n + 1][1] \in Seq(Byte) /\ P[n + 1][2] \in Seq(Byte)
    BY AllType
  <2> QED
    BY <2>1
<1>2. IsStore(m)
  BY DEF AreAdded
<1>3. /\ IsStore(m2)
      /\ DOMAIN m2 = DOMAIN m \cup {k}
      /\ \A x \in DOMAIN m : m2[x] = m[x]
      /\ k \notin DOMAIN m => m2[k] = val
  <2>1. k \in Seq(Byte) /\ val \in Seq(Byte)
    BY <1>1
  <2> HIDE DEF P
  <2> QED
    BY <1>2, <2>1, InsertKeepsStore
<1>4. DOMAIN m = DOMAIN st \cup {P[i][1] : i \in 1..n}
  BY DEF AreAdded
<1>5. \A i \in 1..n : IsNewKey(s, st, i) /\ m[P[i][1]] = P[i][2]
  BY DEF AreAdded
<1>6. \A x \in DOMAIN st : m[x] = st[x]
  BY DEF AreAdded
<1>7. \A i \in 1..n : P[i][1] \in DOMAIN m
  BY <1>4
<1>8. ASSUME k \notin DOMAIN m PROVE AreAdded(s, st, n + 1, m2)
  <2> HIDE DEF m2, P
  <2>1. IsNewKey(s, st, n + 1)
    <3>1. (n + 1) - 1 = n
      OBVIOUS
    <3> QED
      BY <1>1, <1>4, <1>7, <1>8, <3>1 DEF IsNewKey, P
  <2>2. \A i \in 1..(n + 1) : IsNewKey(s, st, i) /\ m2[P[i][1]] = P[i][2]
    <3> SUFFICES ASSUME NEW i \in 1..(n + 1)
                 PROVE  IsNewKey(s, st, i) /\ m2[P[i][1]] = P[i][2]
      OBVIOUS
    <3>1. CASE i \in 1..n
      BY <1>3, <1>5, <1>7, <3>1
    <3>2. CASE i = n + 1
      BY <1>1, <1>3, <1>8, <2>1, <3>2
    <3> QED
      BY <3>1, <3>2
  <2>3. DOMAIN m2 = DOMAIN st \cup {P[i][1] : i \in 1..(n + 1)}
    <3>1. ASSUME NEW x \in DOMAIN m2
          PROVE  x \in DOMAIN st \cup {P[i][1] : i \in 1..(n + 1)}
      <4>1. CASE x \in DOMAIN st
        BY <4>1
      <4>2. CASE x \in {P[i][1] : i \in 1..n}
        <5>1. PICK i \in 1..n : x = P[i][1]
          BY <4>2
        <5>2. i \in 1..(n + 1)
          OBVIOUS
        <5> QED
          BY <5>1, <5>2
      <4>3. CASE x = k
        <5>1. n + 1 \in 1..(n + 1)
          OBVIOUS
        <5> QED
          BY <1>1, <4>3, <5>1
      <4> QED
        BY <1>3, <1>4, <3>1, <4>1, <4>2, <4>3
    <3>2. ASSUME NEW i \in 1..(n + 1) PROVE P[i][1] \in DOMAIN m2
      <4>1. CASE i \in 1..n
        BY <1>3, <1>7, <4>1
      <4>2. CASE i = n + 1
        BY <1>1, <1>3, <4>2
      <4> QED
        BY <4>1, <4>2
    <3>3. DOMAIN st \subseteq DOMAIN m2
      BY <1>3, <1>4
    <3> QED
      BY <3>1, <3>2, <3>3
  <2>4. \A x \in DOMAIN st : m2[x] = st[x]
    BY <1>3, <1>4, <1>6
  <2>5. n + 1 \in 0..Len(P)
    BY <1>0 DEF P
  <2> QED
    BY <1>3, <2>2, <2>3, <2>4, <2>5 DEF AreAdded, P
<1>9. ASSUME k \in DOMAIN m PROVE m2 = m /\ ~IsNewKey(s, st, n + 1)
  <2>1. m2 = m
    <3>1. DOMAIN m2 = DOMAIN m
      BY <1>3, <1>9
    <3> QED
      BY <1>2, <1>3, <3>1 DEF IsStore
  <2> HIDE DEF m2, P
  <2>2. CASE k \in DOMAIN st
    BY <1>1, <2>1, <2>2 DEF IsNewKey, P
  <2>3. CASE k \notin DOMAIN st
    <3>1. PICK i \in 1..n : k = P[i][1]
      BY <1>4, <1>9, <2>3
    <3>2. i \in 1..((n + 1) - 1)
      OBVIOUS
    <3> QED
      BY <1>1, <2>1, <3>1, <3>2 DEF IsNewKey, P
  <2> QED
    BY <2>2, <2>3
<1> QED
  BY <1>8, <1>9

LEMMA MeaningInit == CookieInit => MeaningInv
<1> SUFFICES ASSUME CookieInit PROVE MeaningInv
  OBVIOUS
<1>1. CookieInv
  BY CookieInvInit
<1>2. str \in Seq(Byte) /\ IsStore(values)
  BY <1>1 DEF CookieInv, CookieTypeOK
<1>3. /\ result = "parsing" /\ current_state = "key" /\ ptr = 0
      /\ cookieBuffer = <<>> /\ values = store
  BY DEF CookieInit
<1>4. Len(All(str).pairs) \in Nat
  BY <1>2, AllType
<1>5. AreAdded(str, store, 0, values)
  <2>1. 0 \in 0..Len(All(str).pairs) /\ \A i \in 1..0 : FALSE
    BY <1>4
  <2>2. {All(str).pairs[i][1] : i \in 1..0} = {}
    BY <2>1
  <2> QED
    BY <1>2, <1>3, <2>1, <2>2 DEF AreAdded
<1>6. ToCome(str, 0, 1)
  <2>1. PICK L \in Nat : L = Len(All(str).pairs)
    BY <1>4
  <2>2. L = 0 + L /\ \A j \in 1..L : 0 + j = j
    OBVIOUS
  <2>3. Pairs(str)[1] = All(str)
    BY DEF All
  <2> QED
    BY <2>1, <2>2, <2>3 DEF ToCome
<1>7. SubSeq(str, 1, 0) = <<>>
  BY SubSeqEmpty
<1>8. ReadsKey(str, 0, 1, ptr, cookieBuffer)
  BY <1>3, <1>6, <1>7 DEF ReadsKey
<1>9. CookieProgress
  BY <1>3, <1>5, <1>8 DEF CookieProgress
<1> QED
  BY <1>1, <1>3, <1>9 DEF MeaningInv, MatchesCookieMeaning

(* A call that ends with the first n pairs added, and there are no more, *)
(* or the next one has a key that was there.                             *)
LEMMA EndsWith ==
  ASSUME NEW n \in Nat, str \in Seq(Byte), UNCHANGED <<str, store>>,
         AreAdded(str, store, n, values'), result' # "parsing",
         \/ n = Len(All(str).pairs) /\ result' = All(str).ec
         \/ /\ n < Len(All(str).pairs)
            /\ ~IsNewKey(str, store, n + 1)
            /\ result' = "duplicated_key"
  PROVE  CookieProgress' /\ MatchesCookieMeaning'
<1>1. CookieMeaning(str, store) = [values |-> values', ec |-> result']
  BY MeaningIs
<1> QED
  BY <1>1 DEF CookieProgress, MatchesCookieMeaning

(* What is known when a turn of the loop begins. *)
LEMMA TurnBegins ==
  ASSUME MeaningInv, result = "parsing"
  PROVE  /\ str \in Seq(Byte) /\ Len(str) \in Nat /\ ptr \in 0..Len(str)
         /\ cookieBuffer \in Seq(Byte) /\ key \in Seq(Byte)
         /\ \E n \in Nat :
              /\ AreAdded(str, store, n, values)
              /\ current_state = "key" =>
                   \E b \in Nat : ReadsKey(str, n, b, ptr, cookieBuffer)
              /\ current_state = "value" =>
                   \E b, e \in Nat :
                     ReadsCookie(str, n, b, e, ptr, key, cookieBuffer)
              /\ current_state = "expect_one_whitespace" =>
                   AfterCookie(str, n, ptr) /\ cookieBuffer = <<>>
         /\ current_state # "value" => key = <<>>
         /\ current_state = "value" => is_token(key)
<1>1. CookieInv /\ CookieProgress
  BY DEF MeaningInv
<1>2. CookieTypeOK /\ Pair
  BY <1>1 DEF CookieInv
<1>3. str \in Seq(Byte) /\ Len(str) \in Nat
  BY <1>2, LenProperties DEF CookieTypeOK
<1>4. PICK n \in Nat :
        /\ AreAdded(str, store, n, values)
        /\ \/ /\ current_state = "key"
              /\ \E b \in Nat : ReadsKey(str, n, b, ptr, cookieBuffer)
           \/ /\ current_state = "value"
              /\ \E b, e \in Nat :
                   ReadsCookie(str, n, b, e, ptr, key, cookieBuffer)
           \/ /\ current_state = "expect_one_whitespace"
              /\ AfterCookie(str, n, ptr)
              /\ cookieBuffer = <<>>
  BY <1>1 DEF CookieProgress
<1>5. \E x \in Nat :
        /\ AreAdded(str, store, x, values)
        /\ current_state = "key" =>
             \E b \in Nat : ReadsKey(str, x, b, ptr, cookieBuffer)
        /\ current_state = "value" =>
             \E b, e \in Nat :
               ReadsCookie(str, x, b, e, ptr, key, cookieBuffer)
        /\ current_state = "expect_one_whitespace" =>
             AfterCookie(str, x, ptr) /\ cookieBuffer = <<>>
  <2> WITNESS n \in Nat
  <2> QED
    BY <1>4
<1>6. ptr \in 0..Len(str) /\ cookieBuffer \in Seq(Byte) /\ key \in Seq(Byte)
  BY <1>2 DEF CookieTypeOK
<1>7. /\ current_state # "value" => key = <<>>
      /\ current_state = "value" => is_token(key)
  BY <1>2 DEF Pair
<1> QED
  BY <1>3, <1>5, <1>6, <1>7, Zenon

LEMMA CollectKeepsMeaning ==
  ASSUME MeaningInv, CollectCookie
  PROVE  CookieProgress' /\ MatchesCookieMeaning'
<1>0. /\ result = "parsing" /\ result' = "parsing"
      /\ ptr < Len(str) /\ ptr' = ptr + 1
      /\ UNCHANGED <<str, store, current_state, key, values>>
      /\ cookieBuffer' = Append(cookieBuffer, str[ptr + 1])
      /\ \/ current_state = "key" /\ str[ptr + 1] # Equals
         \/ current_state = "value" /\ str[ptr + 1] # Semicolon
  BY DEF CollectCookie, InCookie, cookieChar
<1>1. str \in Seq(Byte) /\ Len(str) \in Nat /\ ptr \in 0..Len(str)
  BY <1>0, TurnBegins
<1>2. PICK n \in Nat :
        /\ AreAdded(str, store, n, values)
        /\ current_state = "key" =>
             \E b \in Nat : ReadsKey(str, n, b, ptr, cookieBuffer)
        /\ current_state = "value" =>
             \E b, e \in Nat :
               ReadsCookie(str, n, b, e, ptr, key, cookieBuffer)
  BY <1>0, TurnBegins
<1>3. ptr \in 0..(Len(str) - 1)
  BY <1>0, <1>1
<1>4. CASE current_state = "key"
  <2>1. PICK b \in Nat : ReadsKey(str, n, b, ptr, cookieBuffer)
    BY <1>2, <1>4
  <2>2. /\ ToCome(str, n, b) /\ b \in 1..(ptr + 1)
        /\ cookieBuffer = SubSeq(str, b, ptr)
        /\ \A j \in b..ptr : str[j] # Equals
    BY <2>1 DEF ReadsKey
  <2>3. cookieBuffer' = SubSeq(str, b, ptr + 1)
    BY <1>0, <1>1, <1>3, <2>2, PartGrows
  <2>4. b \in 1..((ptr + 1) + 1) /\ \A j \in b..(ptr + 1) : str[j] # Equals
    BY <1>0, <1>1, <1>4, <2>2
  <2>5. ReadsKey(str, n, b, ptr + 1, cookieBuffer')
    BY <2>2, <2>3, <2>4 DEF ReadsKey
  <2> QED
    BY <1>0, <1>2, <1>4, <2>5 DEF CookieProgress, MatchesCookieMeaning
<1>5. CASE current_state = "value"
  <2>1. PICK b, e \in Nat : ReadsCookie(str, n, b, e, ptr, key, cookieBuffer)
    BY <1>2, <1>5
  <2>2. /\ e \in 1..ptr
        /\ cookieBuffer = SubSeq(str, e + 1, ptr)
        /\ \A j \in (e + 1)..ptr : str[j] # Semicolon
    BY <2>1 DEF ReadsCookie
  <2>3. e + 1 \in 1..(ptr + 1)
    BY <1>1, <2>2
  <2>4. cookieBuffer' = SubSeq(str, e + 1, ptr + 1)
    BY <1>0, <1>1, <1>3, <2>2, <2>3, PartGrows
  <2>5. e \in 1..(ptr + 1) /\ \A j \in (e + 1)..(ptr + 1) : str[j] # Semicolon
    BY <1>0, <1>1, <1>5, <2>2
  <2>6. ReadsCookie(str, n, b, e, ptr + 1, key, cookieBuffer')
    BY <2>1, <2>4, <2>5 DEF ReadsCookie
  <2> QED
    BY <1>0, <1>2, <1>5, <2>6 DEF CookieProgress, MatchesCookieMeaning
<1> QED
  BY <1>0, <1>4, <1>5

(* A key that ends, or that never does. *)
LEMMA KeyEndsMeaning ==
  ASSUME MeaningInv,
         EmptyKey \/ InvalidKey \/ EndKey
           \/ (EndWithoutKey /\ current_state = "key")
  PROVE  CookieProgress' /\ MatchesCookieMeaning'
<1>0. result = "parsing" /\ current_state = "key" /\ UNCHANGED <<str, store>>
  BY DEF EmptyKey, InvalidKey, EndKey, EndWithoutKey, InCookie, AtEnd
<1>1. str \in Seq(Byte) /\ Len(str) \in Nat /\ ptr \in 0..Len(str)
  BY <1>0, TurnBegins
<1>2. PICK n \in Nat :
        /\ AreAdded(str, store, n, values)
        /\ \E b \in Nat : ReadsKey(str, n, b, ptr, cookieBuffer)
  BY <1>0, TurnBegins
<1>3. PICK b \in Nat : ReadsKey(str, n, b, ptr, cookieBuffer)
  BY <1>2
<1>4. /\ ToCome(str, n, b) /\ b \in 1..(ptr + 1)
      /\ cookieBuffer = SubSeq(str, b, ptr)
      /\ \A j \in b..ptr : str[j] # Equals
  BY <1>3 DEF ReadsKey
<1>5. PICK q \in Nat : q = ptr + 1
  BY <1>1
<1>6. q - 1 = ptr /\ b \in 1..q /\ b \in 1..(Len(str) + 1)
  BY <1>1, <1>4, <1>5
<1>7. IsPlace(str, Equals, b, q)
  <2>1. q <= Len(str) => str[q] = Equals
    BY <1>0, <1>1, <1>5
       DEF EmptyKey, InvalidKey, EndKey, EndWithoutKey, InCookie, AtEnd,
           cookieChar
  <2> QED
    BY <1>1, <1>4, <1>5, <1>6, <2>1 DEF IsPlace
<1>8. cookieBuffer = SubSeq(str, b, q - 1)
  BY <1>4, <1>6
<1>9. ASSUME NEW e, Pairs(str)[b] = Refused(e), result' = e, e # "parsing",
             values' = values
      PROVE  CookieProgress' /\ MatchesCookieMeaning'
  <2>1. n = Len(All(str).pairs) /\ All(str).ec = e
    BY <1>1, <1>4, <1>9, NothingToCome
  <2> QED
    BY <1>0, <1>1, <1>2, <1>9, <2>1, EndsWith
<1>10. CASE EmptyKey
  <2>1. q <= Len(str) /\ cookieBuffer = <<>> /\ result' = "empty_key"
        /\ values' = values
    BY <1>1, <1>5, <1>10 DEF EmptyKey, InCookie, FailCookie
  <2>2. Pairs(str)[b] = Refused("empty_key")
    BY <1>1, <1>6, <1>7, <1>8, <2>1, NoPairAt
  <2> QED
    BY <1>9, <2>1, <2>2
<1>11. CASE InvalidKey
  <2>1. q <= Len(str) /\ cookieBuffer # <<>> /\ ~is_token(cookieBuffer)
        /\ result' = "invalid_key" /\ values' = values
    BY <1>1, <1>5, <1>11 DEF InvalidKey, InCookie, FailCookie
  <2>2. Pairs(str)[b] = Refused("invalid_key")
    BY <1>1, <1>6, <1>7, <1>8, <2>1, NoPairAt
  <2> QED
    BY <1>9, <2>1, <2>2
<1>12. CASE EndWithoutKey
  <2>1. q > Len(str) /\ result' = "key_incomplete" /\ values' = values
    BY <1>1, <1>5, <1>12 DEF EndWithoutKey, AtEnd
  <2>2. Pairs(str)[b] = Refused("key_incomplete")
    BY <1>1, <1>6, <1>7, <2>1, NoPairAt
  <2> QED
    BY <1>9, <2>1, <2>2
<1>13. CASE EndKey
  <2>1. /\ q <= Len(str) /\ is_token(cookieBuffer) /\ key' = cookieBuffer
        /\ cookieBuffer' = <<>> /\ values' = values /\ result' = "parsing"
        /\ current_state' = "value" /\ ptr' = q
    BY <1>1, <1>5, <1>13 DEF EndKey, InCookie
  <2>2. SubSeq(str, q + 1, q) = <<>>
    BY SubSeqEmpty
  <2>3. /\ q \in 1..q /\ str[q] = Equals
        /\ \A j \in b..(q - 1) : str[j] # Equals
        /\ \A j \in (q + 1)..q : str[j] # Semicolon
    BY <1>6, <1>7, <2>1 DEF IsPlace
  <2>4. ReadsCookie(str, n, b, q, ptr', key', cookieBuffer')
    BY <1>4, <1>6, <1>8, <2>1, <2>2, <2>3 DEF ReadsCookie
  <2> QED
    BY <1>0, <1>2, <2>1, <2>4 DEF CookieProgress, MatchesCookieMeaning
<1> QED
  BY <1>10, <1>11, <1>12, <1>13

(* A value that ends. *)
LEMMA ValueEndsMeaning ==
  ASSUME MeaningInv, EndCookie \/ DuplicatedKey \/ EndWithKey
  PROVE  CookieProgress' /\ MatchesCookieMeaning'
<1>0. /\ result = "parsing" /\ UNCHANGED <<str, store>>
      /\ values' = insert(values, key, cookieBuffer)
  BY DEF EndCookie, DuplicatedKey, EndWithKey, InCookie, AtEnd
<1>1. str \in Seq(Byte) /\ Len(str) \in Nat /\ ptr \in 0..Len(str)
  BY <1>0, TurnBegins
<1>2. current_state = "value"
  <2>1. current_state # "value" => key = <<>>
    BY <1>0, TurnBegins
  <2> QED
    BY <2>1 DEF EndCookie, DuplicatedKey, EndWithKey, InCookie
<1>3. PICK n \in Nat :
        /\ AreAdded(str, store, n, values)
        /\ \E b, e \in Nat :
             ReadsCookie(str, n, b, e, ptr, key, cookieBuffer)
  BY <1>0, <1>2, TurnBegins
<1>4. PICK b, e \in Nat : ReadsCookie(str, n, b, e, ptr, key, cookieBuffer)
  BY <1>3
<1>5. PICK q \in Nat : q = ptr + 1
  BY <1>1
<1>6. /\ ToCome(str, n, b) /\ b \in 1..e /\ e \in 1..ptr
      /\ str[e] = Equals
      /\ \A j \in b..(e - 1) : str[j] # Equals
      /\ key = SubSeq(str, b, e - 1) /\ is_token(key)
      /\ cookieBuffer = SubSeq(str, e + 1, q - 1)
      /\ \A j \in (e + 1)..(q - 1) : str[j] # Semicolon
  <2>1. q - 1 = ptr
    BY <1>1, <1>5
  <2> QED
    BY <1>4, <2>1 DEF ReadsCookie
<1>7. IsPair(str, b, e, q)
  <2>1. IsPlace(str, Equals, b, e)
    BY <1>1, <1>6 DEF IsPlace
  <2>2. q <= Len(str) => str[q] = Semicolon
    BY <1>1, <1>5
       DEF EndCookie, DuplicatedKey, EndWithKey, InCookie, AtEnd, cookieChar
  <2>3. IsPlace(str, Semicolon, e + 1, q)
    BY <1>1, <1>5, <1>6, <2>2 DEF IsPlace
  <2>4. b \in 1..(Len(str) + 1) /\ e <= Len(str)
    BY <1>1, <1>6
  <2> QED
    BY <1>6, <2>1, <2>3, <2>4 DEF IsPair
<1>8. PairIn(str, b, e, q) = <<key, cookieBuffer>>
  BY <1>6 DEF PairIn
<1>9. /\ n + 1 \in 1..Len(All(str).pairs)
      /\ All(str).pairs[n + 1] = <<key, cookieBuffer>>
      /\ q > Len(str) =>
           n + 1 = Len(All(str).pairs) /\ All(str).ec = "no_error"
      /\ q <= Len(str) => AfterCookie(str, n + 1, q)
  <2>1. str \in Seq(Byte) /\ ToCome(str, n, b)
    BY <1>1, <1>6
  <2> HIDE <1>6
  <2> QED
    BY <1>7, <1>8, <2>1, NextPair
<1>10. /\ key \notin DOMAIN values => AreAdded(str, store, n + 1, values')
       /\ key \in DOMAIN values =>
            values' = values /\ ~IsNewKey(str, store, n + 1)
  <2>1. str \in Seq(Byte) /\ values' = insert(values, key, cookieBuffer)
    BY <1>0, <1>1
  <2>2. AreAdded(str, store, n, values)
    BY <1>3
  <2>3. /\ n + 1 \in 1..Len(All(str).pairs)
        /\ All(str).pairs[n + 1] = <<key, cookieBuffer>>
    BY <1>9
  <2>4. /\ key \notin DOMAIN values =>
             AreAdded(str, store, n + 1, insert(values, key, cookieBuffer))
        /\ key \in DOMAIN values =>
             /\ insert(values, key, cookieBuffer) = values
             /\ ~IsNewKey(str, store, n + 1)
    BY <2>1, <2>2, <2>3, InsertNext
  <2> QED
    BY <2>1, <2>4
<1>11. n < Len(All(str).pairs)
  BY <1>1, <1>9, AllType
<1>12. CASE key \in DOMAIN values
  <2>1. result' = "duplicated_key"
    BY <1>12 DEF EndCookie, DuplicatedKey, EndWithKey, Inserted
  <2> QED
    BY <1>0, <1>1, <1>3, <1>10, <1>11, <1>12, <2>1, EndsWith
<1>13. CASE key \notin DOMAIN values /\ EndWithKey
  <2>1. result' = "no_error" /\ q > Len(str) /\ n + 1 \in Nat
    BY <1>1, <1>5, <1>13 DEF EndWithKey, AtEnd, Inserted
  <2> QED
    BY <1>0, <1>1, <1>9, <1>10, <1>13, <2>1, EndsWith
<1>14. CASE key \notin DOMAIN values /\ EndCookie
  <2>1. /\ q <= Len(str) /\ n + 1 \in Nat /\ result' = "parsing"
        /\ ptr' = q /\ current_state' = "expect_one_whitespace"
        /\ cookieBuffer' = <<>>
    BY <1>0, <1>1, <1>5, <1>14 DEF EndCookie, InCookie
  <2> QED
    BY <1>0, <1>9, <1>10, <1>14, <2>1
       DEF CookieProgress, MatchesCookieMeaning
<1> QED
  BY <1>12, <1>13, <1>14 DEF DuplicatedKey, Inserted

(* What comes after a semicolon. *)
LEMMA SpaceKeepsMeaning ==
  ASSUME MeaningInv,
         OneSpace \/ OtherThanSpace
           \/ (EndWithoutKey /\ current_state = "expect_one_whitespace")
  PROVE  CookieProgress' /\ MatchesCookieMeaning'
<1>0. /\ result = "parsing" /\ current_state = "expect_one_whitespace"
      /\ UNCHANGED <<str, store, values>>
  <2>1. CASE OneSpace
    BY <2>1 DEF OneSpace, InCookie
  <2>2. CASE OtherThanSpace
    BY <2>2 DEF OtherThanSpace, FailCookie, InCookie
  <2>3. CASE EndWithoutKey /\ current_state = "expect_one_whitespace"
    BY <2>3 DEF EndWithoutKey, AtEnd
  <2> QED
    BY <2>1, <2>2, <2>3
<1>1. str \in Seq(Byte) /\ Len(str) \in Nat /\ ptr \in 0..Len(str)
  BY <1>0, TurnBegins
<1>2. PICK n \in Nat :
        /\ AreAdded(str, store, n, values)
        /\ AfterCookie(str, n, ptr) /\ cookieBuffer = <<>>
  <2>1. result = "parsing" /\ current_state = "expect_one_whitespace"
    BY <1>0
  <2> QED
    BY <2>1, TurnBegins
<1>3. CASE OneSpace
  <2>1. /\ ptr < Len(str) /\ str[ptr + 1] = SP /\ ptr' = ptr + 1
        /\ current_state' = "key" /\ cookieBuffer' = <<>>
        /\ result' = "parsing"
    BY <1>0, <1>2, <1>3 DEF OneSpace, InCookie, cookieChar, cookieStrings
  <2>2. PICK p \in Nat : p = ptr + 1 /\ p + 1 = ptr + 2
    BY <1>1
  <2>3. PICK b \in Nat : b = p + 1
    OBVIOUS
  <2>4. ToCome(str, n, b)
    BY <1>2, <2>1, <2>2, <2>3 DEF AfterCookie
  <2>5. p < b /\ b \in 1..(p + 1) /\ \A j \in b..p : FALSE
    BY <2>3
  <2>6. SubSeq(str, b, p) = <<>>
    BY <2>5, SubSeqEmpty
  <2>7. ReadsKey(str, n, b, ptr', cookieBuffer')
    BY <2>1, <2>2, <2>4, <2>5, <2>6 DEF ReadsKey
  <2> QED
    BY <1>0, <1>2, <2>1, <2>7 DEF CookieProgress, MatchesCookieMeaning
<1>4. CASE OtherThanSpace
  <2>1. /\ ptr < Len(str) /\ str[ptr + 1] # SP
        /\ result' = "single_space_expected"
    BY <1>4 DEF OtherThanSpace, InCookie, FailCookie, cookieChar
  <2>2. n = Len(All(str).pairs) /\ All(str).ec = "single_space_expected"
    BY <1>2, <2>1 DEF AfterCookie
  <2> QED
    BY <1>0, <1>1, <1>2, <2>1, <2>2, EndsWith
<1>5. CASE EndWithoutKey
  <2>1. ptr = Len(str) /\ result' = "key_incomplete"
    BY <1>5 DEF EndWithoutKey, AtEnd
  <2>2. n = Len(All(str).pairs) /\ All(str).ec = "key_incomplete"
    BY <1>2, <2>1 DEF AfterCookie
  <2> QED
    BY <1>0, <1>1, <1>2, <2>1, <2>2, EndsWith
<1> QED
  BY <1>3, <1>4, <1>5

LEMMA MeaningNext == MeaningInv /\ [CookieNext]_cookieVars => MeaningInv'
<1> SUFFICES ASSUME MeaningInv, [CookieNext]_cookieVars PROVE MeaningInv'
  OBVIOUS
<1>1. CookieInv'
  BY CookieInvNext DEF MeaningInv
<1>2. CASE CollectCookie
  BY <1>1, <1>2, CollectKeepsMeaning DEF MeaningInv
<1>3. CASE EmptyKey \/ InvalidKey \/ EndKey
  BY <1>1, <1>3, KeyEndsMeaning DEF MeaningInv
<1>4. CASE EndCookie \/ DuplicatedKey \/ EndWithKey
  BY <1>1, <1>4, ValueEndsMeaning DEF MeaningInv
<1>5. CASE OneSpace \/ OtherThanSpace
  BY <1>1, <1>5, SpaceKeepsMeaning DEF MeaningInv
<1>6. CASE EndWithoutKey
  <2>1. result = "parsing" /\ key = <<>>
    BY <1>6 DEF EndWithoutKey, AtEnd
  <2>2. current_state # "value"
    <3>1. current_state = "value" => is_token(key)
      BY <2>1, TurnBegins
    <3> QED
      BY <2>1, <3>1 DEF is_token
  <2>3. current_state \in CookieState
    <3>1. CookieTypeOK
      BY DEF MeaningInv, CookieInv
    <3> QED
      BY <3>1 DEF CookieTypeOK
  <2>4. current_state = "key" \/ current_state = "expect_one_whitespace"
    BY <2>2, <2>3 DEF CookieState
  <2> QED
    BY <1>1, <1>6, <2>4, KeyEndsMeaning, SpaceKeepsMeaning DEF MeaningInv
<1>7. CASE UNCHANGED cookieVars
  BY <1>1, <1>7 DEF MeaningInv, CookieProgress, MatchesCookieMeaning,
                    cookieVars, cookieStrings
<1> QED
  BY <1>2, <1>3, <1>4, <1>5, <1>6, <1>7 DEF CookieNext, CookieDone

(* A call of parse_cookie_string ends with the result and the store that   *)
(* the string means, also when it fails after some of the cookies.         *)
THEOREM CookiesMatchMeaning == CookieSpec => []MatchesCookieMeaning
<1>1. MeaningInv => MatchesCookieMeaning
  BY DEF MeaningInv
<1> QED
  BY <1>1, MeaningInit, MeaningNext, PTL DEF CookieSpec

-----------------------------------------------------------------------------
(* The length of a response. *)

(* What response_info holds of the length: nothing before the handler has  *)
(* announced one, and then its digits, under one name.                     *)
LengthInv ==
  /\ announced \in {None} \cup 0..MaxLength
  /\ IF announced = None
     THEN find(fields, ContentLength) = {}
     ELSE /\ find(fields, ContentLength) = {ContentLength}
          /\ fields[ContentLength] = Decimal[announced]
  /\ LengthIsAnnounced

(* get_content_length finds what the handler has announced. *)
LEMMA LengthIsFound ==
  ASSUME LengthInv
  PROVE  get_content_length(fields) = IF announced = None THEN 0 ELSE announced
<1>1. CASE announced = None
  BY <1>1 DEF LengthInv, get_content_length
<1>2. CASE announced # None
  <2> DEFINE s == Decimal[announced]
  <2>1. announced \in Nat /\ announced \in 0..SizeMax
    BY <1>2, BoundsAssumption, WidthAssumption DEF LengthInv
  <2>2. s \in Seq(DigitChar) /\ s # <<>> /\ Numeral(s) = announced
    BY <2>1, DecimalIsNumeral
  <2> HIDE DEF s
  <2>3. \A i \in DOMAIN s : IsDigit(s[i])
    BY <2>2 DEF IsDigit, DigitChar
  <2>4. to_number(s, SizeMax) = announced
    BY <2>1, <2>2, <2>3 DEF to_number
  <2>5. (CHOOSE k \in find(fields, ContentLength) : TRUE) = ContentLength
    BY <1>2 DEF LengthInv
  <2> QED
    BY <1>2, <2>4, <2>5 DEF LengthInv, get_content_length, s
<1> QED
  BY <1>1, <1>2

LEMMA LengthNext == LengthInv /\ [ResponseNext]_responseVars => LengthInv'
<1> SUFFICES ASSUME LengthInv, [ResponseNext]_responseVars PROVE LengthInv'
  OBVIOUS
<1>1. CASE Begin \/ Refuse
  <2>1. fields' = NoFields /\ announced' = None /\ phase' = "handler"
    BY <1>1 DEF Begin, Refuse
  <2> QED
    BY <2>1, NoFieldsFinds DEF LengthInv, LengthIsAnnounced
<1>2. CASE SetLength
  <2>1. PICK n \in 0..MaxLength :
          announced' = n /\ fields' = append(fields, ContentLength, Decimal[n])
    BY <1>2 DEF SetLength
  <2>2. find(fields, ContentLength) = {} /\ n # None /\ phase' = "handler"
    BY <1>2 DEF SetLength, LengthInv, None
  <2>3. /\ find(fields', ContentLength) = {ContentLength}
        /\ fields'[ContentLength] = Decimal[n]
    BY <2>1, <2>2, AppendLength
  <2> QED
    BY <2>1, <2>2, <2>3 DEF LengthInv, LengthIsAnnounced
<1>3. CASE SetField
  <2>1. PICK f \in HandlerFields :
          IF IsFieldName(f.name) /\ IsFieldValue(f.value)
          THEN fields' = append(fields, f.name, f.value) /\ UNCHANGED phase
          ELSE phase' = "thrown" /\ UNCHANGED fields
    BY <1>3 DEF SetField
  <2>2. phase' # "body" /\ announced' = announced
    BY <1>3, <2>1 DEF SetField
  <2>3. /\ find(fields', ContentLength) = find(fields, ContentLength)
        /\ ContentLength \in DOMAIN fields
             => fields'[ContentLength] = fields[ContentLength]
    <3>1. f.name \in Seq(Byte) /\ ~SameName(f.name, ContentLength)
      BY HandlerAssumption
    <3>2. CASE fields' = append(fields, f.name, f.value)
      BY <3>1, <3>2, AppendOther
    <3>3. CASE fields' = fields
      BY <3>3
    <3> QED
      BY <2>1, <3>2, <3>3
  <2>4. announced # None => ContentLength \in DOMAIN fields
    BY DEF LengthInv, find
  <2> QED
    BY <2>2, <2>3, <2>4 DEF LengthInv, LengthIsAnnounced
<1>4. CASE Finish \/ MoveIntoState \/ serialize
  <2>1. phase' # "body" /\ UNCHANGED <<fields, announced>>
    BY <1>4 DEF Finish, MakeSerializer, MoveIntoState, serialize
  <2> QED
    BY <2>1 DEF LengthInv, LengthIsAnnounced
<1>5. CASE MakeBody
  <2>1. /\ UNCHANGED <<fields, announced>>
        /\ bodyLength' = get_content_length(fields)
    BY <1>5 DEF MakeBody
  <2> QED
    BY <2>1, LengthIsFound DEF LengthInv, LengthIsAnnounced
<1>6. CASE UNCHANGED responseVars
  BY <1>6 DEF responseVars, LengthInv, LengthIsAnnounced
<1> QED
  BY <1>1, <1>2, <1>3, <1>4, <1>5, <1>6 DEF ResponseNext, Thrown

(* The body of a response is as long as its header says, for every length  *)
(* that fits into size_t: what std::to_string wrote into the field is what *)
(* get_content_length reads out of it, whatever other fields the handler   *)
(* appends and however often it refuses a request first.                   *)
THEOREM AnnouncedLengthIsWritten == ResponseSpec => []LengthIsAnnounced
<1>1. ResponseInit => LengthInv
  BY NoFieldsFinds DEF ResponseInit, LengthInv, LengthIsAnnounced
<1>2. LengthInv => LengthIsAnnounced
  BY DEF LengthInv
<1> QED
  BY <1>1, <1>2, LengthNext, PTL DEF ResponseSpec

(* Every status line, with the empty line, is longer than a small string. *)
LEMMA StatusLineLength ==
  ASSUME NEW code \in DOMAIN Reason
  PROVE  StatusLine(code) \in Seq(Byte) /\ Len(StatusLine(code)) >= 14
<1>1. \A n \in Nat : Decimal[n] \in Seq(Byte) /\ Len(Decimal[n]) >= 1
  <2> TAKE n \in Nat
  <2>1. Decimal[n] \in Seq(DigitChar) /\ Decimal[n] # <<>>
    BY DecimalIsNumeral
  <2> QED
    BY <2>1, DigitsAreBytes, EmptySeq
<1>2. code \in Nat
  <2>1. code \in status
    BY ReasonAssumption
  <2> QED
    BY <2>1 DEF status
<1>3. Reason[code] \in Seq(Byte) /\ Len(Reason[code]) >= 1
  BY ReasonAssumption, EmptySeq
<1> DEFINE ver == VersionText(version(1, 1))
           a == HTTP \o <<Slash>>
           b == a \o ver
           c == b \o <<SP>>
           d == c \o Decimal[code]
           e == d \o <<SP>>
           f == e \o Reason[code]
<1>4. ver \in Seq(Byte) /\ Len(ver) >= 3
  <2>1. ver = Decimal[1] \o <<Dot>> \o Decimal[1]
    BY DEF VersionText, version
  <2>2. <<Dot>> \in Seq(Byte) /\ Len(<<Dot>>) = 1
    BY DEF Dot, Byte
  <2>3. Decimal[1] \in Seq(Byte) /\ Len(Decimal[1]) >= 1
    BY <1>1
  <2>4. /\ Decimal[1] \o <<Dot>> \in Seq(Byte)
        /\ Len(Decimal[1] \o <<Dot>>) = Len(Decimal[1]) + 1
    BY <2>2, <2>3, JoinedLength
  <2>5. /\ ver \in Seq(Byte)
        /\ Len(ver) = Len(Decimal[1] \o <<Dot>>) + Len(Decimal[1])
    BY <2>1, <2>3, <2>4, JoinedLength
  <2> QED
    BY <2>3, <2>4, <2>5
<1>5. /\ HTTP \in Seq(Byte) /\ Len(HTTP) = 4
      /\ <<Slash>> \in Seq(Byte) /\ Len(<<Slash>>) = 1
      /\ <<SP>> \in Seq(Byte) /\ Len(<<SP>>) = 1
      /\ CRLF \in Seq(Byte) /\ Len(CRLF) = 2
  BY DEF HTTP, Slash, SP, CRLF, CR, LF, Byte
<1>6. Decimal[code] \in Seq(Byte) /\ Len(Decimal[code]) >= 1
  BY <1>1, <1>2
<1>7. StatusLine(code) = f \o CRLF
  BY DEF StatusLine
<1> HIDE DEF ver
<1>8. a \in Seq(Byte) /\ Len(a) = 5
  <2>1. a \in Seq(Byte) /\ Len(a) = Len(HTTP) + Len(<<Slash>>)
    BY <1>5, JoinedLength, Zenon
  <2> QED
    BY <1>5, <2>1
<1> HIDE DEF a
<1>9. b \in Seq(Byte) /\ Len(b) >= 8
  <2>1. b \in Seq(Byte) /\ Len(b) = Len(a) + Len(ver)
    BY <1>4, <1>8, JoinedLength, Zenon
  <2>2. Len(ver) \in Nat
    BY <1>4, LenProperties
  <2> QED
    BY <1>4, <1>8, <2>1, <2>2
<1> HIDE DEF b
<1>10. c \in Seq(Byte) /\ Len(c) >= 9
  BY <1>5, <1>9, JoinedLength
<1> HIDE DEF c
<1>11. d \in Seq(Byte) /\ Len(d) >= 10
  BY <1>6, <1>10, JoinedLength
<1> HIDE DEF d
<1>12. e \in Seq(Byte) /\ Len(e) >= 11
  BY <1>5, <1>11, JoinedLength
<1> HIDE DEF e
<1>13. f \in Seq(Byte) /\ Len(f) >= 12
  BY <1>3, <1>12, JoinedLength
<1> HIDE DEF f
<1>14. f \o CRLF \in Seq(Byte) /\ Len(f \o CRLF) >= 14
  <2>1. /\ f \o CRLF \in Seq(Byte)
        /\ Len(f \o CRLF) = Len(f) + Len(CRLF)
        /\ Len(f) \in Nat
    BY <1>5, <1>13, JoinedLength, Zenon
  <2> QED
    BY <1>5, <1>13, <2>1
<1> QED
  BY <1>7, <1>14

(* The text that is moved has been made of a status line and the fields. *)
RangeInv ==
  /\ IsFieldMap(fields)
  /\ phase \in {"made", "header"} => Len(text) \in Nat /\ Len(text) >= 16
  /\ RangeSurvivesMove

LEMMA RangeNext ==
  ASSUME LocalCapacity <= 15
  PROVE  RangeInv /\ [ResponseNext]_responseVars => RangeInv'
<1> SUFFICES ASSUME RangeInv, [ResponseNext]_responseVars PROVE RangeInv'
  OBVIOUS
<1> USE DEF RangeInv, RangeSurvivesMove, serializer
<1>1. CASE Begin
  BY <1>1, NoFieldsIsMap DEF Begin
<1>2. CASE SetLength
  <2>1. PICK n \in 0..MaxLength :
          fields' = append(fields, ContentLength, Decimal[n])
    BY <1>2 DEF SetLength
  <2>2. n \in Nat
    BY BoundsAssumption
  <2>3. Decimal[n] \in Seq(Byte)
    BY <2>2, DecimalIsNumeral, DigitsAreBytes
  <2>4. IsFieldMap(fields)'
    BY <2>1, <2>3, AppendIsMap, NameAssumption
  <2> QED
    BY <1>2, <2>4 DEF SetLength
<1>3. CASE SetField
  <2>1. PICK f \in HandlerFields :
          \/ fields' = append(fields, f.name, f.value) /\ phase' = phase
          \/ phase' = "thrown" /\ fields' = fields
    BY <1>3 DEF SetField
  <2>2. IsFieldMap(append(fields, f.name, f.value))
    BY AppendIsMap, HandlerAssumption
  <2>3. IsFieldMap(fields)'
    BY <2>1, <2>2
  <2> QED
    BY <1>3, <2>1, <2>3 DEF SetField
<1>4. CASE Refuse
  BY <1>4, NoFieldsIsMap DEF Refuse
<1>5. CASE Finish
  <2>1. PICK code \in DOMAIN Reason : MakeSerializer(code)
    BY <1>5 DEF Finish
  <2> DEFINE line == StatusLine(code)
             rest == FieldTexts(fields)
  <2>2. /\ line \in Seq(Byte) /\ Len(line) >= 14
        /\ rest \in Seq(Byte)
    BY StatusLineLength, FieldTextsType
  <2>3. text' = line \o rest \o CRLF
    BY <2>1 DEF MakeSerializer
  <2> HIDE DEF line, rest
  <2>4. line \o rest \in Seq(Byte) /\ Len(line \o rest) >= 14
    BY <2>2, JoinedLength
  <2>5. CRLF \in Seq(Byte) /\ Len(CRLF) = 2
    BY DEF CRLF, CR, LF, Byte
  <2>6. Len(text') \in Nat /\ Len(text') >= 16
    <3>1. /\ Len(text') = Len(line \o rest) + Len(CRLF)
          /\ Len(line \o rest) \in Nat
      BY <2>3, <2>4, <2>5, JoinedLength, Zenon
    <3> QED
      BY <2>4, <2>5, <3>1
  <2> QED
    BY <2>1, <2>6 DEF MakeSerializer
<1>6. CASE MoveIntoState
  <2>1. ~(Len(text) <= LocalCapacity)
    BY <1>6, BoundsAssumption DEF MoveIntoState
  <2>2. dangling' = (Len(text) <= LocalCapacity)
    BY <1>6 DEF MoveIntoState
  <2>3. ~dangling'
    BY <2>1, <2>2, Zenon
  <2> QED
    BY <1>6, <2>3 DEF MoveIntoState
<1>7. CASE serialize
  BY <1>7 DEF serialize
<1>8. CASE MakeBody
  BY <1>8 DEF MakeBody
<1>9. CASE Thrown \/ UNCHANGED responseVars
  BY <1>9 DEF Thrown, responseVars
<1> QED
  BY <1>1, <1>2, <1>3, <1>4, <1>5, <1>6, <1>7, <1>8, <1>9 DEF ResponseNext

(* Whatever status and fields the handler chooses, m_range_to_write still  *)
(* points into m_string_to_write after response_header_serializer has been *)
(* moved into m_state, with a std::string that keeps at most 15 characters *)
(* in the object: no header is so short.                                   *)
THEOREM RangeIsKept ==
  ASSUME LocalCapacity <= 15
  PROVE  ResponseSpec => []RangeSurvivesMove
<1>1. ResponseInit => RangeInv
  BY NoFieldsIsMap DEF ResponseInit, RangeInv, RangeSurvivesMove
<1>2. RangeInv /\ [ResponseNext]_responseVars => RangeInv'
  BY RangeNext
<1>3. RangeInv => RangeSurvivesMove
  BY DEF RangeInv
<1> QED
  BY <1>1, <1>2, <1>3, PTL DEF ResponseSpec

HeaderIsLines ==
  phase \in {"made", "header"} =>
    /\ \E code \in DOMAIN Reason :
         /\ is_error(code) <=> forError
         /\ text = StatusLine(code) \o FieldTexts(fields) \o CRLF
    /\ \A name \in DOMAIN fields : WholeLine(FieldText(fields, name))

LinesInv == IsLines(fields) /\ HeaderIsLines

LEMMA LinesNext == LinesInv /\ [ResponseNext]_responseVars => LinesInv'
<1> SUFFICES ASSUME LinesInv, [ResponseNext]_responseVars PROVE LinesInv'
  OBVIOUS
<1> USE DEF LinesInv, HeaderIsLines, serializer
<1>0. IsLines(NoFields)
  BY NoFieldsIsMap DEF IsLines, NoFields
<1>1. CASE Begin \/ Refuse
  BY <1>0, <1>1 DEF Begin, Refuse
<1>2. CASE SetLength
  <2>1. PICK n \in 0..MaxLength :
          fields' = append(fields, ContentLength, Decimal[n])
    BY <1>2 DEF SetLength
  <2>2. n \in Nat
    BY BoundsAssumption
  <2>3. ContentLength \in Seq(Byte) /\ NoBreak(ContentLength)
    BY NameAssumption, AcceptedHasNoBreak DEF IsFieldName
  <2>4. IsLines(fields')
    BY <2>1, <2>2, <2>3, AppendIsLines, DigitsHaveNoBreak
  <2> QED
    BY <1>2, <2>4 DEF SetLength
<1>3. CASE SetField
  <2>1. PICK f \in HandlerFields :
          IF IsFieldName(f.name) /\ IsFieldValue(f.value)
          THEN fields' = append(fields, f.name, f.value) /\ phase' = phase
          ELSE phase' = "thrown" /\ fields' = fields
    BY <1>3 DEF SetField
  <2>2. f.name \in Seq(Byte) /\ f.value \in Seq(Byte)
    BY HandlerAssumption
  <2>3. ASSUME IsFieldName(f.name), IsFieldValue(f.value)
        PROVE  IsLines(append(fields, f.name, f.value))
    BY <2>2, <2>3, AppendIsLines, AcceptedHasNoBreak
  <2>4. IsLines(fields') /\ phase' \notin {"made", "header"}
    BY <1>3, <2>1, <2>3 DEF SetField
  <2> QED
    BY <2>4
<1>4. CASE Finish
  <2>1. PICK code \in DOMAIN Reason :
          (is_error(code) <=> forError) /\ MakeSerializer(code)
    BY <1>4 DEF Finish
  <2>2. /\ forError' = forError /\ fields' = fields
        /\ text' = StatusLine(code) \o FieldTexts(fields) \o CRLF
    BY <2>1 DEF MakeSerializer
  <2>3. \A name \in DOMAIN fields : WholeLine(FieldText(fields, name))
    BY FieldTextIsWhole
  <2> QED
    BY <2>1, <2>2, <2>3
<1>5. CASE MoveIntoState \/ serialize \/ MakeBody
  <2>1. /\ UNCHANGED <<forError, fields, text>>
        /\ phase \in {"made", "header"}
    BY <1>5 DEF MoveIntoState, serialize, MakeBody
  <2> QED
    BY <2>1
<1>6. CASE Thrown \/ UNCHANGED responseVars
  BY <1>6 DEF Thrown, responseVars
<1> QED
  BY <1>1, <1>2, <1>3, <1>4, <1>5, <1>6 DEF ResponseNext

(* No choice of fields changes the shape of a response: what               *)
(* response_header_serializer writes is a status line, one line for each   *)
(* field of the map and an empty line, because field_map::append lets no   *)
(* line break in and joining values by a comma adds none; and it is an     *)
(* error status if and only if the handler was asked for one.              *)
THEOREM ResponseIsLines == ResponseSpec => []HeaderIsLines
<1>1. ResponseInit => LinesInv
  BY NoFieldsIsMap DEF ResponseInit, LinesInv, IsLines, HeaderIsLines, NoFields
<1>2. LinesInv => HeaderIsLines
  BY DEF LinesInv
<1> QED
  BY <1>1, <1>2, LinesNext, PTL DEF ResponseSpec

-----------------------------------------------------------------------------
(* A response is read as the fields that it was written from. *)

LEMMA BreakOfFirstLine ==
  ASSUME NEW first \in Seq(Byte), WholeLine(first), NEW base \in Nat,
         base = Len(first), NEW s, NEW n \in Nat, base <= n,
         \A j \in 1..base : s[j] = first[j]
  PROVE  Place(s, CR, 1, n) + 2 = base + 1
<1>1. /\ base >= 2 /\ DOMAIN first = 1..base
      /\ \A i \in 1..base : first[i] = CR <=> i = base - 1
  BY LenProperties DEF WholeLine
<1>2. PICK cr \in 1..n : cr = base - 1
  BY <1>1
<1>3. s[cr] = CR
  <2>1. cr \in 1..base
    BY <1>1, <1>2
  <2> QED
    BY <1>1, <1>2, <2>1
<1>4. ASSUME NEW j \in 1..(cr - 1) PROVE s[j] # CR
  <2>1. j \in 1..base /\ j # base - 1
    BY <1>1, <1>2
  <2> QED
    BY <1>1, <2>1
<1>5. Place(s, CR, 1, n) = cr
  <2>1. 1 \in 1..(n + 1)
    OBVIOUS
  <2> QED
    BY <1>3, <1>4, <2>1, PlaceFound
<1> QED
  BY <1>2, <1>5

LEMMA StatusLineIsWhole ==
  ASSUME NEW code \in DOMAIN Reason
  PROVE  StatusLine(code) \in Seq(Byte) /\ WholeLine(StatusLine(code))
<1>1. \A n \in Nat : Decimal[n] \in Seq(Byte) /\ NoBreak(Decimal[n])
  BY DigitsHaveNoBreak
<1>2. code \in Nat
  <2>1. code \in status
    BY ReasonAssumption
  <2> QED
    BY <2>1 DEF status
<1>3. Reason[code] \in Seq(Byte) /\ NoBreak(Reason[code])
  BY ReasonAssumption DEF NoBreak
<1>4. /\ <<Slash>> \in Seq(Byte) /\ NoBreak(<<Slash>>)
      /\ <<SP>> \in Seq(Byte) /\ NoBreak(<<SP>>)
      /\ <<Dot>> \in Seq(Byte) /\ NoBreak(<<Dot>>)
      /\ HTTP \in Seq(Byte) /\ NoBreak(HTTP)
  BY DEF Slash, SP, Dot, HTTP, Byte, NoBreak, CR, LF
<1> DEFINE ver == VersionText(version(1, 1))
           a == HTTP \o <<Slash>>
           b == a \o ver
           c == b \o <<SP>>
           d == c \o Decimal[code]
           e == d \o <<SP>>
           f == e \o Reason[code]
<1>5. ver \in Seq(Byte) /\ NoBreak(ver)
  <2>1. ver = Decimal[1] \o <<Dot>> \o Decimal[1]
    BY DEF VersionText, version
  <2>2. Decimal[1] \in Seq(Byte) /\ NoBreak(Decimal[1])
    BY <1>1
  <2>3. Decimal[1] \o <<Dot>> \in Seq(Byte) /\ NoBreak(Decimal[1] \o <<Dot>>)
    BY <1>4, <2>2, JoinHasNoBreak
  <2>4. /\ (Decimal[1] \o <<Dot>>) \o Decimal[1] \in Seq(Byte)
        /\ NoBreak((Decimal[1] \o <<Dot>>) \o Decimal[1])
    BY <2>2, <2>3, JoinHasNoBreak
  <2> QED
    BY <2>1, <2>4, Zenon
<1> HIDE DEF ver
<1>6. a \in Seq(Byte) /\ NoBreak(a)
  BY <1>4, JoinHasNoBreak, Zenon
<1> HIDE DEF a
<1>7. b \in Seq(Byte) /\ NoBreak(b)
  BY <1>5, <1>6, JoinHasNoBreak, Zenon
<1> HIDE DEF b
<1>8. c \in Seq(Byte) /\ NoBreak(c)
  BY <1>4, <1>7, JoinHasNoBreak, Zenon
<1> HIDE DEF c
<1>9. d \in Seq(Byte) /\ NoBreak(d)
  BY <1>1, <1>2, <1>8, JoinHasNoBreak, Zenon
<1> HIDE DEF d
<1>10. e \in Seq(Byte) /\ NoBreak(e)
  BY <1>4, <1>9, JoinHasNoBreak, Zenon
<1> HIDE DEF e
<1>11. f \in Seq(Byte) /\ NoBreak(f)
  BY <1>3, <1>10, JoinHasNoBreak, Zenon
<1> HIDE DEF f
<1>12. StatusLine(code) = f \o CRLF
  BY Zenon DEF StatusLine, a, b, c, d, e, f, ver
<1>13. WholeLine(f \o CRLF)
  BY <1>11, BreakEndsLine
<1> QED
  BY <1>12, <1>13, StatusLineLength

LEMMA FieldsHaveType ==
  ASSUME NEW m, IsFieldMap(m) PROVE FieldsType(m)
BY DEF IsFieldMap, FieldsType

LEMMA DigitsAreValue ==
  ASSUME NEW n \in Nat PROVE IsFieldValue(Decimal[n])
<1>1. Decimal[n] \in Seq(DigitChar) /\ Decimal[n] # <<>>
  BY DecimalIsNumeral
<1>2. PICK len \in Nat : len = Len(Decimal[n]) /\ len > 0
  BY <1>1, EmptySeq, LenProperties
<1>3. DOMAIN Decimal[n] = 1..len /\ 1 \in 1..len /\ len \in 1..len
  BY <1>1, <1>2, LenProperties
<1>4. \A i \in 1..len : Decimal[n][i] \in DigitChar
  BY <1>1, <1>3
<1>5. \A d \in DigitChar : ~is_not_printable(d)
  BY DEF DigitChar, is_not_printable, SP
<1> QED
  BY <1>2, <1>3, <1>4, <1>5, Zenon DEF IsFieldValue

(* The map of a handler holds only what field_map::append accepts. *)
MapInv == IsFieldMap(fields) /\ ValidFields(fields)

LEMMA AppendKeepsMap ==
  ASSUME NEW m, IsFieldMap(m), ValidFields(m), NEW name \in Seq(Byte),
         NEW val \in Seq(Byte), IsFieldName(name), IsFieldValue(val)
  PROVE  IsFieldMap(append(m, name, val)) /\ ValidFields(append(m, name, val))
<1>1. FieldsType(m)
  BY FieldsHaveType
<1> QED
  BY <1>1, AppendIsMap, AppendKeepsValid

LEMMA MapNext == MapInv /\ [ResponseNext]_responseVars => MapInv'
<1> SUFFICES ASSUME MapInv, [ResponseNext]_responseVars PROVE MapInv'
  OBVIOUS
<1> USE DEF MapInv, serializer
<1>0. IsFieldMap(NoFields) /\ ValidFields(NoFields)
  BY NoFieldsIsMap DEF ValidFields, NoFields
<1>1. CASE Begin \/ Refuse
  BY <1>0, <1>1 DEF Begin, Refuse
<1>2. CASE SetLength
  <2>1. PICK n \in 0..MaxLength :
          fields' = append(fields, ContentLength, Decimal[n])
    BY <1>2 DEF SetLength
  <2>2. n \in Nat
    BY BoundsAssumption
  <2>3. Decimal[n] \in Seq(Byte) /\ IsFieldValue(Decimal[n])
    BY <2>2, DigitsHaveNoBreak, DigitsAreValue
  <2>4. ContentLength \in Seq(Byte) /\ IsFieldName(ContentLength)
    BY NameAssumption DEF IsFieldName
  <2> QED
    BY <2>1, <2>3, <2>4, AppendKeepsMap
<1>3. CASE SetField
  <2>1. PICK f \in HandlerFields :
          IF IsFieldName(f.name) /\ IsFieldValue(f.value)
          THEN fields' = append(fields, f.name, f.value)
          ELSE fields' = fields
    BY <1>3 DEF SetField
  <2>2. f.name \in Seq(Byte) /\ f.value \in Seq(Byte)
    BY HandlerAssumption
  <2>3. CASE IsFieldName(f.name) /\ IsFieldValue(f.value)
    BY <2>1, <2>2, <2>3, AppendKeepsMap
  <2>4. CASE ~(IsFieldName(f.name) /\ IsFieldValue(f.value))
    BY <2>1, <2>4
  <2> QED
    BY <2>3, <2>4
<1>4. CASE Finish \/ MoveIntoState \/ serialize \/ MakeBody \/ Thrown
           \/ UNCHANGED responseVars
  <2>1. fields' = fields
    BY <1>4 DEF Finish, MakeSerializer, MoveIntoState, serialize, MakeBody,
                Thrown, responseVars
  <2> QED
    BY <2>1
<1> QED
  BY <1>1, <1>2, <1>3, <1>4 DEF ResponseNext

(* A header that is composed of a whole first line and a valid map gives   *)
(* the map again.                                                          *)
LEMMA HeaderGives ==
  ASSUME NEW m, IsFieldMap(m), ValidFields(m),
         NEW first \in Seq(Byte), WholeLine(first),
         NEW s, s = first \o FieldTexts(m) \o CRLF
  PROVE  LET from == Place(s, CR, 1, Len(s)) + 2
             section == FieldLines(s, Len(s))[from]
         IN section.ec = "completed" /\ FieldsOf(section.lines) = m
<1>1. PICK base \in Nat : base = Len(first)
  BY LenProperties
<1>2. PICK order, N : order = Names(m) /\ N = Cardinality(DOMAIN m)
  OBVIOUS
<1>3. /\ s \in Seq(Byte)
      /\ \A j \in 1..base : s[j] = first[j]
      /\ \E p : Composed(s, Len(s), base, order, N, m, p)
  <2>1. IsComposed(s, first, m, base, order, N)
    BY <1>1, <1>2, TextIsComposed, Zenon
  <2> QED
    BY <2>1, Zenon DEF IsComposed
<1>4. PICK n \in Nat : n = Len(s)
  BY <1>3, LenProperties
<1>5. PICK p : Composed(s, n, base, order, N, m, p)
  BY <1>3, <1>4
<1>6. IsOrder(order, N, m)
  BY <1>2, NamesAreOrder
<1>7. IsWrittenMap(s, n, base, order, N, m, p)
  BY <1>3, <1>4, <1>5, <1>6, Zenon DEF IsWrittenMap
<1>8. base <= n
  <2>1. PICK y \in Nat : n = base + y + 2
    <3>1. n = base + p[N] + 2 /\ p \in [0..N -> Nat]
      BY <1>5, Zenon DEF Composed
    <3>2. N \in 0..N
      BY <1>6 DEF IsOrder
    <3>3. p[N] \in Nat
      BY <3>1, <3>2
    <3> QED
      BY <3>1, <3>3, Zenon
  <2> QED
    BY <2>1
<1>9. Place(s, CR, 1, n) + 2 = base + 1
  BY <1>1, <1>3, <1>8, BreakOfFirstLine
<1>10. /\ FieldLines(s, n)[base + 1].ec = "completed"
       /\ FieldsOf(FieldLines(s, n)[base + 1].lines) = m
  BY <1>7, WrittenIsRead, Zenon
<1> QED
  BY <1>4, <1>9, <1>10, Zenon

(* Whatever a handler appends, a client that reads the header as the       *)
(* grammar of fields has it finds the handler's own map, each name with    *)
(* its value: field_map::append lets nothing in that the lines of          *)
(* response_header_serializer could change.                                *)
THEOREM ResponseGivesFields == ResponseSpec => []TextGivesFields
<1>1. ResponseInit => MapInv
  BY NoFieldsIsMap DEF ResponseInit, MapInv, ValidFields, NoFields
<1>2. MapInv /\ HeaderIsLines => TextGivesFields
  <2> SUFFICES ASSUME MapInv, HeaderIsLines, phase \in {"made", "header"}
               PROVE  TextGivesFields
    BY DEF TextGivesFields
  <2>1. PICK code \in DOMAIN Reason :
          text = StatusLine(code) \o FieldTexts(fields) \o CRLF
    BY DEF HeaderIsLines
  <2>2. PICK first \in Seq(Byte) : first = StatusLine(code) /\ WholeLine(first)
    BY StatusLineIsWhole
  <2>3. text = first \o FieldTexts(fields) \o CRLF
    BY <2>1, <2>2, Zenon
  <2>4. IsFieldMap(fields) /\ ValidFields(fields)
    BY DEF MapInv
  <2>5. LET from == Place(text, CR, 1, Len(text)) + 2
            section == FieldLines(text, Len(text))[from]
        IN section.ec = "completed" /\ FieldsOf(section.lines) = fields
    BY <2>2, <2>3, <2>4, HeaderGives
  <2> QED
    BY <2>5, Zenon DEF TextGivesFields
<1> QED
  BY <1>1, <1>2, MapNext, ResponseIsLines, PTL DEF ResponseSpec

-----------------------------------------------------------------------------
(* Components of a URI. *)

UnescapedStep(f, s) ==
  IF s = <<>> THEN {<<>>}
  ELSE IF s[1] # Percent
  THEN {<<s[1]>> \o t : t \in f[Tail(s)]}
  ELSE IF Len(s) > 2 /\ {s[2], s[3]} \subseteq HexDigits
  THEN {<<16 * HexValue(s[2]) + HexValue(s[3])>> \o t :
          t \in f[SubSeq(s, 4, Len(s))]}
  ELSE {}

LEMMA HexByte ==
  ASSUME NEW a \in HexDigits, NEW b \in HexDigits
  PROVE  /\ HexValue(a) \in 0..15
         /\ 16 * HexValue(a) + HexValue(b) \in Byte
BY DEF HexDigits, HexValue, Byte

LEMMA UnescapedUnfolds ==
  \A s \in Seq(Byte) : /\ Unescaped[s] = UnescapedStep(Unescaped, s)
                       /\ Unescaped[s] \subseteq Seq(Byte)
<1> DEFINE S == Seq(Byte)
           V == SUBSET Seq(Byte)
           step == [s \in S |-> [f \in [S -> V] |-> UnescapedStep(f, s)]]
           size == [s \in S |-> Len(s)]
<1>1. ASSUME NEW s \in S, s # <<>>
      PROVE  /\ Tail(s) \in S /\ Len(Tail(s)) < Len(s) /\ s[1] \in Byte
             /\ Len(s) > 2 => /\ SubSeq(s, 4, Len(s)) \in S
                              /\ Len(SubSeq(s, 4, Len(s))) < Len(s)
  <2>1. Len(s) \in Nat /\ Len(s) > 0
    BY <1>1, EmptySeq, LenProperties
  <2>2. Len(s) > 2 => 4 \in 1..(Len(s) + 1)
    BY <2>1
  <2>3. s[1] \in Byte
    BY <2>1, ElementOfSeq
  <2> QED
    BY <1>1, <2>1, <2>2, <2>3, TailIsRest, RestProperties DEF Rest
<1>2. ASSUME NEW s \in S, NEW f, \A r \in S : Len(r) < Len(s) => f[r] \in V
      PROVE  UnescapedStep(f, s) \in V
  <2>1. CASE s = <<>>
    BY <2>1, EmptySeq DEF UnescapedStep
  <2>2. CASE s # <<>> /\ s[1] # Percent
    <3>1. ASSUME NEW t \in f[Tail(s)] PROVE <<s[1]>> \o t \in Seq(Byte)
      <4>0. s[1] \in Byte /\ f[Tail(s)] \in V
        BY <1>1, <1>2, <2>2
      <4>1. t \in Seq(Byte) /\ <<s[1]>> \in Seq(Byte)
        BY <3>1, <4>0
      <4> QED
        BY <4>1, ConcatProperties
    <3> QED
      BY <2>2, <3>1 DEF UnescapedStep
  <2>3. CASE s # <<>> /\ s[1] = Percent /\ Len(s) > 2
               /\ {s[2], s[3]} \subseteq HexDigits
    <3>1. ASSUME NEW t \in f[SubSeq(s, 4, Len(s))]
          PROVE  <<16 * HexValue(s[2]) + HexValue(s[3])>> \o t \in Seq(Byte)
      <4>1. 16 * HexValue(s[2]) + HexValue(s[3]) \in Byte
        BY <2>3, HexByte
      <4>2. t \in Seq(Byte)
        BY <1>1, <1>2, <2>3
      <4>3. <<16 * HexValue(s[2]) + HexValue(s[3])>> \in Seq(Byte)
        BY <4>1
      <4> QED
        BY <4>2, <4>3, ConcatProperties
    <3> QED
      BY <2>3, <3>1 DEF UnescapedStep
  <2> QED
    BY <2>1, <2>2, <2>3 DEF UnescapedStep
<1>3. ASSUME NEW s \in S, NEW f \in [S -> V], NEW g \in [S -> V],
             \A r \in S : Len(r) < Len(s) => f[r] = g[r]
      PROVE  UnescapedStep(f, s) = UnescapedStep(g, s)
  <2>1. CASE s = <<>>
    BY <2>1 DEF UnescapedStep
  <2>2. CASE s # <<>>
    <3>1. f[Tail(s)] = g[Tail(s)]
      BY <1>1, <1>3, <2>2
    <3>2. Len(s) > 2 => f[SubSeq(s, 4, Len(s))] = g[SubSeq(s, 4, Len(s))]
      BY <1>1, <1>3, <2>2
    <3> QED
      BY <2>2, <3>1, <3>2 DEF UnescapedStep
  <2> QED
    BY <2>1, <2>2
<1>4. IsRecursion(step, size, S, V)
  <2>1. size \in [S -> Nat] /\ V # {}
    BY LenProperties
  <2>2. step \in [S -> [[S -> V] -> V]]
    BY <1>2
  <2>3. \A s \in S : \A f, g \in [S -> V] :
          (\A r \in S : size[r] < size[s] => f[r] = g[r])
            => step[s][f] = step[s][g]
    BY <1>3
  <2> HIDE DEF S, V, size, step
  <2> QED
    BY <2>1, <2>2, <2>3 DEF IsRecursion
<1>5. \E f \in [S -> V] : \A s \in S : f[s] = step[s][f]
  <2> HIDE DEF S, V, size, step
  <2> QED
    BY <1>4, Recursion
<1>6. PICK f \in [S -> V] : \A s \in S : f[s] = step[s][f]
  BY <1>5
<1> DEFINE Is(e) == e = [s \in S |-> UnescapedStep(e, s)]
<1>7. Is(f)
  BY <1>6
<1>8. Unescaped = CHOOSE e : Is(e)
  BY DEF Unescaped, UnescapedStep
<1>9. Is(Unescaped)
  <2> HIDE DEF Is
  <2> QED
    BY <1>7, <1>8
<1>10. \A s \in S : Unescaped[s] = UnescapedStep(Unescaped, s)
  BY <1>9
<1> DEFINE T == {n \in Nat : \A s \in S : Len(s) = n => Unescaped[s] \in V}
<1>11. ASSUME NEW n \in Nat, \A m \in 0..(n - 1) : m \in T PROVE n \in T
  <2> SUFFICES ASSUME NEW s \in S, Len(s) = n PROVE Unescaped[s] \in V
    OBVIOUS
  <2>1. ASSUME NEW r \in S, Len(r) < Len(s) PROVE Unescaped[r] \in V
    <3>1. Len(r) \in 0..(n - 1)
      BY <2>1, LenProperties
    <3> QED
      BY <1>11, <3>1
  <2> HIDE DEF S, V
  <2> QED
    BY <1>2, <1>10, <2>1
<1> HIDE DEF T
<1>12. \A n \in Nat : n \in T
  BY <1>11, StrongInduction
<1>13. \A s \in S : Unescaped[s] \in V
  BY <1>12, LenProperties DEF T
<1> QED
  BY <1>10, <1>13

(* Two digits follow the character at a place. *)
IsEscape(s, i) ==
  i + 2 <= Len(s) /\ {s[i + 1], s[i + 2]} \subseteq HexDigits

LEMMA UnescapedAt ==
  ASSUME NEW s \in Seq(Byte), NEW i \in 1..Len(s)
  PROVE  /\ s[i] # Percent =>
              Unescaped[Rest(s, i)]
                = {<<s[i]>> \o t : t \in Unescaped[Rest(s, i + 1)]}
         /\ s[i] = Percent /\ IsEscape(s, i) =>
              Unescaped[Rest(s, i)]
                = {<<16 * HexValue(s[i + 1]) + HexValue(s[i + 2])>> \o t :
                     t \in Unescaped[Rest(s, i + 3)]}
         /\ s[i] = Percent /\ ~IsEscape(s, i) => Unescaped[Rest(s, i)] = {}
<1> DEFINE r == Rest(s, i)
<1>0. PICK N \in Nat : N = Len(s)
  BY LenProperties
<1>1. i \in 1..(N + 1) /\ i <= N
  BY <1>0
<1>2. /\ r \in Seq(Byte) /\ Len(r) = N + 1 - i
      /\ \A j \in 1..(N + 1 - i) : r[j] = s[i + j - 1]
  BY <1>0, <1>1, RestProperties
<1>3. r[1] = s[i]
  <2>1. 1 \in 1..(N + 1 - i) /\ i + 1 - 1 = i
    BY <1>0, <1>1
  <2> HIDE DEF r
  <2> QED
    BY <1>2, <2>1
<1>4. r # <<>>
  <2> HIDE DEF r
  <2> QED
    BY <1>1, <1>2, EmptySeq
<1>5. Tail(r) = Rest(s, i + 1)
  <2>1. 2 \in 1..(N + 2 - i) /\ i + 2 - 1 = i + 1
    BY <1>1
  <2>2. Rest(r, 2) = Rest(s, i + 2 - 1)
    BY <1>0, <1>1, <2>1, RestOfRest
  <2> QED
    BY <1>2, <1>4, <2>1, <2>2, TailIsRest
<1>6. Len(r) > 2 <=> i + 2 <= N
  BY <1>1, <1>2
<1>7. ASSUME i + 2 <= N
      PROVE  r[2] = s[i + 1] /\ r[3] = s[i + 2] /\ SubSeq(r, 4, Len(r)) = Rest(s, i + 3)
  <2>1. /\ 2 \in 1..(N + 1 - i) /\ 3 \in 1..(N + 1 - i)
        /\ i + 2 - 1 = i + 1 /\ i + 3 - 1 = i + 2
        /\ 4 \in 1..(N + 2 - i) /\ i + 4 - 1 = i + 3
    BY <1>1, <1>7
  <2>2. Rest(r, 4) = Rest(s, i + 4 - 1)
    BY <1>0, <1>1, <2>1, RestOfRest
  <2>3. r[2] = s[i + 1] /\ r[3] = s[i + 2]
    <3> HIDE DEF r
    <3> QED
      BY <1>2, <2>1
  <2> QED
    BY <2>1, <2>2, <2>3 DEF Rest
<1>8. Unescaped[r] = UnescapedStep(Unescaped, r)
  BY <1>2, UnescapedUnfolds
<1> HIDE DEF r
<1>9. CASE s[i] # Percent
  BY <1>3, <1>4, <1>5, <1>8, <1>9 DEF UnescapedStep, r
<1>10. CASE s[i] = Percent
  BY <1>0, <1>3, <1>4, <1>6, <1>7, <1>8, <1>10 DEF UnescapedStep, r, IsEscape
<1> QED
  BY <1>9, <1>10

LEMMA HexDigitOfByte ==
  ASSUME NEW b \in Byte
  PROVE  /\ {to_hex_digit(b \div 16), to_hex_digit(b % 16)} \subseteq HexDigits
         /\ {to_hex_digit(b \div 16), to_hex_digit(b % 16)} \subseteq Byte
         /\ 16 * HexValue(to_hex_digit(b \div 16))
              + HexValue(to_hex_digit(b % 16)) = b
<1>1. /\ b \div 16 \in 0..15 /\ b % 16 \in 0..15 /\ 16 * (b \div 16) + (b % 16) = b
  BY DEF Byte
<1>2. ASSUME NEW x \in 0..15
      PROVE  /\ to_hex_digit(x) \in HexDigits /\ to_hex_digit(x) \in Byte
             /\ HexValue(to_hex_digit(x)) = x
  BY DEF to_hex_digit, HexDigits, HexValue, Byte
<1> QED
  BY <1>1, <1>2

(* Everything that is encoded means what it was. *)
LEMMA EncodedMeansOriginal ==
  ASSUME NEW s \in Seq(Byte)
  PROVE  /\ encode_uri_component(s) \in Seq(Byte)
         /\ Unescaped[encode_uri_component(s)] = {s}
<1>0. PICK N \in Nat : /\ N = Len(s) /\ DOMAIN s = 1..N
                       /\ \A i \in 1..N : s[i] \in Byte
  BY LenProperties, ElementOfSeq
<1> DEFINE Piece(b) == IF IsPlain(b) THEN <<b>>
                       ELSE <<Percent, to_hex_digit(b \div 16),
                              to_hex_digit(b % 16)>>
           pieces == [i \in 1..N |-> Piece(s[i])]
           E == encode_uri_component(s)
<1>1. ASSUME NEW b \in Byte
      PROVE  /\ Piece(b) \in Seq(Byte)
             /\ IsPlain(b) => Piece(b) = <<b>> /\ b # Percent
             /\ ~IsPlain(b) => Piece(b) = <<Percent, to_hex_digit(b \div 16),
                                            to_hex_digit(b % 16)>>
  <2>1. Percent \in Byte /\ ~IsPlain(Percent)
    BY DEF Percent, Byte, IsPlain
  <2>2. to_hex_digit(b \div 16) \in Byte /\ to_hex_digit(b % 16) \in Byte
    BY HexDigitOfByte
  <2> QED
    BY <2>1, <2>2
<1> HIDE DEF Piece
<1>2. pieces \in Seq(Seq(Byte)) /\ Len(pieces) = N
  <2>1. pieces \in [1..N -> Seq(Byte)]
    BY <1>0, <1>1
  <2> HIDE DEF pieces
  <2> QED
    BY <1>0, <2>1
<1>3. E = FlattenSeq(pieces)
  BY <1>0 DEF encode_uri_component, Piece
<1>4. \A i \in 1..N : pieces[i] = Piece(s[i])
  OBVIOUS
<1> HIDE DEF pieces, E
<1>5. E \in Seq(Byte) /\ \E p : IsLayout(p, pieces, E)
  BY <1>2, <1>3, FlattenLayout
<1>6. PICK p : IsLayout(p, pieces, E)
  BY <1>5
<1>7. PICK M \in Nat : M = Len(E) /\ p[N] = M
  BY <1>2, <1>5, <1>6, LenProperties DEF IsLayout
<1>8. /\ p[0] = 0 /\ \A i \in 0..N : p[i] \in Nat
      /\ \A i \in 1..N : /\ p[i] = p[i - 1] + Len(pieces[i])
                         /\ p[i] <= M
                         /\ \A j \in 1..Len(pieces[i]) :
                              E[p[i - 1] + j] = pieces[i][j]
  BY <1>2, <1>6, <1>7 DEF IsLayout
<1> DEFINE Means(k) == Unescaped[Rest(E, p[k] + 1)] = {Rest(s, k + 1)}
           T == {m \in Nat : m <= N => Means(N - m)}
<1>9. 0 \in T
  <2>1. Rest(E, M + 1) = <<>> /\ Rest(s, N + 1) = <<>>
    BY <1>0, <1>5, <1>7, SubSeqEmpty DEF Rest
  <2>2. Unescaped[<<>>] = {<<>>}
    BY UnescapedUnfolds, EmptySeq DEF UnescapedStep
  <2>3. Means(N)
    BY <1>7, <2>1, <2>2
  <2> HIDE DEF Means
  <2> QED
    BY <1>0, <2>3
<1>10. ASSUME NEW m \in Nat, m \in T PROVE m + 1 \in T
  <2> SUFFICES ASSUME m + 1 <= N PROVE Means(N - (m + 1))
    OBVIOUS
  <2>0. PICK i \in 1..N : i = N - m
    BY <1>0
  <2>1. Means(i) /\ i - 1 = N - (m + 1) /\ (i - 1) + 1 = i
    BY <1>0, <1>10, <2>0
  <2>2. PICK b \in Byte : b = s[i]
    BY <1>0
  <2>3. /\ p[i] = p[i - 1] + Len(Piece(b))
        /\ \A j \in 1..Len(Piece(b)) : E[p[i - 1] + j] = Piece(b)[j]
    BY <1>4, <1>8, <2>2
  <2>4. PICK o \in Nat : o = p[i - 1]
    BY <1>8
  <2>5. Rest(s, i) = <<b>> \o Rest(s, i + 1)
    <3>1. N \in i..Len(s) /\ i \in 1..Len(s)
      BY <1>0
    <3>2. SubSeq(s, i, N) = <<s[i]>> \o SubSeq(s, i + 1, N)
      BY <3>1, SubSeqRecursiveFirst
    <3> QED
      BY <1>0, <2>2, <3>2 DEF Rest
  <2>6. p[i] <= M
    BY <1>8
  <2>7. CASE IsPlain(b)
    <3>1. Piece(b) = <<b>> /\ b # Percent
      BY <1>1, <2>7
    <3>2. p[i] = o + 1 /\ E[o + 1] = b
      BY <2>3, <2>4, <3>1
    <3>3. PICK q \in 1..M : q = o + 1
      BY <1>7, <2>6, <3>2
    <3>4. Unescaped[Rest(E, q)]
            = {<<b>> \o t : t \in Unescaped[Rest(E, q + 1)]}
      <4>1. E[q] = b /\ q \in 1..Len(E)
        BY <1>7, <3>2, <3>3
      <4>2. Unescaped[Rest(E, q)]
              = {<<E[q]>> \o t : t \in Unescaped[Rest(E, q + 1)]}
        BY <1>5, <3>1, <4>1, UnescapedAt
      <4> QED
        BY <4>1, <4>2
    <3>5. Unescaped[Rest(E, q + 1)] = {Rest(s, i + 1)}
      BY <2>1, <3>2, <3>3
    <3>6. Unescaped[Rest(E, q)] = {Rest(s, i)}
      BY <2>5, <3>4, <3>5
    <3>7. Means(i - 1)
      BY <2>1, <2>4, <3>3, <3>6
    <3> QED
      BY <2>1, <3>7
  <2>8. CASE ~IsPlain(b)
    <3> DEFINE x == to_hex_digit(b \div 16)
               y == to_hex_digit(b % 16)
    <3>1. /\ Piece(b) = <<Percent, x, y>>
          /\ {x, y} \subseteq HexDigits /\ 16 * HexValue(x) + HexValue(y) = b
      BY <1>1, <2>8, HexDigitOfByte
    <3> HIDE DEF x, y
    <3>2. /\ p[i] = o + 3
          /\ E[o + 1] = Percent /\ E[o + 2] = x /\ E[o + 3] = y
      BY <2>3, <2>4, <3>1
    <3>3. PICK q \in 1..M : q = o + 1 /\ q + 2 <= M
      BY <1>7, <2>6, <3>2
    <3>4. E[q] = Percent /\ E[q + 1] = x /\ E[q + 2] = y /\ p[i] + 1 = q + 3
      BY <3>2, <3>3
    <3>5. Unescaped[Rest(E, q)]
            = {<<b>> \o t : t \in Unescaped[Rest(E, q + 3)]}
      <4>1. q \in 1..Len(E) /\ IsEscape(E, q)
        BY <1>7, <3>1, <3>3, <3>4 DEF IsEscape
      <4>2. Unescaped[Rest(E, q)]
              = {<<16 * HexValue(E[q + 1]) + HexValue(E[q + 2])>> \o t :
                   t \in Unescaped[Rest(E, q + 3)]}
        BY <1>5, <3>4, <4>1, UnescapedAt
      <4> QED
        BY <3>1, <3>4, <4>2
    <3>6. Unescaped[Rest(E, q + 3)] = {Rest(s, i + 1)}
      BY <2>1, <3>4
    <3>7. Unescaped[Rest(E, q)] = {Rest(s, i)}
      BY <2>5, <3>5, <3>6
    <3>8. Means(i - 1)
      BY <2>1, <2>4, <3>3, <3>7
    <3> QED
      BY <2>1, <3>8
  <2> QED
    BY <2>7, <2>8
<1> HIDE DEF T
<1>11. \A m \in Nat : m \in T
  BY <1>9, <1>10, Induction
<1>12. Means(0)
  <2> HIDE DEF Means
  <2>1. N \in T
    BY <1>0, <1>11
  <2> QED
    BY <1>0, <2>1 DEF T
<1>13. Rest(E, 1) = E /\ Rest(s, 1) = s
  BY <1>5, SubSeqFull DEF Rest
<1>14. Unescaped[E] = {s}
  BY <1>8, <1>12, <1>13
<1> QED
  BY <1>5, <1>14 DEF E

LEMMA OrType == \A a, b : Or(a, b) \in Byte
<1>1. \A a, b : /\ Bit(a, b, 128) \in {0, 128} /\ Bit(a, b, 64) \in {0, 64}
               /\ Bit(a, b, 32) \in {0, 32} /\ Bit(a, b, 16) \in {0, 16}
               /\ Bit(a, b, 8) \in {0, 8} /\ Bit(a, b, 4) \in {0, 4}
               /\ Bit(a, b, 2) \in {0, 2} /\ Bit(a, b, 1) \in {0, 1}
  BY DEF Bit
<1> QED
  BY <1>1 DEF Or, Byte

(* Two digits are put together without a carry. *)
LEMMA OrOfDigits ==
  ASSUME NEW h \in 0..15, NEW l \in 0..15
  PROVE  Or(16 * h, l) = 16 * h + l
<1>1. /\ ((16 * h) \div 128) % 2 = (h \div 8) % 2
      /\ ((16 * h) \div 64) % 2 = (h \div 4) % 2
      /\ ((16 * h) \div 32) % 2 = (h \div 2) % 2
      /\ ((16 * h) \div 16) % 2 = (h \div 1) % 2
      /\ ((16 * h) \div 8) % 2 = 0 /\ ((16 * h) \div 4) % 2 = 0
      /\ ((16 * h) \div 2) % 2 = 0 /\ ((16 * h) \div 1) % 2 = 0
  OBVIOUS
<1>2. /\ (l \div 128) % 2 = 0 /\ (l \div 64) % 2 = 0
      /\ (l \div 32) % 2 = 0 /\ (l \div 16) % 2 = 0
  OBVIOUS
<1>3. /\ Bit(16 * h, l, 128) = 16 * (IF (h \div 8) % 2 = 1 THEN 8 ELSE 0)
      /\ Bit(16 * h, l, 64) = 16 * (IF (h \div 4) % 2 = 1 THEN 4 ELSE 0)
      /\ Bit(16 * h, l, 32) = 16 * (IF (h \div 2) % 2 = 1 THEN 2 ELSE 0)
      /\ Bit(16 * h, l, 16) = 16 * (IF (h \div 1) % 2 = 1 THEN 1 ELSE 0)
  BY <1>1, <1>2 DEF Bit
<1>4. /\ Bit(16 * h, l, 8) = (IF (l \div 8) % 2 = 1 THEN 8 ELSE 0)
      /\ Bit(16 * h, l, 4) = (IF (l \div 4) % 2 = 1 THEN 4 ELSE 0)
      /\ Bit(16 * h, l, 2) = (IF (l \div 2) % 2 = 1 THEN 2 ELSE 0)
      /\ Bit(16 * h, l, 1) = (IF (l \div 1) % 2 = 1 THEN 1 ELSE 0)
  BY <1>1, <1>2 DEF Bit
<1>5. ASSUME NEW x \in 0..15
      PROVE  x = (IF (x \div 8) % 2 = 1 THEN 8 ELSE 0)
                 + (IF (x \div 4) % 2 = 1 THEN 4 ELSE 0)
                 + (IF (x \div 2) % 2 = 1 THEN 2 ELSE 0)
                 + (IF (x \div 1) % 2 = 1 THEN 1 ELSE 0)
  OBVIOUS
<1> QED
  BY <1>3, <1>4, <1>5 DEF Or

(* What the text means begins with what has been returned and goes on with *)
(* what its rest means.                                                    *)
GoesOn(i) ==
  \A m \in Unescaped[encoded] :
    \E t \in Unescaped[Rest(encoded, i)] : m = ret \o t

DecodeType ==
  /\ original \in Seq(Byte)
  /\ encoded \in Seq(Byte)
  /\ index \in 0..Len(encoded)
  /\ escape \in {"normal", "escape_1", "escape_2"}
  /\ ret \in Seq(Byte)

(* An escape that has been started is still to be understood. *)
DecodeInv ==
  /\ DecodeType
  /\ escape = "normal" => GoesOn(index + 1)
  /\ escape = "escape_1" =>
       /\ index >= 1
       /\ encoded[index] = Percent
       /\ GoesOn(index)
  /\ escape = "escape_2" =>
       /\ index >= 2
       /\ encoded[index - 1] = Percent
       /\ encoded[index] \in HexDigits => decoded = 16 * HexValue(encoded[index])
       /\ GoesOn(index - 1)

LEMMA DecodeInvInit == DecodeInit => DecodeInv
<1> SUFFICES ASSUME DecodeInit PROVE DecodeInv
  OBVIOUS
<1>1. original \in Seq(Byte) /\ encoded \in Seq(Byte)
  <2>1. CASE original \in Texts /\ encoded = encode_uri_component(original)
    <3>1. original \in Seq(Byte)
      BY <2>1, TextsAssumption
    <3> QED
      BY <2>1, <3>1, EncodedMeansOriginal
  <2>2. CASE original = <<>> /\ encoded \in RawTexts
    BY <2>2, TextsAssumption, EmptySeq
  <2> QED
    BY <2>1, <2>2 DEF DecodeInit
<1>2. index = 0 /\ ret = <<>> /\ escape = "normal"
  BY DEF DecodeInit
<1>3. Rest(encoded, 1) = encoded
  BY <1>1, SubSeqFull DEF Rest
<1>4. \A t \in Unescaped[encoded] : <<>> \o t = t
  BY <1>1, UnescapedUnfolds, ConcatEmptySeq
<1>5. GoesOn(1)
  BY <1>2, <1>3, <1>4 DEF GoesOn
<1>6. DecodeType
  BY <1>1, <1>2, LenProperties, EmptySeq DEF DecodeType
<1> QED
  BY <1>2, <1>5, <1>6 DEF DecodeInv

(* A character that has been understood moves from the rest to ret. *)
LEMMA GoesOnAfter ==
  ASSUME NEW c \in Byte, NEW i \in 1..(Len(encoded) + 1), NEW j,
         ret \in Seq(Byte), encoded \in Seq(Byte),
         Unescaped[Rest(encoded, j)]
           = {<<c>> \o t : t \in Unescaped[Rest(encoded, i)]},
         GoesOn(j)
  PROVE  \A m \in Unescaped[encoded] :
           \E t \in Unescaped[Rest(encoded, i)] : m = Append(ret, c) \o t
<1> SUFFICES ASSUME NEW m \in Unescaped[encoded]
             PROVE  \E t \in Unescaped[Rest(encoded, i)] : m = Append(ret, c) \o t
  OBVIOUS
<1>1. PICK t \in Unescaped[Rest(encoded, i)] : m = ret \o (<<c>> \o t)
  BY DEF GoesOn
<1>2. t \in Seq(Byte)
  BY RestProperties, UnescapedUnfolds
<1>3. <<c>> \in Seq(Byte) /\ Append(ret, c) = ret \o <<c>>
  BY AppendIsConcat
<1>4. ret \o (<<c>> \o t) = Append(ret, c) \o t
  BY <1>2, <1>3, ConcatAssociative
<1> QED
  BY <1>1, <1>4

LEMMA DecodeInvNext == DecodeInv /\ [DecodeNext]_decodeVars => DecodeInv'
<1> SUFFICES ASSUME DecodeInv, [DecodeNext]_decodeVars PROVE DecodeInv'
  OBVIOUS
<1>0. PICK N \in Nat : N = Len(encoded)
  BY LenProperties DEF DecodeInv, DecodeType
<1>1. /\ encoded \in Seq(Byte) /\ index \in 0..N /\ ret \in Seq(Byte)
      /\ original \in Seq(Byte)
  BY <1>0 DEF DecodeInv, DecodeType
<1>2. ASSUME NEW x, Takes(x)
      PROVE  /\ index + 1 \in 1..N /\ index' = index + 1
             /\ UNCHANGED <<original, encoded>> /\ escape = x
             /\ item = encoded[index + 1] /\ item \in Byte
  BY <1>0, <1>1, <1>2, ElementOfSeq DEF Takes, item
<1>4. CASE Copy
  <2>1. /\ index + 1 \in 1..N /\ index' = index + 1
        /\ UNCHANGED <<original, encoded>> /\ escape = "normal"
        /\ item = encoded[index + 1] /\ item \in Byte
    BY <1>2, <1>4 DEF Copy
  <2>2. /\ ret' = Append(ret, item) /\ escape' = escape /\ item # Percent
    BY <1>4 DEF Copy
  <2>3. PICK i \in 1..N : i = index + 1
    BY <2>1
  <2>4. Unescaped[Rest(encoded, i)]
          = {<<item>> \o t : t \in Unescaped[Rest(encoded, i + 1)]}
    BY <1>0, <1>1, <2>1, <2>2, <2>3, UnescapedAt
  <2>5. GoesOn(i)
    BY <2>1, <2>3 DEF DecodeInv
  <2>6. i + 1 \in 1..(Len(encoded) + 1)
    BY <1>0
  <2>7. \A m \in Unescaped[encoded] :
          \E t \in Unescaped[Rest(encoded, i + 1)] : m = Append(ret, item) \o t
    BY <1>1, <2>1, <2>4, <2>5, <2>6, GoesOnAfter
  <2>8. GoesOn(index + 1)'
    BY <2>1, <2>2, <2>3, <2>7 DEF GoesOn
  <2>9. DecodeType'
    BY <1>0, <1>1, <2>1, <2>2 DEF DecodeType
  <2> QED
    BY <2>1, <2>2, <2>8, <2>9 DEF DecodeInv
<1>5. CASE StartEscape
  <2>1. /\ index + 1 \in 1..N /\ index' = index + 1
        /\ UNCHANGED <<original, encoded>> /\ escape = "normal"
        /\ item = encoded[index + 1] /\ item \in Byte
    BY <1>2, <1>5 DEF StartEscape
  <2>2. UNCHANGED <<decoded, ret>> /\ escape' = "escape_1" /\ item = Percent
    BY <1>5 DEF StartEscape
  <2>3. GoesOn(index)'
    BY <2>1, <2>2 DEF DecodeInv, GoesOn
  <2>4. DecodeType'
    BY <1>0, <1>1, <2>1, <2>2 DEF DecodeType
  <2> QED
    BY <2>1, <2>2, <2>3, <2>4 DEF DecodeInv
<1>6. CASE FirstDigit
  <2>1. /\ index + 1 \in 1..N /\ index' = index + 1
        /\ UNCHANGED <<original, encoded>> /\ escape = "escape_1"
        /\ item = encoded[index + 1] /\ item \in Byte
    BY <1>2, <1>6 DEF FirstDigit
  <2>2. /\ ret' = ret /\ escape' = "escape_2"
        /\ decoded' = (Digit * 16) % 256
    BY <1>6 DEF FirstDigit
  <2>3. ASSUME item \in HexDigits PROVE decoded' = 16 * HexValue(item)
    <3>1. Digit = HexValue(item) /\ HexValue(item) \in 0..15
      BY <2>1, <2>3 DEF Digit, from_hex_digit, Char, HexDigits, HexValue
    <3> QED
      BY <2>2, <3>1
  <2>4. /\ index >= 1 /\ encoded[index] = Percent /\ index' - 1 = index
        /\ GoesOn(index - 1)'
    <3>1. index >= 1 /\ encoded[index] = Percent /\ GoesOn(index)
      BY <2>1 DEF DecodeInv
    <3>2. index' - 1 = index
      BY <1>1, <2>1
    <3>3. GoesOn(index - 1)'
      BY <2>1, <2>2, <3>1, <3>2, Zenon DEF GoesOn
    <3> QED
      BY <3>1, <3>2, <3>3
  <2>5. DecodeType'
    BY <1>0, <1>1, <2>1, <2>2 DEF DecodeType
  <2> QED
    BY <2>1, <2>2, <2>3, <2>4, <2>5 DEF DecodeInv
<1>7. CASE SecondDigit
  <2>1. /\ index + 1 \in 1..N /\ index' = index + 1
        /\ UNCHANGED <<original, encoded>> /\ escape = "escape_2"
        /\ item = encoded[index + 1] /\ item \in Byte
    BY <1>2, <1>7 DEF SecondDigit
  <2>2. /\ ret' = Append(ret, decoded') /\ escape' = "normal"
        /\ decoded' = Or(decoded, Digit % 256)
    BY <1>7 DEF SecondDigit
  <2>3. decoded' \in Byte
    BY <2>2, OrType
  <2>4. PICK i \in 1..N : i = index - 1 /\ i + 1 = index /\ i + 2 = index + 1
    BY <1>1, <2>1 DEF DecodeInv
  <2>5. /\ encoded[i] = Percent
        /\ encoded[i + 1] \in HexDigits => decoded = 16 * HexValue(encoded[i + 1])
        /\ GoesOn(i)
        /\ item = encoded[i + 2]
    BY <2>1, <2>4 DEF DecodeInv, GoesOn
  <2>6. \A m \in Unescaped[encoded] :
          \E t \in Unescaped[Rest(encoded, i + 3)] : m = Append(ret, decoded') \o t
    <3>1. CASE IsEscape(encoded, i)
      <4>1. encoded[i + 1] \in HexDigits /\ item \in HexDigits
        BY <2>5, <3>1 DEF IsEscape
      <4>2. Digit = HexValue(item) /\ HexValue(item) \in 0..15
        BY <4>1 DEF Digit, from_hex_digit, Char, HexDigits, HexValue
      <4>3. HexValue(encoded[i + 1]) \in 0..15
        BY <4>1, HexByte
      <4>4. Digit % 256 = HexValue(item)
        BY <4>2
      <4>5. decoded' = 16 * HexValue(encoded[i + 1]) + HexValue(item)
        BY <2>2, <2>5, <4>1, <4>2, <4>3, <4>4, OrOfDigits
      <4>6. Unescaped[Rest(encoded, i)]
              = {<<decoded'>> \o t : t \in Unescaped[Rest(encoded, i + 3)]}
        <5>1. Unescaped[Rest(encoded, i)]
                = {<<16 * HexValue(encoded[i + 1]) + HexValue(encoded[i + 2])>> \o t :
                     t \in Unescaped[Rest(encoded, i + 3)]}
          BY <1>0, <1>1, <2>5, <3>1, UnescapedAt
        <5> QED
          BY <2>5, <4>5, <5>1
      <4>7. i + 3 \in 1..(Len(encoded) + 1)
        BY <1>0, <2>1, <2>4
      <4> QED
        BY <1>1, <2>3, <2>5, <4>6, <4>7, GoesOnAfter
    <3>2. CASE ~IsEscape(encoded, i)
      <4>1. Unescaped[Rest(encoded, i)] = {}
        BY <1>0, <1>1, <2>5, <3>2, UnescapedAt
      <4> QED
        BY <2>5, <4>1 DEF GoesOn
    <3> QED
      BY <3>1, <3>2
  <2>7. GoesOn(index + 1)'
    <3>1. index' + 1 = i + 3
      BY <2>1, <2>4
    <3>2. encoded' = encoded /\ ret' = Append(ret, decoded')
      BY <2>1, <2>2
    <3> QED
      BY <2>6, <3>1, <3>2, Zenon DEF GoesOn
  <2>8. DecodeType'
    BY <1>0, <1>1, <2>1, <2>2, <2>3 DEF DecodeType
  <2> QED
    BY <2>2, <2>7, <2>8 DEF DecodeInv
<1>8. CASE UNCHANGED decodeVars
  BY <1>8 DEF decodeVars, DecodeInv, DecodeType, GoesOn
<1> QED
  BY <1>4, <1>5, <1>6, <1>7, <1>8 DEF DecodeNext, Decoded

LEMMA DecodeInvMeans == DecodeInv => MatchesEscapes
<1> SUFFICES ASSUME DecodeInv PROVE MatchesEscapes
  OBVIOUS
<1>1. Unescaped[encode_uri_component(original)] = {original}
  BY EncodedMeansOriginal DEF DecodeInv, DecodeType
<1>2. ASSUME index = Len(encoded) PROVE \A t \in Unescaped[encoded] : ret = t
  <2>0. PICK N \in Nat : N = Len(encoded) /\ index = N
    BY <1>2, LenProperties DEF DecodeInv, DecodeType
  <2>1. encoded \in Seq(Byte) /\ ret \in Seq(Byte)
    BY DEF DecodeInv, DecodeType
  <2>2. CASE escape = "normal"
    <3>1. Rest(encoded, N + 1) = <<>>
      BY <2>0, SubSeqEmpty DEF Rest
    <3>2. Unescaped[<<>>] = {<<>>}
      BY UnescapedUnfolds, EmptySeq DEF UnescapedStep
    <3>3. \A t \in Unescaped[encoded] : t = ret \o <<>>
      BY <2>0, <2>2, <3>1, <3>2 DEF DecodeInv, GoesOn
    <3> QED
      BY <2>1, <3>3, ConcatEmptySeq
  <2>3. CASE escape = "escape_1"
    <3>1. N \in 1..N /\ ~IsEscape(encoded, N) /\ encoded[N] = Percent
      BY <2>0, <2>3 DEF DecodeInv, IsEscape
    <3>2. Unescaped[Rest(encoded, N)] = {}
      BY <2>0, <2>1, <3>1, UnescapedAt
    <3> QED
      BY <2>0, <2>3, <3>2 DEF DecodeInv, GoesOn
  <2>4. CASE escape = "escape_2"
    <3>1. PICK i \in 1..N : i = N - 1 /\ ~IsEscape(encoded, i) /\ encoded[i] = Percent
      BY <2>0, <2>4 DEF DecodeInv, IsEscape
    <3>2. Unescaped[Rest(encoded, i)] = {}
      BY <2>0, <2>1, <3>1, UnescapedAt
    <3> QED
      BY <2>0, <2>4, <3>1, <3>2 DEF DecodeInv, GoesOn
  <2> QED
    BY <2>2, <2>3, <2>4 DEF DecodeInv, DecodeType
<1> QED
  BY <1>1, <1>2 DEF MatchesEscapes

(* decode_uri_component undoes encode_uri_component, for every text; and   *)
(* it gives every properly escaped text its meaning, whoever has escaped   *)
(* it and whatever the uninitialized decoded_value was.                    *)
THEOREM DecodingMatchesEscapes == DecodeSpec => []MatchesEscapes
<1>1. DecodeInit => DecodeInv
  BY DecodeInvInit
<1>2. DecodeInv /\ [DecodeNext]_decodeVars => DecodeInv'
  BY DecodeInvNext
<1>3. DecodeInv => MatchesEscapes
  BY DecodeInvMeans
<1> QED
  BY <1>1, <1>2, <1>3, PTL DEF DecodeSpec
=============================================================================
