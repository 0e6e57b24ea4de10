--------------------------- MODULE RequestGrammar ---------------------------
(***************************************************************************)
(* The request header as a grammar: the first n characters of a text s are *)
(* cut at their separators, from left to right.  This is the reference     *)
(* that the character by character parser, and what the serializer of      *)
(* responses writes, are compared with; it has no states and no buffer.    *)
(*                                                                         *)
(* An operator From... says what a text means of which the part before the *)
(* place i has been read.                                                  *)
(***************************************************************************)
EXTENDS MessageHeader

More == "more_data_needed"

Stopped(code) == [ec |-> code]

-----------------------------------------------------------------------------
(* The lines of the fields. *)

(* The '\r' at i ends a value: what follows is no line break, or not the   *)
(* white space that starts a continuation.                                 *)
EndsValue(s, n, i) ==
  /\ s[i] = CR
  /\ \/ i < n /\ s[i + 1] # LF
     \/ i + 1 < n /\ ~is_strict_whitespace(s[i + 2])

(* There is nothing but white space between a line break of the value that *)
(* begins at v and the place i.                                            *)
StartsLine(s, v, i) ==
  \E cr \in v..(i - 2) :
    s[cr] = CR /\ \A j \in (cr + 2)..(i - 1) : is_strict_whitespace(s[j])

(* What the character at i adds to the value that begins at v.  A line     *)
(* break and the white space after it add nothing, but the first character *)
(* of a continuation is set off by a space.                                *)
Adds(s, v, i) ==
  IF s[i] = CR \/ (i > v /\ s[i - 1] = CR) THEN <<>>
  ELSE IF ~StartsLine(s, v, i) THEN <<s[i]>>
  ELSE IF is_strict_whitespace(s[i]) THEN <<>>
  ELSE <<SP, s[i]>>

Unfolded(s, v, len) == FlattenSeq([i \in 1..len |-> Adds(s, v, v + i - 1)])

(* A line is its name and its value, and where the next one begins. *)
Line(name, val, next) == [ec |-> "line", line |-> <<name, val>>, next |-> next]

(* The value at i is empty, and has the '\r' at i after it. *)
FromNoValue(s, n, i, name) ==
  IF i = n THEN Stopped(More)
  ELSE IF s[i + 1] # LF THEN Stopped("expected_linefeed")
  ELSE Line(name, <<>>, i + 2)

(* The value begins at i. *)
FromText(s, n, i, name) ==
  LET last == First({j \in 1..n : EndsValue(s, n, j)}, i, n)
      val == rtrim(Unfolded(s, i, last - i))
  IN IF last > n THEN Stopped(More)
     ELSE IF s[last + 1] # LF THEN Stopped("expected_linefeed")
     ELSE IF ~IsFieldName(name) THEN Stopped("bad_field_name")
     ELSE IF ~IsFieldValue(val) THEN Stopped("bad_field_value")
     ELSE Line(name, val, last + 2)

FromValue(s, n, i, name) ==
  LET v == First({j \in 1..n : ~is_strict_whitespace(s[j])}, i, n)
  IN IF v > n THEN Stopped(More)
     ELSE IF s[v] # CR THEN FromText(s, n, v, name)
     ELSE IF ~IsFieldName(name) THEN Stopped("bad_field_name")
     ELSE FromNoValue(s, n, v, name)

(* The name has at least one character, and ends at the next colon. *)
FromName(s, n, i) ==
  LET colon == Place(s, Colon, i + 1, n)
  IN IF colon > n THEN Stopped(More)
     ELSE FromValue(s, n, colon + 1, SubSeq(s, i, colon - 1))

(* An empty line is the last one. *)
FromLine(s, n, i) ==
  IF i > n THEN Stopped(More)
  ELSE IF s[i] # CR THEN FromName(s, n, i)
  ELSE IF i = n THEN Stopped(More)
  ELSE Stopped(IF s[i + 1] = LF THEN "completed" ELSE "expected_linefeed")

(* All lines from a place on, up to the end or an error. *)
FieldLines(s, n) ==
  LET from[i \in 1..(n + 1)] ==
        LET first == FromLine(s, n, i)
        IN IF first.ec = "line"
           THEN [ec |-> from[first.next].ec,
                 lines |-> <<first.line>> \o from[first.next].lines]
           ELSE [ec |-> first.ec, lines |-> <<>>]
  IN from

-----------------------------------------------------------------------------
(* The fields that lines give. *)

(* The lines whose name no earlier one has. *)
Firsts(lines) ==
  {i \in DOMAIN lines :
     \A j \in 1..(i - 1) : ~SameName(lines[j][1], lines[i][1])}

(* What a line adds to the list of the values of a name. *)
Element(lines, i, name) ==
  IF ~SameName(lines[i][1], name) \/ lines[i][2] = <<>> THEN <<>>
  ELSE IF i \in Firsts(lines) THEN lines[i][2]
  ELSE <<Comma, SP>> \o lines[i][2]

FieldsOf(lines) ==
  [name \in {lines[i][1] : i \in Firsts(lines)} |->
     FlattenSeq([i \in DOMAIN lines |-> Element(lines, i, name)])]

-----------------------------------------------------------------------------
(* The request line: the method, the target, the protocol and the numbers  *)
(* of the version, each with what ends it.                                 *)

(* What a header means: its result and, if it is complete, its contents    *)
(* and the lines that they are from.                                       *)
FromFields(s, n, i, method, target, ver) ==
  LET section == FieldLines(s, n)[i]
  IN IF section.ec # "completed" THEN Stopped(section.ec)
     ELSE [ec |-> "completed",
           header |-> [method |-> method, target |-> target,
                       version |-> ver, fields |-> FieldsOf(section.lines)],
           lines |-> section.lines]

(* The line break of the request line, whose '\r' is at i. *)
FromBreak(s, n, i, method, target, ver) ==
  IF i = n THEN Stopped(More)
  ELSE IF s[i + 1] # LF THEN Stopped("expected_linefeed")
  ELSE FromFields(s, n, i + 2, method, target, ver)

FromMinor(s, n, i, method, target, major) ==
  LET cr == Place(s, CR, i, n)
      minor == to_number(SubSeq(s, i, cr - 1), VersionMax)
  IN IF cr > n THEN Stopped(More)
     ELSE IF minor = None THEN Stopped("bad_protocol_version")
     ELSE FromBreak(s, n, cr, method, target, version(major, minor))

FromMajor(s, n, i, method, target) ==
  LET dot == Place(s, Dot, i, n)
      major == to_number(SubSeq(s, i, dot - 1), VersionMax)
  IN IF dot > n THEN Stopped(More)
     ELSE IF major = None THEN Stopped("bad_protocol_version")
     ELSE FromMinor(s, n, dot + 1, method, target, major)

FromProtocol(s, n, i, method, target) ==
  LET slash == Place(s, Slash, i, n)
  IN IF slash > n THEN Stopped(More)
     ELSE IF SubSeq(s, i, slash - 1) # HTTP THEN Stopped("wrong_protocol")
     ELSE FromMajor(s, n, slash + 1, method, target)

FromTarget(s, n, i, method) ==
  LET space == Place(s, SP, i, n)
      target == SubSeq(s, i, space - 1)
  IN IF space > n THEN Stopped(More)
     ELSE IF ~IsTarget(target) THEN Stopped("bad_request_target")
     ELSE FromProtocol(s, n, space + 1, method, target)

Meaning(s, n) ==
  LET space == Place(s, SP, 1, n)
      method == SubSeq(s, 1, space - 1)
  IN IF space > n THEN Stopped(More)
     ELSE IF ~IsMethod(method) THEN Stopped("bad_request_method")
     ELSE FromTarget(s, n, space + 1, method)
=============================================================================
