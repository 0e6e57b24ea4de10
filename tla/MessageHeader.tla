---------------------------- MODULE MessageHeader ----------------------------
(***************************************************************************)
(* The types of http_message_header.hpp as operators: the classes of       *)
(* characters, what the create functions accept, field_map, the version,   *)
(* get_content_length with to_number of utils.hpp, and the text that a     *)
(* header is written as.                                                   *)
(*                                                                         *)
(* A character is the number of its byte; a std::string is a sequence of   *)
(* them.  char is signed: a byte above 127 is a negative char.             *)
(***************************************************************************)
EXTENDS Integers, Sequences, FiniteSets, SequencesExt

CONSTANTS
  ContentLength,  \* the field name "Content-Length"
  SizeMax,        \* the largest size_t
  VersionMax      \* the largest uint32_t, for the parts of a version

ASSUME WidthAssumption == SizeMax \in Nat /\ VersionMax \in Nat

Byte == 0..255

HT == 9
LF == 10
CR == 13
SP == 32
Comma == 44
Dot == 46
Slash == 47
Colon == 58
CRLF == <<CR, LF>>
HTTP == <<72, 84, 84, 80>>

-----------------------------------------------------------------------------
(* Characters and strings. *)

is_delimiter(ch) ==
  ch \in {34, 40, 41, Comma, Slash} \cup 58..64 \cup 91..93 \cup {123, 125}

is_not_printable(ch) == ch \in 0..SP \/ ch = 127

is_strict_whitespace(ch) == ch = SP \/ ch = HT

is_not_token_char(ch) == ch > 127 \/ is_delimiter(ch) \/ is_not_printable(ch)

is_token(str) ==
  /\ str # <<>>
  /\ \A i \in DOMAIN str : ~is_not_token_char(str[i])

ASSUME NameAssumption ==
  ContentLength \in Seq(Byte) /\ is_token(ContentLength)

contains_whitespace(str) == \E i \in DOMAIN str : is_not_printable(str[i])

toupper(ch) == IF ch \in 97..122 THEN ch - 32 ELSE ch

(* stricmp(a, b) == 0 *)
SameName(a, b) ==
  /\ Len(a) = Len(b)
  /\ \A i \in DOMAIN a : toupper(a[i]) = toupper(b[i])

(* stricmp(a, b) < 0 *)
NameLess(a, b) ==
  \E i \in DOMAIN b :
    /\ \A j \in 1..(i - 1) : j <= Len(a) /\ toupper(a[j]) = toupper(b[j])
    /\ i <= Len(a) => toupper(a[i]) < toupper(b[i])

(* The create functions: what is accepted. *)
IsMethod(str) == is_token(str)

IsTarget(str) == str # <<>> /\ ~contains_whitespace(str)

IsFieldName(str) == is_token(str)

IsFieldValue(str) ==
  str # <<>> =>
    /\ ~is_not_printable(str[1])
    /\ ~is_not_printable(str[Len(str)])
    /\ \A i \in DOMAIN str :
         is_not_printable(str[i]) => is_strict_whitespace(str[i])

(* rtrim of http_request_header_parser.hpp *)
rtrim(str) ==
  LET last == CHOOSE n \in 0..Len(str) :
                /\ n > 0 => ~is_strict_whitespace(str[n])
                /\ \A i \in (n + 1)..Len(str) : is_strict_whitespace(str[i])
  IN SubSeq(str, 1, last)

(* For the meanings that texts are compared with: the first place, from a  *)
(* given one on, that is in a set, or the one after n; and the first place *)
(* of a character among the first n of a text.                             *)
First(places, from, n) ==
  CHOOSE i \in from..(n + 1) :
    /\ i <= n => i \in places
    /\ \A j \in from..(i - 1) : j \notin places

Place(str, c, from, n) == First({i \in 1..n : str[i] = c}, from, n)

-----------------------------------------------------------------------------
(* field_map: a function from the names, as first spelled, to the values.  *)

NoFields == [name \in {} |-> <<>>]

find(fields, name) == {key \in DOMAIN fields : SameName(key, name)}

(* A map that compares its names as they are spelled. *)
append_exact(fields, name, value) ==
  IF name \in DOMAIN fields
  THEN [fields EXCEPT ![name] = IF value = <<>> THEN @
                                ELSE @ \o <<Comma, SP>> \o value]
  ELSE [key \in DOMAIN fields \cup {name} |->
          IF key = name THEN value ELSE fields[key]]

(* field_map::append: a name that is there already gets the value as a     *)
(* further element of its list.                                            *)
append(fields, name, value) ==
  IF find(fields, name) = {}
  THEN [key \in DOMAIN fields \cup {name} |->
          IF key = name THEN value ELSE fields[key]]
  ELSE [key \in DOMAIN fields |->
          IF SameName(key, name) /\ value # <<>>
          THEN fields[key] \o <<Comma, SP>> \o value
          ELSE fields[key]]

-----------------------------------------------------------------------------
(* Numbers. *)

None == -1

IsDigit(ch) == ch \in 48..57

Numeral(str) ==
  LET value[n \in 0..Len(str)] ==
        IF n = 0 THEN 0 ELSE 10 * value[n - 1] + (str[n] - 48)
  IN value[Len(str)]

(* to_number that takes the leading digits and ignores what follows. *)
to_number_prefix(str, max) ==
  IF str # <<>> /\ IsDigit(str[1])
  THEN LET digits == CHOOSE n \in DOMAIN str :
                       /\ \A i \in 1..n : IsDigit(str[i])
                       /\ n < Len(str) => ~IsDigit(str[n + 1])
       IN Numeral(SubSeq(str, 1, digits))
  ELSE None

(* to_number: std::from_chars with nothing left over, and in range. *)
to_number(str, max) ==
  IF /\ str # <<>>
     /\ \A i \in DOMAIN str : IsDigit(str[i])
     /\ Numeral(str) \in 0..max
  THEN Numeral(str)
  ELSE None

get_content_length(fields) ==
  IF find(fields, ContentLength) = {} THEN 0
  ELSE to_number(fields[CHOOSE key \in find(fields, ContentLength) : TRUE],
                 SizeMax)

(* class version *)
version(hi, lo) == [major |-> hi, minor |-> lo]

-----------------------------------------------------------------------------
(* Headers as text. *)

(* std::to_string *)
Decimal[n \in Nat] ==
  IF n < 10 THEN <<48 + n>> ELSE Append(Decimal[n \div 10], 48 + (n % 10))

VersionText(ver) == Decimal[ver.major] \o <<Dot>> \o Decimal[ver.minor]

(* The loops over the fields, in the order of the map, which the           *)
(* serializer of responses and the echo handler have in common.            *)
FieldText(fields, name) == name \o <<Colon, SP>> \o fields[name] \o CRLF

(* The names in the order of the map. *)
Names(fields) ==
  LET places == 1..Cardinality(DOMAIN fields)
  IN CHOOSE order \in [places -> DOMAIN fields] :
       \A i, j \in places :
         i < j => order[i] # order[j] /\ ~NameLess(order[j], order[i])

FieldTexts(fields) ==
  LET order == Names(fields)
  IN FlattenSeq([i \in DOMAIN order |-> FieldText(fields, order[i])])
=============================================================================
