------------------------------ MODULE MC_Texts ------------------------------
(***************************************************************************)
(* Instances for TLC of what turns text into data and data into text: the  *)
(* request header parser, the response header, parse_cookie_string and     *)
(* decode_uri_component.                                                   *)
(***************************************************************************)
EXTENDS RequestHeaderParser, ResponseHeader, CookieParser, UriComponent

CONSTANTS
  Alphabet,   \* the characters of the cookie strings
  MaxString   \* the length of the longest

VARIABLE subject  \* which of the four is at work; the others rest

MCContentLength == <<76>>  \* "L" stands for the name Content-Length

(* "1.1", "2.0" and a number that is too large. *)
Versions == {<<49, Dot, 49>>, <<50, Dot, 48>>, <<49, 48, 48, Dot, 49>>}

(* "G / HTTP/" and a version *)
RequestLineText(ver) ==
  <<71, SP, Slash, SP>> \o HTTP \o <<Slash>> \o ver \o CRLF

(* "L", "l" and "n" as names; a number, one in white space, one that is    *)
(* too large, nothing, two words and a value over two lines.               *)
Lines ==
  {<<76, Colon, 53>> \o CRLF,
   <<108, Colon, SP, 55, SP>> \o CRLF,
   <<108, Colon, 49, 48, 48>> \o CRLF,
   <<76, Colon>> \o CRLF,
   <<110, Colon, 97, HT, 98>> \o CRLF,
   <<110, Colon, 97>> \o CRLF \o <<SP, HT, 98>> \o CRLF}

TwoLines == {a \o b : a, b \in Lines}

(* Whole headers, each followed by a byte of a body. *)
Good == {RequestLineText(ver) \o lines \o CRLF \o <<53>> :
           ver \in Versions, lines \in {<<>>} \cup Lines \cup TwoLines}

(* One byte of a text is replaced by another. *)
Corrupted(texts, alphabet) ==
  UNION {{[t EXCEPT ![i] = c] : i \in DOMAIN t, c \in alphabet} : t \in texts}

(* What a parser is given, and nothing. *)
MCInputs ==
  {<<>>} \cup Good \cup
  Corrupted({RequestLineText(<<49, Dot, 49>>) \o lines \o CRLF :
               lines \in TwoLines},
            {0, HT, LF, CR, SP, Colon, 200})

MCReason ==
  [code \in {200, 410} |->
     IF code = 200 THEN <<79, 107>> ELSE <<71, 111, 110, 101>>]

(* A field, the same one with another value, with none, a bad name, and a  *)
(* value that holds a line break and a second field.                       *)
MCHandlerFields ==
  {[name |-> <<110>>, value |-> <<97>>],
   [name |-> <<78>>, value |-> <<98, SP, 99>>],
   [name |-> <<110>>, value |-> <<>>],
   [name |-> <<SP>>, value |-> <<97>>],
   [name |-> <<110>>, value |-> <<97>> \o CRLF \o <<109, Colon, 98>>]}

MCStrings == UNION {[1..n -> Alphabet] : n \in 0..MaxString}

(* An empty store, and one that has a cookie with the key "a". *)
MCStores == {NoFields, (<<97>> :> <<57>>)}

(* Bytes around the limits of the ranges, per cent and digits. *)
Some == {0, 32, Percent, 57, 59, 65, 97, 126, 127, 128, 255}

MCTexts == {<<>>} \cup [1..1 -> Byte] \cup [1..2 -> Some] \cup [1..3 -> Some]

(* Per cent, digits of both sorts, a lower-case one, a letter and a byte   *)
(* above 127.                                                              *)
MCRawTexts == UNION {[1..n -> {Percent, 52, 70, 102, 200}] : n \in 0..5}

-----------------------------------------------------------------------------
NoRequest == input = <<>> /\ Init
NoCookies == str = <<>> /\ store = NoFields /\ CookieInit
NothingEncoded == encoded = <<>> /\ original = <<>> /\ decoded = 0 /\ DecodeInit

TextsInit ==
  \/ /\ subject = "request"
     /\ ResponseInit /\ NoCookies /\ NothingEncoded /\ Init
  \/ /\ subject = "response"
     /\ NoRequest /\ NoCookies /\ NothingEncoded /\ ResponseInit
  \/ /\ subject = "cookies"
     /\ NoRequest /\ ResponseInit /\ NothingEncoded /\ CookieInit
  \/ /\ subject = "uri"
     /\ NoRequest /\ ResponseInit /\ NoCookies /\ DecodeInit

TextsNext ==
  /\ UNCHANGED subject
  /\ \/ /\ subject = "request" /\ Next
        /\ UNCHANGED <<responseVars, cookieVars, decodeVars>>
     \/ /\ subject = "response" /\ ResponseNext
        /\ UNCHANGED <<vars, cookieVars, decodeVars>>
     \/ /\ subject = "cookies" /\ CookieNext
        /\ UNCHANGED <<vars, responseVars, decodeVars>>
     \/ /\ subject = "uri" /\ DecodeNext
        /\ UNCHANGED <<vars, responseVars, cookieVars>>

TextsSpec ==
  TextsInit
    /\ [][TextsNext]_<<subject, vars, responseVars, cookieVars, decodeVars>>
=============================================================================
