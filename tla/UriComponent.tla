---------------------------- MODULE UriComponent ----------------------------
(***************************************************************************)
(* encode_uri_component and decode_uri_component (http_utils.hpp).  The    *)
(* first is an operator; an action is one turn of the loop of the second.  *)
(***************************************************************************)
EXTENDS MessageHeader

CONSTANTS
  Texts,     \* what is encoded
  RawTexts   \* what else may come to the decoder, from elsewhere

ASSUME TextsAssumption == Texts \cup RawTexts \subseteq Seq(Byte)

VARIABLES
  original, \* what was encoded, or <<>> for a raw text
  encoded,  \* the argument of decode_uri_component: str
  index,    \* characters of it that have been taken
  escape,   \* current_state
  decoded,  \* decoded_value
  ret

decodeVars == <<original, encoded, index, escape, decoded, ret>>

Percent == 37

-----------------------------------------------------------------------------
(* encode_uri_component *)

(* A-Z a-z 0-9 - _ ! ~ * ' ( ) . *)
IsPlain(ch) ==
  \/ ch \in 65..90 \/ ch \in 97..122 \/ ch \in 48..57
  \/ ch \in {45, 95, 33, 126, 42, 39, 40, 41, 46}

to_hex_digit(x) == IF x < 10 THEN x + 48 ELSE (x - 10) + 65

encode_uri_component(s) ==
  FlattenSeq([i \in DOMAIN s |->
    IF IsPlain(s[i]) THEN <<s[i]>>
    ELSE <<Percent, to_hex_digit(s[i] \div 16), to_hex_digit(s[i] % 16)>>])

-----------------------------------------------------------------------------
(* decode_uri_component *)

(* char is signed. *)
Char(byte) == IF byte > 127 THEN byte - 256 ELSE byte

(* Any character is taken for a digit: an upper-case one has its value. *)
from_hex_digit(x) == IF x <= 57 THEN x - 48 ELSE (x - 65) + 10

(* The operator | of two bytes, bit by bit. *)
Bit(a, b, weight) ==
  IF (a \div weight) % 2 = 1 \/ (b \div weight) % 2 = 1 THEN weight ELSE 0

Or(a, b) ==
  Bit(a, b, 128) + Bit(a, b, 64) + Bit(a, b, 32) + Bit(a, b, 16)
    + Bit(a, b, 8) + Bit(a, b, 4) + Bit(a, b, 2) + Bit(a, b, 1)

DecodeInit ==
  /\ \/ original \in Texts /\ encoded = encode_uri_component(original)
     \/ original = <<>> /\ encoded \in RawTexts
  /\ index = 0
  /\ escape = "normal"
  /\ decoded \in {0, 255}  \* not initialized
  /\ ret = <<>>

Takes(s) ==
  /\ index < Len(encoded)
  /\ escape = s
  /\ index' = index + 1
  /\ UNCHANGED <<original, encoded>>

item == encoded[index + 1]

Digit == from_hex_digit(Char(item))

Copy ==
  /\ Takes("normal")
  /\ item # Percent
  /\ ret' = Append(ret, item)
  /\ UNCHANGED <<escape, decoded>>

StartEscape ==
  /\ Takes("normal")
  /\ item = Percent
  /\ escape' = "escape_1"
  /\ UNCHANGED <<decoded, ret>>

(* The digit is or-ed into what the variable has. *)
FirstDigitAdded ==
  /\ Takes("escape_1")
  /\ decoded' = Or(decoded, (Digit * 16) % 256)
  /\ escape' = "escape_2"
  /\ UNCHANGED ret

FirstDigit ==
  /\ Takes("escape_1")
  /\ decoded' = (Digit * 16) % 256
  /\ escape' = "escape_2"
  /\ UNCHANGED ret

SecondDigit ==
  /\ Takes("escape_2")
  /\ decoded' = Or(decoded, Digit % 256)
  /\ ret' = Append(ret, decoded')
  /\ escape' = "normal"

Decoded == index = Len(encoded) /\ UNCHANGED decodeVars

DecodeNext == Copy \/ StartEscape \/ FirstDigit \/ SecondDigit \/ Decoded

DecodeSpec == DecodeInit /\ [][DecodeNext]_decodeVars

-----------------------------------------------------------------------------
(* Correctness. *)

HexDigits == (48..57) \cup (65..70)

HexValue(d) == IF d < 58 THEN d - 48 ELSE d - 55

(* What a text means in which every per cent sign is followed by two       *)
(* upper-case digits: nothing, for any other.                              *)
Unescaped[s \in Seq(Byte)] ==
  IF s = <<>> THEN {<<>>}
  ELSE IF s[1] # Percent
  THEN {<<s[1]>> \o t : t \in Unescaped[Tail(s)]}
  ELSE IF Len(s) > 2 /\ {s[2], s[3]} \subseteq HexDigits
  THEN {<<16 * HexValue(s[2]) + HexValue(s[3])>> \o t :
          t \in Unescaped[SubSeq(s, 4, Len(s))]}
  ELSE {}

(* What is encoded is properly escaped and means the original, for every   *)
(* byte and whatever its neighbours are; and a text that is properly       *)
(* escaped is decoded to what it means, whoever has escaped it and         *)
(* whatever decoded_value was before.  Decoding so undoes encoding.        *)
MatchesEscapes ==
  /\ Unescaped[encode_uri_component(original)] = {original}
  /\ index = Len(encoded) => \A t \in Unescaped[encoded] : ret = t
=============================================================================
