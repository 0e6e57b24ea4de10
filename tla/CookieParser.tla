---------------------------- MODULE CookieParser ----------------------------
(***************************************************************************)
(* parse_cookie_string (http_utils.hpp): reads the value of a Cookie field *)
(* into a cookie_store that the caller hands in, which need not be empty   *)
(* and which keeps what has been inserted when the call fails half way.    *)
(*                                                                         *)
(* An action is one turn of the loop.                                      *)
(***************************************************************************)
EXTENDS MessageHeader

CONSTANTS
  Strings,  \* what clients may send as the value of a Cookie field
  Stores    \* what the caller may have in its cookie_store

Equals == 61
Semicolon == 59

(* A cookie_store: a function from its keys to their values. *)
IsStore(m) ==
  /\ DOMAIN m \subseteq Seq(Byte)
  /\ m \in [DOMAIN m -> Seq(Byte)]

ASSUME StringsAssumption == Strings \subseteq Seq(Byte)
ASSUME StoresAssumption == \A m \in Stores : IsStore(m)

VARIABLES
  str,            \* the argument str
  store,          \* what `values' was at the call
  ptr,            \* as a distance from the begin of str
  current_state,
  cookieBuffer,   \* buffer
  key,
  values,
  result          \* what is returned, or "parsing"

cookieStrings == <<cookieBuffer, key>>
cookieVars == <<str, store, ptr, current_state, cookieStrings, values, result>>

CookieInit ==
  /\ str \in Strings
  /\ store \in Stores
  /\ ptr = 0
  /\ current_state = "key"
  /\ cookieBuffer = <<>>
  /\ key = <<>>
  /\ values = store
  /\ result = "parsing"

-----------------------------------------------------------------------------
cookieChar == str[ptr + 1]

(* The loop takes a character in state s. *)
InCookie(s) ==
  /\ result = "parsing"
  /\ ptr < Len(str)
  /\ current_state = s
  /\ ptr' = ptr + 1
  /\ UNCHANGED <<str, store>>

FailCookie(e) ==
  /\ result' = e
  /\ UNCHANGED <<current_state, cookieStrings, values>>

CollectCookie ==
  /\ \/ InCookie("key") /\ cookieChar # Equals
     \/ InCookie("value") /\ cookieChar # Semicolon
  /\ cookieBuffer' = Append(cookieBuffer, cookieChar)
  /\ UNCHANGED <<current_state, key, values, result>>

EmptyKey ==
  /\ InCookie("key")
  /\ cookieChar = Equals
  /\ cookieBuffer = <<>>
  /\ FailCookie("empty_key")

InvalidKey ==
  /\ InCookie("key")
  /\ cookieChar = Equals
  /\ cookieBuffer # <<>>
  /\ ~is_token(cookieBuffer)
  /\ FailCookie("invalid_key")

EndKey ==
  /\ InCookie("key")
  /\ cookieChar = Equals
  /\ is_token(cookieBuffer)
  /\ key' = cookieBuffer
  /\ cookieBuffer' = <<>>
  /\ current_state' = "value"
  /\ UNCHANGED <<values, result>>

(* values[key] = buffer *)
insert_or_assign(m, k, val) ==
  [x \in DOMAIN m \cup {k} |-> IF x = k THEN val ELSE m[x]]

(* std::map::insert: an entry that is there stays as it is. *)
insert(m, k, val) ==
  [x \in DOMAIN m \cup {k} |-> IF x \in DOMAIN m THEN m[x] ELSE val]

Inserted == key \notin DOMAIN values

(* The end of a value that leaves the key for the end of the string. *)
EndCookieKeepsKey ==
  /\ InCookie("value")
  /\ cookieChar = Semicolon
  /\ Inserted
  /\ values' = insert(values, key, cookieBuffer)
  /\ cookieBuffer' = <<>>
  /\ current_state' = "expect_one_whitespace"
  /\ UNCHANGED <<key, result>>

EndCookie ==
  /\ InCookie("value")
  /\ cookieChar = Semicolon
  /\ Inserted
  /\ values' = insert(values, key, cookieBuffer)
  /\ key' = <<>>
  /\ cookieBuffer' = <<>>
  /\ current_state' = "expect_one_whitespace"
  /\ UNCHANGED result

DuplicatedKey ==
  /\ InCookie("value")
  /\ cookieChar = Semicolon
  /\ ~Inserted
  /\ values' = insert(values, key, cookieBuffer)
  /\ key' = <<>>
  /\ cookieBuffer' = <<>>
  /\ result' = "duplicated_key"
  /\ UNCHANGED current_state

OneSpace ==
  /\ InCookie("expect_one_whitespace")
  /\ cookieChar = SP
  /\ current_state' = "key"
  /\ UNCHANGED <<cookieStrings, values, result>>

OtherThanSpace ==
  /\ InCookie("expect_one_whitespace")
  /\ cookieChar # SP
  /\ FailCookie("single_space_expected")

(* bytes_left == 0 *)
AtEnd ==
  /\ result = "parsing"
  /\ ptr = Len(str)
  /\ UNCHANGED <<str, store, ptr, current_state>>

EndWithoutKey ==
  /\ AtEnd
  /\ key = <<>>
  /\ result' = "key_incomplete"
  /\ UNCHANGED <<cookieStrings, values>>

EndWithKey ==
  /\ AtEnd
  /\ key # <<>>
  /\ values' = insert(values, key, cookieBuffer)
  /\ key' = <<>>
  /\ cookieBuffer' = <<>>
  /\ result' = IF Inserted THEN "no_error" ELSE "duplicated_key"

CookieDone == result # "parsing" /\ UNCHANGED cookieVars

CookieNext ==
  \/ CollectCookie \/ EmptyKey \/ InvalidKey \/ EndKey
  \/ EndCookie \/ DuplicatedKey \/ OneSpace \/ OtherThanSpace
  \/ EndWithoutKey \/ EndWithKey \/ CookieDone

CookieSpec == CookieInit /\ [][CookieNext]_cookieVars

-----------------------------------------------------------------------------
(* Correctness. *)

CookieState == {"key", "value", "expect_one_whitespace"}

Errors ==
  {"empty_key", "invalid_key", "duplicated_key", "key_incomplete",
   "single_space_expected"}

(* The types, and ptr is never moved past the end of the string. *)
CookieTypeOK ==
  /\ str \in Seq(Byte)
  /\ IsStore(store)
  /\ ptr \in 0..Len(str)
  /\ current_state \in CookieState
  /\ cookieBuffer \in Seq(Byte)
  /\ key \in Seq(Byte)
  /\ IsStore(values)
  /\ result \in {"parsing", "no_error"} \cup Errors

(* Whatever a client sends, the cookies that the caller had before keep    *)
(* their values, and what is added has tokens as its keys and no semicolon *)
(* in its values.                                                          *)
StoreIsSafe ==
  /\ \A k \in DOMAIN store : k \in DOMAIN values /\ values[k] = store[k]
  /\ \A k \in DOMAIN values \ DOMAIN store :
       is_token(k) /\ \A i \in DOMAIN values[k] : values[k][i] # Semicolon

(* What a cookie string says from a place on, from left to right: the      *)
(* pairs key=value, each after a semicolon and a space, up to the first    *)
(* one that is not well-formed.                                            *)
Pairs(s) ==
  LET from[i \in 1..(Len(s) + 1)] ==
        LET eq == Place(s, Equals, i, Len(s))
            semi == Place(s, Semicolon, eq + 1, Len(s))
            k == SubSeq(s, i, eq - 1)
            pair == <<k, SubSeq(s, eq + 1, semi - 1)>>
        IN IF eq > Len(s) THEN [pairs |-> <<>>, ec |-> "key_incomplete"]
           ELSE IF k = <<>> THEN [pairs |-> <<>>, ec |-> "empty_key"]
           ELSE IF ~is_token(k) THEN [pairs |-> <<>>, ec |-> "invalid_key"]
           ELSE IF semi > Len(s) THEN [pairs |-> <<pair>>, ec |-> "no_error"]
           ELSE IF semi = Len(s)
           THEN [pairs |-> <<pair>>, ec |-> "key_incomplete"]
           ELSE IF s[semi + 1] # SP
           THEN [pairs |-> <<pair>>, ec |-> "single_space_expected"]
           ELSE [pairs |-> <<pair>> \o from[semi + 2].pairs,
                 ec |-> from[semi + 2].ec]
  IN from

(* Its effect on a store: the pairs are added up to the first one whose    *)
(* key is there already.                                                   *)
CookieMeaning(s, m) ==
  LET read == Pairs(s)[1]
      k == [i \in DOMAIN read.pairs |-> read.pairs[i][1]]
      IsNew(i) == k[i] \notin DOMAIN m /\ \A j \in 1..(i - 1) : k[j] # k[i]
      added == {i \in DOMAIN k : \A j \in 1..i : IsNew(j)}
  IN [values |-> [x \in DOMAIN m \cup {k[i] : i \in added} |->
                    IF x \in DOMAIN m THEN m[x]
                    ELSE read.pairs[CHOOSE i \in added : k[i] = x][2]],
      ec |-> IF added = DOMAIN k THEN read.ec ELSE "duplicated_key"]

(* The call ends with what the string means: the same result, and the same *)
(* cookies in the store, also when it fails after some of them.            *)
MatchesCookieMeaning ==
  result # "parsing" =>
    [values |-> values, ec |-> result] = CookieMeaning(str, store)
=============================================================================
