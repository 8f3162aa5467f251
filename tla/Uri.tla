--------------------------------- MODULE Uri ---------------------------------
(***************************************************************************)
(* The parsers of src/uri.ts and src/query_parser.ts, and the parsers of   *)
(* numbers and booleans of src/utility.ts.                                 *)
(*                                                                         *)
(* A raw URI is the record of what stands between its delimiters:          *)
(*   scheme, host      a string; host is None where there is none;         *)
(*   user, pass, port  text, or None where there is none or it is empty;   *)
(*   path              the text behind the first "/", None without a "/";  *)
(*   query             <<key, text>> pairs in order, or None.              *)
(* Text is a sequence of characters, in which a word that is only ever     *)
(* compared stands for one character, and "%2F" for an encoded "/".  Case  *)
(* and white space are left out.                                           *)
(***************************************************************************)
EXTENDS Naturals, Sequences, SequencesExt, FiniteSetsExt, TLC

CONSTANTS None, Error,
          Hostnames  \* the hosts that match HOST_REGEX

Schemes == {"amqp", "amqps", "redis", "rediss", "sentinel", "sentinels",
            "redis+socket", "rediss+socket", "rpc", "rpcs"}

\* decodeURIComponent(), and what urijs does to user, password and query
Decode(text) ==
  [i \in DOMAIN text |-> IF text[i] = "%2F" THEN "/" ELSE text[i]]

DecodeIfAny(text) == IF text = None THEN None ELSE Decode(text)
-----------------------------------------------------------------------------
(* Numbers and booleans *)

Digits == <<"0", "1", "2", "3", "4", "5", "6", "7", "8", "9",
            "a", "b", "c", "d", "e", "f">>

IsNumeral(text, radix) ==
  text # <<>> /\ \A i \in DOMAIN text : \E d \in 1..radix : text[i] = Digits[d]

\* Number.parseInt()
ParseInt(text, radix) ==
  LET DigitOf(c) == CHOOSE d \in 0..15 : Digits[d + 1] = c
  IN  FoldLeft(LAMBDA n, c : n * radix + DigitOf(c), 0, text)

StartsWith(text, prefix) == IsPrefix(prefix, text)

Behind(text, prefix) == SubSeq(text, Len(prefix) + 1, Len(text))

\* The radix and the digits of a literal as C++ writes it.
GetRadix(text) ==
  CASE IsNumeral(text, 8) /\ text[1] = "0" -> <<8, text>>
    [] StartsWith(text, <<"0", "x">>)
         /\ IsNumeral(Behind(text, <<"0", "x">>), 16) ->
         <<16, Behind(text, <<"0", "x">>)>>
    [] StartsWith(text, <<"0", "b">>)
         /\ IsNumeral(Behind(text, <<"0", "b">>), 2) ->
         <<2, Behind(text, <<"0", "b">>)>>
    [] IsNumeral(text, 10) /\ text[1] # "0" -> <<10, text>>
    [] OTHER -> None

ParseInteger(text) ==
  LET literal == GetRadix(text)
  IN  IF literal = None THEN Error ELSE ParseInt(literal[2], literal[1])

ParseBoolean(text) ==
  CASE text \in {<<"true">>, <<"1">>, <<"on">>, <<"yes">>}  -> TRUE
    [] text \in {<<"false">>, <<"0">>, <<"off">>, <<"no">>} -> FALSE
    [] OTHER -> Error
-----------------------------------------------------------------------------
(* parseUri() *)

\* getScheme()
GetScheme(raw) == IF raw.scheme \in Schemes THEN raw.scheme ELSE Error

\* addHostUserPassAndPort(), and all it calls
Authority(raw) ==
  IF raw.host = None THEN None
  ELSE IF \/ raw.host \notin Hostnames
          \/ raw.port # None /\ ~IsNumeral(raw.port, 10) THEN Error
  ELSE [host |-> raw.host,
        user |-> IF raw.user = None /\ raw.pass # None THEN <<>>
                                                     ELSE DecodeIfAny(raw.user),
        pass |-> DecodeIfAny(raw.pass),
        port |-> IF raw.port = None THEN None ELSE ParseInt(raw.port, 10)]

\* toCamelCase() of the keys that anything is looked up by
ToCamelCase(key) ==
  CASE key = "channel_max" -> "channelMax"
    [] key = "frame_max"   -> "frameMax"
    [] key = "no_delay"    -> "noDelay"
    [] OTHER -> key

\* Every pair has a key and a "=", and no character that must be encoded.
IsQuery(query) ==
  \A i \in DOMAIN query : /\ query[i][1] # ""
                          /\ query[i][2] # None
                          /\ "/" \notin Range(query[i][2])

\* addQuery(): all values of each key, in order.  Those of a snake_case key
\* replace those of the camelCase key that it is renamed to.
AddQuery(raw) ==
  LET keys      == {raw.query[i][1] : i \in DOMAIN raw.query}
      Values(k) == LET pairs == SelectSeq(raw.query, LAMBDA p : p[1] = k)
                   IN  [i \in DOMAIN pairs |-> Decode(pairs[i][2])]
      Snake(k)  == {s \in keys \ {k} : ToCamelCase(s) = k}
  IN  IF raw.query = None THEN None
      ELSE IF ~IsQuery(raw.query) THEN Error
      ELSE [k \in {ToCamelCase(s) : s \in keys} |->
              Values(IF Snake(k) = {} THEN k ELSE CHOOSE s \in Snake(k) : TRUE)]

ParseUri(raw) ==
  LET authority == Authority(raw)
      query     == AddQuery(raw)
  IN  IF authority = Error \/ query = Error THEN Error
      ELSE [scheme |-> raw.scheme, authority |-> authority, query |-> query,
            path |-> IF raw.path = None THEN <<>> ELSE raw.path]
-----------------------------------------------------------------------------
(* QueryParser: "descriptors" has the kind of the parser for each source,  *)
(* which is also the target.  Every parser but the identity takes the last *)
(* of several values.                                                      *)

\* Mutant: asScalar() takes the first value.
ParseValue_First(kind, values) ==
  CASE kind = "integer" -> ParseInteger(Head(values))
    [] kind = "boolean" -> ParseBoolean(Head(values))
    [] kind = "role"    -> IF Head(values) \in {<<"master">>, <<"slave">>}
                             THEN Head(values) ELSE Error
    [] kind = "text"    -> values

ParseValue(kind, values) ==
  CASE kind = "integer" -> ParseInteger(Last(values))
    [] kind = "boolean" -> ParseBoolean(Last(values))
    [] kind = "role"    -> IF Last(values) \in {<<"master">>, <<"slave">>}
                             THEN Last(values) ELSE Error
    [] kind = "text"    -> values

\* parse(): the options in "init" with those that the query has.
Parse(descriptors, query, init) ==
  LET given  == IF query = None THEN {}
                ELSE DOMAIN descriptors \intersect DOMAIN query
      parsed == [k \in given |-> ParseValue(descriptors[k], query[k])]
  IN  IF \E k \in given : parsed[k] = Error THEN Error ELSE parsed @@ init
=============================================================================
