----------------------------- MODULE UriFormats -----------------------------
(***************************************************************************)
(* The formats in which the comments of src/amqp/uri.ts:41-50,             *)
(* src/redis/uri/tcp.ts:42-46, src/redis/uri/socket.ts:41-46 and           *)
(* src/redis/uri/sentinel.ts:42-48 say that URIs are written, as the       *)
(* reference that ConnectionUris is compared with.                         *)
(*                                                                         *)
(* A want is what somebody wants to connect to: a sequence of nodes, one   *)
(* but for Sentinel.  A node is a record of                                *)
(*   scheme, host  as in Uri;                                              *)
(*   user, pass    the plain text, or None;                                *)
(*   port          a number, or None;                                      *)
(*   path          the plain text, or None;                                *)
(*   query         a sequence of records: the option "name" is to have the *)
(*                 value "value", written as "text" under the key "key".   *)
(***************************************************************************)
EXTENDS ConnectionUris

\* How a number is written in one of the radixes that C++ knows.
Literal(n, radix) ==
  CASE radix = 8  -> <<"0">> \o Written(n, 8)
    [] radix = 16 -> <<"0", "x">> \o Written(n, 16)
    [] radix = 2  -> <<"0", "b">> \o Written(n, 2)
    [] radix = 10 -> Written(n, 10)

Encode(text) ==
  IF text = None THEN None
  ELSE [i \in DOMAIN text |-> IF text[i] = "/" THEN "%2F" ELSE text[i]]

\* The URI of a node.  The path of a socket is not encoded.
UriOf(want) ==
  [i \in DOMAIN want |->
     [scheme |-> want[i].scheme, host |-> want[i].host,
      user   |-> Encode(want[i].user), pass |-> Encode(want[i].pass),
      port   |-> WrittenIfAny(want[i].port),
      path   |-> IF want[i].scheme = "redis+socket" THEN want[i].path
                                                    ELSE Encode(want[i].path),
      query  |-> IF want[i].query = <<>> THEN None
                 ELSE [j \in DOMAIN want[i].query |->
                         <<want[i].query[j].key, want[i].query[j].text>>]]]

\* The last value that counts for an option, or "otherwise".
LastOf(node, name, otherwise) ==
  LET places == {j \in DOMAIN node.query : node.query[j].name = name}
  IN  IF places = {} THEN otherwise ELSE node.query[Max(places)].value

\* The same for an option that is text.
LastText(node, name, otherwise) ==
  LET value == LastOf(node, name, None)
  IN  IF value = None THEN otherwise ELSE Text(value)

RedisFormats == {"redis", "redis+socket", "sentinel"}

WantsValid(want, schemes) ==
  \A i \in DOMAIN want :
    /\ want[i].scheme \in schemes
    /\ want[i].host \in Hostnames \union {None}
    /\ \A j \in DOMAIN want[i].query :
         LET q == want[i].query[j]
         IN  /\ q.text # None /\ "/" \notin Range(q.text)
             /\ LastOf(want[i], q.name, None) # Error
    /\ want[i].scheme \in {"amqp", "rpc", "redis"} => want[i].host # None
    /\ want[i].scheme = "redis" => \/ want[i].path \in {None, <<>>}
                                   \/ IsNumeral(want[i].path, 10)
    /\ want[i].scheme = "redis+socket" => "NUL" \notin Range(want[i].path)
    /\ want[i].scheme = "sentinel" =>
         /\ want[i].host # None /\ want[i].port # None
         /\ \E j \in DOMAIN want : LastOf(want[j], "name", None) # None

\* What the connection has to be made with.
Expected(want, prefix) ==
  LET node  == want[1]
      redis == [dropBufferSupport |-> TRUE, keyPrefix |-> prefix,
                stringNumbers |-> TRUE]
      user  == IF node.user = None /\ node.pass # None THEN <<>> ELSE node.user
  IN
  CASE node.scheme \in {"amqp", "rpc"} ->
         [hostname |-> node.host, protocol |-> "amqp"]
           @@ Given("username", Text(user))
           @@ Given("password", Text(node.pass))
           @@ Given("port", node.port)
           @@ Given("vhost", Text(node.path))
           @@ Given("channelMax", LastOf(node, "channelMax", None))
           @@ Given("frameMax", LastOf(node, "frameMax", None))
           @@ Given("heartbeat", LastOf(node, "heartbeat", None))
           @@ Given("locale", LastText(node, "locale", None))
    [] node.scheme = "redis" ->
         [protocol |-> "redis", host |-> node.host] @@ redis
           @@ Given("db", IF node.path \in {None, <<>>} THEN None
                          ELSE ParseInt(node.path, 10))
           @@ Given("port", node.port)
           @@ Given("password", LastText(node, "password", Text(node.pass)))
           @@ Given("noDelay", LastOf(node, "noDelay", None))
    [] node.scheme = "redis+socket" ->
         [protocol |-> "redis+socket", path |-> node.path] @@ redis
           @@ Given("password", LastText(node, "password", None))
           @@ Given("noDelay", LastOf(node, "noDelay", None))
    [] node.scheme = "sentinel" ->
         [protocol |-> "sentinel",
          sentinels |-> [i \in DOMAIN want |-> [host |-> want[i].host,
                                                port |-> want[i].port]]]
           @@ redis
           @@ Given("name", FoldLeft(LAMBDA n, w : LastText(w, "name", n),
                                     None, want))
           @@ Given("role", FoldLeft(LAMBDA r, w : LastOf(w, "role", r),
                                     None, want))
-----------------------------------------------------------------------------
\* The options for which the code is known to depart from these formats: the
\* vhost in front of a query, a text that one node gives twice, and a value
\* that is given both under a snake_case and a camelCase key.
Departures(want) ==
  {"vhost" : n \in {n \in DOMAIN want :
                       want[n].path # None /\ want[n].query # <<>>}}
    \union UNION {LET query == want[n].query IN
                  {query[j].name : j \in {j \in DOMAIN query :
                     \E k \in DOMAIN query \ {j} :
                       /\ query[k].name = query[j].name
                       /\ \/ query[k].key # query[j].key
                          \/ query[j].name \in {"locale", "name", "password"}}}
                 : n \in DOMAIN want}

\* Two records of options that have the same but for some names.
AgreeBut(names, some, others) ==
  LET Kept(options) == Restrict(options, DOMAIN options \ names)
  IN  Kept(some) = Kept(others)
=============================================================================
