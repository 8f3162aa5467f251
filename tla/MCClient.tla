------------------------------ MODULE MCClient ------------------------------
(* Small instances of Client: clients that make calls on two or three       *)
(* brokers, and clients of all kinds of URIs that make none.                *)
EXTENDS Client

CONSTANTS t1, t2, c1, c2, app

Node(scheme, host) ==
  [scheme |-> scheme, host |-> host, user |-> None, pass |-> None,
   port |-> None, path |-> None, query |-> <<>>]

Q(key, name, text, value) ==
  [key |-> key, name |-> name, text |-> text, value |-> value]

\* Up to two of the pairs.
Queries(pairs) ==
  {<<>>} \union {<<q>> : q \in pairs} \union (pairs \X pairs)

AmqpPairs == {
  Q("channel_max", "channelMax", Literal(31, 16), 31),
  Q("channelMax", "channelMax", Literal(8, 8), 8),
  Q("frame_max", "frameMax", Literal(5, 2), 5),
  Q("heartbeat", "heartbeat", Literal(10, 10), 10),
  Q("heartbeat", "heartbeat", <<"0", "8">>, Error),
  Q("locale", "locale", <<"en">>, <<"en">>),
  Q("locale", "locale", <<"a", "%2F", "b">>, <<"a", "/", "b">>),
  Q("locale", "locale", None, Error),
  Q("other", "other", <<"1">>, <<"1">>)}

RedisPairs == {
  Q("password", "password", <<"p">>, <<"p">>),
  Q("password", "password", <<"q", "%2F">>, <<"q", "/">>),
  Q("password", "password", <<"q", "/">>, Error),
  Q("no_delay", "noDelay", <<"yes">>, TRUE),
  Q("no_delay", "noDelay", <<"0">>, FALSE),
  Q("no_delay", "noDelay", <<"maybe">>, Error)}

SentinelPairs == {
  Q("name", "name", <<"m">>, <<"m">>), Q("name", "name", <<"n">>, <<"n">>),
  Q("role", "role", <<"slave">>, <<"slave">>),
  Q("role", "role", <<"master">>, <<"master">>),
  Q("role", "role", <<"king">>, Error)}

AmqpWants(scheme) ==
  {<<[Node(scheme, "h") EXCEPT !.query = q]>> : q \in Queries(AmqpPairs)}
    \union {<<[Node(scheme, h) EXCEPT !.user = u, !.pass = p, !.port = n,
                                      !.path = v]>> :
              h \in {"h", "-h", None}, u \in {None, <<"u", "/">>},
              p \in {None, <<"p", "/">>}, n \in {None, 5672},
              v \in {None, <<>>, <<"v">>, <<"v", "/", "w">>}}
    \union {<<[Node(scheme, "h") EXCEPT !.path = <<"v">>, !.query = q]>> :
              q \in {<<p>> : p \in AmqpPairs}}

RedisWants ==
  {<<[Node("redis", "h") EXCEPT !.pass = p, !.path = <<"1">>, !.query = q]>> :
     p \in {None, <<"p">>}, q \in Queries(RedisPairs)}
    \union {<<[Node("redis", h) EXCEPT !.user = u, !.pass = p, !.port = n,
                                       !.path = d]>> :
              h \in {"h", None}, u \in {None, <<"u">>},
              p \in {None, <<"p">>, <<"p", "/">>}, n \in {None, 6380},
              d \in {None, <<>>, <<"0">>, <<"1", "2">>, <<"x">>}}

SocketWants ==
  {<<[Node("redis+socket", None) EXCEPT !.path = p, !.query = q]>> :
     p \in {<<"tmp", "/", "s">>, <<"s">>, <<"s", "NUL">>},
     q \in Queries(RedisPairs)}

SentinelWants ==
  {<<[Node("sentinel", h) EXCEPT !.port = n, !.query = q]>> :
     h \in {"h", None}, n \in {None, 26379}, q \in Queries(SentinelPairs)}
    \union {<<[Node("sentinel", "h") EXCEPT !.port = 1, !.query = q],
              [Node("sentinel", "g") EXCEPT !.port = 2, !.query = r]>> :
              q, r \in {<<p>> : p \in SentinelPairs} \union {<<>>}}

OtherWants == {<<Node(s, "h")>> : s \in {"rediss", "amqps", "rpcs", "ftp"}}

DefaultTask == [name |-> "add", appId |-> app, queue |-> "celery",
                deliveryMode |-> "persistent", softTimeLimit |-> Null,
                hardTimeLimit |-> Null]

DefaultOptions == [args |-> <<"args">>, serializer |-> "json",
                   compression |-> "identity", eta |-> Null, expires |-> Null,
                   queue |-> Null, priority |-> 0]

Applied(t, ignored) == [of |-> t, ignoreResult |-> ignored,
                        task |-> DefaultTask, options |-> DefaultOptions]

Request(brokers, backend) ==
  [brokers |-> brokers, backend |-> backend, throws |-> {}, down |-> {},
   calls |-> <<>>, lossy |-> FALSE, end |-> FALSE]

OverAmqp  == <<Node("amqp", "h")>>
OverRedis == <<Node("redis", "h")>>

\* Clients that only have to connect.
Connecting ==
  {Request(<<w>>, None) : w \in AmqpWants("amqp") \union AmqpWants("rpc")
                                  \union RedisWants \union SocketWants
                                  \union SentinelWants \union OtherWants}
    \union {Request(<<OverAmqp, OverRedis>>, w) :
              w \in AmqpWants("rpc") \union AmqpWants("amqp") \union RedisWants
                      \union SocketWants \union SentinelWants
                      \union OtherWants}

\* Every kind of message.
Packing ==
  {[Request(<<OverAmqp>>, OverRedis) EXCEPT !.calls =
      c1 :> [of |-> t1, ignoreResult |-> FALSE,
             task |-> [DefaultTask EXCEPT !.deliveryMode = m,
                                          !.softTimeLimit = l],
             options |-> [DefaultOptions EXCEPT !.serializer = s,
                                                !.compression = c,
                                                !.queue = q]]] :
     m \in {"persistent", "transient"}, l \in {Null, 10},
     s \in {"json", "yaml"}, c \in {"identity", "gzip", "zlib"},
     q \in {Null, "other"}}

\* Two calls, of one task or of two, on brokers that throw or are down.
Calling ==
  {[Request(b, OverRedis) EXCEPT
      !.throws = {i \in DOMAIN b : b[i] = Custom},
      !.down = {Max({i \in DOMAIN b : b[i] # Custom})},
      !.calls = (c1 :> Applied(t1, FALSE)) @@ (c2 :> Applied(t, g))] :
     b \in {<<Custom, OverAmqp, OverRedis>>, <<Custom, OverAmqp, Custom>>,
            <<OverRedis, OverAmqp>>},
     t \in {t1, t2}, g \in BOOLEAN}
    \union {[Request(<<OverRedis, OverAmqp>>, b) EXCEPT
               !.down = {2}, !.calls = c1 :> Applied(t1, FALSE),
               !.lossy = l, !.end = TRUE] :
              b \in {None, OverRedis}, l \in BOOLEAN}

AllRequests == Connecting \union Packing \union Calling

OneBrokerDown ==
  {[Request(<<OverAmqp, OverAmqp>>, OverRedis) EXCEPT
      !.down = {1}, !.calls = c1 :> Applied(t1, FALSE)]}
=============================================================================
