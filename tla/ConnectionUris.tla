--------------------------- MODULE ConnectionUris ---------------------------
(***************************************************************************)
(* From the URI of a broker or a result backend to the options of its      *)
(* connection: src/amqp/uri.ts, src/redis/uri/*.ts, src/redis/options.ts   *)
(* and the choice of a class in src/factories.ts.                          *)
(*                                                                         *)
(* A string is a sequence of raw URIs, of which only those of Redis        *)
(* Sentinel have more than one.  Options are functions from names; an      *)
(* option that is text is the sequence of its values, because a query that *)
(* is given twice makes it an array.                                       *)
(***************************************************************************)
EXTENDS Uri

CONSTANTS Unimplemented

\* An option that is only there if it has a value.
Given(name, value) == IF value = None THEN <<>> ELSE name :> value

Text(value) == IF value = None THEN None ELSE <<value>>
-----------------------------------------------------------------------------
(* parseAmqpUri() *)

\* The path, unless a query or a second "/" follows: the expression is matched
\* to the end of the whole URI.
Vhost(raw) ==
  IF raw.path = None \/ raw.query # None THEN None
  ELSE IF "/" \in Range(raw.path) THEN None ELSE Text(Decode(raw.path))

AmqpProtocol(scheme) ==
  CASE scheme = "rpc" -> "amqp" [] scheme = "rpcs" -> "amqps" [] OTHER -> scheme

AmqpQueries == [channelMax |-> "integer", frameMax |-> "integer",
                heartbeat |-> "integer", locale |-> "text"]

ParseAmqpUri(raw) ==
  LET uri == ParseUri(raw) IN
  IF \/ GetScheme(raw) \notin {"amqp", "amqps", "rpc", "rpcs"}
     \/ uri = Error \/ uri.authority = None THEN Error
  ELSE Parse(AmqpQueries, uri.query,
             Given("hostname", uri.authority.host)
               @@ Given("protocol", AmqpProtocol(uri.scheme))
               @@ Given("password", Text(uri.authority.pass))
               @@ Given("port", uri.authority.port)
               @@ Given("username", Text(uri.authority.user))
               @@ Given("vhost", Vhost(raw)))
-----------------------------------------------------------------------------
(* The URIs of Redis *)

\* parseRedisQuery()
ParseRedisQuery(uri) ==
  Parse([password |-> "text", noDelay |-> "boolean"], uri.query, <<>>)

\* parseDb(): the digits the path begins with, whatever follows them.
ParseDb(path) ==
  LET lengths == {n \in 1..Len(path) : IsNumeral(SubSeq(path, 1, n), 10)}
  IN  IF path = <<>> THEN None ELSE IF lengths = {} THEN Error
      ELSE ParseInt(SubSeq(path, 1, Max(lengths)), 10)

\* redis/uri/tcp.ts
ParseTcpUri(raw) ==
  LET uri == ParseUri(raw) IN
  IF \/ GetScheme(raw) \notin {"redis", "rediss"}
     \/ uri = Error \/ uri.authority = None
     \/ ParseDb(uri.path) = Error \/ ParseRedisQuery(uri) = Error THEN Error
  ELSE ParseRedisQuery(uri)
         @@ Given("protocol", uri.scheme)
         @@ Given("db", ParseDb(uri.path))
         @@ Given("host", uri.authority.host)
         @@ Given("password", Text(uri.authority.pass))
         @@ Given("port", uri.authority.port)

\* redis/uri/socket.ts; the host of such a URI is not looked at.
ParseSocketUri(raw) ==
  LET uri == ParseUri(raw) IN
  IF \/ GetScheme(raw) \notin {"redis+socket", "rediss+socket"}
     \/ uri = Error \/ "NUL" \in Range(uri.path)
     \/ ParseRedisQuery(uri) = Error THEN Error
  ELSE ParseRedisQuery(uri) @@ Given("path", uri.path)
                            @@ Given("protocol", uri.scheme)

SentinelQueries == [name |-> "text", role |-> "role"]

\* redis/uri/sentinel.ts: one node for each URI; the last name and role count.
ParseSentinelUri(raws) ==
  LET uris    == [i \in DOMAIN raws |-> ParseUri(raws[i])]
      queries == [i \in DOMAIN raws |->
                    Parse(SentinelQueries, uris[i].query, <<>>)]
      options == FoldLeft(LAMBDA lhs, rhs : rhs @@ lhs, <<>>, queries)
  IN  IF \/ \E i \in DOMAIN raws :
              \/ uris[i] = Error
              \/ GetScheme(raws[i]) \notin {"sentinel", "sentinels"}
              \/ uris[i].authority = None
              \/ uris[i].authority.port = None
              \/ queries[i] = Error
         \/ "name" \notin DOMAIN options THEN Error
      ELSE Given("protocol", "sentinel")
             @@ Given("sentinels",
                      [i \in DOMAIN uris |-> [host |-> uris[i].authority.host,
                                              port |-> uris[i].authority.port]])
             @@ options
-----------------------------------------------------------------------------
(* RedisOptions: the classes that parsed options are wrapped in *)

\* appendDefaultOptions()
AppendDefaultOptions(options) ==
  [dropBufferSupport |-> TRUE, keyPrefix |-> "celery-task-meta-",
   stringNumbers |-> TRUE] @@ options

\* createClient(): what ioredis is given.
CreateClientOptions(redis, override) ==
  IF redis.class = "cluster" THEN redis.options ELSE override @@ redis.options

\* createOptions() of options that an application gives.
CreateOptions(options) ==
  LET has == DOMAIN options IN
  IF "nodes" \in has
    THEN [class |-> "cluster", options |->
            (IF "redisOptions" \in has
               THEN Given("redisOptions",
                          AppendDefaultOptions(options["redisOptions"]))
               ELSE <<>>) @@ options]
  ELSE IF "sentinels" \in has
    THEN [class |-> "sentinel", options |-> AppendDefaultOptions(options)]
  ELSE IF "path" \in has
    THEN [class |-> "socket", options |-> AppendDefaultOptions(options)]
  ELSE [class |-> "tcp", options |-> AppendDefaultOptions(
          ("protocol" :> IF "tls" \in has THEN "rediss" ELSE "redis") @@ options)]

Option(options, name) == IF name \in DOMAIN options THEN options[name] ELSE None

\* A value in a template string: the values of an array are joined by commas.
Joined(values) ==
  IF values = None \/ values = << <<>> >> THEN None
  ELSE FoldLeft(LAMBDA text, v : text \o <<",">> \o v, Head(values), Tail(values))

\* The digits of a number; no number here has ten of them.
Written(n, radix) ==
  LET length == CHOOSE k \in 1..9 : /\ radix ^ k > n
                                   /\ (k = 1 \/ radix ^ (k - 1) <= n)
  IN  [i \in 1..length |->
         Digits[((n \div radix ^ (length - i)) % radix) + 1]]

WrittenIfAny(n) == IF n = None THEN None ELSE Written(n, 10)

\* Mutant: the database is left out.
TcpCreateUri_NoDb(options) ==
  LET has      == DOMAIN options
      password == Joined(Option(options, "password"))
      host     == IF "host" \in has THEN options["host"]
                  ELSE IF "password" \in has THEN "localhost" ELSE None
  IN  [scheme |-> IF "tls" \in has THEN "rediss" ELSE "redis",
       user |-> None, pass |-> password, query |-> None, path |-> None,
       host |-> host,
       port |-> IF host = None THEN None
                ELSE WrittenIfAny(Option(options, "port"))]

\* RedisTcpOptions.createUri(), as it will be read.  Nothing is encoded: a "/"
\* in the password ends the authority before there is a host.
TcpCreateUri(options) ==
  LET has      == DOMAIN options
      password == Joined(Option(options, "password"))
      CutShort == password # None /\ "/" \in Range(password)
      host     == IF CutShort THEN None
                  ELSE IF "host" \in has THEN options["host"]
                  ELSE IF "password" \in has THEN "localhost" ELSE None
  IN  [scheme |-> IF "tls" \in has THEN "rediss" ELSE "redis",
       user |-> None, pass |-> password, query |-> None, host |-> host,
       path |-> WrittenIfAny(Option(options, "db")),
       port |-> IF host = None THEN None
                ELSE WrittenIfAny(Option(options, "port"))]

\* RedisSocketOptions.createUri()
SocketCreateUri(options) ==
  LET password == Joined(Option(options, "password"))
  IN  [scheme |-> IF "tls" \in DOMAIN options THEN "rediss+socket"
                                              ELSE "redis+socket",
       user |-> None, pass |-> None, host |-> None, port |-> None,
       path |-> options["path"],
       query |-> IF "password" \notin DOMAIN options THEN None
                 ELSE << <<"password", IF password = None THEN <<>>
                                                         ELSE password>> >>]
-----------------------------------------------------------------------------
(* factories.ts *)

\* The class that the options from a URI are wrapped in.
ClassOf == [redis |-> "tcp"] @@ ("redis+socket" :> "socket")
                              @@ [sentinel |-> "sentinel"]

ParseRedisUri(uri) ==
  CASE uri[1].scheme = "redis"        -> ParseTcpUri(uri[1])
    [] uri[1].scheme = "redis+socket" -> ParseSocketUri(uri[1])
    [] uri[1].scheme = "sentinel"     -> ParseSentinelUri(uri)

\* A backend or a broker of Redis, with the options it overrides: "redis" is
\* its RedisOptions, "connection" what its connection is made with.
RedisComponent(parsed, class, override) ==
  LET redis == [class |-> class, options |-> AppendDefaultOptions(parsed)]
  IN  IF parsed = Error THEN Error
      ELSE [redis |-> redis, connection |-> CreateClientOptions(redis, override)]

AmqpComponent(parsed) ==
  IF parsed = Error THEN Error ELSE [redis |-> None, connection |-> parsed]

\* createBroker(); RedisBroker writes the keys of its queues as they are.
CreateBroker(uri) ==
  LET scheme == GetScheme(uri[1]) IN
  CASE scheme \in DOMAIN ClassOf ->
         RedisComponent(ParseRedisUri(uri), ClassOf[scheme], [keyPrefix |-> ""])
    [] scheme = "amqp"           -> AmqpComponent(ParseAmqpUri(uri[1]))
    [] scheme = Error            -> Error
    [] OTHER                     -> Unimplemented

\* createBackend()
CreateBackend(uri) ==
  LET scheme == GetScheme(uri[1]) IN
  CASE scheme \in DOMAIN ClassOf ->
         RedisComponent(ParseRedisUri(uri), ClassOf[scheme],
                        [keyPrefix |-> "celery-task-meta-"])
    [] scheme = "rpc"            -> AmqpComponent(ParseAmqpUri(uri[1]))
    [] scheme = Error            -> Error
    [] OTHER                     -> Unimplemented

\* uri() of a backend, which those of Sentinel and RabbitMQ do not have.
BackendUri(backend) ==
  CASE backend.redis = None -> Unimplemented
    [] backend.redis # None /\ backend.redis.class = "tcp" ->
         TcpCreateUri(backend.redis.options)
    [] backend.redis # None /\ backend.redis.class = "socket" ->
         SocketCreateUri(backend.redis.options)
    [] OTHER -> Unimplemented
=============================================================================
