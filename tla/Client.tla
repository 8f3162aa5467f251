------------------------------- MODULE Client -------------------------------
(***************************************************************************)
(* Client of src/client.ts with its tasks and results (src/task.ts,        *)
(* src/result.ts, src/null_backend.ts), as createClient() of               *)
(* src/factories.ts makes it from URIs, or with brokers that the           *)
(* application brings itself.                                              *)
(*                                                                         *)
(* Brokers and backend are what MessageBroker says and no more; Brokers,   *)
(* RedisBackend and RpcBackend have the detail.  applyAsync() runs without *)
(* a break: while "trying" is a call, nothing else happens.                *)
(***************************************************************************)
EXTENDS UriFormats

CONSTANTS
  Tasks,     \* what createTask() returns
  Calls,     \* calls of applyAsync(); each gets one Result
  Custom,    \* a broker of the application, whose publish() may throw at once
  Null,      \* an option that is not given
  Requests   \* the clients and calls to look at, each a record of
             \*   brokers  a sequence of wants (see UriFormats) and Custom
             \*   backend  a want, or None for no backend
             \*   throws   the brokers, all Custom, whose publish() throws
             \*   down     the brokers whose publish() and end() may reject
             \*   calls    for some of Calls, the task and the options
             \*   lossy    whether a result may not come back, and the
             \*            backend's end() may reject
             \*   end      whether end() is called

ASSUME RequestsAssumption ==
  /\ None \notin Calls
  /\ Null # "application/x-gzip"
  /\ \A r \in Requests :
       /\ Len(r.brokers) \in Nat /\ DOMAIN r.brokers = 1..Len(r.brokers)
       /\ r.throws \subseteq {i \in DOMAIN r.brokers : r.brokers[i] = Custom}
       /\ DOMAIN r.brokers \ r.throws # {}
       /\ DOMAIN r.calls \subseteq Calls
       /\ \A c \in DOMAIN r.calls :
            /\ r.calls[c].of \in Tasks
            /\ r.calls[c].options.serializer \in {"json", "yaml"}
            /\ r.calls[c].options.compression \in {"identity", "gzip", "zlib"}

VARIABLES
  request,  \* the member of Requests that this behaviour follows
  client,   \* [brokers, backend], None before and Error if it was refused
  index, picks,  \* see RoundRobin
  broker,   \* broker[t]: the position of the task's broker
  trying,   \* the call in applyAsync(), or None
  pub,      \* pub[c]: what became of publish()
  copies,   \* copies[c]: how many calls of publish() have sent the message
  at,       \* at[c]: the position of the broker that has it
  result,   \* result[c]: the promise of the call's Result
  got,      \* got[c]: what Result.get() gave
  endpc, ending  \* end(), and what has still to end

RR == INSTANCE RoundRobin WITH size <- Len(request.brokers)

TaskMessage == INSTANCE TaskMessages

taskVars    == <<index, picks, broker>>
publishVars == <<trying, pub, copies, at>>
resultVars  == <<result, got>>
endVars     == <<endpc, ending>>
vars == <<request, client, taskVars, publishVars, resultVars, endVars>>

\* The brokers, with the backend behind them as disconnectOrEndAll() has it.
Components == 0..Len(request.brokers)

Created == client \notin {None, Error}
Idle    == Created /\ trying = None

TypeOK ==
  /\ request \in Requests
  /\ client \in {None, Error} \/ DOMAIN client = {"brokers", "backend"}
  /\ index \in RR!Positions
  /\ picks \in [RR!Positions -> Nat]
  /\ broker \in [Tasks -> RR!Positions \union {None}]
  /\ trying \in Calls \union {None}
  /\ pub \in [Calls -> {"idle", "trying", "pending", "sent", "resolved",
                        "rejected"}]
  /\ \A c \in Calls : pub[c] = "trying" <=> trying = c
  /\ copies \in [Calls -> 0..1]
  /\ at \in [Calls -> RR!Positions \union {None}]
  /\ result \in [Calls -> {"none", "waiting", "value", "failed"}]
  /\ got \in [Calls -> {"none", "waiting", "timed", "value", "failed",
                        "timed out"}]
  /\ endpc \in {"idle", "ending", "resolved", "rejected"}
  /\ ending \in SUBSET Components

Init ==
  /\ request \in Requests
  /\ client = None
  /\ RR!Init
  /\ broker = [t \in Tasks |-> None]
  /\ trying = None
  /\ pub = [c \in Calls |-> "idle"]
  /\ copies = [c \in Calls |-> 0]
  /\ at = [c \in Calls |-> None]
  /\ result = [c \in Calls |-> "none"]
  /\ got = [c \in Calls |-> "none"]
  /\ endpc = "idle" /\ ending = {}
-----------------------------------------------------------------------------
(* Client *)

\* createClient(), or the factories and "new Client" one by one.
Create ==
  LET brokers == [i \in DOMAIN request.brokers |->
                    IF request.brokers[i] = Custom THEN Custom
                    ELSE CreateBroker(UriOf(request.brokers[i]))]
      backend == IF request.backend = None THEN None
                 ELSE CreateBackend(UriOf(request.backend))
      Thrown  == {Error, Unimplemented}
  IN  /\ client = None
      /\ client' = IF backend \in Thrown
                      \/ \E i \in DOMAIN brokers : brokers[i] \in Thrown
                     THEN Error
                     ELSE [brokers |-> brokers, backend |-> backend]
      /\ UNCHANGED <<request, taskVars, publishVars, resultVars, endVars>>

\* createTask(), and the constructor of Task with its failoverStrategy().
CreateTask(t) ==
  /\ Idle
  /\ broker[t] = None
  /\ UNCHANGED <<request, client, publishVars, resultVars, endVars>>
  /\ RR!Pick(index)
  /\ broker' = [broker EXCEPT ![t] = index]

\* end() and disconnect() of every broker and of the backend.
EndCall ==
  /\ Idle
  /\ request.end /\ endpc = "idle"
  /\ endpc' = "ending"
  /\ ending' = Components
  /\ UNCHANGED <<request, client, taskVars, publishVars, resultVars>>

\* Promise.all() rejects as soon as one of them does.
ComponentEnds(x) ==
  /\ Idle
  /\ x \in ending
  /\ ending' = ending \ {x}
  /\ \/ endpc' = endpc
     \/ /\ \/ x + 1 \in request.down
           \/ x = Len(request.brokers) /\ client.backend # None /\ request.lossy
        /\ endpc' = "rejected"
  /\ UNCHANGED <<request, client, taskVars, publishVars, resultVars>>

EndResolves ==
  /\ Idle
  /\ endpc = "ending" /\ ending = {}
  /\ endpc' = "resolved"
  /\ UNCHANGED <<request, client, taskVars, publishVars, resultVars, ending>>
-----------------------------------------------------------------------------
(* Task *)

TaskOf(c) == request.calls[c].of

\* applyAsync(): the Result first, whose get() a NullBackend rejects.
Apply(c) ==
  /\ Idle
  /\ c \in DOMAIN request.calls
  /\ broker[TaskOf(c)] # None /\ pub[c] = "idle"
  /\ result' = [result EXCEPT ![c] =
                  IF client.backend = None \/ request.calls[c].ignoreResult
                    THEN "failed" ELSE "waiting"]
  /\ trying' = c
  /\ pub' = [pub EXCEPT ![c] = "trying"]
  /\ UNCHANGED <<request, client, taskVars, copies, at, got, endVars>>

\* tryPublish(): publish() is called, and its promise is not awaited.
TryPublish(c) ==
  LET b == broker[TaskOf(c)]
  IN  /\ trying = c
      /\ b + 1 \notin request.throws
      /\ trying' = None
      /\ pub' = [pub EXCEPT ![c] = "pending"]
      /\ at' = [at EXCEPT ![c] = b]
      /\ UNCHANGED <<request, client, taskVars, copies, resultVars, endVars>>

\* The same if publish() throws: failoverStrategy() chooses for the task.
FailOver(c) ==
  /\ trying = c
  /\ broker[TaskOf(c)] + 1 \in request.throws
  /\ UNCHANGED <<request, client, publishVars, resultVars, endVars>>
  /\ RR!Pick(index)
  /\ broker' = [broker EXCEPT ![TaskOf(c)] = index]

HandOver(c) ==
  /\ Idle
  /\ pub[c] = "pending"
  /\ pub' = [pub EXCEPT ![c] = "sent"]
  /\ copies' = [copies EXCEPT ![c] = @ + 1]
  /\ UNCHANGED <<request, client, taskVars, trying, at, resultVars, endVars>>

PublishResolves(c) ==
  /\ Idle
  /\ pub[c] = "sent"
  /\ pub' = [pub EXCEPT ![c] = "resolved"]
  /\ UNCHANGED <<request, client, taskVars, trying, copies, at, resultVars,
                 endVars>>

MayReject(c) == at[c] + 1 \in request.down \/ endpc # "idle"

\* Mutant: tryPublish() awaits publish(), so that a rejection fails over.
PublishRejects_FailsOver(c) ==
  /\ Idle
  /\ pub[c] \in {"pending", "sent"} /\ MayReject(c)
  /\ trying' = c
  /\ pub' = [pub EXCEPT ![c] = "trying"]
  /\ UNCHANGED <<request, client, copies, at, resultVars, endVars>>
  /\ RR!Pick(index)
  /\ broker' = [broker EXCEPT ![TaskOf(c)] = index]

\* Before or after the message was handed over; nobody handles it.
PublishRejects(c) ==
  /\ Idle
  /\ pub[c] \in {"pending", "sent"} /\ MayReject(c)
  /\ pub' = [pub EXCEPT ![c] = "rejected"]
  /\ UNCHANGED <<request, client, taskVars, trying, copies, at, resultVars,
                 endVars>>
-----------------------------------------------------------------------------
(* Result, and the backend that its get() waits for *)

Report(c) ==
  /\ Idle
  /\ copies[c] > 0 /\ result[c] = "waiting"
  /\ result' = [result EXCEPT ![c] = "value"]
  /\ UNCHANGED <<request, client, taskVars, publishVars, got, endVars>>

BackendFails(c) ==
  /\ Idle
  /\ result[c] = "waiting" /\ (request.lossy \/ endpc # "idle")
  /\ result' = [result EXCEPT ![c] = "failed"]
  /\ UNCHANGED <<request, client, taskVars, publishVars, got, endVars>>

To(c, outcome) ==
  /\ got' = [got EXCEPT ![c] = outcome]
  /\ UNCHANGED <<request, client, taskVars, publishVars, result, endVars>>

\* get(), with and without a timeout.
Get(c) ==
  /\ Idle
  /\ result[c] # "none" /\ got[c] = "none"
  /\ To(c, "waiting") \/ To(c, "timed")

\* Mutant: get() goes to the backend's promise past createTimeoutPromise().
TimeOut_Late(c) ==
  /\ Idle
  /\ got[c] = "timed" /\ result[c] \in {"value", "failed"}
  /\ To(c, "timed out")

TimeOut(c) ==
  /\ Idle
  /\ got[c] = "timed"
  /\ To(c, "timed out")

GetSettles(c) ==
  /\ Idle
  /\ got[c] \in {"waiting", "timed"} /\ result[c] \in {"value", "failed"}
  /\ To(c, result[c])
-----------------------------------------------------------------------------
Next ==
  \/ Create \/ EndCall \/ EndResolves
  \/ \E x \in Components : ComponentEnds(x)
  \/ \E t \in Tasks : CreateTask(t)
  \/ \E c \in Calls :
       \/ Apply(c) \/ TryPublish(c) \/ FailOver(c)
       \/ HandOver(c) \/ PublishResolves(c) \/ PublishRejects(c)
       \/ Report(c) \/ BackendFails(c)
       \/ Get(c) \/ TimeOut(c) \/ GetSettles(c)

Spec == Init /\ [][Next]_vars

(* applyAsync() runs to its end, a broker that is not down takes what it is *)
(* given, timers fire, promises settle, and workers report unless results   *)
(* may be lost.  Nobody has to make a call.                                 *)
Fairness ==
  \A c \in Calls :
    /\ WF_vars(TryPublish(c) \/ FailOver(c))
    /\ WF_vars(HandOver(c) /\ ~MayReject(c))
    /\ WF_vars(Report(c) /\ ~request.lossy)
    /\ WF_vars(TimeOut(c)) /\ WF_vars(GetSettles(c))

FairSpec == Spec /\ Fairness
-----------------------------------------------------------------------------
Made ==
  {<<client.brokers[i], request.brokers[i], "">> : i \in
     {j \in DOMAIN request.brokers : request.brokers[j] # Custom}}
    \union IF request.backend = None THEN {}
           ELSE {<<client.backend, request.backend, "celery-task-meta-">>}

\* The client that a list of URIs gives connects to what the URIs say in their
\* documented formats: numbers in any radix, the last of several values, user
\* names and passwords with encoded characters, and the keys that workers look
\* for.  It is refused if and only if one URI is not in its format.  Options in
\* Departures are excepted: there the code is known to do something else.
ParsedAsWritten ==
  /\ Created => \A x \in Made : AgreeBut(Departures(x[2]), x[1].connection,
                                        Expected(x[2], x[3]))
  /\ client # None =>
       (Created <=>
          /\ \A i \in DOMAIN request.brokers :
               \/ request.brokers[i] = Custom
               \/ WantsValid(request.brokers[i], RedisFormats \union {"amqp"})
          /\ \/ request.backend = None
             \/ WantsValid(request.backend, RedisFormats \union {"rpc"}))

PlainPassword(options) ==
  LET password == Joined(Option(options, "password"))
  IN  password = None \/ "/" \notin Range(password)

Location(options) ==
  [name \in {"host", "port", "db", "path", "password", "keyPrefix"} |->
     LET value == Option(options, name)
     IN  IF name # "password" THEN value
         ELSE IF Joined(value) = None THEN None ELSE Joined(value)]

\* uri() of a backend leads another client to the same database with the same
\* password, if that has no character that has to be encoded; and createOptions()
\* knows the kind of connection by the options alone.
UriLeadsBack ==
  Created =>
    /\ \A x \in Made : \/ x[1].redis = None
                       \/ CreateOptions(x[1].redis.options) = x[1].redis
    /\ \A backend \in {client.backend} \ {None} :
         \/ BackendUri(backend) = Unimplemented
         \/ ~PlainPassword(backend.connection)
         \/ LET again == CreateBackend(<<BackendUri(backend)>>)
            IN  /\ again # Error
                /\ again.redis.class = backend.redis.class
                /\ Location(again.connection) = Location(backend.connection)

Message(c) ==
  TaskMessage!CreateMessage(request.calls[c].task, request.calls[c].options, c)

\* What the application asked for, as a worker has to see it.
Asked(c) ==
  LET task    == request.calls[c].task
      options == request.calls[c].options
  IN  [args |-> options.args, task |-> task.name,
       timelimit |-> <<task.softTimeLimit, task.hardTimeLimit>>,
       eta |-> options.eta, expires |-> options.expires, id |-> c,
       replyTo |-> task.appId, priority |-> options.priority,
       queue |-> IF options.queue = Null THEN task.queue ELSE options.queue,
       mode |-> IF task.deliveryMode = "transient" THEN 1 ELSE 2]

\* Whatever serializer and compression a call asks for, a worker that takes
\* the message from RabbitMQ or from Redis recovers the arguments and the
\* options, and reports to the id and the queue that the Result waits on; the
\* client's own packer can undo what it did.
WorkersUnderstand ==
  \A c \in DOMAIN request.calls :
    LET options == request.calls[c].options
        packer  == TaskMessage!CreatePacker(options.serializer,
                                            options.compression)
    IN  copies[c] > 0 =>
          /\ TaskMessage!ReadFromRedis(Message(c)) = Asked(c)
          /\ TaskMessage!ReadFromAmqp(TaskMessage!AmqpPublishing(Message(c)))
               = Asked(c)
          /\ TaskMessage!Unpack(packer, Message(c).body) = options.args

\* The choices of all tasks, made for new tasks and in failovers in any order,
\* spread evenly over the brokers.
Balanced == RR!Balanced

Broker == INSTANCE MessageBroker WITH
  Messages <- Calls,
  promise  <- [c \in Calls |-> CASE pub[c] = "idle" -> "none"
                                 [] pub[c] \in {"trying", "sent"} -> "pending"
                                 [] OTHER -> pub[c]],
  link     <- "open",
  repeats  <- FALSE

\* All brokers together keep the promise of one: no failover makes a second
\* publish() send the message, to the same broker or to another.  How often a
\* single publish() sends it is up to the broker (see Brokers).
SentAtMostOnce == Broker!Spec

\* A get() with a timeout ends, whatever becomes of the message and its result;
\* one without ends if the message was handed over, results are not lost and
\* the client is not ended first.
GetEnds ==
  \A c \in Calls :
    \/ got[c] = "timed"
    \/ got[c] = "waiting" /\ copies[c] > 0 /\ ~request.lossy
    ~> got[c] \in {"value", "failed", "timed out"} \/ endpc # "idle"

\* The failoverStrategy is "a function to be called to select a new message
\* broker in the case of a failover" (src/task.ts:75-76): with one broker that
\* works, every message is handed over.
FailsOver ==
  (request.down # DOMAIN request.brokers)
    => \A c \in Calls : pub[c] # "idle" ~> copies[c] > 0
=============================================================================
