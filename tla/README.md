# A formal model of node-celery-ts

node-celery-ts is a Celery client for Node.js: it sends tasks to workers
through message brokers (Redis or RabbitMQ) and fetches their results from a
result backend (Redis, or RabbitMQ by "RPC").  This directory holds TLA+
specifications of all of it that changes state or decides something, the TLC configurations
that check them and the TLAPS proofs of what is proved about them.  Paths are relative to
`src/` of the repository.

JavaScript runs one callback at a time, so the unit of interleaving is not the
instruction but the stretch of code between two awaits.  That is where the
program is hard to test: a promise is resolved in one turn of the event loop
and its continuation runs in a later one, after any number of other
continuations, timers and socket events.  **One action of a model is one such
stretch**, whole: everything it calls before the next await happens in the same
step.

## 1. The system

| part | state it keeps | operations | what makes it hard | what makes it correct |
|---|---|---|---|---|
| `List` (containers/list.ts) | two ends, a size, nodes with `next` and `previous` | push, pop, shift, unshift, iterate | five fields to keep in step; iterators outlive changes | behaves as a deque; both chains agree; an iterator misses nothing that stays |
| `PromiseQueue` (promise_queue.ts) | a `List` of resolve/reject pairs | push, resolveOne/All, rejectOne/All | who settles which promise, once | first come, first served |
| `ResourcePool` (resource_pool.ts) | unused list, in-use set, a count, a `PromiseQueue` | get, use, return, returnAfter, destroyAll | the await between getting a resource and recording it; direct hand-over; `destroyAll` waiting for an event; failing `create` | no resource is lent twice, lost, leaked, or used after its destruction; waiting callers are served, in order |
| `PromiseMap` (promise_map.ts) | two Maps: promises, and status, functions and timer | get, resolve, reject, rejectAll, delete, clear, has, is... | results may come before or after the call that wants them; a status set in a later microtask; timers | nobody waits for a promise the map no longer owns; the Maps agree; settled promises are forgotten in the end |
| `RedisBackend` (redis/backend.ts) | a pool of two connections, a `PromiseMap`, the subscription | get, put, delete, end, disconnect, onMessage | GET races the subscription; one connection belongs to the subscription, all calls share the other; timeouts | every result is delivered, to its own task; every call ends; the subscription's connection is never lent |
| `RpcBackend` (amqp/backend.ts) | a pool of two channels, one consuming, a `PromiseMap` | get, put, delete, end, onMessage | cancelled consumer, full write buffer, closing under calls | as above, and `end` completes what is pending |
| `AmqpBroker` (amqp/broker.ts) | a pool of two channels | publish, end, disconnect | assertions that close the channel, full write buffer, `end` beside `publish` | a message is published before its caller hears that it was, and once, which it is not (`broker_repeats`) |
| `RedisBroker` (redis/broker.ts) | one connection | publish, end, disconnect | none beyond the connection | commands go out in order |
| `Task`, `Result` (task.ts, result.ts, null_backend.ts) | the current broker | applyAsync, with failover; Result: get, delete | rejection versus exception in the failover loop; the promise nobody awaits | a task is sent to one broker; failures fail over |
| `Client` (client.ts) | brokers, backend, the round-robin index | createTask, end, disconnect | the index is shared by all tasks | brokers are chosen evenly; `end` ends everything |
| utilities (utility.ts) | none | promisifyEvent, createTimeoutPromise, parsers | events missed, timers left behind | a promise settles with whichever comes first |
| URI, query and option parsers (uri.ts, query_parser.ts, amqp/uri.ts, redis/uri/, options) | none | pure functions | grammar corner cases | inverse of formatting, rejects what it cannot read |
| packer (packer/), `createMessage` (task.ts) | none | pack, unpack | header, body and transport have to agree | a worker reads what the caller asked for |
| factories (factories.ts) | none | createClient, createBroker, createBackend | defaults and overrides | the class and the options that the URI says |
| messages, config, errors | none | types | - | - |

How they interact.  A `Task` publishes through the current broker and hands its
`Result` to the backend.  Brokers over AMQP and both backends take channels or
connections from a `ResourcePool`, whose waiting callers are a `PromiseQueue`
over a `List`.  Both backends keep what they hear of in a `PromiseMap`: a
message callback resolves, `get()` waits, `delete()` and `end()` reject.  The
workers and the servers are outside; they meet the client only through
commands, replies and published messages.

## 2. The modules

| module | models | role |
|---|---|---|
| `ResourceLease` | what a resource pool promises: each resource is made once, lent to one caller at a time and never lent after its destruction | abstract specification |
| `ResourcePool` | containers/resource_pool.ts with the queue of containers/promise_queue.ts | component |
| `MCResourcePool` | | TLC instances |
| `ResourcePoolProofs` | | theorems about `ResourcePool` |
| `PromiseMap` | containers/promise_map.ts | component |
| `PromiseMapProofs` | | theorems about `PromiseMap` |
| `Deque` | what a list promises: a sequence that grows and shrinks at both ends | abstract specification |
| `List` | containers/list.ts, pointer by pointer, with its iterators | component |
| `MCList` | | TLC instances |
| `ListProofs` | | theorems about `List` |
| `ResultBackend` | what result_backend.ts promises: a result is received or deleted while its call waits, once at most unless the backend repeats, and a promise settles once, with what was said of its own task | abstract specification |
| `RedisBackend` | redis/backend.ts over `INSTANCE`s of `ResourcePool` and `PromiseMap`, with the Redis server, the socket of the subscription, and the workers | composition |
| `MCRedisBackend` | | TLC instances: the calls each run makes |
| `RedisBackendProofs` | | theorems about `RedisBackend` |
| `RpcBackend` | amqp/backend.ts over `INSTANCE`s of `ResourcePool` and `PromiseMap`, with RabbitMQ, its reply queue, and the workers | composition |
| `MCRpcBackend` | | TLC instances: the calls and the faults that meet |
| `RpcBackendProofs` | | theorems about `RpcBackend` |
| `MessageBroker` | what message_broker.ts promises: `publish()` resolves only when its message was handed over, and none is handed over after it has settled; once at most unless the broker repeats | abstract specification |
| `AmqpBroker` | amqp/broker.ts over an `INSTANCE` of `ResourcePool` | component |
| `RedisBroker` | redis/broker.ts | component |
| `Brokers` | either of the two, and that it is a `MessageBroker` | composition, refinement |
| `BrokersProofs` | | theorems about `Brokers` |
| `RoundRobin` | `getRoundRobinStrategy()` of client.ts | component |
| `RoundRobinProofs` | | theorem about `RoundRobin` |
| `TaskMessages` | the message of task.ts, packer/, what brokers send of it and a worker reads | pure functions |
| `Uri` | uri.ts, query_parser.ts, the number and boolean parsers of utility.ts | pure functions |
| `ConnectionUris` | amqp/uri.ts, redis/uri/, the options, the choices of factories.ts | pure functions |
| `UriFormats` | the URI formats as their comments state them | reference definition |
| `Client` | client.ts, task.ts, result.ts, null_backend.ts over `RoundRobin`, `TaskMessages`, `UriFormats` and `MessageBroker` | composition |
| `MCClient` | | TLC instances: clients and calls |
| `ClientProofs` | | theorems about `Client` |

Definitions whose comment starts with "Mutant:" are never used by a
specification.  Each is a plausible bug in the definition that follows it, kept
to show that the properties notice it.

### ResourcePool

`unused`, `inUse`, `resourceCount` and `waiting` are the fields of the class.
The rest is what the class cannot see: `call[c]` says how far a caller's
`get()` has come, `leased[c]` which resource its promise was resolved with,
`created` and `destroyed` what `create` and `destroy` have been called for, and
`closer[d]` how far a `destroyAll()` has come.

* `get()` up to its await is `TakeUnused`, `StartCreate` or `Enqueue`; a
  `create()` that settles is `CreateOk` or `CreateFail`; the continuation that
  does `inUse.add` is `Resume`.  Between the two the caller is "granted": the
  resource is in no field of the pool.  Almost everything worth checking
  happens there.
* `return()` is `ReturnToWaiter` or `ReturnToUnused`; the first does not touch
  `unused` and emits no event, as the early return in the code has it.
* `destroyAll()` is `DestroyAllNow`, or `DestroyAllLater` and then
  `DestroyResume`; the continuation does not look at `inUse` again.
* `ReturnAndDestroyAll` is the pair that `end()` of both backends performs with
  no await in between, and so one step.

### PromiseMap

`promises[k]` and `data[k]` are the two Maps.  A promise is a model value whose
`state` lives on after the map has dropped it: "open" while a `get()` waits and
nothing has resolved it, "committed" once `resolve()` was called but its
microtask has not run, then fulfilled or rejected.  `jobs` is the queue of
microtasks that will run the rest of a `doResolve()`, `follows` the calls that
still await a promise-like value.  `armed[t]` is the key that timer `t` will
delete, whatever the key stands for by then.  `Settle` is the tail that
`resolve`, `reject` and `rejectAll` have in common: the functions are removed,
the status is set and a new timer replaces the old one.  A promise that is
settled and not in the map is garbage, and its name may stand for a new one;
so runs are not bounded by a number of calls.  `stale` is a history variable:
the keys whose status was set by a `doResolve()` whose promise the key no
longer has.  No guard reads it.

### List

`head`, `tail` and `size` are the fields, `heap[n]` the three fields of node
`n`.  `push()` and `unshift()` are `Call` and then one `PushOne` or `UnshiftOne`
for each argument; nothing else runs until `loop` is empty, but the list is
looked at, and has to be right, after every turn.  `Pop` and `Shift` are whole
calls, with their early returns as `PopNothing` and `ShiftNothing`.  A node that
leaves the list keeps its pointers, as in the code.  An iterator is a
generator: it reads `head` at its first `next()`, and each `next()` moves
`current` on *before* it yields; between two of them anything may be pushed or
removed.  `chain`, `due` and `seen` are history variables: the nodes in order,
the nodes an iterator still owes, and those it has yielded.  The mapping to
`Deque` puts the arguments not yet linked where they will be, so that a call is
one step of `Deque` and its loop stutters.

### RedisBackend

The module contains the variables of one pool and one map and conjoins their
actions: `UsePool` is `Pool!Get`, `Send` is `Pool!Resume` followed by the
command, `Finish` is `Pool!Return` (`returnAfter`), `OnMessage` is
`Map!ResolveValue`, and so on.  `Sub` is the constructor's use of the pool and
`End` the `destroyAll()` of `end()`.

A command is put on `line[c]`, executed by the server (`Execute`, where GET
reads and the MULTI of `put()` stores and publishes), and answered in a third
step.  `wire` is the socket of the subscription: replies and messages in
order.  `Report` is a worker: it stores a status and publishes it in one
transaction, which is what Celery does.  `SubReply` and `SubListen` are two
steps because the handler is registered in the continuation of the reply; a
message in between is lost, as in the code.  `Uuids` are the tasks whose ids are
UUIDs: `onMessage()` throws for a message of any other, which is gone.

Two history variables, which no guard reads, are what `ResultBackend` and
`EndIsGentle` speak of: `effects[o]` counts how often the server stored or deleted
something for `o`, and `owed` is who had a connection when `end()` gave up its own.
For `ResultBackend` a timeout is a rejection of the promise like any other.

### RpcBackend

As in `RedisBackend`, the variables of one pool and one map are conjoined.  The
constructor's use of the pool is the caller `Con`, and `con` says how far
`this.consumer` and `this.consumerTag` have come; the channel it takes is given
back by `end()` only.  `connection` is what became of the promise
`this.connection`.

The server keeps whether the reply queue is `declared`, whether it is
`consuming`, what is in the `queue`, and `wire`, what it has sent to the
consumer's channel in order: the reply to `consume()`, messages, the notice that
the consumer was cancelled (`onMessage(null)`) and the reply to `cancel()`.  A
message that finds no queue is gone, as RabbitMQ has it for the default
exchange.  Whoever reports meets `declared` where it stands, so a result may
come before `assertQueue()`, between that and `consume()`, or after the queue
was deleted.

`get()` uses no channel: it is `promises.get()`, one step, and `Hear` when that
promise settles.  Its timeout has no action, because `createTimeoutPromise()` is
given a result that has been awaited already (line 124), although the comment at
lines 116-117 promises one.  `end()` is
`EndReject` (`rejectAll()` and `cancel()` in one turn), `EndReturn`
(`ReturnAndDestroyAll` of the pool), `EndDestroy`, `EndClose`, or `EndFails`
wherever one of its awaits rejects.  `effects` and `owed` are as in `RedisBackend`:
a `put()` has its effect each time its message is sent, a `delete()`, which only
concerns the map, when it is called.

amqplib puts a message in its write buffer whatever `sendToQueue()` then returns.
So `PutWrite` and `PutFull` are both `PutSends`, and differ in where the call
goes on: a write that returns true ends the loop, and one that returns false is
done again after `Drain`.  A `put()` may therefore send its result several times, and
be rejected when the connection is lost after the first.  `ResultBackend` is
instantiated with `Repeats`, which allows just that.  A message that is sent is in
the reply queue at once; the buffer only delays it, and whether a lost connection
takes it along matters to nothing that is said of connections that are lost.

Faults are part of a program: "connect" lets connecting fail, "lose" lets the
connection break, "cancel" lets somebody delete the queue, "full" lets write
buffers be full.

### AmqpBroker, RedisBroker, Brokers

`pc[o]` is how far one `publish()` has come inside the function it gives to
`use()`: asserting (or checking) the queue, ready to write, draining, flushed or
failed.  A refused queue puts the channel in `broken`, and `Finish` returns it
to the pool all the same, as `returnAfter()` does; the next caller's `Begin`
then fails at once.  `end()` is `EndCall` (`destroyAll()`), the pool's own steps,
and `EndClose`.  `copies` counts how often a message entered the write buffer
and is what `MessageBroker` speaks of; `owed` is a history variable, the calls
that had a channel when `end()` was called.

amqplib buffers a message also when `publish()` returns false, which only asks the
caller to wait.  `WriteOk` and `WriteFull` are therefore both one `Write`, and each
turn of the loop of line 222 sends the message once more.  That contradicts the
comment of `doPublish()` and is the run `broker_repeats`; `MessageBroker` allows a
broker that `repeats` to do so, but only while `publish()` waits and the
connection stands.  `copies` stops at 2, for any more.

`RedisBroker` is a line of commands that one server executes in order, with
QUIT (`end()`) behind them or a socket closed at once (`disconnect()`).

`Brokers` chooses one by `class`, as `createBroker()` does, and maps both to
`MessageBroker`: the promise of a call, the number of copies, whether the
connection still stands, and whether the broker repeats, which only the class
over AMQP does.

### Client, RoundRobin

The initial state chooses a `request`: the URIs of the brokers and the backend,
which brokers throw or are down, and the calls to be made.  `Create` is
`createClient()` with everything the factories and parsers make of the URIs;
what comes out is the state `client`.

`applyAsync()` runs from its first line to its last with nothing in between, so
while `trying` is a call no other action is enabled.  `FailOver` is the catch
clause of `tryPublish()` with the recursion that follows.  A rejection of
`publish()` does not reach that clause (`PublishRejects` goes nowhere), and a
broker that the application brings itself (`Custom`) is the only kind that
throws.

The brokers and the backend are used by what `MessageBroker` promises:
`HandOver` before `PublishResolves`, rejection at any time if the broker is
down.  Their own modules have the detail; that one `publish()` over AMQP may
write its message again is a matter of the broker and left to `Brokers`.  All
brokers taken together must again be one `MessageBroker`, without repetition:
that is the refinement `SentAtMostOnce`.  A broker that is down and a backend that
loses results are those whose `end()` may reject.

`RoundRobin` is on its own, since it is what is proved: `Pick(b)` is one call of
the closure, by `createTask()` or in a failover of any task.

### TaskMessages, Uri, ConnectionUris, UriFormats

Bytes are `<<format, content>>`: compressing makes a value of another format,
and reading with the wrong one gives `Garbage`.  That keeps what the properties
are about, which step is undone by which, and leaves out JSON, YAML and zlib.

A URI is the record of its parts between delimiters, each part a sequence of
characters.  Only characters that the code treats specially are told apart:
digits with their radix prefixes, "/", its encoding "%2F", NUL; a word that is
only compared is one character.  `UriFormats` does not use the parsers: a *want*
is what somebody wants to connect to, `UriOf` writes it the way the comments of
the repository say, and `Expected` is what the connection then has to be made
with by the same comments.  `Departures` names the options of a want for which the code
is known to do something else.

## 3. What the runs check

| run | instance | distinct states | result |
|---|---|---|---|
| `list` | 4 nodes, 2 elements, up to 2 arguments, 1 iterator | 399,924 | both chains agree, an iterator yields what stays, once, and `DequeSpec` (refinement) holds |
| `pool` | 3 callers, 2 closers, 2 resources, limit 2, failing `create` | 6,906 | four invariants, `LeaseSpec` (refinement), `NoOvertaking`, and the two liveness properties hold |
| `pool_leaked_slot` | 2 callers, 1 resource, failing `create` | | **violated**: a failed `create()` keeps its place in the count, and the next caller waits for nobody |
| `pool_early_destroy` | 2 callers, 1 closer | | **violated**: `destroyAll()` goes ahead while a resource is on its way to a caller |
| `map` | 2 keys, 3 promises, 2 timers, `clear()` and promise-like values | 174,603 | the Maps agree, no promise is orphaned, timers match, settled entries go; statuses, timers and `rejectAll()` are wrong in known ways only |
| `redis` | 9 programs of up to three calls, of two tasks and of one that is no UUID: `get()`s with and without a timeout, `put()`, `delete()`, `end()`, early calls, workers that succeed or fail | 90,531 | the subscription's connection is reserved; `end()` is gentle; it is a `ResultBackend`, so answers stay with their task; a `get()` is answered but for a stored FAILURE it overlooks; every call and `end()` come to an end |
| `redis_early_get` | 1 `get()` before the subscription | | **violated**: the result is neither found nor heard |
| `broker` | both brokers, 3 `publish()`s of which one is refused, 2 channels, `end()` | 89,062 | each is a `MessageBroker`; `end()` is gentle; everything settles |
| `broker_repeats` | 1 `publish()`, write buffers that may be full | | **violated**: the message is written again after it was |
| `rpc` | 8 programs of up to two calls, with workers, `end()` and each kind of fault | 59,598 | results are delivered, to their own task; the consumer's channel is reserved; whoever waits is rejected at the end; every call ends; `end()` is gentle; it is a `ResultBackend` |
| `client` | 1842 requests: every kind of URI, every packing, calls on two and three brokers | 44,417 | connections are as the URIs say but for three departures, workers understand, brokers are balanced, no failover sends a message twice, `get()` ends |
| `client_failover` | 2 brokers, one of them down, 1 call | | **violated**: the message is sent to nobody |

The runs marked violated check a sentence of the repository's own
documentation; PROJECT.json quotes it with its line and says what the code does
instead.

What the properties are about:

* **TypeOK** is checked by the runs of the parts (`list`, `pool`, `map`, `client`).
  That of the backends and brokers, which contains that of the pool and the map
  they use, is a theorem (`TypeCorrect`); their runs check the refinement.
* **Linked** is what every method of a list relies on: the pointers forwards
  from `head` and backwards from `tail` spell the same nodes.
* **YieldsEachOnce**: an iterator that holds on to a node which is removed
  before its next step still finds everything that stays, once.
* **NoLostResource, ReturnNeverThrows, LeaseSpec** relate the pool's fields to
  what callers really hold, through the windows in which the fields do not
  show it.  That leases are exclusive, that nothing is used after its
  destruction and that the limit holds follow from these and `TypeOK`, and
  are theorems of their own in section 4.
* **NoIdleWhileWaiting** says that `return()` and `destroyAll()` never leave an
  idle resource next to a waiting caller; **NoOvertaking** that service is in
  order; **Served** that, while nothing fails and nothing is destroyed, it
  comes.
* **DestroyAllSettles** says that the "empty" event is not missed, with two
  `destroyAll()` calls waiting for it, provided callers stop asking.  While
  they keep asking it may never be emitted; the property says so by its
  premise.
* **MapsAgree** is what makes the map usable: the promise of a waiting `get()`
  stays in the map together with the functions that settle it.
* **StatusTruthfulUnlessStale, RejectAllCompleteUnlessStale,
  OwnTimerDeletesSettled** say exactly how far three sentences of the comments
  are true: of statuses, of `rejectAll()` and of the timeout.  The code keeps
  them except in the named circumstance.  The circumstance of the first two is
  one sequence: `resolve()`, `delete()` and `get()` of one key within a turn
  leave a pending promise marked fulfilled, which `rejectAll()` then skips, against
  the comment at promise_map.ts:132.
* **TimersMatch** says that timers and entries match; **Forgotten** that with
  a timeout nothing settled stays.
* **SubscriberReserved** covers the connection of the subscription from
  PSUBSCRIBE to the reply to PUNSUBSCRIBE, while `end()` hands it on.
* **ResultBackendSpec** (of either backend): whatever interleaves, a command takes
  effect while its call waits; a `put()` or `delete()` resolves only when it has
  taken effect; no promise settles twice, even when a timer and an answer race
  for it.  With Redis a command also takes effect once at most and is rejected
  only when it has not; a `put()` over RabbitMQ repeats.  Bugs that lose no
  result and mix up no task violate it: an answer that still counts after the
  timeout, a `put()` that resolves although the connection was lost.  And it
  excludes any crossing of tasks in promises, connections, channels and sockets,
  and an answer ahead of the `put()` or the report it comes from
  (`AnswersAreReported`, which is a theorem of its own).
* **ConsumerReserved**: the channel of the consumer is nobody else's and is not
  closed from `consume()` until the reply to `cancel()` has been read, with
  `put()`s waiting for a channel all the while.
* **Answered**: no order of GET, its reply, `listen()`, the worker's transaction
  and the message loses a result, whether the task succeeds or fails.  The
  exception (`Stranded`) is real: `get()` takes only a SUCCESS from the store
  (lines 149-151), so one that finds a FAILURE there whose message has gone by
  waits for another that will not come, and with it whoever awaits the same
  promise or is queued for its connection.
* **EveryCallEnds** (Redis): two connections, one of them reserved, do not
  deadlock as long as each waiting `get()` has a timeout, and `end()` gets them
  back.  The exception it makes is a `get()` that finds its task in the map, where
  the timeout of an earlier one has left it: it has no timer (line 136).  So
  whoever tries `backend.get()` again with a timeout may wait for ever, against the
  comment at lines 121-122; `Result.get()` has a timer of its own (`GetEnds`).
  Without a timeout `delete()` waits behind the `get()` whose result it
  should discard, although result.ts:71-72 says that it does so immediately.
* **Delivered**: a result in the reply queue reaches the map before or after the
  `get()` that wants it, and is there for a later one, as long as there is a
  consumer or one is still to come.  After the server has cancelled it nobody
  consumes again: a later `put()` declares the queue anew and its result stays there
  (`Deaf`).  The run has that case; without the exception it is violated.
* **RejectedAtEnd**: cancellation and `end()` reject every `get()` that waits.  A
  `get()` made after a cancellation waits until `end()`; nothing remembers that
  the consumer is gone.
* **EveryCallEnds** (RPC): `put()` and `end()` end, with failing connections too,
  unless a channel could not be opened, which leaks a slot of the pool, or a
  write waits for a "drain" of a connection that is gone.  Both exceptions are
  real and stated as premises.
* **MessageBrokerSpec**: full buffers, closed channels, lost connections and
  `end()` at any time do not make a `publish()` resolve without its message, nor a
  message go out after the promise has settled or through a connection that is
  closed; and Redis is sent none twice.
* **WrittenOnce** is what the comment of `doPublish()` says of full write buffers
  and the loop does not do, over RabbitMQ.
* **EndIsGentle** (brokers, either backend): when `end()` closes the connection,
  what was in flight has been answered, and a `put()` has been stored or sent.
  In flight is only what had its channel or connection, for the reason
  `pool_early_destroy` shows.
* **PublishAndEndSettle** is the broker's liveness, with the same two exceptions.
* **ParsedAsWritten** compares all five URI formats with what their comments say,
  from numbers in four radixes to defaults forced on the options, and says which
  URIs are refused.  The code departs from the comments in three cases, which the
  instance contains and in which the property leaves out the option concerned, and
  no other (`Departures`):
  a query hides the vhost in front of it (amqp/uri.ts:142, against the format at
  line 48); an option that is text and is given twice becomes an array
  (query_parser.ts:102, against redis/uri/socket.ts:44-46, where the last one
  counts); and of an option given both in snake_case and in camelCase it is not
  always the last that counts.
* **UriLeadsBack**: `uri()` of a backend leads to the same database.  A password
  with a "/" is the exception; `createUri()` does not encode it.
* **WorkersUnderstand**: for each serializer, compression and transport the worker
  reads the arguments and options that the caller gave, and the packer can undo
  what it did.
* **Balanced**: one index shared by new tasks and failovers spreads them evenly.
* **SentAtMostOnce**: failing over never hands a message to a broker again, nor to
  two of them.
* **GetEnds**: `Result.get()` with a timeout ends whatever happens.

### Bounds, and why they are enough

* Pool: three callers are one to hold, one to be handed to and one to overtake;
  two resources let one be idle or in use while the other moves; two closers
  wait for one event together.  A caller starts over after it has returned, so
  the length of a run is not bounded.  `Resources` also bounds how many
  `create()` calls can succeed.
* List: four nodes give a first, a last and two inner ones, and iterators that
  stand on removed nodes of either end.  Nodes are not reused, so a run makes
  at most four; the proofs have no such bound.
* Map: two keys interact only through `rejectAll()`, `clear()` and the queue of
  microtasks; three promises let each key have one while a dropped one is
  still to settle.  Model values are reused as described above.
  `Timers` bounds timers armed at once, and with it how far behind `clear()`
  can leave them; `maxFollows` bounds promise-like values under way.
* Redis and RPC: two connections or channels is the limit in the code.  Calls in
  `Ops` are made once each; what matters is which kinds meet, and the programs
  in `MCRedisBackend` and `MCRpcBackend` name the meetings.  A worker reports each
  status once; in `redis` it is a success or a failure, the two that the code tells
  apart.  `MaxFull`, 1 in `rpc`, bounds how often a `put()` finds the write buffer
  full: once is enough to send a result twice, and to lose the connection in
  between.
* Brokers: three calls for two channels, so that one waits while another breaks
  its channel; each `publish()` is called once, a write may be full any number
  of times.
* Client: two calls, of one task or of two, are enough for one failover to move
  the index and the broker of another; two and three brokers are the shortest
  rounds that differ.  URIs have one value of each kind that a parser tells
  apart, and all pairs of queries.
* `CHECK_DEADLOCK FALSE` is given where the system may really stop: the list when
  its nodes are used up, the others when every call is over, every resource
  destroyed, or every slot of the pool's count leaked.  The map never stops.

### Fairness

* The event loop runs every continuation and microtask that is ready: weak
  fairness of `Resume`, `DestroyResume`, `RunJob`, `Hear` and their like.
* `create()`, `destroy()` and the commands of the servers settle: weak fairness
  of their outcomes, not of which one.
* Whoever has a resource gives it back: `use()` does so in both of its
  branches (`Return`).  Nobody has to call `get()`; no fairness on calls.
* The map's timers are strongly fair under `[]<>(jobs = <<>>)`: Node.js runs
  timers between turns of the loop, when no microtask is left, and a program
  that queues microtasks without end has stopped running anyway.
* A write buffer is not full each time: strong fairness of `WriteOk`, which is
  enabled again and again by "drain" events; `RpcBackend` has the bound `MaxFull`
  instead and only weak fairness.  The events themselves are weakly fair while the
  connection stands and never come after.
* A broker of `Client` that is not down takes what it is given, and workers report
  unless the request says that results may be lost.
* In `RedisBackend` the workers of a program report until they have a final
  status; in `RpcBackend` they need not, and `Delivered` speaks of what did.
  No fault has to happen.
* `Forget`, the timer of a result, does not fire while a command is under way:
  the timeout is a day.

## 4. What is proved

Each theorem is about every value of the constants that the assumption of its
module admits; section 3 is about the instances of the runs.

| module | theorems | of |
|---|---|---|
| `ResourcePoolProofs` | `TypeCorrect`, `ExclusiveUse`, `NeverUsedDestroyed`, `NothingIdleWhileWaiting`, `NothingLost`, `ReturnSucceeds`, `LimitHolds`, `FirstComeFirstServed`, `ImplementsLease` | any callers, closers, resources, limit |
| `PromiseMapProofs` | `TypeCorrect`, `MapsAlwaysAgree`, `TimersAlwaysMatch`, `StatusesTruthful`, `TimersDeleteSettled`, `RejectAllComplete` | any keys, promises, timers, with or without timeouts |
| `ListProofs` | `TypeCorrect`, `ChainsAgree`, `ImplementsDeque`, `IteratorsYieldEachOnce` | any elements, nodes, iterators, argument lists |
| `RoundRobinProofs` | `PicksBalanced` | any number of brokers |
| `RedisBackendProofs` | `TypeCorrect`, `SubscriberAlwaysReserved`, `AnswersAlwaysReported`, `ImplementsResultBackend`, `EndAlwaysGentle` | any calls, tasks, connections, programs |
| `RpcBackendProofs` | `TypeCorrect`, `AnswersAlwaysReported`, `ImplementsResultBackend`, `EndAlwaysGentle`, `ConsumerAlwaysReserved` | any calls, tasks, channels, programs, faults |
| `BrokersProofs` | `TypeCorrect`, `EndAlwaysGentle`, `ImplementsMessageBroker` | any `publish()` calls, channels |
| `ClientProofs` | `TypeCorrect`, `ChoicesBalanced`, `ImplementsMessageBroker`, `WorkersAlwaysUnderstand` | any requests |

The modules of the backends, the brokers and the client instantiate the proof
modules of their parts under the same substitution as the parts themselves
(`P == INSTANCE ResourcePoolProofs ...`, `M == INSTANCE PromiseMapProofs ...`,
`R == INSTANCE RoundRobinProofs ...`).  A step of the composition does one step
of a part or leaves it alone; so the part's `NextInv` gives the part's
invariant, and only what ties the parts together is proved anew.

### ResourcePoolProofs

From `PoolAssumption` alone: the limit is a natural number and `None` is neither
a caller nor a resource.

None of the invariants is inductive alone.  That a hand-over
keeps leases exclusive needs that the caller at the head of the queue holds
nothing, which needs that the queue contains exactly the callers whose
`get()` is waiting, once each (`QueuedIffWaiting`), and that a lease is recorded
exactly for the callers that hold one (`LeasedIffHolding`).  That `destroyAll()`
destroys nothing in use needs that an idle resource is on nobody's lease
(`NoLostResource`).  `IInv` is the conjunction.  `HandOverInv`, `ReleaseInv` and
`ReleaseAndDestroyInv` show that it survives the three things `return()` can do
with a resource, and are shared by `Return` and `ReturnAndDestroyAll`;
`NextInv` puts the actions together.  `AppendFacts` and `ShiftFacts` say what
push and shift do to a queue of distinct elements.  `LimitHolds` takes a second
invariant, which adds that the sets counted are finite.

For the refinement `Holder` inverts a lease: `HolderFacts` shows that its
CHOOSE is determined when the lease is exclusive, and `HolderGains`,
`HolderLoses` and `HolderPasses` how it changes; each action then is one action of
`ResourceLease` or changes neither lives nor holders.

### PromiseMapProofs

From `PromiseMapAssumption`: `None` is neither a key, a promise nor a timer.

`MapsAgree`, `TimersMatch` and `StatusTruthfulUnlessStale` hold together or not at
all, and need three facts about the calls of `doResolve()` that have not set their
status yet (`Pending`), which a reader of the code takes for granted: their
promise is "committed", and the map has it under their own key or not at all
(`PendingOwns`); one promise is followed or settled by one of them
(`PendingApart`); and a promise belongs to one key (`OneKeyEach`).  Without them a
microtask could settle a promise that `delete()` and `get()` have given another
meaning, or set the status of an entry twice.  `TimersDeleteSettled` needs
`TimedSettles` besides: an entry only gets a timer once its promise is settled or
about to be.  `RejectAllComplete` is an action property and follows for the step
`RejectAll` from `MapsAgree` and the truth of the statuses.

### ListProofs

From `ListAssumption`: arguments are sequences of elements, and `None` is neither
an element nor a node.

For the list itself `IInv` is `TypeOK /\ Linked`, which is inductive as it stands
because `Linked` says of the chain's nodes that they contain something and a new
node does not (`FreshUnchained`).  `ChainFacts` restates it by positions in the chain;
`PushOneEffect`, `UnshiftOneEffect`, `PopEffect` and `ShiftEffect` say what each
operation does to chain and nodes, and the lemmas on the invariant and on the
elements (`PushedItems`, ...) follow from them.

Iterators take an invariant about nodes that are no longer in the list (`Ways`).
Removed nodes keep pointers to one another and into the list, and an iterator
may walk through any number of them.  `Ways` says that there is a *rank* of
nodes that grows along the chain and along every `next`, removed nodes included;
and for each node an *entry*, the place where the way from it comes back to the
chain, if it does.  Iterators only go up, so they yield nothing twice; and what
one still owes lies at the entry of its current node or above (`OnItsWay`).
`AddedWays` extends rank and entry to a new node at either end, which is why
`Ranked` keeps a bound below and one above; `RemovedWays` moves the entry of a
removed node to its successor's.  A removed last node has its `next` at None
even if others are pushed later: nothing that was there throughout is behind
it, so nothing is owed.

### RoundRobinProofs

`Balanced` is not inductive, since it does not know whose turn it
is.  `IInv` adds it: for some number of laps `q`, the brokers before the index
were chosen `q + 1` times and the others `q` times.  `NextIInv` treats the last
broker of a lap apart from the others.

### RedisBackendProofs

From `RedisBackendAssumption`, which says of the calls what TypeScript's types say
of them, and that `None` is none of the things it stands beside.

`SubscriberAlwaysReserved` is the pool's exclusive use, plus: from PSUBSCRIBE to
the reply to PUNSUBSCRIBE the constructor's call of the pool is "using"
(`SubConnected`).  That takes the order of what the socket holds, the reply to
PSUBSCRIBE first and that to PUNSUBSCRIBE last (`SocketInOrder`): `end()` gives the
connection back only when nothing else can come.  And no command was ever
sent on that connection, because the constructor is never served by a hand-over:
it asks first, and so gets a new one.

`AnswersAlwaysReported` follows what is said of a task on its way through replies,
the store and the socket (`AllTold`), and through promises (`ValuesTold`): a
promise is of one task as long as the map or a waiting call refers to it
(`OneTaskEach`), although promises are dropped and their names used again.
What was said stays said (`Kept`), so most steps need no more than `SaidGoesOn` and
`ValuesGoOn`.

`ImplementsResultBackend` and `EndAlwaysGentle` take a second invariant on top of
the first, `Effective`.  `CallsMatch` reads the effects and the
promise of a call off how far it has come.  A command must not be executed twice,
and that takes `LineIsSent`: what is on the connections is exactly what was sent,
each once and on one of them.  `OwedAnswered` says that once `destroyAll()` has gone
on, whoever had a connection as `end()` gave up its own has been answered: it goes
on when nothing is in use, and `EndReturn` looks at `call` in the same step.  The
steps are shown together with the step of `ResultBackend` they are
(`StepEffective`): `AllMove` puts together what each call does, `QuietStep` is for
steps that settle nothing, `CallStep` for those that move one call.

### RpcBackendProofs

From `RpcBackendAssumption`, of the same kind.  `AnswersAlwaysReported` has the same
shape, over the reply queue and the consumer's channel.  That a result counts from the moment it
is *sent* takes where a `put()` is when its channel comes (`PutsUsePool`): a call
the pool has not yet let go on has sent nothing, and a `put()` that has, drained or
failed after it, keeps what it sent (`CallMatches`); so a channel that cannot be
opened, or a connection that is lost, takes nothing back.

`ImplementsResultBackend` and `EndAlwaysGentle` are as for Redis, with
`FailsWithConnection` in the second invariant instead of the order of commands:
there is no channel before there is a connection and no `put()` fails on one that
stands.  So when `end()` finds the connection open after `destroyAll()`, none of the
`put()`s it waited for has failed.

`ConsumerAlwaysReserved` takes a third invariant, `Reserving`, which relates three
chains of promises that know nothing of each other: the constructor's (`con`),
`end()`'s (`endpc`) and the socket.  The reply to `consume()` comes first on the wire
and that to `cancel()` last; what is in between keeps `end()` where it is, and `end()`
alone returns the channel.  The pool's part is that the constructor is never
served by a hand-over, since it asks first: `OthersReserve` shows that no call of
another caller changes what the constructor has.

### BrokersProofs

From `BrokersAssumption`: `None` and `End` are no messages.

For `AmqpBroker` the invariant ties each `publish()` to its call of the pool
(`CallsMatch`), and `end()` to the pool's closer (`EndMatches`); `OwedAnswered` says
that once `destroyAll()` has gone on, whoever had a channel when `end()` was called
has been answered, since it went on when nothing was in use; and
`FailsForReason` that nothing fails on a connection that stands unless a channel was closed.  For
`RedisBroker`, `LineIsSent` says that each command sent is in line once, and
`OwedAhead` that what `end()` has to wait for is ahead of its QUIT.

`ImplementsMessageBroker` adds `HandedOver`, which reads off the place a `publish()`
is at whether its message has been handed over: not while it is idle or, over Redis,
sent but not executed, and certainly once it is flushed, executed or resolved.
It has no premise about full write buffers.  `TypeCorrect` follows from the same
invariant.

### ClientProofs

From `RequestsAssumption`: the brokers of a request are a sequence, not all of
them throw, and serializers and compressions are those of
packer/factory.ts:82-94.

`ChoicesBalanced` is `R!IInv`: every choice of `createTask()` and of a failover is
one `Pick` of the round robin, whatever else happens.  `ImplementsMessageBroker`
says of all brokers of a client what `BrokersProofs` says of one that does not
repeat; its invariant `Handed` ties the copies to how far a call has come.  `WorkersAlwaysUnderstand` needs
no invariant: it is about operators, and `PackedUnpacks` goes through the six
combinations of serializer and compression for any arguments.

### Only model-checked

* Liveness, which the prover cannot do under fairness: `Served`,
  `DestroyAllSettles`, `Forgotten`, `Answered`, both `EveryCallEnds`, `Delivered`,
  `RejectedAtEnd`, `PublishAndEndSettle`, `GetEnds`.
* `ParsedAsWritten` and `UriLeadsBack`: the parsers fold over text, and what a fold
  computes for every text takes an induction over data, which the installed
  provers cannot instantiate.  The run compares every kind of URI.

## 5. What is not modelled, and why

* Lost connections of Redis: ioredis reconnects and resubscribes by itself,
  behind the interface the code uses.  Lost connections of RabbitMQ are modelled.
* The number of microtasks that separates two settled promises: any order that
  the queue allows is in the models, and a few it does not.
* Queries (`numInUse`, `has`, `isFulfilled`, ...) change nothing.
* `rejectOne`, `resolveAll` and `rejectAll` of `PromiseQueue`, `filterMapEvent` and the
  reading of certificate files (`createPathQueryDescriptor`): nothing calls them.
* What bytes are inside a format, and case and white space in URIs.
* The options of a Redis cluster, which no URI gives.
* messages.ts, config.ts and errors.ts are types and constants.
* `RequestsAssumption` leaves out clients all of whose brokers throw, or without
  brokers: `applyAsync()` then goes round for ever (task.ts:188).

Seen while modelling, of no consequence to a model: `authMechanism` and
`connectionTimeout` are in the format of amqp/uri.ts:45 but not parsed, and the
comment "1 year" of amqp/backend.ts:66 stands beside the milliseconds of a day.

## 6. Plan

Every component that changes state has its module, and every safety property that
a run checks and the prover can reach has its theorem.  What is left:

1. Runs that show each departure of `Departures` as a counterexample of its own.
2. `destroyAll()` empties the pool's list but keeps its count (resource_pool.ts:179):
   the callers of the repository never ask the pool again after it, and no sentence
   says what would happen if they did.
