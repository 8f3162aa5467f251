---------------------------- MODULE RedisBackend ----------------------------
(***************************************************************************)
(* The Redis result backend of src/redis/backend.ts: get(), put(),         *)
(* delete() and end() over a ResourcePool of two connections and a         *)
(* PromiseMap of results, the subscription that fills the map, and as much *)
(* of Redis and of the workers that report results as they interact with.  *)
(*                                                                         *)
(* One connection is kept by the subscription, so every other operation    *)
(* shares the second.  A command is sent, executed and answered in         *)
(* separate steps; the socket of the subscription delivers its replies and *)
(* messages in order.                                                      *)
(***************************************************************************)
EXTENDS Naturals, Sequences, FiniteSets

CONSTANTS
  Ops,          \* calls that may be made, each [id, kind, task, hasTimeout]
  Programs,     \* which calls meet, and under which circumstances
  Tasks,        \* task ids
  Uuids,        \* those that UUID_REGEX matches
  Connections,  \* connections createClient() may open
  Promises, Timers,  \* see PromiseMap
  Sub,          \* the constructor's use of the pool
  End,          \* end()'s call of destroyAll()
  WorkerStates, \* the statuses that workers report
  None

Kinds  == {"get", "put", "delete"}
Final  == {"SUCCESS", "FAILURE"}
States == Final \union {"STARTED"}

ASSUME RedisBackendAssumption ==
  /\ \A o \in Ops : /\ o.kind \in Kinds /\ o.task \in Tasks
                    /\ o.hasTimeout \in BOOLEAN
  /\ Sub \notin Ops
  /\ None \notin States
  /\ None \notin UNION {Ops, {Sub}, Connections, Tasks, Promises, Timers}
  /\ WorkerStates \subseteq States /\ Uuids \subseteq Tasks
  /\ \A p \in Programs : /\ p.calls \subseteq Ops /\ p.workers \subseteq Tasks
                         /\ {p.early, p.end, p.heard} \subseteq BOOLEAN

VARIABLES
  program,     \* the member of Programs that this behaviour follows: the calls
               \* made, whether before the subscription is ready (early), the
               \* tasks whose workers report, whether end() is called and
               \* whether put()'s PUBLISH matches the subscribed pattern (heard)
  unused, inUse, resourceCount, waiting, call, leased, created, destroyed,
  closer,                               \* this.pool
  promises, data, state, jobs, armed, stale,  \* this.results
  sub,         \* how far the constructor's chain of promises has come
  subscriber,  \* the connection it subscribed with
  endpc,       \* how far end() has come
  pc,          \* pc[o]: how far the function that o gives to use() has come
  out,         \* out[o]: what that function's promise, or the timer, gave
  held,        \* held[o]: the promise of this.results that o awaits
  reply,       \* reply[o]: the answer to o's GET
  value,       \* value[p]: the message promise p was resolved with
  line,        \* line[c]: calls whose command is on connection c
  subscribed,  \* server: the pattern subscription
  store,       \* server: store[t], the stored result
  wire,        \* socket of the subscription, oldest first
  reported,    \* reported[t]: statuses the worker of t has reported
  effects,     \* history: how often the server stored or deleted for o
  owed         \* history: who had a connection when end() gave up its own

Callers == Ops \union {Sub}

Pool == INSTANCE ResourcePool WITH
  Closers <- {End}, Resources <- Connections, maxResources <- 2,
  CreateMayFail <- FALSE

Map == INSTANCE PromiseMap WITH
  Keys <- Tasks, timed <- TRUE, WithClear <- FALSE, maxFollows <- 0,
  follows <- {}, dropped <- {}

poolVars   == <<unused, inUse, resourceCount, waiting, call, leased, created,
                destroyed, closer>>
mapVars    == <<promises, data, state, jobs, armed, stale>>
subVars    == <<sub, subscriber, endpc, owed>>
opVars     == <<pc, out, held, reply>>
serverVars == <<line, subscribed, store, wire, reported, effects>>
vars == <<program, poolVars, mapVars, subVars, opVars, value, serverVars>>

Messages == [kind : {"message"}, task : Tasks, status : States]
Replies  == [kind : {"subscribed", "unsubscribed"}]

TypeOK ==
  /\ program \in Programs
  /\ Pool!TypeOK
  /\ Map!TypeOK
  /\ sub \in {"new", "getting", "subscribing", "replied", "listening"}
  /\ subscriber \in Connections \union {None}
  /\ endpc \in {"idle", "awaiting", "punsubscribing", "destroying", "ended"}
  /\ pc \in [Ops -> {"idle", "called", "sent", "executed", "listening",
                     "answered"}]
  /\ out \in [Ops -> {"pending", "timed out", "rejected", "ok"} \union States]
  /\ held \in [Ops -> Promises \union {None}]
  /\ reply \in [Ops -> States \union {None}]
  /\ value \in [Promises -> States \union {None}]
  /\ line \in [Connections -> Seq(Ops)]
  /\ subscribed \in BOOLEAN
  /\ store \in [Tasks -> States \union {None}]
  /\ wire \in Seq(Messages \union Replies)
  /\ reported \in [Tasks -> SUBSET States]
  /\ effects \in [Ops -> 0..1]
  /\ owed \in SUBSET Ops

Init ==
  /\ program \in Programs
  /\ Pool!Init
  /\ Map!Init
  /\ sub = "new" /\ subscriber = None /\ endpc = "idle"
  /\ pc = [o \in Ops |-> "idle"]
  /\ out = [o \in Ops |-> "pending"]
  /\ held = [o \in Ops |-> None]
  /\ reply = [o \in Ops |-> None]
  /\ value = [p \in Promises |-> None]
  /\ line = [c \in Connections |-> <<>>]
  /\ subscribed = FALSE
  /\ store = [t \in Tasks |-> None]
  /\ wire = <<>>
  /\ reported = [t \in Tasks |-> {}]
  /\ effects = [o \in Ops |-> 0] /\ owed = {}
-----------------------------------------------------------------------------
(* The constructor: pool.get(), PSUBSCRIBE, then the handler. *)

SubGet ==
  /\ sub = "new"
  /\ sub' = "getting"
  /\ Pool!StartCreate(Sub)
  /\ UNCHANGED <<program, mapVars, subscriber, endpc, owed, opVars, value,
                 serverVars>>

SubSend ==
  /\ sub = "getting"
  /\ sub' = "subscribing"
  /\ subscriber' = leased[Sub]
  /\ Pool!Resume(Sub)
  /\ UNCHANGED <<program, mapVars, endpc, owed, opVars, value, serverVars>>

\* From here on the server sends what is published.
ServerSubscribe ==
  /\ sub = "subscribing"
  /\ ~subscribed
  /\ subscribed' = TRUE
  /\ wire' = Append(wire, [kind |-> "subscribed"])
  /\ UNCHANGED <<program, poolVars, mapVars, subVars, opVars, value, line,
                 store, reported, effects>>

SubReply ==
  /\ wire # <<>>
  /\ Head(wire).kind = "subscribed"
  /\ wire' = Tail(wire)
  /\ sub' = "replied"
  /\ UNCHANGED <<program, poolVars, mapVars, subscriber, endpc, owed, opVars,
                 value, line, subscribed, store, reported, effects>>

\* The continuation that registers the "pmessage" handler.
SubListen ==
  /\ sub = "replied"
  /\ sub' = "listening"
  /\ UNCHANGED <<program, poolVars, mapVars, subscriber, endpc, owed, opVars,
                 value, serverVars>>

\* The id of a promise that somebody still awaits is not used for a new one.
IdsKept ==
  \A o \in Ops : held[o] # None /\ state[held[o]] \in Map!Settled
                   => state'[held[o]] = state[held[o]]

\* Mutant: only results that somebody asked for are kept.
OnMessage_IfWanted ==
  LET m == Head(wire) IN
  /\ wire # <<>>
  /\ m.kind = "message"
  /\ wire' = Tail(wire)
  /\ IF sub = "listening" /\ m.task \in Uuids /\ promises[m.task] # None
     THEN /\ Map!ResolveValue(m.task) /\ IdsKept
          /\ value' = [value EXCEPT ![promises'[m.task]] = m.status]
     ELSE UNCHANGED <<mapVars, value>>
  /\ UNCHANGED <<program, poolVars, subVars, opVars, line, subscribed, store,
                 reported, effects>>

\* It throws for a task that is not a UUID.
OnMessage ==
  LET m == Head(wire) IN
  /\ wire # <<>>
  /\ m.kind = "message"
  /\ wire' = Tail(wire)
  /\ IF sub = "listening" /\ m.task \in Uuids
     THEN /\ Map!ResolveValue(m.task) /\ IdsKept
          /\ value' = [value EXCEPT ![promises'[m.task]] = m.status]
     ELSE UNCHANGED <<mapVars, value>>
  /\ UNCHANGED <<program, poolVars, subVars, opVars, line, subscribed, store,
                 reported, effects>>
-----------------------------------------------------------------------------
(* get(), put() and delete() *)

MayCall(o) == /\ o \in program.calls /\ pc[o] = "idle"
              /\ sub # "new" /\ (program.early \/ sub = "listening")

\* get() when this.results.has(taskId): no connection, and no timeout.
ListenAtOnce(o) ==
  /\ MayCall(o)
  /\ o.kind = "get" /\ promises[o.task] # None
  /\ pc' = [pc EXCEPT ![o] = "listening"]
  /\ held' = [held EXCEPT ![o] = promises[o.task]]
  /\ UNCHANGED <<program, poolVars, mapVars, subVars, out, reply, value,
                 serverVars>>

UsePool(o) ==
  /\ MayCall(o)
  /\ o.kind = "get" => promises[o.task] = None
  /\ Pool!Get(o)
  /\ pc' = [pc EXCEPT ![o] = "called"]
  /\ UNCHANGED <<program, mapVars, subVars, out, held, reply, value,
                 serverVars>>

\* createClient() returned a connection.
Connect(c) ==
  /\ Pool!CreateOk(c)
  /\ UNCHANGED <<program, mapVars, subVars, opVars, value, serverVars>>

\* use() invokes its function, which sends GET, DEL or the MULTI pipeline.
Send(o) ==
  /\ pc[o] = "called"
  /\ Pool!Resume(o)
  /\ pc' = [pc EXCEPT ![o] = "sent"]
  /\ line' = [line EXCEPT ![leased[o]] = Append(@, o)]
  /\ IF o.kind = "delete" /\ data[o.task] # Map!NoEntry
     THEN Map!Delete(o.task) ELSE UNCHANGED mapVars
  /\ UNCHANGED <<program, subVars, out, held, reply, value, subscribed, store,
                 wire, reported, effects>>

Published(t, status) ==
  IF subscribed THEN Append(wire, [kind |-> "message", task |-> t,
                                   status |-> status])
                ELSE wire

\* The server executes the first command on a connection.
Execute(c) ==
  LET o == Head(line[c]) IN
  /\ line[c] # <<>>
  /\ line' = [line EXCEPT ![c] = Tail(@)]
  /\ pc' = [pc EXCEPT ![o] = "executed"]
  /\ reply' = [reply EXCEPT ![o] = IF o.kind = "get" THEN store[o.task] ELSE @]
  /\ store' = [store EXCEPT ![o.task] = CASE o.kind = "get"    -> @
                                          [] o.kind = "put"    -> "SUCCESS"
                                          [] o.kind = "delete" -> None]
  /\ effects' = IF o.kind = "get" THEN effects
                                  ELSE [effects EXCEPT ![o] = @ + 1]
  /\ wire' = IF o.kind = "put" /\ program.heard THEN Published(o.task, "SUCCESS")
                                                ELSE wire
  /\ UNCHANGED <<program, poolVars, mapVars, subVars, out, held, value,
                 subscribed, reported>>

\* Mutant: the answer counts even when the timer has won the race.
Gives_Late(o, result) ==
  /\ pc' = [pc EXCEPT ![o] = "answered"]
  /\ out' = [out EXCEPT ![o] = result]

\* The function's promise settles, unless the timer won the race.
Gives(o, result) ==
  /\ pc' = [pc EXCEPT ![o] = "answered"]
  /\ out' = [out EXCEPT ![o] = IF @ = "pending" THEN result ELSE @]

\* The reply to DEL, to the pipeline, or a GET that found a SUCCESS.
Answer(o) ==
  /\ pc[o] = "executed"
  /\ o.kind = "get" => reply[o] = "SUCCESS"
  /\ Gives(o, IF o.kind = "get" THEN reply[o] ELSE "ok")
  /\ UNCHANGED <<program, poolVars, mapVars, subVars, held, reply, value,
                 serverVars>>

\* A GET that found nothing, or another status: listen().
Listen(o) ==
  /\ pc[o] = "executed"
  /\ o.kind = "get" /\ reply[o] # "SUCCESS"
  /\ IF promises[o.task] = None THEN Map!Get(o.task) /\ IdsKept
                                ELSE UNCHANGED mapVars
  /\ held' = [held EXCEPT ![o] = promises'[o.task]]
  /\ pc' = [pc EXCEPT ![o] = "listening"]
  /\ UNCHANGED <<program, poolVars, subVars, out, reply, value, serverVars>>

\* What listen() awaits settles.
Hear(o) ==
  /\ pc[o] = "listening"
  /\ state[held[o]] \in Map!Settled
  /\ Gives(o, IF state[held[o]] = "fulfilled" THEN value[held[o]]
                                             ELSE "rejected")
  /\ held' = [held EXCEPT ![o] = None]
  /\ UNCHANGED <<program, poolVars, mapVars, subVars, reply, value,
                 serverVars>>

\* createTimeoutPromise(response, timeout), once the function runs.
TimeOut(o) ==
  /\ o.kind = "get" /\ o.hasTimeout
  /\ call[o] = "using" /\ out[o] = "pending"
  /\ out' = [out EXCEPT ![o] = "timed out"]
  /\ UNCHANGED <<program, poolVars, mapVars, subVars, pc, held, reply, value,
                 serverVars>>

\* Mutant: returns the connection when it is answered, not when it times out.
Finish_Answered(o) ==
  /\ pc[o] = "answered"
  /\ Pool!Return(o)
  /\ UNCHANGED <<program, mapVars, subVars, opVars, value, serverVars>>

\* returnAfter()
Finish(o) ==
  /\ out[o] # "pending"
  /\ Pool!Return(o)
  /\ UNCHANGED <<program, mapVars, subVars, opVars, value, serverVars>>
-----------------------------------------------------------------------------
(* end(), which is also disconnect() *)

EndCall ==
  /\ program.end
  /\ endpc = "idle" /\ sub # "new"
  /\ endpc' = "awaiting"
  /\ UNCHANGED <<program, poolVars, mapVars, sub, subscriber, owed, opVars,
                 value, serverVars>>

EndUnsubscribe ==
  /\ endpc = "awaiting" /\ sub = "listening"
  /\ endpc' = "punsubscribing"
  /\ UNCHANGED <<program, poolVars, mapVars, sub, subscriber, owed, opVars,
                 value, serverVars>>

ServerUnsubscribe ==
  /\ endpc = "punsubscribing"
  /\ subscribed
  /\ subscribed' = FALSE
  /\ wire' = Append(wire, [kind |-> "unsubscribed"])
  /\ UNCHANGED <<program, poolVars, mapVars, subVars, opVars, value, line,
                 store, reported, effects>>

\* Mutant: does not wait for the reply to PUNSUBSCRIBE.
EndReturn_AtOnce ==
  /\ endpc = "punsubscribing"
  /\ Pool!ReturnAndDestroyAll(Sub, End)
  /\ endpc' = "destroying"
  /\ owed' = {o \in Ops : call[o] = "using"}
  /\ UNCHANGED <<program, mapVars, sub, subscriber, opVars, value, serverVars>>

EndReturn ==
  /\ wire # <<>>
  /\ Head(wire).kind = "unsubscribed"
  /\ wire' = Tail(wire)
  /\ Pool!ReturnAndDestroyAll(Sub, End)
  /\ endpc' = "destroying"
  /\ owed' = {o \in Ops : call[o] = "using"}
  /\ UNCHANGED <<program, mapVars, sub, subscriber, opVars, value, line,
                 subscribed, store, reported, effects>>

EndDestroy ==
  /\ Pool!DestroyResume(End)
  /\ UNCHANGED <<program, mapVars, subVars, opVars, value, serverVars>>

\* Mutant: resolves without waiting for destroyAll().
EndDone_AtOnce ==
  /\ endpc = "destroying"
  /\ endpc' = "ended"
  /\ UNCHANGED <<program, poolVars, mapVars, sub, subscriber, owed, opVars,
                 value, serverVars>>

EndDone ==
  /\ Pool!DestroyDone(End)
  /\ endpc' = "ended"
  /\ UNCHANGED <<program, mapVars, sub, subscriber, owed, opVars, value,
                 serverVars>>
-----------------------------------------------------------------------------
(* The promises of this.results, and the workers. *)

RunJob ==
  /\ Map!RunJob
  /\ UNCHANGED <<program, poolVars, subVars, opVars, value, serverVars>>

\* Results are kept for a day, so no timer fires while a command is under way.
Forget(t) ==
  /\ Map!FireTimer(t)
  /\ \A o \in Ops : pc[o] \notin {"sent", "executed"}
  /\ UNCHANGED <<program, poolVars, subVars, opVars, value, serverVars>>

\* A worker stores and publishes a status, in one transaction.
Report(t) ==
  \E status \in WorkerStates \ reported[t] :
    /\ t \in program.workers
    /\ reported[t] \intersect Final = {}
    /\ reported' = [reported EXCEPT ![t] = @ \union {status}]
    /\ store' = [store EXCEPT ![t] = status]
    /\ wire' = Published(t, status)
    /\ UNCHANGED <<program, poolVars, mapVars, subVars, opVars, value, line,
                   subscribed, effects>>

Next ==
  \/ SubGet \/ SubSend \/ ServerSubscribe \/ SubReply \/ SubListen
  \/ OnMessage \/ RunJob
  \/ \E o \in Ops : \/ ListenAtOnce(o) \/ UsePool(o) \/ Send(o) \/ Answer(o)
                    \/ Listen(o) \/ Hear(o) \/ TimeOut(o) \/ Finish(o)
  \/ \E c \in Callers : Connect(c)
  \/ \E c \in Connections : Execute(c)
  \/ EndCall \/ EndUnsubscribe \/ ServerUnsubscribe \/ EndReturn
  \/ EndDestroy \/ EndDone
  \/ \E t \in Timers : Forget(t)
  \/ \E t \in Tasks : Report(t)

Spec == Init /\ [][Next]_vars

(* Continuations run, Redis answers, timeouts expire, and every worker of  *)
(* the program reports until it has reported a final status.  No caller    *)
(* has to call.                                                            *)
FairSpec ==
  /\ Spec
  /\ WF_vars(SubGet) /\ WF_vars(SubSend) /\ WF_vars(ServerSubscribe)
  /\ WF_vars(SubReply) /\ WF_vars(SubListen)
  /\ WF_vars(OnMessage) /\ WF_vars(RunJob)
  /\ \A o \in Ops : /\ WF_vars(Send(o)) /\ WF_vars(Answer(o))
                    /\ WF_vars(Listen(o)) /\ WF_vars(Hear(o))
                    /\ WF_vars(TimeOut(o)) /\ WF_vars(Finish(o))
  /\ \A c \in Callers : WF_vars(Connect(c))
  /\ \A c \in Connections : WF_vars(Execute(c))
  /\ WF_vars(EndUnsubscribe) /\ WF_vars(ServerUnsubscribe)
  /\ WF_vars(EndReturn) /\ WF_vars(EndDestroy) /\ WF_vars(EndDone)
  /\ \A t \in Tasks : WF_vars(Report(t))
-----------------------------------------------------------------------------
\* From PSUBSCRIBE until the reply to PUNSUBSCRIBE has come, the pool does not
\* lend the connection of the subscription, on which Redis would refuse any
\* other command; so no command is ever on it.
SubscriberReserved ==
  subscribed \/ wire # <<>> =>
    /\ leased[Sub] = subscriber
    /\ \A o \in Ops : leased[o] # subscriber
    /\ line[subscriber] = <<>>

\* A get() is only answered with what was reported for its own task, or stored
\* by a put(), before; though promises, connections and the socket are shared
\* among tasks.
AnswersAreReported ==
  \A o \in Ops : out[o] \in States =>
    \/ out[o] \in reported[o.task]
    \/ /\ out[o] = "SUCCESS"
       /\ \E w \in Ops : /\ w.kind = "put" /\ w.task = o.task
                         /\ pc[w] \in {"executed", "answered"}

\* What the caller has of the promise of o: a timeout rejects it.
Promise(o) ==
  IF pc[o] = "idle" THEN "none"
  ELSE IF out[o] = "timed out" THEN "rejected" ELSE out[o]

\* However commands, messages and timers of many calls interleave on two
\* connections, each call is served as ResultBackend says.
Backend == INSTANCE ResultBackend WITH
  Calls    <- Ops,
  Statuses <- States,
  Repeats  <- FALSE,
  promise  <- [o \in Ops |-> Promise(o)]

ResultBackendSpec == Backend!Spec

\* end() resolves "when all pending transactions have been completed"
\* (result_backend.ts, lines 71-72): whoever had a connection when it gave up
\* its own has been answered, and what it was to store or delete is.  Calls
\* that were still to have a connection, which destroyAll() does not see, and
\* those that listen without one may not have been.
EndIsGentle ==
  endpc = "ended" =>
    \A o \in owed : /\ out[o] # "pending"
                    /\ o.kind # "get" => out[o] = "ok" /\ effects[o] = 1

\* The call is over: its promise has settled and it holds no connection.
Over(o) == out[o] # "pending" /\ call[o] = "idle"

\* A get() with a timeout, or another call: it does not wait for a worker.
Bounded(o) == o.kind = "get" => o.hasTimeout

\* A get() that found a FAILURE stored, so that it waits for a message, when the
\* message has gone by (lines 149-151).
Overlooks(o) ==
  /\ pc[o] = "listening" /\ reply[o] = "FAILURE"
  /\ state[held[o]] = "open"
  /\ \A i \in DOMAIN wire : wire[i].kind = "message" => wire[i].task # o.task

\* It is that get(), awaits the same promise, or waits for its connection.
Stranded(o) ==
  \E g \in Ops : /\ Overlooks(g)
                 /\ \/ held[o] = held[g]
                    \/ call[o] = "waiting" /\ call[g] = "using"

\* No order of GET, SETEX, PUBLISH and the message loses a result: every
\* get() that waits as long as it takes is answered once the worker of its task
\* reports, if the subscription was in place when it was called.  The exception
\* is a FAILURE whose message came before the subscription, or was forgotten:
\* a get() that then finds it stored waits on, and with it those behind it.
Answered ==
  \A o \in {g \in Ops : ~Bounded(g)} :
    /\ pc[o] # "idle"
    /\ o.task \in program.workers \intersect Uuids /\ ~program.end
    /\ \A d \in program.calls : d.kind = "delete" => d.task # o.task
    ~> out[o] \in States \/ Stranded(o)

\* A get() that found its task in the map: nothing limits how long it waits.
ListensUntimed(o) ==
  pc[o] = "listening" /\ call[o] = "idle" /\ out[o] = "pending"

\* The connections do not run dry: where no call waits for a worker, every call
\* made before end() comes to an end, whatever it waits behind, and end() gets
\* its connections back and closes them.  It is also disconnect(), which
\* "forcefully terminates the connection" (result_backend.ts, line 62).  The
\* exception is a get() whose timeout the code ignores because another, that
\* may have timed out, has left a promise in the map; it holds up nobody.
EveryCallEnds ==
  LET AllBounded == \A o \in program.calls : Bounded(o) IN
  /\ \A o \in {c \in Ops : Bounded(c)} :
       AllBounded /\ pc[o] # "idle" /\ endpc = "idle"
         ~> Over(o) \/ ListensUntimed(o)
  /\ AllBounded /\ endpc # "idle" ~> endpc = "ended"
=============================================================================
