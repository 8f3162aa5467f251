----------------------------- MODULE RpcBackend -----------------------------
(***************************************************************************)
(* The RabbitMQ result backend of src/amqp/backend.ts: get(), put(),       *)
(* delete() and end() over a ResourcePool of two channels and a PromiseMap *)
(* of results, the consumer that fills the map, and as much of RabbitMQ    *)
(* and of the workers as they interact with.                               *)
(*                                                                         *)
(* The consumer keeps one channel.  Its replies and messages come in order *)
(* on "wire".  get() uses no channel, and the timeout it is given has no   *)
(* effect: createTimeoutPromise() only sees the result once it is there.   *)
(***************************************************************************)
EXTENDS Naturals, Sequences, FiniteSets, Functions

CONSTANTS
  Ops,        \* calls that may be made, each [id, kind, task]
  Programs,   \* the combinations of calls, end(), workers and faults to look at
  Tasks,      \* task ids
  Channels,   \* channels the connection may open
  Promises, Timers,  \* see PromiseMap
  Con,        \* the constructor's use of the pool
  End,        \* end()'s call of destroyAll()
  MaxFull,    \* how often a put() may find the write buffer full
  None

Kinds  == {"get", "put", "delete"}
Faults == {"connect", "lose", "cancel", "full"}
States == {"SUCCESS", "FAILURE"}  \* what put() and what a worker reports

ASSUME RpcBackendAssumption ==
  /\ MaxFull \in Nat
  /\ \A o \in Ops : o.kind \in Kinds /\ o.task \in Tasks
  /\ Con \notin Ops
  /\ None \notin States
  /\ None \notin UNION {Ops, {Con}, Channels, Tasks, Promises, Timers}
  /\ \A p \in Programs : /\ p.calls \subseteq Ops /\ p.end \in BOOLEAN
                         /\ p.workers \subseteq Tasks
                         /\ p.faults \subseteq Faults

VARIABLES
  program,     \* the member of Programs that this behaviour follows
  unused, inUse, resourceCount, waiting, call, leased, created, destroyed,
  closer,                                     \* this.channels
  promises, data, state, jobs, armed, stale,  \* this.promises
  connection,  \* what became of this.connection
  con,         \* how far this.consumer and this.consumerTag have come
  endpc,       \* how far end() has come
  pc,          \* pc[o]: how far the call has come
  out,         \* out[o]: what its promise gave
  held,        \* held[o]: the promise of this.promises that o awaits
  value,       \* value[p]: the message promise p was resolved with
  declared,    \* server: whether the reply queue exists
  consuming,   \* server: whether it has the consumer
  queue,       \* server: messages in the reply queue
  wire,        \* what the server has sent to the consumer's channel
  reported,    \* tasks whose worker has reported its failure
  effects,     \* history: how often o was written, or done
  owed         \* history: who had a channel when end() gave up its own

Callers == Ops \union {Con}
Gets    == {o \in Ops : o.kind = "get"}
Puts    == {o \in Ops : o.kind = "put"}

Pool == INSTANCE ResourcePool WITH
  Closers <- {End}, Resources <- Channels, maxResources <- 2,
  CreateMayFail <- TRUE

Map == INSTANCE PromiseMap WITH
  Keys <- Tasks, timed <- TRUE, WithClear <- FALSE, maxFollows <- 0,
  follows <- {}, dropped <- {}

poolVars   == <<unused, inUse, resourceCount, waiting, call, leased, created,
                destroyed, closer>>
mapVars    == <<promises, data, state, jobs, armed, stale>>
stageVars  == <<connection, con, endpc, owed>>
opVars     == <<pc, out, held, effects>>
serverVars == <<declared, consuming, queue, wire, reported>>
vars == <<program, poolVars, mapVars, stageVars, opVars, value, serverVars>>

Messages == [task : Tasks, status : States]
Notices  == [task : {None}, status : {"consume-ok", "cancelled", "cancel-ok"}]

Notice(n) == [task |-> None, status |-> n]

TypeOK ==
  /\ program \in Programs
  /\ Pool!TypeOK
  /\ Map!TypeOK
  /\ connection \in {"connecting", "open", "failed", "lost", "closed"}
  /\ con \in {"new", "getting", "asserting", "asserted", "consuming",
              "listening", "failed"}
  /\ endpc \in {"idle", "awaiting", "cancelling", "destroying", "closing",
                "ended", "failed"}
  /\ pc \in [Ops -> {"idle", "called", "asserting", "ready", "draining",
                     "flushed", "failed", "listening", "over"}]
  /\ out \in [Ops -> {"pending", "rejected", "ok"} \union States]
  /\ held \in [Ops -> Promises \union {None}]
  /\ value \in [Promises -> States \union {None}]
  /\ {declared, consuming} \subseteq BOOLEAN
  /\ consuming => declared
  /\ queue \in Seq(Messages)
  /\ wire \in Seq(Messages \union Notices)
  /\ reported \in SUBSET Tasks
  /\ effects \in [Ops -> 0 .. MaxFull + 1]
  /\ owed \in SUBSET Ops

Init ==
  /\ program \in Programs
  /\ Pool!Init
  /\ Map!Init
  /\ connection = "connecting" /\ con = "new" /\ endpc = "idle"
  /\ pc = [o \in Ops |-> "idle"]
  /\ out = [o \in Ops |-> "pending"]
  /\ held = [o \in Ops |-> None]
  /\ value = [p \in Promises |-> None]
  /\ declared = FALSE /\ consuming = FALSE
  /\ queue = <<>> /\ wire = <<>>
  /\ reported = {}
  /\ effects = [o \in Ops |-> 0] /\ owed = {}

Up == connection = "open"
-----------------------------------------------------------------------------
(* The connection *)

Connect ==
  /\ connection = "connecting"
  /\ \/ connection' = "open"
     \/ "connect" \in program.faults /\ connection' = "failed"
  /\ UNCHANGED <<program, poolVars, mapVars, con, endpc, owed, opVars, value,
                 serverVars>>

\* What the server has sent and the consumer has not read is lost as well.
Lose ==
  /\ "lose" \in program.faults
  /\ Up
  /\ connection' = "lost"
  /\ consuming' = FALSE
  /\ wire' = <<>>
  /\ UNCHANGED <<program, poolVars, mapVars, con, endpc, owed, opVars, value,
                 declared, queue, reported>>

\* create(): createChannel() once connected.
OpenChannel(c) ==
  /\ Up
  /\ Pool!CreateOk(c)
  /\ UNCHANGED <<program, mapVars, stageVars, opVars, value, serverVars>>

ChannelFails(c) ==
  /\ ~Up /\ connection # "connecting"
  /\ Pool!CreateFail(c)
  /\ IF c = Con
     THEN con' = "failed" /\ UNCHANGED opVars
     ELSE /\ pc' = [pc EXCEPT ![c] = "over"]
          /\ out' = [out EXCEPT ![c] = "rejected"]
          /\ UNCHANGED <<con, held, effects>>
  /\ UNCHANGED <<program, mapVars, connection, endpc, owed, value, serverVars>>
-----------------------------------------------------------------------------
(* The constructor's chain of promises *)

Construct ==
  /\ con = "new"
  /\ con' = "getting"
  /\ Pool!StartCreate(Con)
  /\ UNCHANGED <<program, mapVars, connection, endpc, owed, opVars, value,
                 serverVars>>

ConAssert ==
  /\ con = "getting"
  /\ Pool!Resume(Con)
  /\ con' = IF Up THEN "asserting" ELSE "failed"
  /\ UNCHANGED <<program, mapVars, connection, endpc, owed, opVars, value,
                 serverVars>>

\* The reply to assertQueue() has come and consume() is sent.
ConConsume ==
  /\ con = "asserted"
  /\ con' = IF Up THEN "consuming" ELSE "failed"
  /\ UNCHANGED <<program, poolVars, mapVars, connection, endpc, owed, opVars,
                 value, serverVars>>

\* A request is pending on a connection that is gone.
ConFails ==
  /\ con \in {"asserting", "consuming"} /\ ~Up
  /\ con' = "failed"
  /\ UNCHANGED <<program, poolVars, mapVars, connection, endpc, owed, opVars,
                 value, serverVars>>
-----------------------------------------------------------------------------
(* The server *)

\* assertQueue() by the consumer, or by a put().
ServerDeclare ==
  /\ Up
  /\ declared' = TRUE
  /\ \/ con = "asserting" /\ con' = "asserted" /\ UNCHANGED pc
     \/ \E o \in Ops : /\ pc[o] = "asserting"
                       /\ pc' = [pc EXCEPT ![o] = "ready"]
                       /\ UNCHANGED con
  /\ UNCHANGED <<program, poolVars, mapVars, connection, endpc, owed, out,
                 held, effects, value, consuming, queue, wire, reported>>

\* consume() of a queue that is gone closes the channel instead.
ServerConsume ==
  /\ Up /\ con = "consuming" /\ ~consuming
  /\ Notice("consume-ok") \notin Range(wire)
  /\ IF declared
     THEN /\ consuming' = TRUE
          /\ wire' = Append(wire, Notice("consume-ok")) \o queue
          /\ queue' = <<>>
          /\ UNCHANGED con
     ELSE con' = "failed" /\ UNCHANGED <<consuming, wire, queue>>
  /\ UNCHANGED <<program, poolVars, mapVars, connection, endpc, owed, opVars,
                 value, declared, reported>>

\* The queue is deleted, by an operator or as its node goes down.
ServerCancel ==
  /\ "cancel" \in program.faults
  /\ Up /\ declared
  /\ declared' = FALSE /\ consuming' = FALSE
  /\ queue' = <<>>
  /\ wire' = IF consuming THEN Append(wire, Notice("cancelled")) ELSE wire
  /\ UNCHANGED <<program, poolVars, mapVars, stageVars, opVars, value,
                 reported>>

\* A message for the reply queue goes to the consumer, or waits for one, or
\* finds no queue.
Enqueued(m) ==
  /\ wire' = IF consuming THEN Append(wire, m) ELSE wire
  /\ queue' = IF declared /\ ~consuming THEN Append(queue, m) ELSE queue

\* A worker reports its result, on a connection of its own.
Report(t) ==
  /\ t \in program.workers
  /\ con # "new" /\ t \notin reported
  /\ reported' = reported \union {t}
  /\ Enqueued([task |-> t, status |-> "FAILURE"])
  /\ UNCHANGED <<program, poolVars, mapVars, stageVars, opVars, value,
                 declared, consuming>>
-----------------------------------------------------------------------------
(* What comes to the consumer's channel *)

\* The id of a promise that somebody still awaits is not used for a new one.
IdsKept ==
  \A o \in Ops : held[o] # None /\ state[held[o]] \in Map!Settled
                   => state'[held[o]] = state[held[o]]

Receive(m) ==
  /\ Up
  /\ wire # <<>> /\ Head(wire) = m
  /\ wire' = Tail(wire)
  /\ UNCHANGED <<program, connection, opVars, declared, consuming, queue,
                 reported>>

ConListens ==
  /\ Receive(Notice("consume-ok"))
  /\ con' = "listening"
  /\ UNCHANGED <<poolVars, mapVars, endpc, owed, value>>

\* Mutant: a result is only kept for a get() that has been made.
OnMessage_IfWanted(m) ==
  /\ Receive(m)
  /\ IF promises[m.task] # None
     THEN /\ Map!ResolveValue(m.task) /\ IdsKept
          /\ value' = [value EXCEPT ![promises'[m.task]] = m.status]
     ELSE UNCHANGED <<mapVars, value>>
  /\ UNCHANGED <<poolVars, con, endpc, owed>>

OnMessage(m) ==
  /\ Receive(m)
  /\ Map!ResolveValue(m.task) /\ IdsKept
  /\ value' = [value EXCEPT ![promises'[m.task]] = m.status]
  /\ UNCHANGED <<poolVars, con, endpc, owed>>

RejectAll == IF Map!Rejectable # {} THEN Map!RejectAll ELSE UNCHANGED mapVars

\* onMessage(null).  Nothing remembers that the consumer is gone.
OnCancelled ==
  /\ Receive(Notice("cancelled"))
  /\ RejectAll
  /\ UNCHANGED <<poolVars, con, endpc, owed, value>>
-----------------------------------------------------------------------------
(* get(), delete() and put() *)

MayCall(o, kind) ==
  /\ o \in program.calls /\ o.kind = kind
  /\ pc[o] = "idle" /\ con # "new"

Get(o) ==
  /\ MayCall(o, "get")
  /\ IF promises[o.task] = None THEN Map!Get(o.task) /\ IdsKept
                                ELSE UNCHANGED mapVars
  /\ pc' = [pc EXCEPT ![o] = "listening"]
  /\ held' = [held EXCEPT ![o] = promises'[o.task]]
  /\ UNCHANGED <<program, poolVars, stageVars, out, effects, value,
                 serverVars>>

\* The promise settles, and createTimeoutPromise() at once with it.
Hear(o) ==
  LET p == held[o] IN
  /\ pc[o] = "listening"
  /\ state[p] \in Map!Settled
  /\ pc' = [pc EXCEPT ![o] = "over"]
  /\ out' = [out EXCEPT ![o] = IF state[p] = "fulfilled" THEN value[p]
                                                         ELSE "rejected"]
  /\ held' = [held EXCEPT ![o] = None]
  /\ UNCHANGED <<program, poolVars, mapVars, stageVars, effects, value,
                 serverVars>>

Delete(o) ==
  /\ MayCall(o, "delete")
  /\ IF data[o.task] # Map!NoEntry THEN Map!Delete(o.task)
                                   ELSE UNCHANGED mapVars
  /\ pc' = [pc EXCEPT ![o] = "over"]
  /\ out' = [out EXCEPT ![o] = "ok"]
  /\ effects' = [effects EXCEPT ![o] = @ + 1]
  /\ UNCHANGED <<program, poolVars, stageVars, held, value, serverVars>>

Put(o) ==
  /\ MayCall(o, "put")
  /\ Pool!Get(o)
  /\ pc' = [pc EXCEPT ![o] = "called"]
  /\ UNCHANGED <<program, mapVars, stageVars, out, held, effects, value,
                 serverVars>>

\* use() calls its function, which sends assertQueue(): see ServerDeclare.
PutAssert(o) ==
  /\ Pool!Resume(o)
  /\ pc' = [pc EXCEPT ![o] = IF Up THEN "asserting" ELSE "failed"]
  /\ UNCHANGED <<program, mapVars, stageVars, out, held, effects, value,
                 serverVars>>

PutGoes(o, from, to) ==
  /\ pc[o] = from
  /\ pc' = [pc EXCEPT ![o] = to]
  /\ UNCHANGED <<program, poolVars, mapVars, stageVars, out, held, value,
                 declared, consuming, reported>>

PutFails(o) ==
  /\ ~Up
  /\ PutGoes(o, "asserting", "failed") \/ PutGoes(o, "ready", "failed")
  /\ UNCHANGED <<effects, queue, wire>>

\* sendToQueue(), which amqplib puts in the write buffer of the connection
\* whatever it then returns.
PutSends(o, to) ==
  /\ Up
  /\ PutGoes(o, "ready", to)
  /\ Enqueued([task |-> o.task, status |-> "SUCCESS"])
  /\ effects' = [effects EXCEPT ![o] = @ + 1]

PutWrite(o) == PutSends(o, "flushed")

\* It returns false: the same message will be sent again after a "drain".
PutFull(o) ==
  /\ "full" \in program.faults /\ effects[o] < MaxFull
  /\ PutSends(o, "draining")

Drain(o) ==
  /\ Up
  /\ PutGoes(o, "draining", "ready")
  /\ UNCHANGED <<effects, queue, wire>>

\* Mutant: the channel is returned when all went well.
PutDone_OnSuccess(o) ==
  /\ pc[o] = "flushed"
  /\ Pool!Return(o)
  /\ pc' = [pc EXCEPT ![o] = "over"]
  /\ out' = [out EXCEPT ![o] = "ok"]
  /\ UNCHANGED <<program, mapVars, stageVars, held, effects, value, serverVars>>

\* Mutant: resolves although the connection was lost before the write.
PutDone_AlwaysOk(o) ==
  /\ pc[o] \in {"flushed", "failed"}
  /\ Pool!Return(o)
  /\ pc' = [pc EXCEPT ![o] = "over"]
  /\ out' = [out EXCEPT ![o] = "ok"]
  /\ UNCHANGED <<program, mapVars, stageVars, held, effects, value, serverVars>>

\* returnAfter()
PutDone(o) ==
  /\ pc[o] \in {"flushed", "failed"}
  /\ Pool!Return(o)
  /\ pc' = [pc EXCEPT ![o] = "over"]
  /\ out' = [out EXCEPT ![o] = IF pc[o] = "flushed" THEN "ok" ELSE "rejected"]
  /\ UNCHANGED <<program, mapVars, stageVars, held, effects, value, serverVars>>

OpNext(o) ==
  \/ Hear(o) \/ PutAssert(o) \/ PutFails(o) \/ PutWrite(o) \/ PutFull(o)
  \/ Drain(o) \/ PutDone(o)
-----------------------------------------------------------------------------
(* end(), and disconnect() which is the same *)

EndCall ==
  /\ program.end
  /\ endpc = "idle" /\ con # "new"
  /\ endpc' = "awaiting"
  /\ UNCHANGED <<program, poolVars, mapVars, connection, con, owed, opVars,
                 value, serverVars>>

\* Mutant: end() cancels the consumer and rejects nothing itself.
EndReject_Nothing ==
  /\ endpc = "awaiting" /\ con = "listening"
  /\ endpc' = IF Up THEN "cancelling" ELSE "failed"
  /\ UNCHANGED <<program, poolVars, mapVars, connection, con, owed, opVars,
                 value, serverVars>>

\* rejectAll(), then cancel() of the consumer.
EndReject ==
  /\ endpc = "awaiting" /\ con = "listening"
  /\ RejectAll
  /\ endpc' = IF Up THEN "cancelling" ELSE "failed"
  /\ UNCHANGED <<program, poolVars, connection, con, owed, opVars, value,
                 serverVars>>

ServerCancelOk ==
  /\ Up /\ endpc = "cancelling" /\ Notice("cancel-ok") \notin Range(wire)
  /\ consuming' = FALSE
  /\ wire' = Append(wire, Notice("cancel-ok"))
  /\ UNCHANGED <<program, poolVars, mapVars, stageVars, opVars, value,
                 declared, queue, reported>>

\* Mutant: gives the channel back without waiting for the reply to cancel().
EndReturn_AtOnce ==
  /\ endpc = "cancelling"
  /\ Pool!ReturnAndDestroyAll(Con, End)
  /\ endpc' = "destroying"
  /\ owed' = {o \in Ops : call[o] = "using"}
  /\ UNCHANGED <<program, connection, con, mapVars, opVars, value, serverVars>>

EndReturn ==
  /\ Receive(Notice("cancel-ok"))
  /\ Pool!ReturnAndDestroyAll(Con, End)
  /\ endpc' = "destroying"
  /\ owed' = {o \in Ops : call[o] = "using"}
  /\ UNCHANGED <<mapVars, con, value>>

EndDestroy ==
  /\ \/ Pool!DestroyResume(End)
     \/ Up /\ Pool!DestroyDone(End)
  /\ UNCHANGED <<program, mapVars, stageVars, opVars, value, serverVars>>

\* Mutant: closes the connection without waiting for destroyAll().
EndClose_AtOnce ==
  /\ Up /\ endpc = "destroying"
  /\ connection' = "closed" /\ endpc' = "closing"
  /\ UNCHANGED <<program, poolVars, mapVars, con, owed, opVars, value,
                 serverVars>>

EndClose ==
  /\ Up /\ closer[End] = "closed"
  /\ connection' = "closed" /\ endpc' = "closing"
  /\ UNCHANGED <<program, poolVars, mapVars, con, owed, opVars, value,
                 serverVars>>

EndDone ==
  /\ endpc = "closing"
  /\ endpc' = "ended"
  /\ UNCHANGED <<program, poolVars, mapVars, connection, con, owed, opVars,
                 value, serverVars>>

\* this.consumer or this.consumerTag is rejected, or a channel or the
\* connection that end() asks for something is gone.
EndFails ==
  /\ \/ endpc = "awaiting" /\ con = "failed"
     \/ endpc = "cancelling" /\ ~Up
     \/ endpc = "destroying" /\ ~Up /\ closer[End] \in {"closing", "closed"}
  /\ endpc' = "failed"
  /\ UNCHANGED <<program, poolVars, mapVars, connection, con, owed, opVars,
                 value, serverVars>>

EndNext ==
  \/ EndReject \/ ServerCancelOk \/ EndReturn \/ EndDestroy \/ EndClose
  \/ EndDone \/ EndFails
-----------------------------------------------------------------------------
RunJob ==
  /\ Map!RunJob
  /\ UNCHANGED <<program, poolVars, stageVars, opVars, value, serverVars>>

\* Results are kept for a day, so no timer fires while an answer of the server
\* is on its way.
Forget(t) ==
  /\ Map!FireTimer(t)
  /\ wire = <<>> /\ endpc \in {"idle", "ended", "failed"}
  /\ \A o \in Ops : pc[o] \in {"idle", "listening", "over"}
  /\ UNCHANGED <<program, poolVars, stageVars, opVars, value, serverVars>>

ConNext == Construct \/ ConAssert \/ ConConsume \/ ConFails \/ ConListens

ServerNext == ServerDeclare \/ ServerConsume

Arrives == OnCancelled \/ \E m \in Messages : OnMessage(m)

Next ==
  \/ Connect \/ Lose \/ \E c \in Callers : OpenChannel(c) \/ ChannelFails(c)
  \/ ConNext \/ ServerNext \/ ServerCancel \/ Arrives \/ RunJob
  \/ \E o \in Ops : Get(o) \/ Delete(o) \/ Put(o) \/ OpNext(o)
  \/ EndCall \/ EndNext
  \/ \E t \in Timers : Forget(t)
  \/ \E t \in Tasks : Report(t)

Spec == Init /\ [][Next]_vars

(* Continuations run, RabbitMQ answers, a write buffer that is full drains. *)
(* Nobody has to call, no worker has to report, no fault to happen.         *)
FairSpec ==
  /\ Spec
  /\ WF_vars(Connect) /\ WF_vars(ConNext) /\ WF_vars(ServerNext)
  /\ WF_vars(Arrives) /\ WF_vars(RunJob) /\ WF_vars(EndNext)
  /\ \A c \in Callers : WF_vars(OpenChannel(c) \/ ChannelFails(c))
  /\ \A o \in Ops : WF_vars(OpNext(o))
-----------------------------------------------------------------------------
\* A get() is only answered with what was reported for its own task, or was
\* sent by a put(), before: nothing is answered for a put() that failed before
\* it was sent, and one that is rejected after may have been answered.
AnswersAreReported ==
  \A o \in Ops :
    /\ out[o] = "FAILURE" => o.task \in reported
    /\ out[o] = "SUCCESS" =>
         \E w \in Puts : w.task = o.task /\ effects[w] > 0

\* What the caller has of the promise of o.
Promise(o) == IF pc[o] = "idle" THEN "none" ELSE out[o]

\* However puts, messages and failures of the connection interleave with
\* get(), each call is served as ResultBackend says of a backend that repeats:
\* put() resolves only when its result was sent, but may send it each time the
\* write buffer is full, and be rejected when the connection is lost then.
Backend == INSTANCE ResultBackend WITH
  Calls    <- Ops,
  Statuses <- States,
  Repeats  <- TRUE,
  promise  <- [o \in Ops |-> Promise(o)],
  reported <- [t \in Tasks |-> IF t \in reported THEN {"FAILURE"} ELSE {}]

ResultBackendSpec == Backend!Spec

\* end() resolves "when all pending transactions have been completed"
\* (result_backend.ts, lines 71-72): when it closes the connection, whatever
\* had a channel as it gave up its own has been written.  Puts that were still
\* to have a channel, which destroyAll() does not see, may be refused.
EndIsGentle ==
  connection = "closed" => \A o \in owed : out[o] = "ok" /\ effects[o] > 0

\* From consume() until the consumer has read the reply to cancel(), the pool
\* neither lends its channel nor closes it: nothing that is on its way to it
\* is lost with the channel.
ConsumerReserved ==
  consuming \/ wire # <<>> =>
    /\ call[Con] = "using" /\ leased[Con] \notin destroyed
    /\ \A o \in Ops : leased[o] # leased[Con]

Waits(o) == pc[o] = "listening"

Within(seq, t) == \E m \in Messages : m.task = t /\ m \in Range(seq)

NeverLost == [](connection \notin {"failed", "lost"})

\* There is no consumer, and none will come: the server has cancelled it, or
\* the queue was gone when it was to be consumed.
Deaf == ~consuming /\ con \in {"listening", "failed"}

\* No result is lost while the connection stands, in whatever order the queue
\* is declared and consumed, calls are made and end() comes.  One in the queue
\* reaches the consumer unless the queue is deleted; what reaches it settles the
\* get() that waits, and is there for a get() to come.  But once the server has
\* cancelled the consumer, a result stays in the queue that a later put()
\* declares anew, and no get() learns of it: see Deaf.
Delivered ==
  NeverLost /\ [](stale = {}) =>
    \A o \in Gets :
      /\ Within(queue, o.task) /\ endpc = "idle"
           ~> Within(wire, o.task) \/ ~declared \/ endpc # "idle" \/ Deaf
      /\ Within(wire, o.task)
           ~> ~Waits(o) /\ (out[o] # "pending" \/ promises[o.task] # None)

\* A get() that waits when the server cancels the consumer, or when end()
\* begins, is settled too: rejectAll() leaves out nobody, unless a late
\* setStatus() has made a status wrong or the consumer was never there.
RejectedAtEnd ==
  NeverLost /\ [](stale = {} /\ con # "failed") =>
    \A o \in Gets :
      Waits(o) /\ (Notice("cancelled") \in Range(wire) \/ endpc = "awaiting")
        ~> out[o] # "pending"

\* Every put() made before end(), and end() itself, comes to an end, though
\* connecting may fail, the connection may be lost and end() lends the
\* consumer's channel on: unless a channel could not be opened (the pool then
\* counts one that there is not) or a write waits for a "drain" on a
\* connection that is gone.
EveryCallEnds ==
  []/\ resourceCount = Cardinality(created) + Cardinality(Pool!Creating)
    /\ \A o \in Ops : pc[o] = "draining" => Up
  => /\ \A o \in Puts : pc[o] # "idle" /\ endpc = "idle" ~> pc[o] = "over"
     /\ endpc # "idle" ~> endpc \in {"ended", "failed"}
=============================================================================
