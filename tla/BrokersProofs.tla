---------------------------- MODULE BrokersProofs ----------------------------
(***************************************************************************)
(* Proofs about Brokers, for any number of publish() calls and channels:   *)
(* end() is gentle, and both classes are message brokers as MessageBroker  *)
(* says, Redis one that never repeats a message.                           *)
(***************************************************************************)
EXTENDS Brokers, TLAPS

\* The proofs about the pool of channels, for the pool that AmqpBroker has.
P == INSTANCE ResourcePoolProofs WITH
  Callers <- Publishes, Closers <- {End}, Resources <- Channels,
  maxResources <- 2, CreateMayFail <- TRUE

(* The inductive invariant that end() needs: the pool's own, what ties the *)
(* pool, publish() and end() of AmqpBroker together, and for RedisBroker   *)
(* what is in line for the server.                                         *)

\* TypeOK but for how often a message may be handed over, and that the pool of
\* channels, of which P!IInv speaks, has its types.
Typed ==
  /\ class \in {"amqp", "redis"}
  /\ broken \in SUBSET created
  /\ line \in Seq(Publishes \union {End})
  /\ connection \in Amqp!Connections
  /\ pc \in [Publishes -> {"idle", "called", "sent", "executed"}
                           \union Amqp!Working \union Settled]
  /\ copies \in [Publishes -> Nat]
  /\ endpc \in {"idle", "quitting", "destroying", "closing", "ended",
                "failed"}
  /\ owed \in SUBSET Publishes

\* AmqpBroker: where a publish() is says what its call of the pool is doing.
CallsMatch ==
  \A o \in Publishes :
    /\ call[o] = "using" <=> pc[o] \in Amqp!Working
    /\ call[o] = "idle" <=> pc[o] \in {"idle"} \union Settled
    /\ call[o] \in {"creating", "waiting", "granted"} <=> pc[o] = "called"

EndMatches ==
  /\ endpc = "idle" <=> closer[End] = "idle"
  /\ endpc = "idle" => owed = {} /\ connection # "closed"
  /\ connection = "connecting" => created = {}

\* Once destroyAll() has gone on, whoever had a channel has been answered.
OwedAnswered ==
  /\ \A o \in owed : pc[o] \in Amqp!Working \union Settled
  /\ closer[End] \in {"resumed", "closing", "closed"}
       => \A o \in owed : pc[o] \in Settled

\* While the connection is there, nothing but a closed channel makes one fail.
FailsForReason ==
  connection \in {"connecting", "open"}
    /\ (\E o \in Publishes : pc[o] \in {"failed", "rejected"})
      => broken # {}

AmqpInv == CallsMatch /\ EndMatches /\ OwedAnswered /\ FailsForReason

\* RedisBroker: line holds each publish that was sent, once, and End.
LineIsSent ==
  /\ \A o \in Publishes : pc[o] \in {"idle", "sent", "executed"} \union Settled
  /\ \A i \in 1..Len(line) : line[i] # End => pc[line[i]] = "sent"
  /\ \A i, j \in 1..Len(line) : line[i] = line[j] /\ line[i] # End => i = j
  /\ \A o \in Publishes : pc[o] = "sent" => \E i \in 1..Len(line) : line[i] = o
  /\ connection \in {"open", "closed"}
  /\ line # <<>> => connection = "open"
  /\ broken = {}

\* Whatever end() owes an answer is executed, or in line before its QUIT.
OwedAhead ==
  /\ endpc = "idle" => /\ owed = {} /\ connection = "open"
                       /\ \A i \in 1..Len(line) : line[i] # End
  /\ \A o \in owed :
       \/ pc[o] \in {"executed", "resolved"}
       \/ /\ pc[o] = "sent"
          /\ \A i \in 1..Len(line) :
               line[i] = End => \E j \in 1..Len(line) : j < i /\ line[j] = o

RedisInv == LineIsSent /\ OwedAhead

IInv ==
  /\ Typed
  /\ P!IInv
  /\ class = "amqp" => AmqpInv
  /\ class = "redis" => RedisInv
  /\ EndIsGentle

\* A message is handed over when its publish() says so, by Redis once and not
\* before the server has executed its command.
HandedOver ==
  \A o \in Publishes :
    /\ copies[o] \in 0..2 /\ (class = "redis" => copies[o] < 2)
    /\ pc[o] \in {"flushed", "executed", "resolved"} => copies[o] > 0
    /\ pc[o] \in {"idle", "sent"} => copies[o] = 0

(* A new broker satisfies the invariant. *)
LEMMA InitInv == Init => IInv /\ HandedOver
<1> SUFFICES ASSUME Init PROVE IInv /\ HandedOver
  OBVIOUS
<1> USE BrokersAssumption
<1>1. P!Init
  BY DEF Init, Amqp!Init, Amqp!Pool!Init, P!Init
<1>2. P!IInv
  BY <1>1, P!InitInv DEF P!PoolAssumption
<1>3. /\ \A o \in Publishes : pc[o] = "idle" /\ copies[o] = 0
      /\ owed = {} /\ endpc = "idle" /\ line = <<>> /\ broken = {}
      /\ pc \in [Publishes -> {"idle"}] /\ copies \in [Publishes -> {0}]
      /\ \/ class = "amqp" /\ connection = "connecting"
         \/ class = "redis" /\ connection = "open"
  BY DEF Init, Amqp!Init, Redis!Init
<1>4. Typed /\ EndIsGentle /\ HandedOver
  BY <1>3 DEF Typed, EndIsGentle, HandedOver, Amqp!Connections
<1>5. class = "amqp" => AmqpInv
  BY <1>1, <1>3 DEF P!Init, AmqpInv, CallsMatch, EndMatches, OwedAnswered,
                    FailsForReason, Amqp!Working, Settled
<1>6. class = "redis" => RedisInv
  BY <1>3 DEF RedisInv, LineIsSent, OwedAhead
<1> QED BY <1>2, <1>4, <1>5, <1>6 DEF IInv
-----------------------------------------------------------------------------
(* AmqpBroker: what each call of the pool does to where calls of it are. *)

(* get() makes the call wait for a channel, one way or another. *)
LEMMA PoolGet ==
  ASSUME P!IInv, NEW o \in Publishes, Amqp!Pool!Get(o)
  PROVE  /\ P!Get(o)
         /\ call[o] = "idle" /\ call'[o] \in {"granted", "creating", "waiting"}
         /\ \A w \in Publishes \ {o} : call'[w] = call[w]
         /\ closer' = closer /\ created' = created
<1>1. call \in [Publishes -> P!CallStates]
  BY DEF P!IInv, P!TypeOK
<1> QED BY <1>1 DEF Amqp!Pool!Get, Amqp!Pool!TakeUnused, Amqp!Pool!StartCreate,
           Amqp!Pool!Enqueue, P!Get, P!TakeUnused, P!StartCreate, P!Enqueue

(* return() ends one call and may grant another the channel; when it tells *)
(* destroyAll() to go on, nobody has a channel any more.                   *)
LEMMA PoolReturn ==
  ASSUME P!IInv, NEW o \in Publishes, Amqp!Pool!Return(o)
  PROVE  /\ P!Return(o)
         /\ call[o] = "using" /\ call'[o] = "idle"
         /\ \A w \in Publishes \ {o} :
              \/ call'[w] = call[w]
              \/ call[w] = "waiting" /\ call'[w] = "granted"
         /\ created' = created
         /\ \/ closer' = closer
            \/ /\ closer[End] = "awaiting" /\ closer'[End] = "resumed"
               /\ inUse' = {}
<1>1. /\ call \in [Publishes -> P!CallStates]
      /\ closer \in [{End} -> P!CloserStates]
      /\ waiting \in Seq(Publishes)
      /\ \A i \in DOMAIN waiting : call[waiting[i]] = "waiting"
  <2>1. P!Range(waiting) = {w \in Publishes : call[w] = "waiting"}
    BY DEF P!IInv, P!QueuedIffWaiting
  <2> QED BY <2>1 DEF P!IInv, P!TypeOK, P!Range
<1>2. P!Return(o)
  BY DEF Amqp!Pool!Return, Amqp!Pool!ReturnToWaiter, Amqp!Pool!ReturnToUnused,
         Amqp!Pool!LeavesUse, Amqp!Pool!HandOver, Amqp!Pool!Releases,
         Amqp!Pool!Emitted, P!Return, P!ReturnToWaiter, P!ReturnToUnused,
         P!LeavesUse, P!HandOver, P!Releases, P!Emitted
<1>3. CASE P!ReturnToWaiter(o)
  <2>1. /\ waiting # <<>> /\ call[o] = "using" /\ closer' = closer
        /\ created' = created
        /\ call' = [call EXCEPT ![o] = "idle", ![Head(waiting)] = "granted"]
    BY <1>3 DEF P!ReturnToWaiter, P!LeavesUse, P!HandOver
  <2>2. Head(waiting) \in Publishes /\ call[Head(waiting)] = "waiting"
    BY <1>1, <2>1
  <2> QED BY <1>1, <1>2, <2>1, <2>2
<1>4. CASE P!ReturnToUnused(o)
  <2>1. /\ call[o] = "using" /\ created' = created
        /\ call' = [call EXCEPT ![o] = "idle"]
        /\ inUse' = inUse \ {leased[o]}
        /\ closer' = [d \in {End} |->
              IF closer[d] = "awaiting" /\ inUse \ {leased[o]} = {}
              THEN "resumed" ELSE closer[d]]
    BY <1>4 DEF P!ReturnToUnused, P!LeavesUse, P!Releases, P!Emitted
  <2> QED BY <1>1, <1>2, <2>1
<1> QED BY <1>2, <1>3, <1>4 DEF P!Return

(* create() and the continuation of get(). *)
LEMMA PoolCreate ==
  ASSUME P!IInv, NEW o \in Publishes,
         Amqp!Pool!CreateOk(o) \/ Amqp!Pool!CreateFail(o) \/ Amqp!Pool!Resume(o)
  PROVE  /\ P!CreateOk(o) \/ P!CreateFail(o) \/ P!Resume(o)
         /\ \A w \in Publishes \ {o} : call'[w] = call[w]
         /\ closer' = closer /\ created \subseteq created'
         /\ Amqp!Pool!CreateOk(o) => call[o] = "creating" /\ call'[o] = "granted"
         /\ Amqp!Pool!CreateFail(o) => /\ call[o] = "creating" /\ call'[o] = "idle"
                                       /\ created' = created
         /\ Amqp!Pool!Resume(o) => /\ call[o] = "granted" /\ call'[o] = "using"
                                   /\ leased[o] \in created /\ created' = created
<1>1. call \in [Publishes -> P!CallStates]
  BY DEF P!IInv, P!TypeOK
<1>2. call[o] = "granted" => leased[o] \in created
  BY DEF P!IInv, P!NoUseAfterDestroy, P!Leasing
<1>3. CASE Amqp!Pool!CreateOk(o)
  BY <1>1, <1>3 DEF Amqp!Pool!CreateOk, Amqp!Pool!CreateFail, Amqp!Pool!Resume,
                    P!CreateOk
<1>4. CASE Amqp!Pool!CreateFail(o)
  BY <1>1, <1>4 DEF Amqp!Pool!CreateOk, Amqp!Pool!CreateFail, Amqp!Pool!Resume,
                    P!CreateFail
<1>5. CASE Amqp!Pool!Resume(o)
  BY <1>1, <1>2, <1>5 DEF Amqp!Pool!CreateOk, Amqp!Pool!CreateFail,
                          Amqp!Pool!Resume, P!Resume
<1> QED BY <1>3, <1>4, <1>5

(* destroyAll() goes on only when nobody has a channel. *)
LEMMA PoolDestroy ==
  ASSUME P!IInv,
         \/ Amqp!Pool!DestroyAll(End) \/ Amqp!Pool!DestroyResume(End)
         \/ Amqp!Pool!DestroyDone(End)
  PROVE  /\ P!DestroyAll(End) \/ P!DestroyResume(End) \/ P!DestroyDone(End)
         /\ call' = call /\ created' = created
         /\ Amqp!Pool!DestroyAll(End) =>
              /\ closer[End] = "idle"
              /\ \/ closer'[End] = "awaiting"
                 \/ closer'[End] = "closing" /\ inUse = {}
         /\ Amqp!Pool!DestroyResume(End) =>
              closer[End] = "resumed" /\ closer'[End] = "closing"
         /\ Amqp!Pool!DestroyDone(End) =>
              closer[End] = "closing" /\ closer'[End] = "closed"
<1>1. closer \in [{End} -> P!CloserStates]
  BY DEF P!IInv, P!TypeOK
<1>2. CASE Amqp!Pool!DestroyAll(End)
  <2>1. P!DestroyAll(End)
    BY <1>2 DEF Amqp!Pool!DestroyAll, Amqp!Pool!DestroyAllNow,
                Amqp!Pool!DestroyAllLater, Amqp!Pool!DestroyUnused,
                Amqp!Pool!Range, P!Range,
                P!DestroyAll, P!DestroyAllNow, P!DestroyAllLater, P!DestroyUnused
  <2> QED BY <1>1, <1>2, <2>1 DEF P!DestroyAll, P!DestroyAllNow,
             P!DestroyAllLater, P!DestroyUnused,
             Amqp!Pool!DestroyResume, Amqp!Pool!DestroyDone
<1>3. CASE Amqp!Pool!DestroyResume(End)
  <2>1. P!DestroyResume(End)
    BY <1>3 DEF Amqp!Pool!DestroyResume, Amqp!Pool!DestroyUnused,
                Amqp!Pool!Range, P!Range, P!DestroyResume, P!DestroyUnused
  <2> QED BY <1>1, <1>3, <2>1 DEF P!DestroyResume, P!DestroyUnused,
             Amqp!Pool!DestroyAll, Amqp!Pool!DestroyAllNow,
             Amqp!Pool!DestroyAllLater, Amqp!Pool!DestroyDone
<1>4. CASE Amqp!Pool!DestroyDone(End)
  <2>1. P!DestroyDone(End)
    BY <1>4 DEF Amqp!Pool!DestroyDone, P!DestroyDone
  <2> QED BY <1>1, <1>4, <2>1 DEF P!DestroyDone, Amqp!Pool!DestroyAll,
             Amqp!Pool!DestroyAllNow, Amqp!Pool!DestroyAllLater,
             Amqp!Pool!DestroyResume
<1> QED BY <1>2, <1>3, <1>4

(* Every step of AmqpBroker is one of its pool's or leaves it alone. *)
LEMMA PoolSteps == P!IInv /\ Amqp!Next => [P!Next]_(P!poolVars)
<1> SUFFICES ASSUME P!IInv, Amqp!Next PROVE [P!Next]_(P!poolVars)
  OBVIOUS
<1> USE DEF Amqp!poolVars, P!poolVars
<1>1. ASSUME Amqp!Connect \/ Amqp!Lose \/ Amqp!EndFails \/ Amqp!EndClose
                \/ Amqp!EndDone
      PROVE  UNCHANGED P!poolVars
  BY <1>1 DEF Amqp!Connect, Amqp!Lose, Amqp!EndFails, Amqp!EndClose, Amqp!EndDone
<1>2. ASSUME Amqp!EndCall \/ Amqp!EndDestroy \/ Amqp!EndDestroyed
      PROVE  P!Next
  BY <1>2, PoolDestroy
     DEF Amqp!EndCall, Amqp!EndDestroy, Amqp!EndDestroyed, P!Next
<1>3. ASSUME NEW o \in Publishes,
             \/ Amqp!AssertOk(o) \/ Amqp!AssertFails(o) \/ Amqp!WriteOk(o)
             \/ Amqp!WriteFull(o) \/ Amqp!WriteThrows(o) \/ Amqp!Drain(o)
      PROVE  UNCHANGED P!poolVars
  BY <1>3 DEF Amqp!AssertOk, Amqp!AssertFails, Amqp!WriteOk, Amqp!WriteFull,
              Amqp!Write, Amqp!WriteThrows, Amqp!Drain, Amqp!Works
<1>4. ASSUME NEW o \in Publishes, Amqp!Publish(o)
      PROVE  P!Next
  BY <1>4, PoolGet DEF Amqp!Publish, P!Next
<1>5. ASSUME NEW o \in Publishes,
             Amqp!OpenChannel(o) \/ Amqp!ChannelFails(o) \/ Amqp!Begin(o)
      PROVE  P!Next
  BY <1>5, PoolCreate DEF Amqp!OpenChannel, Amqp!ChannelFails, Amqp!Begin, P!Next
<1>6. ASSUME NEW o \in Publishes, Amqp!Finish(o)
      PROVE  P!Next
  BY <1>6, PoolReturn DEF Amqp!Finish, P!Next
<1> QED BY <1>1, <1>2, <1>3, <1>4, <1>5, <1>6
        DEF Amqp!Next, Amqp!EndNext, Amqp!PublishNext
-----------------------------------------------------------------------------
(* AmqpBroker keeps its part of the invariant. *)

\* What of the invariant a step of AmqpBroker has to keep beside the pool's.
Rest == Typed /\ AmqpInv /\ EndIsGentle

(* The function given to use() goes on: the pool, end() and the connection *)
(* see nothing of it, and it fails for a reason.                           *)
LEMMA WorksInv ==
  ASSUME P!IInv, Rest, UNCHANGED <<class, line>>,
         NEW o \in Publishes, NEW from \in Amqp!Working, NEW to \in Amqp!Working,
         Amqp!Works(o, from, to), copies' \in [Publishes -> Nat],
         broken' \in SUBSET created, broken \subseteq broken',
         to = "failed" => connection # "open" \/ broken' # {}
  PROVE  Rest'
<1> USE DEF Rest, AmqpInv
<1>1. /\ pc[o] = from /\ pc' = [pc EXCEPT ![o] = to]
      /\ UNCHANGED <<unused, inUse, resourceCount, waiting, call, leased,
                     created, destroyed, closer, connection, endpc, owed>>
  BY DEF Amqp!Works, Amqp!To, Amqp!poolVars, Amqp!endVars
<1>2. /\ pc'[o] = to /\ \A w \in Publishes \ {o} : pc'[w] = pc[w]
      /\ to # "rejected" /\ from # "rejected"
      /\ to \notin Settled /\ from \notin Settled
  BY <1>1 DEF Typed, Amqp!Working, Settled
<1>3. Typed'
  BY <1>1 DEF Typed
<1>4. CallsMatch'
  BY <1>1, <1>2 DEF CallsMatch, Amqp!Working, Settled
<1>5. EndMatches' /\ OwedAnswered'
  BY <1>1, <1>2 DEF EndMatches, OwedAnswered
<1>6. connection # "connecting"
  <2>1. call[o] = "using"
    BY <1>1 DEF CallsMatch
  <2>2. created # {}
    BY <2>1 DEF P!IInv, P!NoUseAfterDestroy, P!Leasing
  <2> QED BY <2>2 DEF EndMatches
<1>7. FailsForReason'
  BY <1>1, <1>2, <1>6 DEF FailsForReason
<1>8. EndIsGentle'
  BY <1>1, <1>2 DEF EndIsGentle, Amqp!Working
<1> QED BY <1>3, <1>4, <1>5, <1>7, <1>8

(* The steps of that function. *)
LEMMA WorkingInv ==
  ASSUME P!IInv, Rest, UNCHANGED <<class, line>>, NEW o \in Publishes,
         \/ Amqp!AssertOk(o) \/ Amqp!AssertFails(o) \/ Amqp!WriteOk(o)
         \/ Amqp!WriteFull(o) \/ Amqp!WriteThrows(o) \/ Amqp!Drain(o)
  PROVE  Rest'
<1>1. /\ {"asserting", "ready", "draining", "flushed", "failed"} = Amqp!Working
      /\ copies \in [Publishes -> Nat] /\ broken \in SUBSET created
      /\ [copies EXCEPT ![o] = IF @ = 0 THEN 1 ELSE 2] \in [Publishes -> Nat]
  BY DEF Amqp!Working, Rest, Typed
<1>2. CASE Amqp!AssertOk(o)
  BY <1>1, <1>2, WorksInv DEF Amqp!AssertOk
<1>3. CASE Amqp!AssertFails(o)
  <2>1. pc[o] = "asserting"
    BY <1>3 DEF Amqp!AssertFails, Amqp!Works
  <2>2. call[o] = "using"
    BY <1>1, <2>1 DEF Rest, AmqpInv, CallsMatch
  <2>3. leased[o] \in created
    BY <2>2 DEF P!IInv, P!NoUseAfterDestroy, P!Leasing
  <2>4. /\ broken' \in SUBSET created /\ broken \subseteq broken'
        /\ connection # "open" \/ broken' # {}
    BY <1>1, <1>3, <2>3 DEF Amqp!AssertFails, Amqp!Usable
  <2> QED BY <1>1, <1>3, <2>4, WorksInv DEF Amqp!AssertFails
<1>4. CASE Amqp!WriteOk(o)
  BY <1>1, <1>4, WorksInv DEF Amqp!WriteOk, Amqp!Write
<1>5. CASE Amqp!WriteFull(o)
  BY <1>1, <1>5, WorksInv DEF Amqp!WriteFull, Amqp!Write
<1>6. CASE Amqp!WriteThrows(o)
  <2>1. connection # "open" \/ broken # {}
    BY <1>6 DEF Amqp!WriteThrows, Amqp!Usable
  <2> QED BY <1>1, <1>6, <2>1, WorksInv DEF Amqp!WriteThrows
<1>7. CASE Amqp!Drain(o)
  BY <1>1, <1>7, WorksInv DEF Amqp!Drain
<1> QED BY <1>2, <1>3, <1>4, <1>5, <1>6, <1>7

(* The connection is made, fails or is lost. *)
LEMMA ConnectionInv ==
  ASSUME P!IInv, Rest, UNCHANGED <<class, line>>, Amqp!Connect \/ Amqp!Lose
  PROVE  Rest'
<1>1. /\ UNCHANGED <<unused, inUse, resourceCount, waiting, call, leased,
                     created, destroyed, closer, broken, pc, copies, endpc, owed>>
      /\ connection' \in {"open", "failed", "lost"}
      /\ connection \in {"connecting", "open"}
  BY DEF Amqp!Connect, Amqp!Lose, Amqp!poolVars, Amqp!endVars
<1> QED BY <1>1 DEF Rest, Typed, Amqp!Connections, AmqpInv, CallsMatch, EndMatches,
                    OwedAnswered, FailsForReason, EndIsGentle

(* A publish() moves from one call of the pool to the next: it is one that *)
(* end() does not owe an answer.                                           *)
LEMMA MovesInv ==
  ASSUME P!IInv, Rest, UNCHANGED <<class, line>>,
         NEW o \in Publishes, NEW to \in {"called", "asserting", "failed", "rejected"},
         pc[o] \in {"idle", "called"}, pc' = [pc EXCEPT ![o] = to],
         UNCHANGED <<closer, connection, broken, copies, endpc, owed>>,
         \A w \in Publishes \ {o} : call'[w] = call[w],
         /\ call'[o] = "using" <=> to \in {"asserting", "failed"}
         /\ call'[o] = "idle" <=> to = "rejected"
         /\ call'[o] \in {"creating", "waiting", "granted"} <=> to = "called",
         created \subseteq created', connection = "connecting" => created' = created,
         to \in {"failed", "rejected"} =>
           connection \notin {"connecting", "open"} \/ broken # {}
  PROVE  Rest'
<1> USE DEF Rest, AmqpInv
<1>1. pc'[o] = to /\ \A w \in Publishes \ {o} : pc'[w] = pc[w]
  BY DEF Typed
<1>2. o \notin owed
  BY DEF OwedAnswered, Amqp!Working, Settled
<1>3. Typed'
  BY DEF Typed, Amqp!Working, Settled
<1>4. CallsMatch'
  BY <1>1 DEF CallsMatch, Amqp!Working, Settled
<1>5. EndMatches' /\ OwedAnswered'
  BY <1>1, <1>2 DEF EndMatches, OwedAnswered
<1>6. FailsForReason'
  BY <1>1 DEF FailsForReason
<1>7. EndIsGentle'
  <2>1. owed \in SUBSET Publishes
    BY DEF Typed
  <2> QED BY <1>1, <1>2, <2>1 DEF EndIsGentle
<1> QED BY <1>3, <1>4, <1>5, <1>6, <1>7

(* publish() up to the function that it gives to use(). *)
LEMMA PublishingInv ==
  ASSUME P!IInv, Rest, UNCHANGED <<class, line>>, NEW o \in Publishes,
         \/ Amqp!Publish(o) \/ Amqp!OpenChannel(o) \/ Amqp!ChannelFails(o)
         \/ Amqp!Begin(o)
  PROVE  Rest'
<1> USE DEF Amqp!endVars, Amqp!To
<1>1. pc \in [Publishes -> {"idle", "called", "sent", "executed"}
                            \union Amqp!Working \union Settled]
  BY DEF Rest, Typed
<1>2. CASE Amqp!Publish(o)
  BY <1>2, PoolGet, MovesInv DEF Amqp!Publish
<1>3. CASE Amqp!OpenChannel(o)
  <2>1. pc[o] = "called" /\ pc' = [pc EXCEPT ![o] = "called"]
    <3>1. pc[o] = "called" /\ pc' = pc
      BY <1>3, PoolCreate DEF Amqp!OpenChannel, Rest, AmqpInv, CallsMatch
    <3> QED BY <1>1, <3>1
  <2>2. connection = "open"
    BY <1>3 DEF Amqp!OpenChannel
  <2> QED BY <1>3, <2>1, <2>2, PoolCreate, MovesInv DEF Amqp!OpenChannel
<1>4. CASE Amqp!ChannelFails(o)
  <2>1. pc[o] = "called"
    BY <1>4, PoolCreate DEF Amqp!ChannelFails, Rest, AmqpInv, CallsMatch
  <2> QED BY <1>4, <2>1, PoolCreate, MovesInv DEF Amqp!ChannelFails
<1>5. CASE Amqp!Begin(o)
  <2>1. /\ pc[o] = "called" /\ leased[o] \in created /\ created' = created
        /\ call'[o] = "using" /\ closer' = closer
        /\ \A w \in Publishes \ {o} : call'[w] = call[w]
    BY <1>5, PoolCreate DEF Amqp!Begin, Rest, AmqpInv, CallsMatch
  <2>2. connection # "connecting"
    BY <2>1 DEF Rest, AmqpInv, EndMatches
  <2>3. CASE Amqp!Usable(leased[o])
    BY <1>5, <2>1, <2>3, MovesInv DEF Amqp!Begin
  <2>4. CASE ~Amqp!Usable(leased[o])
    <3>1. connection # "open" \/ broken # {}
      BY <2>4 DEF Amqp!Usable
    <3> QED BY <1>5, <2>1, <2>2, <2>4, <3>1, MovesInv DEF Amqp!Begin
  <2> QED BY <2>3, <2>4
<1> QED BY <1>2, <1>3, <1>4, <1>5

(* The channel goes back and publish() settles.  When this lets destroyAll() *)
(* go on, everybody who had a channel has been answered.                     *)
LEMMA FinishInv ==
  ASSUME P!IInv, P!IInv', Rest, class = "amqp", UNCHANGED <<class, line>>,
         NEW o \in Publishes, Amqp!Finish(o)
  PROVE  Rest'
<1> USE DEF Rest, AmqpInv
<1>1. /\ pc[o] \in {"flushed", "failed"}
      /\ pc' = [pc EXCEPT ![o] = IF pc[o] = "flushed" THEN "resolved"
                                                      ELSE "rejected"]
      /\ UNCHANGED <<connection, broken, copies, endpc, owed>>
  BY DEF Amqp!Finish, Amqp!To, Amqp!endVars
<1>2. /\ call[o] = "using" /\ call'[o] = "idle"
      /\ \A w \in Publishes \ {o} :
           \/ call'[w] = call[w]
           \/ call[w] = "waiting" /\ call'[w] = "granted"
      /\ created' = created
      /\ \/ closer' = closer
         \/ /\ closer[End] = "awaiting" /\ closer'[End] = "resumed"
            /\ inUse' = {}
  BY PoolReturn DEF Amqp!Finish
<1>3. /\ pc'[o] \in Settled /\ \A w \in Publishes \ {o} : pc'[w] = pc[w]
      /\ pc'[o] = "rejected" => pc[o] = "failed"
      /\ pc'[o] \in {"resolved", "rejected"}
  BY <1>1 DEF Typed, Settled
<1>4. Typed'
  BY <1>1, <1>2 DEF Typed, Settled
<1>5. CallsMatch'
  BY <1>2, <1>3 DEF CallsMatch, Amqp!Working, Settled
<1>6. EndMatches'
  BY <1>1, <1>2 DEF EndMatches
<1>7. OwedAnswered'
  <2>1. \A w \in owed : w \in Publishes /\ pc'[w] \in Amqp!Working \union Settled
    BY <1>3 DEF OwedAnswered, Typed
  <2>2. CASE closer' = closer
    BY <1>1, <1>3, <2>1, <2>2 DEF OwedAnswered
  <2>3. CASE inUse' = {}
    <3>1. \A w \in Publishes : call'[w] # "using"
      BY <2>3 DEF P!IInv, P!ReturnNeverThrows, P!Using
    <3> QED BY <1>1, <1>5, <2>1, <3>1 DEF OwedAnswered, CallsMatch
  <2> QED BY <1>2, <2>2, <2>3
<1>8. FailsForReason'
  BY <1>1, <1>3 DEF FailsForReason
<1>9. EndIsGentle'
  <2>1. connection = "closed" => o \notin owed
    BY <1>1 DEF EndIsGentle
  <2>2. owed \in SUBSET Publishes
    BY DEF Typed
  <2> QED BY <1>1, <1>3, <2>1, <2>2 DEF EndIsGentle
<1> QED BY <1>4, <1>5, <1>6, <1>7, <1>8, <1>9

(* end(): it owes an answer to whoever has a channel, and closes the       *)
(* connection once all of them have theirs.                                *)
LEMMA EndInv ==
  ASSUME P!IInv, Rest, class = "amqp", UNCHANGED <<class, line>>,
         Amqp!EndCall \/ Amqp!EndNext
  PROVE  Rest'
<1> USE DEF Rest, AmqpInv, Amqp!endVars, Amqp!poolVars
<1>1. CASE Amqp!EndCall
  <2>1. /\ endpc = "idle" /\ endpc' = "destroying"
        /\ owed' = {o \in Publishes : call[o] = "using"}
        /\ UNCHANGED <<connection, broken, pc, copies>>
    BY <1>1 DEF Amqp!EndCall, Amqp!Pool!Using
  <2>2. /\ call' = call /\ created' = created
        /\ \/ closer'[End] = "awaiting"
           \/ closer'[End] = "closing" /\ inUse = {}
    BY <1>1, PoolDestroy DEF Amqp!EndCall
  <2>3. Typed'
    BY <2>1, <2>2 DEF Typed
  <2>4. CallsMatch' /\ EndMatches' /\ FailsForReason' /\ EndIsGentle'
    BY <2>1, <2>2 DEF CallsMatch, EndMatches, FailsForReason, EndIsGentle
  <2>5. OwedAnswered'
    <3>1. inUse = {} => owed' = {}
      BY <2>1 DEF P!IInv, P!ReturnNeverThrows, P!Using
    <3>2. \A o \in owed' : pc'[o] \in Amqp!Working
      BY <2>1 DEF CallsMatch
    <3> QED BY <2>2, <3>1, <3>2 DEF OwedAnswered
  <2> QED BY <2>3, <2>4, <2>5
<1>2. CASE Amqp!EndDestroy \/ Amqp!EndDestroyed
  <2>1. UNCHANGED <<connection, broken, pc, copies, endpc, owed>>
    BY <1>2 DEF Amqp!EndDestroy, Amqp!EndDestroyed
  <2>2. /\ call' = call /\ created' = created
        /\ \/ closer[End] = "resumed" /\ closer'[End] = "closing"
           \/ closer[End] = "closing" /\ closer'[End] = "closed"
    BY <1>2, PoolDestroy DEF Amqp!EndDestroy, Amqp!EndDestroyed
  <2>3. Typed'
    BY <2>1, <2>2 DEF Typed
  <2> QED BY <2>1, <2>2, <2>3
          DEF CallsMatch, EndMatches, OwedAnswered, FailsForReason, EndIsGentle
<1>3. CASE Amqp!EndFails \/ Amqp!EndClose \/ Amqp!EndDone
  <2>1. /\ UNCHANGED <<unused, inUse, resourceCount, waiting, call, leased,
                       created, destroyed, closer, broken, pc, copies, owed>>
        /\ endpc # "idle" /\ endpc' \in {"failed", "closing", "ended"}
        /\ \/ connection' = connection
           \/ /\ connection = "open" /\ connection' = "closed"
              /\ closer[End] = "closed"
    BY <1>3 DEF Amqp!EndFails, Amqp!EndClose, Amqp!EndDone
  <2>2. Typed'
    BY <2>1 DEF Typed, Amqp!Connections
  <2>3. CallsMatch' /\ EndMatches' /\ OwedAnswered' /\ FailsForReason'
    BY <2>1 DEF CallsMatch, EndMatches, OwedAnswered, FailsForReason
  <2>4. EndIsGentle'
    <3>1. CASE connection' = connection
      BY <2>1, <3>1 DEF EndIsGentle
    <3>2. CASE connection = "open" /\ closer[End] = "closed"
      <4>1. /\ \A o \in owed : o \in Publishes /\ pc[o] \in {"resolved", "rejected"}
            /\ (\E o \in owed : pc[o] = "rejected") => broken # {}
        BY <3>2 DEF OwedAnswered, FailsForReason, Typed, Settled
      <4> QED BY <2>1, <4>1 DEF EndIsGentle
    <3> QED BY <2>1, <3>1, <3>2
  <2> QED BY <2>2, <2>3, <2>4
<1> QED BY <1>1, <1>2, <1>3 DEF Amqp!EndNext

(* Every step of AmqpBroker preserves the invariant. *)
LEMMA AmqpNextInv ==
  ASSUME IInv, class = "amqp", Amqp!Next, UNCHANGED <<class, line>>
  PROVE  IInv'
<1>1. P!IInv /\ P!IInv' /\ Rest
  <2>1. P!IInv /\ [P!Next]_(P!poolVars)
    BY PoolSteps DEF IInv
  <2> QED BY <2>1, P!NextInv, BrokersAssumption DEF P!PoolAssumption, IInv, Rest
<1>2. Rest'
  BY <1>1, ConnectionInv, EndInv, PublishingInv, WorkingInv, FinishInv
     DEF Amqp!Next, Amqp!PublishNext
<1>3. class' = "amqp"
  OBVIOUS
<1> QED BY <1>1, <1>2, <1>3 DEF Rest, IInv
-----------------------------------------------------------------------------
(* RedisBroker keeps its part of the invariant. *)

\* The commands of RedisBroker.
Commands == Publishes \union {End}

\* The pool of the other class stays as it was made.
LEMMA RedisPoolInv ==
  ASSUME IInv, UNCHANGED amqpOnly
  PROVE  P!IInv'
<1>1. UNCHANGED P!poolVars
  BY DEF amqpOnly, P!poolVars
<1>2. P!PoolAssumption
  BY BrokersAssumption DEF P!PoolAssumption
<1> QED BY <1>1, <1>2, P!NextInv DEF IInv

(* What is sent goes to the end of the line. *)
LEMMA SendFacts ==
  ASSUME line \in Seq(Commands), NEW x \in Commands, line' = Append(line, x)
  PROVE  /\ line' \in Seq(Commands) /\ line' # <<>>
         /\ Len(line) \in Nat /\ Len(line') = Len(line) + 1
         /\ \A i \in 1..Len(line) : line'[i] = line[i] /\ line[i] \in Commands
         /\ line'[Len(line) + 1] = x
OBVIOUS

(* And is executed from the front. *)
LEMMA ExecuteFacts ==
  ASSUME line \in Seq(Commands), line # <<>>, line' = Tail(line)
  PROVE  /\ line' \in Seq(Commands)
         /\ Len(line) \in Nat \ {0} /\ Len(line') = Len(line) - 1
         /\ Head(line) = line[1] /\ 1 \in 1..Len(line)
         /\ \A i \in 1..Len(line') : i + 1 \in 1..Len(line) /\ line'[i] = line[i + 1]
         /\ \A i \in 1..Len(line) : i # 1 =>
              i - 1 \in 1..Len(line') /\ line'[i - 1] = line[i]
OBVIOUS

\* What of the invariant a step of RedisBroker has to keep.
RedisRest == Typed /\ RedisInv /\ EndIsGentle

(* publish() *)
LEMMA RedisPublishInv ==
  ASSUME RedisRest, class = "redis", UNCHANGED <<class, amqpOnly>>,
         NEW o \in Publishes, Redis!Publish(o)
  PROVE  RedisRest'
<1> USE BrokersAssumption DEF RedisRest, RedisInv
<1>1. /\ pc[o] = "idle"
      /\ UNCHANGED <<connection, copies, endpc, owed, broken, created>>
  BY DEF Redis!Publish, amqpOnly
<1>2. o \notin owed /\ owed \in SUBSET Publishes
  BY <1>1 DEF OwedAhead, Typed
<1>3. CASE connection = "open"
  <2>1. pc' = [pc EXCEPT ![o] = "sent"] /\ line' = Append(line, o)
    BY <1>3 DEF Redis!Publish
  <2>2. pc'[o] = "sent" /\ \A w \in Publishes \ {o} : pc'[w] = pc[w]
    BY <2>1 DEF Typed
  <2>3. /\ line' \in Seq(Commands)
        /\ Len(line) \in Nat /\ Len(line') = Len(line) + 1
        /\ \A i \in 1..Len(line) : line'[i] = line[i] /\ line[i] \in Commands
        /\ line'[Len(line) + 1] = o
    BY <2>1, SendFacts DEF Typed, Commands
  <2>4. 1..Len(line') = 1..Len(line) \union {Len(line) + 1}
    BY <2>3
  <2>5. \A i \in 1..Len(line) : line[i] # o
    BY <1>1 DEF LineIsSent
  <2>6. Typed'
    BY <1>1, <2>1, <2>3 DEF Typed, Commands
  <2>7. LineIsSent'
    <3>1. \A i \in 1..Len(line) : line[i] # End => line[i] \in Publishes \ {o}
      BY <2>3, <2>5 DEF Commands
    <3>2. \A w \in Publishes : pc'[w] \in {"idle", "sent", "executed"} \union Settled
      BY <2>2 DEF LineIsSent
    <3>3. \A i \in 1..Len(line') : line'[i] # End => pc'[line'[i]] = "sent"
      BY <2>2, <2>3, <2>4, <3>1 DEF LineIsSent
    <3>4. \A i, j \in 1..Len(line') : line'[i] = line'[j] /\ line'[i] # End => i = j
      BY <2>3, <2>4, <2>5 DEF LineIsSent
    <3>5. \A w \in Publishes : pc'[w] = "sent" => \E i \in 1..Len(line') : line'[i] = w
      BY <2>2, <2>3, <2>4 DEF LineIsSent
    <3> QED BY <1>1, <1>3, <3>2, <3>3, <3>4, <3>5 DEF LineIsSent
  <2>8. OwedAhead'
    BY <1>1, <1>2, <2>2, <2>3, <2>4 DEF OwedAhead
  <2>9. EndIsGentle'
    BY <1>1, <1>3 DEF EndIsGentle
  <2> QED BY <2>6, <2>7, <2>8, <2>9
<1>4. CASE connection # "open"
  <2>1. pc' = [pc EXCEPT ![o] = "rejected"] /\ line' = line
    BY <1>4 DEF Redis!Publish
  <2>2. pc'[o] = "rejected" /\ \A w \in Publishes \ {o} : pc'[w] = pc[w]
    BY <2>1 DEF Typed
  <2>3. line = <<>> /\ 1..Len(line) = {}
    BY <1>4 DEF LineIsSent
  <2>4. Typed'
    BY <1>1, <2>1 DEF Typed, Settled
  <2>5. LineIsSent' /\ OwedAhead' /\ EndIsGentle'
    BY <1>1, <1>2, <2>1, <2>2, <2>3
       DEF LineIsSent, OwedAhead, EndIsGentle, Settled
  <2> QED BY <2>4, <2>5
<1> QED BY <1>3, <1>4

(* The server takes the next LPUSH. *)
LEMMA RedisExecuteInv ==
  ASSUME RedisRest, class = "redis", UNCHANGED <<class, amqpOnly>>,
         NEW o \in Publishes, Redis!Execute(o)
  PROVE  RedisRest'
<1> USE BrokersAssumption DEF RedisRest, RedisInv
<1>1. /\ line # <<>> /\ Head(line) = o /\ line' = Tail(line)
      /\ pc' = [pc EXCEPT ![o] = "executed"]
      /\ copies' = [copies EXCEPT ![o] = @ + 1]
      /\ UNCHANGED <<connection, endpc, owed, broken, created>>
  BY DEF Redis!Execute, amqpOnly
<1>2. /\ line' \in Seq(Commands)
      /\ Len(line) \in Nat \ {0} /\ Len(line') = Len(line) - 1
      /\ line[1] = o /\ 1 \in 1..Len(line)
      /\ \A i \in 1..Len(line') : i + 1 \in 1..Len(line) /\ line'[i] = line[i + 1]
      /\ \A i \in 1..Len(line) : i # 1 =>
           i - 1 \in 1..Len(line') /\ line'[i - 1] = line[i]
  BY <1>1, ExecuteFacts DEF Typed, Commands
<1>3. pc'[o] = "executed" /\ \A w \in Publishes \ {o} : pc'[w] = pc[w]
  BY <1>1 DEF Typed
<1>4. connection = "open" /\ pc[o] = "sent" /\ o # End
  BY <1>1, <1>2 DEF LineIsSent
<1>5. Typed'
  BY <1>1, <1>2 DEF Typed, Commands
<1>6. LineIsSent'
  <2>1. \A i \in 1..Len(line') : line'[i] # o /\ i + 1 # 1
    BY <1>2, <1>4 DEF LineIsSent
  <2>2. \A i \in 1..Len(line') : line'[i] # End => line'[i] \in Publishes \ {o}
    BY <1>2, <2>1 DEF Typed, Commands
  <2>3. \A i \in 1..Len(line') : line'[i] # End => pc'[line'[i]] = "sent"
    BY <1>2, <1>3, <2>2 DEF LineIsSent
  <2>4. ASSUME NEW i \in 1..Len(line'), NEW j \in 1..Len(line'),
               line'[i] = line'[j], line'[i] # End
        PROVE  i = j
    <3>1. i + 1 = j + 1
      BY <1>2, <2>4 DEF LineIsSent
    <3> QED BY <3>1
  <2>5. ASSUME NEW w \in Publishes, pc'[w] = "sent"
        PROVE  \E i \in 1..Len(line') : line'[i] = w
    <3>1. PICK i \in 1..Len(line) : line[i] = w
      BY <1>3, <2>5 DEF LineIsSent
    <3>2. i # 1
      BY <1>2, <1>3, <2>5, <3>1
    <3> QED BY <1>2, <3>1, <3>2
  <2>6. \A w \in Publishes : pc'[w] \in {"idle", "sent", "executed"} \union Settled
    BY <1>3 DEF LineIsSent
  <2> QED BY <1>1, <1>4, <2>3, <2>4, <2>5, <2>6 DEF LineIsSent
<1>7. OwedAhead'
  <2>1. endpc' = "idle" => /\ owed' = {} /\ connection' = "open"
                           /\ \A i \in 1..Len(line') : line'[i] # End
    BY <1>1, <1>2 DEF OwedAhead
  <2>2. ASSUME NEW w \in owed, pc'[w] \notin {"executed", "resolved"}
        PROVE  /\ pc'[w] = "sent"
               /\ \A i \in 1..Len(line') : line'[i] = End
                    => \E j \in 1..Len(line') : j < i /\ line'[j] = w
    <3>1. w \in Publishes /\ w # o /\ pc'[w] = pc[w]
      BY <1>3, <2>2 DEF Typed
    <3>2. ASSUME NEW i \in 1..Len(line'), line'[i] = End
          PROVE  \E j \in 1..Len(line') : j < i /\ line'[j] = w
      <4>1. PICK j \in 1..Len(line) : j < i + 1 /\ line[j] = w
        BY <1>2, <2>2, <3>1, <3>2 DEF OwedAhead
      <4>2. j # 1
        BY <1>2, <3>1, <4>1
      <4>3. j - 1 \in 1..Len(line') /\ line'[j - 1] = w /\ j - 1 < i
        BY <1>2, <4>1, <4>2
      <4> QED BY <4>3
    <3> QED BY <2>2, <3>1, <3>2 DEF OwedAhead
  <2> QED BY <1>1, <2>1, <2>2 DEF OwedAhead
<1>8. EndIsGentle'
  BY <1>1, <1>4 DEF EndIsGentle
<1> QED BY <1>5, <1>6, <1>7, <1>8

(* end() sends QUIT behind whatever is in flight. *)
LEMMA RedisEndCallInv ==
  ASSUME RedisRest, class = "redis", UNCHANGED <<class, amqpOnly>>, Redis!EndCall
  PROVE  RedisRest'
<1> USE BrokersAssumption DEF RedisRest, RedisInv
<1>1. /\ endpc = "idle" /\ endpc' = "quitting"
      /\ owed' = {o \in Publishes : pc[o] \in {"sent", "executed"}}
      /\ line' = Append(line, End)
      /\ UNCHANGED <<connection, pc, copies, broken, created>>
  BY DEF Redis!EndCall, amqpOnly
<1>2. /\ line' \in Seq(Commands)
      /\ Len(line) \in Nat /\ Len(line') = Len(line) + 1
      /\ \A i \in 1..Len(line) : line'[i] = line[i] /\ line[i] \in Commands
      /\ line'[Len(line) + 1] = End
  BY <1>1, SendFacts DEF Typed, Commands
<1>3. 1..Len(line') = 1..Len(line) \union {Len(line) + 1}
  BY <1>2
<1>4. connection = "open" /\ \A i \in 1..Len(line) : line[i] # End
  BY <1>1 DEF OwedAhead
<1>5. Typed'
  BY <1>1, <1>2 DEF Typed, Commands
<1>6. LineIsSent'
  BY <1>1, <1>2, <1>3, <1>4 DEF LineIsSent
<1>7. OwedAhead'
  <2>1. ASSUME NEW o \in owed', pc[o] # "executed", NEW i \in 1..Len(line'),
               line'[i] = End
        PROVE  \E j \in 1..Len(line') : j < i /\ line'[j] = o
    <3>1. i = Len(line) + 1
      BY <1>2, <1>3, <1>4, <2>1
    <3>2. PICK j \in 1..Len(line) : line[j] = o
      BY <1>1, <2>1 DEF LineIsSent
    <3> QED BY <1>2, <1>3, <3>1, <3>2
  <2> QED BY <1>1, <2>1 DEF OwedAhead
<1>8. EndIsGentle'
  BY <1>1, <1>4 DEF EndIsGentle
<1> QED BY <1>5, <1>6, <1>7, <1>8

(* The server closes the connection: nothing end() owes an answer is left  *)
(* in line.                                                                *)
LEMMA RedisExecuteQuitInv ==
  ASSUME RedisRest, class = "redis", UNCHANGED <<class, amqpOnly>>,
         Redis!ExecuteQuit
  PROVE  RedisRest'
<1> USE BrokersAssumption DEF RedisRest, RedisInv
<1>1. /\ line # <<>> /\ Head(line) = End /\ line' = <<>>
      /\ connection' = "closed" /\ endpc' = "destroying"
      /\ pc' = [o \in Publishes |-> IF pc[o] = "sent" THEN "rejected" ELSE pc[o]]
      /\ UNCHANGED <<copies, owed, broken, created>>
  BY DEF Redis!ExecuteQuit, Redis!Rejected, Redis!Sent, amqpOnly
<1>2. 1 \in 1..Len(line) /\ line[1] = End /\ 1..Len(line') = {}
  BY <1>1 DEF Typed
<1>3. \A o \in owed : o \in Publishes /\ pc'[o] \in {"executed", "resolved"}
  BY <1>1, <1>2 DEF OwedAhead, Typed
<1>4. Typed'
  BY <1>1 DEF Typed, Settled, Amqp!Connections
<1>5. LineIsSent'
  BY <1>1, <1>2 DEF LineIsSent, Settled
<1>6. OwedAhead'
  BY <1>1, <1>2, <1>3 DEF OwedAhead
<1>7. EndIsGentle'
  BY <1>1, <1>3 DEF EndIsGentle
<1> QED BY <1>4, <1>5, <1>6, <1>7

(* disconnect() closes the socket before end() could owe anybody anything. *)
LEMMA RedisDisconnectInv ==
  ASSUME RedisRest, class = "redis", UNCHANGED <<class, amqpOnly>>,
         Redis!Disconnect
  PROVE  RedisRest'
<1> USE BrokersAssumption DEF RedisRest, RedisInv
<1>1. /\ endpc = "idle" /\ endpc' = "ended" /\ line' = <<>>
      /\ connection' = "closed"
      /\ pc' = [o \in Publishes |-> IF pc[o] \in {"sent", "executed"}
                                    THEN "rejected" ELSE pc[o]]
      /\ UNCHANGED <<owed, broken, created>>
  BY DEF Redis!Disconnect, Redis!Rejected, amqpOnly
<1>2. owed = {} /\ 1..Len(line') = {}
  BY <1>1 DEF OwedAhead
<1>3. copies' \in [Publishes -> Nat]
  BY DEF Redis!Disconnect, Typed
<1>4. Typed'
  BY <1>1, <1>3 DEF Typed, Settled, Amqp!Connections
<1>5. LineIsSent'
  BY <1>1, <1>2 DEF LineIsSent, Settled
<1>6. OwedAhead' /\ EndIsGentle'
  BY <1>1, <1>2 DEF OwedAhead, EndIsGentle
<1> QED BY <1>4, <1>5, <1>6

(* A reply arrives, or that to QUIT does. *)
LEMMA RedisReplyInv ==
  ASSUME RedisRest, class = "redis", UNCHANGED <<class, amqpOnly>>,
         Redis!EndDone \/ \E o \in Publishes : Redis!Reply(o)
  PROVE  RedisRest'
<1> USE BrokersAssumption DEF RedisRest, RedisInv
<1>1. CASE Redis!EndDone
  <2>1. /\ endpc' = "ended"
        /\ UNCHANGED <<connection, line, pc, copies, owed, broken, created>>
    BY <1>1 DEF Redis!EndDone, amqpOnly
  <2>2. Typed'
    BY <2>1 DEF Typed
  <2> QED BY <2>1, <2>2 DEF LineIsSent, OwedAhead, EndIsGentle
<1>2. ASSUME NEW o \in Publishes, Redis!Reply(o)
      PROVE  RedisRest'
  <2>1. /\ pc[o] = "executed" /\ pc' = [pc EXCEPT ![o] = "resolved"]
        /\ UNCHANGED <<connection, line, copies, endpc, owed, broken, created>>
    BY <1>2 DEF Redis!Reply, amqpOnly
  <2>2. pc'[o] = "resolved" /\ \A w \in Publishes \ {o} : pc'[w] = pc[w]
    BY <2>1 DEF Typed
  <2>3. Typed'
    BY <2>1 DEF Typed, Settled
  <2>4. \A i \in 1..Len(line) : line[i] # End => line[i] \in Publishes
    BY DEF Typed
  <2>5. LineIsSent'
    BY <2>1, <2>2, <2>4 DEF LineIsSent, Settled
  <2>6. \A w \in owed : w \in Publishes
    BY DEF Typed
  <2>7. OwedAhead'
    BY <2>1, <2>2, <2>6 DEF OwedAhead
  <2>8. EndIsGentle'
    BY <2>1, <2>2, <2>6 DEF EndIsGentle
  <2> QED BY <2>3, <2>5, <2>7, <2>8
<1> QED BY <1>1, <1>2

(* Every step of RedisBroker preserves the invariant. *)
LEMMA RedisNextInv ==
  ASSUME IInv, class = "redis", Redis!Next, UNCHANGED <<class, amqpOnly>>
  PROVE  IInv'
<1>1. RedisRest
  BY DEF IInv, RedisRest
<1>2. RedisRest'
  BY <1>1, RedisPublishInv, RedisExecuteInv, RedisEndCallInv, RedisExecuteQuitInv,
     RedisDisconnectInv, RedisReplyInv DEF Redis!Next, Redis!ServerNext
<1>3. P!IInv'
  BY RedisPoolInv
<1>4. class' = "redis"
  OBVIOUS
<1> QED BY <1>2, <1>3, <1>4 DEF RedisRest, IInv
-----------------------------------------------------------------------------
(* Every step preserves the invariant. *)
LEMMA NextInv == IInv /\ [Next]_vars => IInv'
<1> SUFFICES ASSUME IInv, [Next]_vars PROVE IInv'
  OBVIOUS
<1>1. CASE class = "amqp" /\ Amqp!Next /\ UNCHANGED <<class, line>>
  BY <1>1, AmqpNextInv
<1>2. CASE class = "redis" /\ Redis!Next /\ UNCHANGED <<class, amqpOnly>>
  BY <1>2, RedisNextInv
<1>3. CASE UNCHANGED vars
  <2>1. UNCHANGED amqpOnly
    BY <1>3 DEF vars
  <2>2. P!IInv'
    BY <2>1, RedisPoolInv
  <2>3. /\ UNCHANGED <<unused, inUse, resourceCount, waiting, call, leased,
                       created, destroyed, closer, broken>>
        /\ UNCHANGED <<class, line, connection, pc, copies, endpc, owed>>
    BY <1>3 DEF vars, amqpOnly
  <2>4. Typed' /\ EndIsGentle'
    BY <2>3 DEF IInv, Typed, EndIsGentle
  <2>5. (class = "amqp" => AmqpInv)'
    BY <2>3 DEF IInv, AmqpInv, CallsMatch, EndMatches, OwedAnswered, FailsForReason
  <2>6. (class = "redis" => RedisInv)'
    BY <2>3 DEF IInv, RedisInv, LineIsSent, OwedAhead
  <2> QED BY <2>2, <2>4, <2>5, <2>6 DEF IInv
<1> QED BY <1>1, <1>2, <1>3 DEF Next

(* The invariant holds in every reachable state. *)
LEMMA Invariant == Spec => []IInv
<1>1. Init => IInv
  BY InitInv
<1> QED BY <1>1, NextInv, PTL DEF Spec

(* When end() has closed the connection, each publish() it had to wait for *)
(* has been answered, and rejected only if the server had closed a channel *)
(* itself: for any number of publish() calls, with either class.           *)
THEOREM EndAlwaysGentle == Spec => []EndIsGentle
<1>1. IInv => EndIsGentle
  BY DEF IInv
<1> QED BY <1>1, Invariant, PTL
-----------------------------------------------------------------------------
(* Both classes implement MessageBroker.                                   *)

\* The variables of MessageBroker, as MessageBrokerSpec reads them.
promise == [o \in Publishes |-> Promise(pc[o])]
link    == IF connection \in {"connecting", "open"} THEN "open" ELSE "closed"
repeats == class = "amqp"

\* What publish() has returned, by how far it has come.
LEMMA PromiseFacts ==
  /\ Promise("idle") = "none" /\ Promise("resolved") = "resolved"
  /\ Promise("rejected") = "rejected"
  /\ \A label \in {"called", "sent", "executed"} \union Amqp!Working :
       Promise(label) = "pending"
BY DEF Promise, Settled, Amqp!Working

\* One step: each message moves as MessageBroker lets it.
Simulates ==
  /\ \A o \in Publishes : Broker!Moves(o)
  /\ link' \in {link, "closed"} /\ repeats' = repeats
  /\ HandedOver'

(* The steps of AmqpBroker that settle no promise and hand nothing over. *)
LEMMA AmqpQuiet ==
  ASSUME IInv, HandedOver, class = "amqp", UNCHANGED <<class, copies>>,
         link' \in {link, "closed"},
         \A o \in Publishes : \/ pc'[o] = pc[o]
                              \/ /\ pc[o] \in {"called"} \union (Amqp!Working \ {"flushed"})
                                 /\ pc'[o] \in {"called"} \union (Amqp!Working \ {"flushed"})
  PROVE  Simulates
<1>1. \A o \in Publishes : promise'[o] = promise[o]
  BY PromiseFacts DEF promise
<1>2. \A o \in Publishes : Broker!Moves(o)
  BY <1>1 DEF Broker!Moves, promise
<1>3. HandedOver'
  BY DEF HandedOver, Amqp!Working
<1> QED BY <1>2, <1>3 DEF Simulates, repeats

(* Every step of AmqpBroker. *)
LEMMA AmqpSimulates ==
  ASSUME IInv, HandedOver, class = "amqp", Amqp!Next,
         UNCHANGED <<class, line>>
  PROVE  Simulates
<1> USE DEF Amqp!endVars, Amqp!poolVars, Amqp!To
<1>1. /\ pc \in [Publishes -> {"idle", "called", "sent", "executed"}
                               \union Amqp!Working \union Settled]
      /\ copies \in [Publishes -> Nat]
  BY DEF IInv, Typed
<1>2. ASSUME Amqp!Connect \/ Amqp!Lose \/ Amqp!EndCall \/ Amqp!EndNext
      PROVE  Simulates
  <2>1. UNCHANGED <<pc, copies>> /\ link' \in {link, "closed"}
    BY <1>2 DEF Amqp!Connect, Amqp!Lose, Amqp!EndCall, Amqp!EndNext,
                Amqp!EndDestroy, Amqp!EndFails, Amqp!EndDestroyed, Amqp!EndClose,
                Amqp!EndDone, link
  <2> QED BY <2>1, AmqpQuiet
<1>3. ASSUME NEW o \in Publishes,
             \/ Amqp!AssertOk(o) \/ Amqp!AssertFails(o)
             \/ Amqp!WriteThrows(o) \/ Amqp!Drain(o)
             \/ Amqp!OpenChannel(o) \/ Amqp!Begin(o)
      PROVE  Simulates
  <2>1. UNCHANGED <<copies, connection>>
    BY <1>3 DEF Amqp!AssertOk, Amqp!AssertFails, Amqp!WriteThrows,
                Amqp!Drain, Amqp!OpenChannel, Amqp!Begin, Amqp!Works
  <2>2. CASE Amqp!OpenChannel(o)
    BY <2>1, <2>2, AmqpQuiet DEF Amqp!OpenChannel, link
  <2>3. CASE Amqp!Begin(o)
    <3>1. pc[o] = "called" /\ pc' = [pc EXCEPT ![o] = IF Amqp!Usable(leased[o])
                                                     THEN "asserting" ELSE "failed"]
      BY <2>3, PoolCreate DEF Amqp!Begin, IInv, AmqpInv, CallsMatch
    <3>2. \/ pc' = [pc EXCEPT ![o] = "asserting"]
          \/ pc' = [pc EXCEPT ![o] = "failed"]
      BY <3>1
    <3> QED BY <1>1, <2>1, <3>1, <3>2, AmqpQuiet DEF link, Amqp!Working
  <2>4. CASE \/ Amqp!AssertOk(o) \/ Amqp!AssertFails(o)
             \/ Amqp!WriteThrows(o) \/ Amqp!Drain(o)
    <3>1. PICK from, to \in Amqp!Working \ {"flushed"} :
            pc[o] = from /\ pc' = [pc EXCEPT ![o] = to]
      BY <2>4 DEF Amqp!AssertOk, Amqp!AssertFails, Amqp!WriteThrows,
                  Amqp!Drain, Amqp!Works, Amqp!Working
    <3> QED BY <1>1, <2>1, <3>1, AmqpQuiet DEF link
  <2> QED BY <1>3, <2>2, <2>3, <2>4
<1>4. ASSUME NEW o \in Publishes, NEW to,
             pc' = [pc EXCEPT ![o] = to], UNCHANGED <<copies, connection>>,
             \/ pc[o] = "idle" /\ to = "called"
             \/ pc[o] \in {"called", "failed"} /\ to = "rejected"
             \/ pc[o] = "flushed" /\ to = "resolved"
      PROVE  Simulates
  <2>1. pc'[o] = to /\ \A w \in Publishes \ {o} : pc'[w] = pc[w]
    BY <1>1, <1>4
  <2>2. HandedOver'
    BY <1>4, <2>1 DEF HandedOver
  <2>3. \A w \in Publishes \ {o} : promise'[w] = promise[w]
    BY <2>1 DEF promise
  <2>4. \/ promise[o] = "none" /\ promise'[o] = "pending"
        \/ promise[o] = "pending" /\ promise'[o] = "rejected"
        \/ promise[o] = "pending" /\ promise'[o] = "resolved" /\ copies[o] > 0
    BY <1>4, <2>1, PromiseFacts DEF promise, HandedOver, Amqp!Working
  <2>5. \A w \in Publishes : Broker!Moves(w)
    BY <1>4, <2>3, <2>4 DEF Broker!Moves, Broker!Publish, Broker!Reject,
                            Broker!Resolve, promise
  <2> QED BY <1>4, <2>2, <2>5 DEF Simulates, link, repeats
<1>5. ASSUME NEW o \in Publishes,
             Amqp!Publish(o) \/ Amqp!ChannelFails(o) \/ Amqp!Finish(o)
      PROVE  Simulates
  <2>1. CASE Amqp!Publish(o)
    BY <1>4, <2>1 DEF Amqp!Publish
  <2>2. CASE Amqp!ChannelFails(o)
    <3>1. pc[o] = "called"
      BY <2>2, PoolCreate DEF Amqp!ChannelFails, IInv, AmqpInv, CallsMatch
    <3> QED BY <1>4, <2>2, <3>1 DEF Amqp!ChannelFails
  <2>3. CASE Amqp!Finish(o)
    BY <1>4, <2>3 DEF Amqp!Finish
  <2> QED BY <1>5, <2>1, <2>2, <2>3
<1>6. ASSUME NEW o \in Publishes, NEW to \in {"flushed", "draining"},
             Amqp!Write(o, to)
      PROVE  Simulates
  <2>1. /\ pc[o] = "ready" /\ pc' = [pc EXCEPT ![o] = to]
        /\ copies' = [copies EXCEPT ![o] = IF @ = 0 THEN 1 ELSE 2]
        /\ connection = "open" /\ connection' = connection
    BY <1>6 DEF Amqp!Write, Amqp!Works, Amqp!Usable
  <2>2. /\ pc'[o] = to /\ \A w \in Publishes \ {o} : pc'[w] = pc[w]
        /\ copies'[o] = IF copies[o] = 0 THEN 1 ELSE 2
        /\ \A w \in Publishes \ {o} : copies'[w] = copies[w]
    BY <1>1, <2>1
  <2>3. HandedOver'
    BY <2>2 DEF HandedOver
  <2>4. /\ \A w \in Publishes \ {o} : promise'[w] = promise[w]
        /\ promise[o] = "pending" /\ promise'[o] = "pending"
    BY <2>1, <2>2, PromiseFacts DEF promise, Amqp!Working
  <2>5. \A w \in Publishes : Broker!Moves(w)
    BY <2>1, <2>2, <2>4 DEF Broker!Moves, Broker!HandOver, promise
  <2> QED BY <2>1, <2>3, <2>5 DEF Simulates, link, repeats
<1> QED BY <1>2, <1>3, <1>5, <1>6
        DEF Amqp!Next, Amqp!PublishNext, Amqp!WriteOk, Amqp!WriteFull

(* Every step of RedisBroker; disconnect() moves all that is in line.      *)
LEMMA RedisSimulates ==
  ASSUME IInv, HandedOver, class = "redis", Redis!Next, UNCHANGED <<class, amqpOnly>>
  PROVE  Simulates
<1>1. /\ pc \in [Publishes -> {"idle", "called", "sent", "executed"}
                               \union Amqp!Working \union Settled]
      /\ copies \in [Publishes -> Nat] /\ line \in Seq(Publishes \union {End})
      /\ connection \in {"open", "closed"}
      /\ line # <<>> => connection = "open"
      /\ \A o \in Publishes : pc[o] \in {"idle", "sent", "executed"} \union Settled
      /\ \A i \in 1..Len(line) : line[i] # End => pc[line[i]] = "sent"
      /\ End \notin Publishes
  BY BrokersAssumption DEF IInv, Typed, RedisInv, LineIsSent
<1>2. CASE Redis!EndCall \/ Redis!EndDone
  <2>1. UNCHANGED <<pc, copies, connection>>
    BY <1>2 DEF Redis!EndCall, Redis!EndDone
  <2>2. HandedOver' /\ \A o \in Publishes : promise'[o] = promise[o]
    BY <2>1 DEF HandedOver, promise
  <2> QED BY <2>1, <2>2 DEF Simulates, Broker!Moves, promise, link,
                                repeats
<1>3. CASE Redis!ExecuteQuit
  <2>1. /\ pc' = [o \in Publishes |-> IF pc[o] = "sent" THEN "rejected" ELSE pc[o]]
        /\ copies' = copies /\ connection' = "closed"
    BY <1>3 DEF Redis!ExecuteQuit, Redis!Rejected, Redis!Sent
  <2>2. HandedOver'
    BY <2>1 DEF HandedOver
  <2>3. \A o \in Publishes : \/ promise'[o] = promise[o]
                             \/ promise[o] = "pending" /\ promise'[o] = "rejected"
    BY <2>1, PromiseFacts DEF promise
  <2> QED BY <2>1, <2>2, <2>3 DEF Simulates, Broker!Moves, Broker!Reject, promise, link,
                                repeats
<1>4. ASSUME NEW o \in Publishes, Redis!Publish(o) \/ Redis!Reply(o)
      PROVE  Simulates
  <2>1. PICK to : /\ pc' = [pc EXCEPT ![o] = to]
                  /\ UNCHANGED <<copies, connection>>
                  /\ \/ pc[o] = "idle" /\ to \in {"sent", "rejected"}
                     \/ pc[o] = "executed" /\ to = "resolved"
    BY <1>4 DEF Redis!Publish, Redis!Reply
  <2>2. pc'[o] = to /\ \A w \in Publishes \ {o} : pc'[w] = pc[w]
    BY <1>1, <2>1
  <2>3. HandedOver'
    BY <2>1, <2>2 DEF HandedOver
  <2>4. /\ \A w \in Publishes \ {o} : promise'[w] = promise[w]
        /\ \/ promise[o] = "none" /\ promise'[o] \in {"pending", "rejected"}
           \/ promise[o] = "pending" /\ promise'[o] = "resolved" /\ copies[o] > 0
    BY <2>1, <2>2, PromiseFacts DEF promise, HandedOver
  <2>5. \A w \in Publishes : Broker!Moves(w)
    BY <2>1, <2>4 DEF Broker!Moves, Broker!Publish, Broker!Resolve, promise
  <2> QED BY <2>1, <2>3, <2>5 DEF Simulates, link, repeats
<1>5. ASSUME NEW o \in Publishes, Redis!Execute(o)
      PROVE  Simulates
  <2>1. /\ line # <<>> /\ Head(line) = o
        /\ pc' = [pc EXCEPT ![o] = "executed"]
        /\ copies' = [copies EXCEPT ![o] = @ + 1]
        /\ connection' = connection
    BY <1>5 DEF Redis!Execute
  <2>2. 1 \in 1..Len(line) /\ line[1] = o
    BY <1>1, <2>1
  <2>3. pc[o] = "sent" /\ connection = "open"
    BY <1>1, <2>1, <2>2
  <2>4. /\ pc'[o] = "executed" /\ \A w \in Publishes \ {o} : pc'[w] = pc[w]
        /\ copies[o] = 0 /\ copies'[o] = 1
        /\ \A w \in Publishes \ {o} : copies'[w] = copies[w]
    BY <1>1, <2>1, <2>3 DEF HandedOver
  <2>5. HandedOver'
    BY <2>4 DEF HandedOver
  <2>6. /\ \A w \in Publishes \ {o} : promise'[w] = promise[w]
        /\ promise[o] = "pending" /\ promise'[o] = "pending"
    BY <2>3, <2>4, PromiseFacts DEF promise
  <2>7. \A w \in Publishes : Broker!Moves(w)
    BY <2>3, <2>4, <2>6 DEF Broker!Moves, Broker!HandOver, promise
  <2> QED BY <2>1, <2>5, <2>7 DEF Simulates, link, repeats
<1>6. CASE Redis!Disconnect
  <2>1. /\ pc' = [o \in Publishes |-> IF pc[o] \in {"sent", "executed"}
                                      THEN "rejected" ELSE pc[o]]
        /\ connection' = "closed"
    BY <1>6 DEF Redis!Disconnect, Redis!Rejected
  <2>2. PICK n \in 0..Len(line) :
          copies' = [o \in Publishes |->
                       copies[o] + IF \E i \in 1..n : line[i] = o THEN 1 ELSE 0]
    BY <1>6 DEF Redis!Disconnect
  <2>3. ASSUME NEW o \in Publishes
        PROVE  \/ copies'[o] = copies[o]
               \/ /\ pc[o] = "sent" /\ connection = "open"
                  /\ copies[o] = 0 /\ copies'[o] = 1
    <3>1. CASE \E i \in 1..n : line[i] = o
      <4>1. PICK i \in 1..n : line[i] = o
        BY <3>1
      <4>2. i \in 1..Len(line) /\ line # <<>> /\ o # End
        BY <1>1, <4>1
      <4>3. pc[o] = "sent" /\ connection = "open"
        BY <1>1, <4>1, <4>2
      <4>4. copies[o] = 0
        BY <4>3 DEF HandedOver
      <4> QED BY <2>2, <3>1, <4>3, <4>4
    <3>2. CASE ~ \E i \in 1..n : line[i] = o
      BY <1>1, <2>2, <3>2
    <3> QED BY <3>1, <3>2
  <2>4. HandedOver'
    BY <1>1, <2>1, <2>3 DEF HandedOver, Settled
  <2>5. \A o \in Publishes :
          /\ \/ promise'[o] = promise[o]
             \/ promise[o] = "pending" /\ promise'[o] = "rejected"
          /\ pc[o] = "sent" => promise[o] = "pending" /\ promise'[o] = "rejected"
    BY <2>1, PromiseFacts DEF promise
  <2>6. \A o \in Publishes : Broker!Moves(o)
    BY <2>3, <2>5 DEF Broker!Moves, Broker!Reject, Broker!HandOver, promise
  <2> QED BY <2>1, <2>4, <2>6 DEF Simulates, link, repeats
<1> QED BY <1>2, <1>3, <1>4, <1>5, <1>6 DEF Redis!Next, Redis!ServerNext

(* A step of either class is a step of MessageBroker. *)
LEMMA StepSimulates ==
  ASSUME IInv, IInv', HandedOver, [Next]_vars
  PROVE  HandedOver' /\ [Broker!Next]_<<promise, copies, link, repeats>>
<1>1. CASE Next
  <2>1. Simulates
    BY <1>1, AmqpSimulates, RedisSimulates DEF Next
  <2>2. promise' \in [Publishes -> {"none", "pending", "resolved", "rejected"}]
    <3>1. \A o \in Publishes :
            Promise(pc'[o]) \in {"none", "pending", "resolved", "rejected"}
      BY PromiseFacts DEF IInv, Typed, Settled
    <3> QED BY <3>1 DEF promise
  <2>3. copies' \in [Publishes -> 0..2]
    BY <2>1 DEF Simulates, HandedOver, IInv, Typed
  <2> QED BY <2>1, <2>2, <2>3 DEF Simulates, Broker!Next, promise, link, repeats
<1>2. CASE UNCHANGED vars
  BY <1>2 DEF vars, HandedOver, promise, link, repeats
<1> QED BY <1>1, <1>2

(* The initial states are MessageBroker's. *)
LEMMA InitSimulates == Init => Broker!Init
<1> SUFFICES ASSUME Init PROVE Broker!Init
  OBVIOUS
<1>1. /\ connection \in {"connecting", "open"}
      /\ pc = [o \in Publishes |-> "idle"] /\ copies = [o \in Publishes |-> 0]
  BY DEF Init, Amqp!Init, Redis!Init
<1>2. promise = [o \in Publishes |-> "none"] /\ link = "open"
  BY <1>1, PromiseFacts DEF promise, link
<1>3. repeats \in BOOLEAN
  BY DEF repeats
<1> QED BY <1>1, <1>2, <1>3 DEF Broker!Init, promise, link, repeats

(* publish() resolves only when its message was handed over, and nothing   *)
(* is handed over after it has settled or through a connection that is     *)
(* gone, whichever class createBroker() chose and however channels are     *)
(* lost, refused or closed under it; Redis hands a message over once.      *)
THEOREM ImplementsMessageBroker == Spec => MessageBrokerSpec
<1>1. IInv /\ IInv' /\ HandedOver /\ [Next]_vars
        => HandedOver' /\ [Broker!Next]_<<promise, copies, link, repeats>>
  BY StepSimulates
<1>2. Init => Broker!Init /\ HandedOver
  BY InitInv, InitSimulates
<1> QED BY <1>1, <1>2, Invariant, PTL
        DEF Spec, MessageBrokerSpec, Broker!Spec, promise, link, repeats

(* Type correctness: of the pool, of publish() and end(), and of the line  *)
(* for the server of Redis.                                                *)
THEOREM TypeCorrect == Spec => []TypeOK
<1>1. IInv /\ IInv' /\ HandedOver /\ [Next]_vars => HandedOver'
  BY StepSimulates
<1>2. Init => HandedOver
  BY InitInv
<1>3. IInv /\ HandedOver => TypeOK
  <2>1. P!TypeOK => Amqp!Pool!TypeOK
    BY DEF P!TypeOK, Amqp!Pool!TypeOK, P!CallStates, Amqp!Pool!CallStates,
           P!CloserStates, Amqp!Pool!CloserStates
  <2> QED BY <2>1 DEF IInv, P!IInv, Typed, HandedOver, TypeOK
<1> QED BY <1>1, <1>2, <1>3, Invariant, PTL DEF Spec
=============================================================================
