------------------------- MODULE RedisBackendProofs -------------------------
(***************************************************************************)
(* Proofs about RedisBackend, for any calls, tasks, workers and            *)
(* connections: its type invariant, that nothing is sent on the connection *)
(* of the subscription, that a get() is only answered with what was        *)
(* reported or put for its own task, that it implements ResultBackend, and *)
(* that end() is gentle.                                                   *)
(***************************************************************************)
EXTENDS RedisBackend, TLAPS

\* The proofs about the pool and about the map, for those that RedisBackend
\* has.
P == INSTANCE ResourcePoolProofs WITH
  Closers <- {End}, Resources <- Connections, maxResources <- 2,
  CreateMayFail <- FALSE

M == INSTANCE PromiseMapProofs WITH
  Keys <- Tasks, timed <- TRUE, WithClear <- FALSE, maxFollows <- 0,
  follows <- {}, dropped <- {}

(* The inductive invariant: the pool's and the map's own, and what ties    *)
(* them to each other and to what is on its way.                           *)

\* TypeOK but for the pool and the map, of which P!IInv and M!IInv speak.
Typed ==
  /\ program \in Programs
  /\ sub \in {"new", "getting", "subscribing", "replied", "listening"}
  /\ subscriber \in Connections \union {None}
  /\ endpc \in {"idle", "awaiting", "punsubscribing", "destroying", "ended"}
  /\ pc \in [Ops -> {"idle", "called", "sent", "executed", "listening",
                     "answered"}]
  /\ out \in [Ops -> {"pending", "timed out", "rejected", "ok"} \union States]
  /\ held \in [Ops -> Promises \union {None}]
  /\ reply \in [Ops -> States \union {None}]
  /\ value \in [Promises -> States \union {None}]
  /\ line \in [Connections -> Seq(Ops)]
  /\ subscribed \in BOOLEAN
  /\ store \in [Tasks -> States \union {None}]
  /\ wire \in Seq(Messages \union Replies)
  /\ reported \in [Tasks -> SUBSET States]

\* From the end of its get() to EndReturn the constructor has its connection.
Keeps == /\ sub \in {"subscribing", "replied", "listening"}
         /\ endpc \in {"idle", "awaiting", "punsubscribing"}

\* The constructor never queues for a connection, and no command was ever sent
\* on the one that createClient() opened for it; destroyAll() comes last.
SubConnected ==
  /\ call[Sub] # "waiting"
  /\ call[Sub] \in {"granted", "using"} => line[leased[Sub]] = <<>>
  /\ Keeps => /\ call[Sub] = "using" /\ leased[Sub] = subscriber
              /\ closer[End] = "idle"
  /\ endpc \in {"idle", "awaiting"} => closer[End] = "idle"
  /\ \A c \in Connections : line[c] # <<>> => c \in created

\* What the socket of the subscription holds: the reply to PSUBSCRIBE before
\* anything else, that to PUNSUBSCRIBE after everything else.
SocketInOrder ==
  /\ sub \in {"new", "getting"} => ~subscribed /\ wire = <<>>
  /\ sub \in {"new", "getting", "subscribing", "replied"}
       => endpc \in {"idle", "awaiting"}
  /\ endpc \in {"destroying", "ended"} => ~subscribed /\ wire = <<>>
  /\ sub = "subscribing" => subscribed \/ wire = <<>>
  /\ \A i \in 1..Len(wire) :
       /\ wire[i].kind = "subscribed" => i = 1 /\ sub = "subscribing"
       /\ wire[i].kind = "unsubscribed"
            => i = Len(wire) /\ endpc = "punsubscribing" /\ ~subscribed

\* What has been said of task t: by its worker, or by a put() that was executed.
Told(t, status) ==
  \/ status \in reported[t]
  \/ status = "SUCCESS"
     /\ \E w \in Ops : /\ w.kind = "put" /\ w.task = t
                       /\ pc[w] \in {"executed", "answered"}

\* Whatever is answered, stored or published has been said of its task.
AnswersTold ==
  \A o \in Ops : /\ out[o] \in States => Told(o.task, out[o])
                 /\ reply[o] # None => Told(o.task, reply[o])
StoreTold == \A t \in Tasks : store[t] # None => Told(t, store[t])
WireTold ==
  \A i \in 1..Len(wire) :
    wire[i].kind = "message" => Told(wire[i].task, wire[i].status)
AllTold == AnswersTold /\ StoreTold /\ WireTold

\* A promise is of one task, whether the map or a call of get() still has it.
OneTaskEach ==
  /\ \A o \in Ops : pc[o] = "listening" => held[o] # None
  /\ \A o, w \in Ops : held[o] # None /\ held[o] = held[w] => o.task = w.task
  /\ \A o \in Ops, t \in Tasks :
       held[o] # None /\ held[o] = promises[t] => o.task = t
  /\ \A o \in Ops : held[o] # None => state[held[o]] # "unused"
  /\ \A t \in Tasks : promises[t] # None => state[promises[t]] # "unused"

\* And what it was or will be fulfilled with has been said of that task.
ValuesTold ==
  \A p \in Promises : state[p] \in {"committed", "fulfilled"} =>
    /\ \A o \in Ops : held[o] = p => Told(o.task, value[p])
    /\ \A t \in Tasks : promises[t] = p => Told(t, value[p])

IInv ==
  /\ Typed
  /\ P!IInv
  /\ M!IInv
  /\ SubConnected
  /\ SocketInOrder
  /\ AllTold
  /\ OneTaskEach
  /\ ValuesTold

(* What Tail() and Append() do to a sequence. *)
LEMMA Shifted ==
  ASSUME NEW S, NEW s \in Seq(S), s # <<>>
  PROVE  /\ Tail(s) \in Seq(S)
         /\ Head(s) = s[1] /\ Head(s) \in S /\ 1 \in 1..Len(s)
         /\ Len(s) \in Nat /\ Len(Tail(s)) = Len(s) - 1
         /\ \A i \in 1..(Len(s) - 1) : Tail(s)[i] = s[i + 1] /\ i + 1 \in 1..Len(s)
  OBVIOUS

(* What Append() does, by positions.                                        *)
LEMMA Appended ==
  ASSUME NEW S, NEW s \in Seq(S), NEW e \in S
  PROVE  /\ Append(s, e) \in Seq(S)
         /\ Len(s) \in Nat /\ Len(Append(s, e)) = Len(s) + 1
         /\ \A i \in 1..Len(s) : Append(s, e)[i] = s[i]
         /\ Append(s, e)[Len(s) + 1] = e
  OBVIOUS

(* A new backend satisfies the invariant. *)
LEMMA InitInv == Init => IInv
<1> SUFFICES ASSUME Init PROVE IInv
  OBVIOUS
<1> USE RedisBackendAssumption DEF Init
<1>1. P!Init /\ M!Init
  BY DEF Pool!Init, P!Init, Map!Init, M!Init, Map!NoEntry, M!NoEntry
<1>2. P!IInv
  BY <1>1, P!InitInv DEF P!PoolAssumption, Callers
<1>3. M!IInv
  BY <1>1, M!InitInv DEF M!PromiseMapAssumption
<1>4. Typed
  <2>1. \A S : <<>> \in Seq(S)
    OBVIOUS
  <2>2. \A c \in Connections : line[c] = <<>>
    OBVIOUS
  <2>3. line \in [Connections -> Seq(Ops)]
    BY <2>1
  <2>4. wire \in Seq(Messages \union Replies)
    BY <2>1
  <2> QED BY <2>3, <2>4 DEF Typed
<1>5. SubConnected
  BY <1>1 DEF P!Init, SubConnected, Callers, Keeps
<1>6. SocketInOrder /\ AllTold
  BY DEF SocketInOrder, AllTold, AnswersTold, StoreTold, WireTold, States, Final
<1>7. OneTaskEach /\ ValuesTold
  BY <1>1 DEF OneTaskEach, ValuesTold, M!Init
<1> QED BY <1>2, <1>3, <1>4, <1>5, <1>6, <1>7 DEF IInv
-----------------------------------------------------------------------------
(* The pool and the map, when an operation leaves them alone. *)
LEMMA PoolKept ==
  ASSUME P!IInv, UNCHANGED poolVars
  PROVE  P!IInv'
<1>1. [P!Next]_(P!poolVars)
  BY DEF poolVars, P!poolVars
<1> QED BY <1>1, P!NextInv, RedisBackendAssumption DEF P!PoolAssumption, Callers

(* A step that does not touch the map keeps what is proved of it.           *)
LEMMA MapKept ==
  ASSUME M!IInv, UNCHANGED mapVars
  PROVE  M!IInv'
<1>1. [M!Next]_(M!mapVars)
  BY DEF mapVars, M!mapVars
<1> QED BY <1>1, M!NextInv, RedisBackendAssumption DEF M!PromiseMapAssumption
-----------------------------------------------------------------------------
(* What one step of a call does to the rest of the pool: it hands a        *)
(* resource to nobody who does not wait for one.                           *)
LEMMA PoolStep ==
  ASSUME P!IInv, NEW o \in Callers,
         Pool!Get(o) \/ Pool!CreateOk(o) \/ Pool!Resume(o) \/ Pool!Return(o)
  PROVE  /\ P!IInv'
         /\ \A w \in Callers \ {o} : \/ call[w] = "waiting"
                                     \/ call'[w] = call[w] /\ leased'[w] = leased[w]
         /\ created \subseteq created'
         /\ closer[End] = "idle" => closer'[End] = "idle"
         /\ Pool!CreateOk(o) => /\ call[o] = "creating" /\ call'[o] = "granted"
                                /\ leased'[o] \in Connections \ created
         /\ Pool!Resume(o) => /\ call[o] = "granted" /\ call'[o] = "using"
                              /\ leased' = leased
<1>1. /\ call \in [Callers -> P!CallStates]
      /\ leased \in [Callers -> Connections \union {None}]
      /\ closer \in [{End} -> P!CloserStates]
      /\ waiting \in Seq(Callers)
      /\ \A i \in DOMAIN waiting : call[waiting[i]] = "waiting"
  <2>1. P!Range(waiting) = {w \in Callers : call[w] = "waiting"}
    BY DEF P!IInv, P!QueuedIffWaiting
  <2> QED BY <2>1 DEF P!IInv, P!TypeOK, P!Range
<1>2. /\ Pool!Get(o) => P!Get(o)
      /\ Pool!CreateOk(o) => P!CreateOk(o)
      /\ Pool!Resume(o) => P!Resume(o)
      /\ Pool!Return(o) => P!Return(o)
  BY DEF Pool!Get, Pool!TakeUnused, Pool!StartCreate, Pool!Enqueue, P!Get,
         P!TakeUnused, P!StartCreate, P!Enqueue, Pool!CreateOk, P!CreateOk,
         Pool!Resume, P!Resume, Pool!Return, Pool!ReturnToWaiter,
         Pool!ReturnToUnused, Pool!LeavesUse, Pool!HandOver, Pool!Releases,
         Pool!Emitted, P!Return, P!ReturnToWaiter, P!ReturnToUnused,
         P!LeavesUse, P!HandOver, P!Releases, P!Emitted
<1>3. P!IInv'
  <2>1. P!Next
    BY <1>2 DEF P!Next
  <2> QED BY <2>1, P!NextInv, RedisBackendAssumption
          DEF P!PoolAssumption, Callers
<1>4. CASE P!Get(o)
  BY <1>1, <1>3, <1>4 DEF P!Get, P!TakeUnused, P!StartCreate, P!Enqueue,
                          Pool!CreateOk, Pool!Resume
<1>5. CASE P!CreateOk(o)
  BY <1>1, <1>3, <1>5 DEF P!CreateOk, Pool!Resume
<1>6. CASE P!Resume(o)
  BY <1>1, <1>3, <1>6 DEF P!Resume, Pool!CreateOk
<1>7. CASE P!Return(o)
  <2>1. call[o] = "using"
    BY <1>7 DEF P!Return, P!ReturnToWaiter, P!ReturnToUnused, P!LeavesUse
  <2>2. CASE P!ReturnToWaiter(o)
    <3>1. /\ waiting # <<>> /\ closer' = closer /\ created' = created
          /\ call' = [call EXCEPT ![o] = "idle", ![Head(waiting)] = "granted"]
          /\ leased' = [leased EXCEPT ![o] = None, ![Head(waiting)] = leased[o]]
      BY <2>2 DEF P!ReturnToWaiter, P!HandOver
    <3>2. Head(waiting) \in Callers /\ call[Head(waiting)] = "waiting"
      BY <1>1, <3>1
    <3> QED BY <1>1, <1>3, <2>1, <3>1, <3>2 DEF Pool!CreateOk, Pool!Resume
  <2>3. CASE P!ReturnToUnused(o)
    <3>1. /\ created' = created
          /\ call' = [call EXCEPT ![o] = "idle"]
          /\ leased' = [leased EXCEPT ![o] = None]
          /\ closer[End] # "awaiting" => closer'[End] = closer[End]
      BY <2>3 DEF P!ReturnToUnused, P!Releases, P!Emitted
    <3> QED BY <1>1, <1>3, <2>1, <3>1 DEF Pool!CreateOk, Pool!Resume
  <2> QED BY <1>7, <2>2, <2>3 DEF P!Return
<1> QED BY <1>2, <1>4, <1>5, <1>6, <1>7

(* destroyAll() opens no connection.                                       *)
LEMMA PoolEnds ==
  ASSUME P!IInv,
         \/ Pool!ReturnAndDestroyAll(Sub, End)
         \/ Pool!DestroyResume(End) \/ Pool!DestroyDone(End)
  PROVE  /\ P!IInv'
         /\ created' = created
         /\ Pool!ReturnAndDestroyAll(Sub, End)
              => call[Sub] = "using" /\ call'[Sub] = "idle"
         /\ Pool!DestroyResume(End) \/ Pool!DestroyDone(End)
              => closer[End] # "idle" /\ call' = call /\ leased' = leased
<1>1. /\ call \in [Callers -> P!CallStates] /\ Sub \in Callers
      /\ waiting \in Seq(Callers)
      /\ \A i \in DOMAIN waiting : call[waiting[i]] = "waiting"
  <2>1. P!Range(waiting) = {w \in Callers : call[w] = "waiting"}
    BY DEF P!IInv, P!QueuedIffWaiting
  <2> QED BY <2>1 DEF P!IInv, P!TypeOK, P!Range, Callers
<1>2. /\ Pool!ReturnAndDestroyAll(Sub, End) => P!ReturnAndDestroyAll(Sub, End)
      /\ Pool!DestroyResume(End) => P!DestroyResume(End)
      /\ Pool!DestroyDone(End) => P!DestroyDone(End)
  BY DEF Pool!ReturnAndDestroyAll, P!ReturnAndDestroyAll, Pool!DestroyResume,
         P!DestroyResume, Pool!DestroyDone, P!DestroyDone, Pool!DestroyUnused,
         P!DestroyUnused, Pool!LeavesUse, P!LeavesUse, Pool!HandOver,
         P!HandOver, Pool!Releases, P!Releases, Pool!Emitted, P!Emitted,
         Pool!Range, P!Range
<1>3. P!IInv'
  <2>1. P!Next
    BY <1>1, <1>2 DEF P!Next
  <2> QED BY <2>1, P!NextInv, RedisBackendAssumption
          DEF P!PoolAssumption, Callers
<1>4. ASSUME Pool!ReturnAndDestroyAll(Sub, End)
      PROVE  created' = created /\ call[Sub] = "using" /\ call'[Sub] = "idle"
  <2>1. call[Sub] = "using" /\ created' = created
    BY <1>4 DEF Pool!ReturnAndDestroyAll, Pool!LeavesUse
  <2>2. CASE Pool!HandOver(Sub)
    <3>1. /\ waiting # <<>>
          /\ call' = [call EXCEPT ![Sub] = "idle", ![Head(waiting)] = "granted"]
      BY <2>2 DEF Pool!HandOver
    <3>2. Head(waiting) \in Callers /\ call[Head(waiting)] = "waiting"
      BY <1>1, <3>1
    <3> QED BY <1>1, <1>3, <1>4, <2>1, <3>1, <3>2
  <2>3. CASE Pool!Releases(Sub)
    BY <1>1, <1>3, <1>4, <2>1, <2>3 DEF Pool!Releases
  <2> QED BY <1>4, <2>2, <2>3 DEF Pool!ReturnAndDestroyAll
<1>5. ASSUME Pool!DestroyResume(End) \/ Pool!DestroyDone(End)
      PROVE  /\ created' = created
             /\ closer[End] # "idle" /\ call' = call /\ leased' = leased
  BY <1>5 DEF Pool!DestroyResume, Pool!DestroyDone, Pool!DestroyUnused
<1> QED BY <1>3, <1>4, <1>5

-----------------------------------------------------------------------------
(* What a message does to the map: one promise, which is the task's, or was *)
(* nobody's, is resolved.                                                   *)
LEMMA MapResolves ==
  ASSUME M!IInv, NEW t \in Tasks, Map!ResolveValue(t)
  PROVE  /\ M!IInv'
         /\ \E p \in Promises :
              /\ promises' = [promises EXCEPT ![t] = p]
              /\ state' = [state EXCEPT ![p] = "committed"]
              /\ \/ p = promises[t] /\ state[p] = "open"
                 \/ p \in Map!Fresh
<1> USE RedisBackendAssumption DEF M!PromiseMapAssumption
<1>1. M!ResolveValue(t)
  BY DEF Map!ResolveValue, M!ResolveValue, Map!Target, M!Target, Map!Settle,
         M!Settle, Map!Fresh, M!Fresh, Map!Settled, M!Settled, Map!NewTimers,
         M!NewTimers, Map!FreeTimers, M!FreeTimers, Map!Range, M!Range,
         Map!Injection, M!Injection, Map!IsInjective, M!IsInjective
<1>2. M!IInv'
  <2>1. M!Next
    BY <1>1 DEF M!Next
  <2> QED BY <2>1, M!NextInv
<1>3. PICK p \in Promises : /\ Map!Target(t, p)
                            /\ state' = [state EXCEPT ![p] = "committed"]
  BY DEF Map!ResolveValue
<1>4. data[t].functions # None
        => data[t].functions = promises[t] /\ state[promises[t]] = "open"
  BY DEF M!IInv, M!MapsAgree
<1> QED BY <1>2, <1>3, <1>4 DEF Map!Target

(* get() of a task that is not in the map makes it a new promise.           *)
LEMMA MapGets ==
  ASSUME M!IInv, NEW t \in Tasks, Map!Get(t)
  PROVE  /\ M!IInv'
         /\ promises[t] = None
         /\ \E p \in Map!Fresh :
              /\ promises' = [promises EXCEPT ![t] = p]
              /\ state' = [state EXCEPT ![p] = "open"]
<1> USE RedisBackendAssumption DEF M!PromiseMapAssumption
<1>1. M!Get(t)
  BY DEF Map!Get, M!Get, Map!Fresh, M!Fresh, Map!Settled, M!Settled
<1>2. M!IInv'
  <2>1. M!Next
    BY <1>1 DEF M!Next
  <2> QED BY <2>1, M!NextInv
<1> QED BY <1>2 DEF Map!Get

(* The other calls and callbacks give no task a promise, and what they      *)
(* fulfil was resolved before.                                              *)
LEMMA MapGoesOn ==
  ASSUME M!IInv,
         \/ \E t \in Tasks : Map!Delete(t)
         \/ \E timer \in Timers : Map!FireTimer(timer)
         \/ Map!RunJob
  PROVE  /\ M!IInv'
         /\ \A t \in Tasks : promises'[t] \in {promises[t], None}
         /\ \A p \in Promises :
              \/ state'[p] = state[p]
              \/ state'[p] = "rejected"
              \/ state[p] = "committed" /\ state'[p] = "fulfilled"
<1> USE RedisBackendAssumption DEF M!PromiseMapAssumption
<1>1. /\ promises \in [Tasks -> Promises \union {None}]
      /\ state \in [Promises -> {"unused", "open", "committed"} \union M!Settled]
      /\ armed \in [Timers -> Tasks \union {None}]
  BY DEF M!IInv, M!TypeOK
<1>2. CASE \E t \in Tasks : Map!Delete(t)
  <2>1. PICK t \in Tasks : M!Delete(t)
    BY <1>2 DEF Map!Delete, M!Delete, Map!DoDelete, M!DoDelete, Map!NoEntry,
                M!NoEntry
  <2>2. M!Next
    BY <2>1 DEF M!Next
  <2>3. M!IInv'
    BY <2>2, M!NextInv
  <2> QED BY <1>1, <2>1, <2>3 DEF M!Delete, M!DoDelete
<1>3. CASE \E timer \in Timers : Map!FireTimer(timer)
  <2>1. PICK timer \in Timers : M!FireTimer(timer)
    BY <1>3 DEF Map!FireTimer, M!FireTimer, Map!DoDelete, M!DoDelete,
                Map!NoEntry, M!NoEntry
  <2>2. M!Next
    BY <2>1 DEF M!Next
  <2>3. M!IInv'
    BY <2>2, M!NextInv
  <2> QED BY <1>1, <2>1, <2>3 DEF M!FireTimer, M!DoDelete
<1>4. CASE Map!RunJob
  <2>1. M!RunJob
    BY <1>4 DEF Map!RunJob, M!RunJob
  <2>2. M!Next
    BY <2>1 DEF M!Next
  <2>3. M!IInv'
    BY <2>2, M!NextInv
  <2> DEFINE job == jobs[1]
  <2>4. /\ jobs # <<>> /\ promises' = promises
        /\ state' = [state EXCEPT ![Head(jobs).promise] = Head(jobs).status]
    BY <2>1 DEF M!RunJob
  <2>5. 1 \in 1..Len(jobs) /\ Head(jobs) = job
    BY <2>4 DEF M!IInv, M!TypeOK
  <2>6. /\ job \in [key : Tasks, promise : Promises, status : M!Settled]
        /\ [key |-> job.key, promise |-> job.promise] \in M!Pending
    BY <2>5, M!PendingFacts DEF M!IInv
  <2>7. state[job.promise] = "committed" /\ job.status \in M!Settled
    BY <2>6 DEF M!IInv, M!PendingOwns
  <2> QED BY <1>1, <2>3, <2>4, <2>5, <2>7 DEF M!Settled
<1> QED BY <1>2, <1>3, <1>4

-----------------------------------------------------------------------------
(* What is left on the socket once its first reply or message is read: it  *)
(* was there before, and no reply to PSUBSCRIBE.                           *)
WireShifted ==
  \A i \in 1..Len(wire') :
    /\ \E j \in 1..Len(wire) : wire'[i] = wire[j]
    /\ wire'[i].kind # "subscribed"
    /\ wire'[i].kind = "unsubscribed" => /\ i = Len(wire')
                                         /\ endpc = "punsubscribing"
                                         /\ ~subscribed

(* Taking the first thing from the socket moves the others up.              *)
LEMMA WireShifts ==
  ASSUME Typed, SocketInOrder, wire # <<>>, wire' = Tail(wire)
  PROVE  /\ wire' \in Seq(Messages \union Replies)
         /\ Head(wire) = wire[1] /\ 1 \in 1..Len(wire)
         /\ Head(wire) \in Messages \union Replies
         /\ WireShifted
         /\ Head(wire).kind = "unsubscribed" => wire' = <<>>
<1> DEFINE W == Messages \union Replies
<1>1. wire \in Seq(W)
  BY DEF Typed
<1> HIDE DEF W
<1>2. /\ wire' \in Seq(W) /\ Head(wire) = wire[1] /\ Head(wire) \in W
      /\ Len(wire) \in Nat /\ 1 \in 1..Len(wire) /\ Len(wire') = Len(wire) - 1
      /\ \A i \in 1..(Len(wire) - 1) :
           wire'[i] = wire[i + 1] /\ i + 1 \in 1..Len(wire)
  BY <1>1, Shifted
<1>3. WireShifted
  <2> SUFFICES ASSUME NEW i \in 1..Len(wire')
               PROVE  /\ \E j \in 1..Len(wire) : wire'[i] = wire[j]
                      /\ wire'[i].kind # "subscribed"
                      /\ wire'[i].kind = "unsubscribed"
                           => /\ i = Len(wire') /\ endpc = "punsubscribing"
                              /\ ~subscribed
    BY DEF WireShifted
  <2>1. /\ i \in 1..(Len(wire) - 1) /\ i \in Nat /\ i + 1 # 1
        /\ wire'[i] = wire[i + 1] /\ i + 1 \in 1..Len(wire)
    BY <1>2
  <2>2. /\ wire[i + 1].kind = "subscribed" => i + 1 = 1
        /\ wire[i + 1].kind = "unsubscribed"
             => i + 1 = Len(wire) /\ endpc = "punsubscribing" /\ ~subscribed
    BY <2>1 DEF SocketInOrder
  <2>3. i + 1 = Len(wire) => i = Len(wire')
    <3>1. \A m, n \in Nat : m = n - 1 /\ i + 1 = n => i = m
      BY <2>1
    <3>2. Len(wire) \in Nat /\ Len(wire') \in Nat /\ Len(wire') = Len(wire) - 1
      BY <1>2
    <3> QED BY <3>1, <3>2
  <2> QED BY <2>1, <2>2, <2>3
<1>4. ASSUME Head(wire).kind = "unsubscribed"
      PROVE  wire' = <<>>
  <2>1. Len(wire) = 1
    BY <1>2, <1>4 DEF SocketInOrder
  <2> QED BY <1>2, <2>1
<1> QED BY <1>2, <1>3, <1>4 DEF W

(* Each action, for any step that does it. *)

(* The constructor's subscription.                                          *)
LEMMA SubInv ==
  ASSUME IInv, SubGet \/ SubSend \/ ServerSubscribe \/ SubReply \/ SubListen
  PROVE  IInv'
<1> USE DEF IInv
<1>1. Sub \in Callers
  BY DEF Callers
<1>2. CASE SubGet
  <2> USE <1>2 DEF SubGet
  <2>1. Pool!Get(Sub)
    BY DEF Pool!Get
  <2>2. P!IInv'
    BY <1>1, <2>1, PoolStep
  <2>3. M!IInv'
    BY MapKept
  <2>4. call'[Sub] = "creating" /\ closer' = closer /\ created' = created
    BY <1>1 DEF Pool!StartCreate, P!IInv, P!TypeOK
  <2>5. Typed'
    BY DEF Typed, opVars, serverVars
  <2>6. SubConnected'
    BY <2>4 DEF SubConnected, Keeps, serverVars
  <2>7. SocketInOrder'
    BY DEF SocketInOrder, serverVars
  <2>8. AllTold' /\ OneTaskEach' /\ ValuesTold'
    BY DEF AllTold, AnswersTold, StoreTold, WireTold, OneTaskEach, ValuesTold,
       Told, opVars, mapVars, serverVars
  <2> QED BY <2>2, <2>3, <2>5, <2>6, <2>7, <2>8
<1>3. CASE SubSend
  <2> USE <1>3 DEF SubSend
  <2>1. P!IInv' /\ call[Sub] = "granted" /\ call'[Sub] = "using" /\ leased' = leased
    BY <1>1, PoolStep
  <2>2. closer' = closer /\ created' = created
    BY DEF Pool!Resume
  <2>3. M!IInv'
    BY MapKept
  <2>4. Typed'
    <3>1. leased[Sub] \in Connections \union {None}
      BY <1>1 DEF P!IInv, P!TypeOK
    <3> QED BY <3>1 DEF Typed, opVars, serverVars
  <2>5. SubConnected'
    BY <2>1, <2>2 DEF SubConnected, Keeps, SocketInOrder, serverVars
  <2>6. SocketInOrder'
    BY DEF SocketInOrder, serverVars
  <2>7. AllTold' /\ OneTaskEach' /\ ValuesTold'
    BY DEF AllTold, AnswersTold, StoreTold, WireTold, OneTaskEach, ValuesTold,
       Told, opVars, mapVars, serverVars
  <2> QED BY <2>1, <2>3, <2>4, <2>5, <2>6, <2>7
<1>4. CASE ServerSubscribe
  <2> USE <1>4 DEF ServerSubscribe
  <2>1. P!IInv' /\ M!IInv'
    BY PoolKept, MapKept
  <2>2. wire = <<>>
    BY DEF SocketInOrder
  <2>3. wire' = <<[kind |-> "subscribed"]>>
    BY <2>2
  <2>4. wire' \in Seq(Messages \union Replies)
    <3>1. [kind |-> "subscribed"] \in Messages \union Replies
      BY DEF Replies
    <3> QED BY <2>2, <3>1, Appended DEF Typed
  <2>5. Typed'
    BY <2>4 DEF Typed, subVars, opVars
  <2>6. SubConnected'
    BY DEF SubConnected, Keeps, poolVars, subVars
  <2>7. SocketInOrder' /\ AllTold'
    BY <2>3 DEF SocketInOrder, AllTold, AnswersTold, StoreTold, WireTold, Told,
       subVars, opVars
  <2>8. OneTaskEach' /\ ValuesTold'
    BY DEF OneTaskEach, ValuesTold, Told, opVars, mapVars
  <2> QED BY <2>1, <2>5, <2>6, <2>7, <2>8
<1>5. CASE SubReply
  <2> USE <1>5 DEF SubReply
  <2>1. P!IInv' /\ M!IInv'
    BY PoolKept, MapKept
  <2>2. /\ WireShifted /\ wire[1].kind = "subscribed" /\ 1 \in 1..Len(wire)
        /\ wire' \in Seq(Messages \union Replies)
    BY WireShifts
  <2>3. Typed'
    BY <2>2 DEF Typed, opVars
  <2>4. SubConnected'
    BY <2>2 DEF SubConnected, SocketInOrder, Keeps, poolVars
  <2>5. SocketInOrder'
    <3>1. sub = "subscribing" /\ sub' = "replied"
      BY <2>2 DEF SocketInOrder
    <3> QED BY <2>2, <3>1 DEF SocketInOrder, WireShifted
  <2>6. AllTold'
    BY <2>2 DEF WireShifted, AllTold, AnswersTold, StoreTold, WireTold, Told, opVars
  <2>7. OneTaskEach' /\ ValuesTold'
    BY DEF OneTaskEach, ValuesTold, Told, opVars, mapVars
  <2> QED BY <2>1, <2>3, <2>4, <2>5, <2>6, <2>7
<1>6. CASE SubListen
  <2> USE <1>6 DEF SubListen
  <2>1. P!IInv' /\ M!IInv'
    BY PoolKept, MapKept
  <2>2. Typed'
    BY DEF Typed, opVars, serverVars
  <2>3. SubConnected'
    BY DEF SubConnected, Keeps, poolVars, serverVars
  <2>4. SocketInOrder'
    BY DEF SocketInOrder, serverVars
  <2>5. AllTold' /\ OneTaskEach' /\ ValuesTold'
    BY DEF AllTold, AnswersTold, StoreTold, WireTold, OneTaskEach, ValuesTold,
       Told, opVars, mapVars, serverVars
  <2> QED BY <2>1, <2>2, <2>3, <2>4, <2>5
<1> QED BY <1>2, <1>3, <1>4, <1>5, <1>6

(* A message settles a promise of its own task, whoever waits for it.      *)
LEMMA MessageResolves ==
  ASSUME IInv, NEW m \in Messages, Told(m.task, m.status),
         Map!ResolveValue(m.task), IdsKept,
         value' = [value EXCEPT ![promises'[m.task]] = m.status],
         held' = held, pc' = pc, reported' = reported
  PROVE  /\ M!IInv' /\ value' \in [Promises -> States \union {None}]
         /\ OneTaskEach' /\ ValuesTold'
<1> DEFINE t == m.task
<1> USE RedisBackendAssumption DEF IInv
<1>1. t \in Tasks /\ m.status \in States
  BY DEF Messages
<1>2. /\ M!IInv
      /\ promises \in [Tasks -> Promises \union {None}]
      /\ state \in [Promises -> {"unused", "open", "committed"} \union M!Settled]
      /\ held \in [Ops -> Promises \union {None}]
      /\ value \in [Promises -> States \union {None}]
  BY DEF M!IInv, M!TypeOK, Typed
<1>3. PICK p \in Promises :
         /\ M!IInv'
         /\ promises' = [promises EXCEPT ![t] = p]
         /\ state' = [state EXCEPT ![p] = "committed"]
         /\ \/ p = promises[t] /\ state[p] = "open"
            \/ p \in Map!Fresh
  BY <1>1, <1>2, MapResolves
<1>4. /\ promises'[t] = p /\ \A k \in Tasks \ {t} : promises'[k] = promises[k]
      /\ state'[p] = "committed"
      /\ \A q \in Promises \ {p} : state'[q] = state[q]
      /\ value'[p] = m.status
      /\ \A q \in Promises \ {p} : value'[q] = value[q]
  BY <1>1, <1>2, <1>3
<1>5. \A k \in Tasks : promises'[k] = p => k = t
  BY <1>1, <1>2, <1>3, <1>4 DEF M!IInv, M!OneKeyEach, Map!Fresh
<1>6. \A o \in Ops : held[o] = p => o.task = t
  <2> SUFFICES ASSUME NEW o \in Ops, held[o] = p
               PROVE  o.task = t
    OBVIOUS
  <2>1. held[o] # None /\ state[p] # "unused"
    BY <1>3 DEF OneTaskEach
  <2>2. state[p] \notin Map!Settled
    BY <1>4, <2>1 DEF IdsKept, Map!Settled
  <2>3. p = promises[t]
    BY <1>3, <2>1, <2>2 DEF Map!Fresh
  <2> QED BY <1>1, <2>1, <2>3 DEF OneTaskEach
<1>7. p # None
  OBVIOUS
<1>8. OneTaskEach'
  <2>1. \A o \in Ops, k \in Tasks :
          held[o] # None /\ held[o] = promises'[k] => o.task = k
    BY <1>4, <1>6 DEF OneTaskEach
  <2>2. \A o \in Ops : held[o] # None => state'[held[o]] # "unused"
    BY <1>2, <1>4 DEF OneTaskEach
  <2>3. \A k \in Tasks : promises'[k] # None => state'[promises'[k]] # "unused"
    BY <1>2, <1>4 DEF OneTaskEach
  <2> QED BY <2>1, <2>2, <2>3 DEF OneTaskEach
<1>9. ValuesTold'
  <2> SUFFICES ASSUME NEW q \in Promises, state'[q] \in {"committed", "fulfilled"}
               PROVE  /\ \A o \in Ops : held[o] = q => Told(o.task, value'[q])
                      /\ \A k \in Tasks : promises'[k] = q => Told(k, value'[q])
    BY DEF ValuesTold, Told
  <2>1. CASE q = p
    BY <1>4, <1>5, <1>6, <2>1
  <2>2. CASE q # p
    <3>1. state'[q] = state[q] /\ value'[q] = value[q]
      BY <1>4, <2>2
    <3>2. \A k \in Tasks : promises'[k] = q => promises[k] = q
      BY <1>4, <2>2
    <3> QED BY <3>1, <3>2 DEF ValuesTold
  <2> QED BY <2>1, <2>2
<1> QED BY <1>1, <1>2, <1>3, <1>8, <1>9

(* A message, for a task with or without a promise, or of no UUID.          *)
LEMMA OnMessageInv ==
  ASSUME IInv, OnMessage
  PROVE  IInv'
<1> DEFINE m == Head(wire)
<1> USE DEF IInv, OnMessage
<1>1. P!IInv'
  BY PoolKept
<1>2. WireShifted /\ wire' \in Seq(Messages \union Replies) /\ m = wire[1]
      /\ 1 \in 1..Len(wire) /\ m \in Messages \union Replies
  BY WireShifts
<1>3. m \in Messages /\ Told(m.task, m.status)
  BY <1>2 DEF AllTold, AnswersTold, StoreTold, WireTold, Messages, Replies
<1>4. held' = held /\ pc' = pc /\ out' = out /\ reply' = reply
      /\ reported' = reported
  BY DEF opVars
<1>5. /\ M!IInv' /\ value' \in [Promises -> States \union {None}]
      /\ OneTaskEach' /\ ValuesTold'
  <2>1. CASE sub = "listening" /\ m.task \in Uuids
    BY <1>3, <1>4, <2>1, MessageResolves
  <2>2. CASE ~(sub = "listening" /\ m.task \in Uuids)
    <3>1. mapVars' = mapVars /\ value' = value
      BY <2>2
    <3>2. M!IInv'
      BY <3>1, MapKept
    <3>3. promises' = promises /\ state' = state /\ value' = value
      BY <3>1 DEF mapVars
    <3>4. OneTaskEach' /\ ValuesTold'
      BY <1>4, <3>3 DEF OneTaskEach, ValuesTold, Told
    <3> QED BY <3>2, <3>3, <3>4 DEF Typed
  <2> QED BY <2>1, <2>2
<1>6. Typed'
  BY <1>2, <1>4, <1>5 DEF Typed, subVars
<1>7. SubConnected'
  BY DEF SubConnected, Keeps, poolVars, subVars
<1>8. SocketInOrder'
  <2>1. sub \notin {"new", "getting"} /\ endpc \notin {"destroying", "ended"}
        /\ (sub = "subscribing" => subscribed)
    BY DEF SocketInOrder
  <2> QED BY <1>2, <2>1 DEF SocketInOrder, WireShifted, subVars
<1>9. AllTold'
  BY <1>2, <1>4 DEF AllTold, AnswersTold, StoreTold, WireTold, Told, WireShifted
<1> QED BY <1>1, <1>5, <1>6, <1>7, <1>8, <1>9

(* Microtasks and timers of the map.                                       *)
LEMMA MapInv ==
  ASSUME IInv, RunJob \/ \E timer \in Timers : Forget(timer)
  PROVE  IInv'
<1> USE DEF IInv, RunJob, Forget
<1>1. /\ program' = program /\ poolVars' = poolVars /\ subVars' = subVars
      /\ opVars' = opVars /\ value' = value /\ serverVars' = serverVars
  OBVIOUS
<1>2. P!IInv'
  BY <1>1, PoolKept
<1>3. /\ M!IInv'
      /\ \A t \in Tasks : promises'[t] \in {promises[t], None}
      /\ \A p \in Promises :
           \/ state'[p] = state[p]
           \/ state'[p] = "rejected"
           \/ state[p] = "committed" /\ state'[p] = "fulfilled"
  BY MapGoesOn
<1>4. Typed' /\ SubConnected' /\ SocketInOrder' /\ AllTold'
  <2> USE DEF poolVars, subVars, opVars, serverVars
  <2>1. Typed'
    BY <1>1 DEF Typed
  <2>2. SubConnected'
    BY <1>1 DEF SubConnected, Keeps
  <2>3. SocketInOrder' /\ AllTold'
    BY <1>1 DEF SocketInOrder, AllTold, AnswersTold, StoreTold, WireTold, Told
  <2> QED BY <2>1, <2>2, <2>3
<1>5. OneTaskEach' /\ ValuesTold'
  <2>1. held' = held /\ pc' = pc /\ value' = value /\ reported' = reported
    BY <1>1 DEF opVars, serverVars
  <2>2. /\ held \in [Ops -> Promises \union {None}]
        /\ promises \in [Tasks -> Promises \union {None}]
    BY DEF Typed, M!IInv, M!TypeOK
  <2>3. OneTaskEach'
    BY <1>3, <2>1, <2>2 DEF OneTaskEach
  <2>4. ValuesTold'
    BY <1>3, <2>1, <2>2, RedisBackendAssumption DEF ValuesTold, Told
  <2> QED BY <2>3, <2>4
<1> QED BY <1>2, <1>3, <1>4, <1>5

-----------------------------------------------------------------------------
(* get(), put() and delete().  What a put() has stored stays said.          *)

Kept ==
  /\ reported' = reported
  /\ \A w \in Ops : w.kind = "put" /\ pc[w] \in {"executed", "answered"}
                   => pc'[w] \in {"executed", "answered"}

ToldNow(t, status) ==
  \/ status \in reported'[t]
  \/ status = "SUCCESS"
     /\ \E w \in Ops : /\ w.kind = "put" /\ w.task = t
                       /\ pc'[w] \in {"executed", "answered"}

(* So a step that answers, stores and sends only what was said before, or   *)
(* is said by it, keeps AllTold ...                                         *)
LEMMA SaidGoesOn ==
  ASSUME AllTold, Kept,
         \A o \in Ops :
           /\ out'[o] \in States
                => \/ out[o] \in States /\ out'[o] = out[o]
                   \/ Told(o.task, out'[o]) \/ ToldNow(o.task, out'[o])
           /\ reply'[o] # None
                => \/ reply[o] # None /\ reply'[o] = reply[o]
                   \/ Told(o.task, reply'[o]),
         \A t \in Tasks : store'[t] # None
           => \/ store[t] # None /\ store'[t] = store[t]
              \/ ToldNow(t, store'[t]),
         \A i \in 1..Len(wire') : wire'[i].kind = "message"
           => \/ i \in 1..Len(wire) /\ wire'[i] = wire[i]
              \/ ToldNow(wire'[i].task, wire'[i].status)
  PROVE  AllTold'
<1>1. \A t, s : Told(t, s) => ToldNow(t, s)
  BY DEF Kept, Told, ToldNow
<1>2. \A o \in Ops :
        /\ out'[o] \in States => ToldNow(o.task, out'[o])
        /\ reply'[o] # None => ToldNow(o.task, reply'[o])
  BY <1>1 DEF AllTold, AnswersTold
<1>3. \A t \in Tasks : store'[t] # None => ToldNow(t, store'[t])
  BY <1>1 DEF AllTold, StoreTold
<1>4. \A i \in 1..Len(wire') :
        wire'[i].kind = "message" => ToldNow(wire'[i].task, wire'[i].status)
  BY <1>1 DEF AllTold, WireTold
<1>5. AnswersTold'
  BY <1>2 DEF AnswersTold, Told, ToldNow
<1>6. StoreTold'
  BY <1>3 DEF StoreTold, Told, ToldNow
<1>7. WireTold'
  BY <1>4 DEF WireTold, Told, ToldNow
<1> QED BY <1>5, <1>6, <1>7 DEF AllTold

(* ... and if whoever has a promise has one whose value was said of its     *)
(* task, that stays so.                                                     *)
LEMMA ValuesGoOn ==
  ASSUME Kept,
         \A p \in Promises : state'[p] \in {"committed", "fulfilled"} =>
           /\ \A o \in Ops : held'[o] = p => Told(o.task, value'[p])
           /\ \A t \in Tasks : promises'[t] = p => Told(t, value'[p])
  PROVE  ValuesTold'
<1>1. \A t, s : Told(t, s) => ToldNow(t, s)
  BY DEF Kept, Told, ToldNow
<1>2. \A p \in Promises : state'[p] \in {"committed", "fulfilled"} =>
        /\ \A o \in Ops : held'[o] = p => ToldNow(o.task, value'[p])
        /\ \A t \in Tasks : promises'[t] = p => ToldNow(t, value'[p])
  BY <1>1
<1> QED BY <1>2 DEF ValuesTold, Told, ToldNow

(* The step of an operation leaves the constructor its connection.         *)
LEMMA OpKeepsSub ==
  ASSUME IInv, NEW o \in Ops,
         Pool!Get(o) \/ Pool!CreateOk(o) \/ Pool!Resume(o) \/ Pool!Return(o),
         subVars' = subVars, line' = line
  PROVE  P!IInv' /\ SubConnected'
<1> USE DEF IInv, subVars
<1>1. o \in Callers /\ Sub \in Callers \ {o}
  BY RedisBackendAssumption DEF Callers
<1>2. /\ P!IInv' /\ created \subseteq created'
      /\ call'[Sub] = call[Sub] /\ leased'[Sub] = leased[Sub]
      /\ closer[End] = "idle" => closer'[End] = "idle"
  BY <1>1, PoolStep DEF SubConnected
<1> QED BY <1>2 DEF SubConnected, Keeps

(* What is published comes after the reply to PSUBSCRIBE, and nothing does *)
(* after that to PUNSUBSCRIBE.                                             *)
LEMMA WirePublished ==
  ASSUME Typed, SocketInOrder, NEW t \in Tasks, NEW status \in States,
         wire' = wire \/ wire' = Published(t, status), subVars' = subVars,
         subscribed' = subscribed
  PROVE  /\ wire' \in Seq(Messages \union Replies)
         /\ SocketInOrder'
         /\ \A i \in 1..Len(wire') :
              \/ i \in 1..Len(wire) /\ wire'[i] = wire[i]
              \/ wire'[i] = [kind |-> "message", task |-> t, status |-> status]
<1> DEFINE m == [kind |-> "message", task |-> t, status |-> status]
           W == Messages \union Replies
<1>1. wire \in Seq(W) /\ m \in W
  BY DEF Typed, Messages
<1>2. CASE wire' = wire
  BY <1>1, <1>2 DEF SocketInOrder, subVars
<1>3. CASE wire' # wire
  <2>1. subscribed /\ wire' = Append(wire, m)
    BY <1>3 DEF Published
  <2> HIDE DEF W, m
  <2>2. /\ wire' \in Seq(W) /\ Len(wire) \in Nat /\ Len(wire') = Len(wire) + 1
        /\ \A i \in 1..Len(wire) : wire'[i] = wire[i]
        /\ wire'[Len(wire) + 1] = m
    BY <1>1, <2>1, Appended
  <2>3. \A i \in 1..Len(wire') : \/ i \in 1..Len(wire) /\ wire'[i] = wire[i]
                                 \/ wire'[i] = m
    BY <2>2
  <2>4. m.kind = "message"
    BY DEF m
  <2>5. SocketInOrder'
    BY <2>1, <2>3, <2>4 DEF SocketInOrder, subVars
  <2> QED BY <2>2, <2>3, <2>5 DEF W, m
<1> QED BY <1>2, <1>3

(* What calls do before they have a connection, and at their end.           *)
LEMMA CallInv ==
  ASSUME IInv, NEW o \in Ops, ListenAtOnce(o) \/ UsePool(o) \/ Finish(o) \/ Connect(o)
  PROVE  IInv'
<1> USE DEF IInv
<1>1. CASE ListenAtOnce(o)
  <2> USE <1>1 DEF ListenAtOnce, MayCall
  <2>1. P!IInv' /\ M!IInv'
    BY PoolKept, MapKept
  <2>2. /\ pc' = [pc EXCEPT ![o] = "listening"]
        /\ held' = [held EXCEPT ![o] = promises[o.task]]
        /\ promises' = promises /\ state' = state /\ value' = value
        /\ reported' = reported /\ promises[o.task] # None
        /\ o.task \in Tasks
    BY RedisBackendAssumption DEF mapVars, serverVars
  <2>3. /\ promises \in [Tasks -> Promises \union {None}]
        /\ held \in [Ops -> Promises \union {None}]
        /\ pc \in [Ops -> {"idle", "called", "sent", "executed", "listening",
                           "answered"}]
    BY DEF Typed, M!IInv, M!TypeOK
  <2>4. Typed'
    BY <2>2, <2>3 DEF Typed, subVars, serverVars
  <2>5. SubConnected' /\ SocketInOrder'
    BY DEF SubConnected, Keeps, SocketInOrder, poolVars, subVars, serverVars
  <2>6. Kept /\ out' = out /\ reply' = reply /\ store' = store /\ wire' = wire
    BY <2>2, <2>3 DEF Kept, serverVars
  <2>7. AllTold'
    BY <2>6, SaidGoesOn
  <2>8. OneTaskEach'
    BY <2>2, <2>3 DEF OneTaskEach, M!IInv, M!OneKeyEach
  <2>9. ValuesTold'
    <3>1. \A p \in Promises : state'[p] \in {"committed", "fulfilled"} =>
            /\ \A w \in Ops : held'[w] = p => Told(w.task, value'[p])
            /\ \A t \in Tasks : promises'[t] = p => Told(t, value'[p])
      BY <2>2, <2>3 DEF ValuesTold
    <3> QED BY <2>6, <3>1, ValuesGoOn
  <2> QED BY <2>1, <2>4, <2>5, <2>7, <2>8, <2>9
<1>2. CASE UsePool(o)
  <2> USE <1>2 DEF UsePool
  <2>1. P!IInv' /\ SubConnected' /\ M!IInv'
    BY OpKeepsSub, MapKept DEF serverVars
  <2>2. Typed'
    BY DEF Typed, subVars, serverVars
  <2>3. SocketInOrder'
    BY DEF SocketInOrder, subVars, serverVars
  <2>4. /\ Kept /\ out' = out /\ reply' = reply /\ store' = store /\ wire' = wire
        /\ held' = held /\ promises' = promises /\ state' = state
        /\ value' = value
        /\ \A w \in Ops : pc'[w] = "listening" => pc[w] = "listening"
    BY DEF Kept, MayCall, mapVars, serverVars, Typed
  <2>5. AllTold'
    BY <2>4, SaidGoesOn
  <2>6. OneTaskEach'
    BY <2>4 DEF OneTaskEach
  <2>7. ValuesTold'
    BY <2>4, ValuesGoOn DEF ValuesTold
  <2> QED BY <2>1, <2>2, <2>3, <2>5, <2>6, <2>7
<1>3. CASE Finish(o) \/ Connect(o)
  <2> USE <1>3 DEF Finish, Connect
  <2>1. P!IInv' /\ SubConnected' /\ M!IInv'
    BY OpKeepsSub, MapKept DEF serverVars
  <2>2. Typed'
    BY DEF Typed, subVars, opVars, serverVars
  <2>3. SocketInOrder' /\ AllTold'
    BY DEF SocketInOrder, AllTold, AnswersTold, StoreTold, WireTold, Told,
       subVars, opVars, serverVars
  <2>4. OneTaskEach' /\ ValuesTold'
    BY DEF OneTaskEach, ValuesTold, Told, mapVars, opVars, serverVars
  <2> QED BY <2>1, <2>2, <2>3, <2>4
<1> QED BY <1>1, <1>2, <1>3

(* createClient() gives the constructor a connection nothing was sent on.  *)
LEMMA ConnectSubInv ==
  ASSUME IInv, Connect(Sub)
  PROVE  IInv'
<1> USE DEF IInv, Connect
<1>1. /\ P!IInv' /\ created \subseteq created'
      /\ call[Sub] = "creating" /\ call'[Sub] = "granted"
      /\ leased'[Sub] \in Connections \ created
      /\ closer' = closer
  BY PoolStep DEF Callers, Pool!CreateOk
<1>2. M!IInv'
  BY MapKept
<1>3. Typed'
  BY DEF Typed, subVars, opVars, serverVars
<1>4. SubConnected'
  BY <1>1 DEF SubConnected, Keeps, subVars, serverVars
<1>5. SocketInOrder' /\ AllTold'
  BY DEF SocketInOrder, AllTold, AnswersTold, StoreTold, WireTold, Told,
     subVars, opVars, serverVars
<1>6. OneTaskEach' /\ ValuesTold'
  BY DEF OneTaskEach, ValuesTold, Told, mapVars, opVars, serverVars
<1> QED BY <1>1, <1>2, <1>3, <1>4, <1>5, <1>6

(* A command is sent on a connection the call has, never the subscriber's. *)
LEMMA SendInv ==
  ASSUME IInv, NEW o \in Ops, Send(o)
  PROVE  IInv'
<1> DEFINE c == leased[o]
<1> USE RedisBackendAssumption DEF IInv, Send
<1>1. o \in Callers /\ Sub \in Callers \ {o} /\ o.task \in Tasks
  BY DEF Callers
<1>2. /\ P!IInv' /\ created \subseteq created'
      /\ call[o] = "granted"
      /\ call'[Sub] = call[Sub] /\ leased' = leased
      /\ closer[End] = "idle" => closer'[End] = "idle"
  BY <1>1, PoolStep DEF SubConnected
<1>3. /\ c \in Connections /\ c \in created
      /\ call[Sub] \in {"granted", "using"} => leased[Sub] # c
  BY <1>1, <1>2 DEF P!IInv, P!TypeOK, P!NoUseAfterDestroy, P!Exclusive, P!Leasing
<1>4. /\ M!IInv'
      /\ \A t \in Tasks : promises'[t] \in {promises[t], None}
      /\ \A p \in Promises :
           \/ state'[p] = state[p]
           \/ state'[p] = "rejected"
           \/ state[p] = "committed" /\ state'[p] = "fulfilled"
  <2>1. CASE Map!Delete(o.task)
    BY <1>1, <2>1, MapGoesOn
  <2>2. CASE mapVars' = mapVars
    BY <2>2, MapKept DEF mapVars
  <2> QED BY <2>1, <2>2
<1>5. /\ line' \in [Connections -> Seq(Ops)]
      /\ \A d \in Connections \ {c} : line'[d] = line[d]
  <2>1. line' = [line EXCEPT ![c] = Append(line[c], o)]
    OBVIOUS
  <2>2. line \in [Connections -> Seq(Ops)] /\ Append(line[c], o) \in Seq(Ops)
    <3>1. line \in [Connections -> Seq(Ops)]
      BY DEF Typed
    <3>2. line[c] \in Seq(Ops)
      BY <1>3, <3>1
    <3> QED BY <3>1, <3>2, Appended
  <2> QED BY <1>3, <2>1, <2>2
<1>6. Typed'
  BY <1>5 DEF Typed, subVars
<1>7. SubConnected'
  <2>1. call[Sub] \in {"granted", "using"} => leased[Sub] \in Connections
    BY <1>1 DEF P!IInv, P!NoUseAfterDestroy, P!Leasing, P!TypeOK
  <2>2. call'[Sub] \in {"granted", "using"} => line'[leased'[Sub]] = <<>>
    BY <1>2, <1>3, <1>5, <2>1 DEF SubConnected
  <2>3. \A d \in Connections : line'[d] # <<>> => d \in created'
    BY <1>2, <1>3, <1>5 DEF SubConnected
  <2> QED BY <1>2, <2>2, <2>3 DEF SubConnected, Keeps, subVars
<1>8. SocketInOrder' /\ AllTold' /\ Kept
  <2>1. Kept /\ out' = out /\ reply' = reply /\ store' = store /\ wire' = wire
    BY DEF Kept, Typed
  <2> QED BY <2>1, SaidGoesOn DEF SocketInOrder, subVars
<1>9. OneTaskEach' /\ ValuesTold'
  <2>1. held' = held /\ value' = value
        /\ \A w \in Ops : pc'[w] = "listening" => pc[w] = "listening"
    BY DEF Typed
  <2>2. /\ held \in [Ops -> Promises \union {None}]
        /\ promises \in [Tasks -> Promises \union {None}]
    BY DEF Typed, M!IInv, M!TypeOK
  <2>3. OneTaskEach'
    BY <1>4, <2>1, <2>2 DEF OneTaskEach
  <2>4. ValuesTold'
    <3>1. \A p \in Promises : state'[p] \in {"committed", "fulfilled"} =>
            /\ \A w \in Ops : held'[w] = p => Told(w.task, value'[p])
            /\ \A t \in Tasks : promises'[t] = p => Told(t, value'[p])
      BY <1>4, <2>1, <2>2 DEF ValuesTold
    <3> QED BY <1>8, <3>1, ValuesGoOn
  <2> QED BY <2>3, <2>4
<1> QED BY <1>2, <1>4, <1>6, <1>7, <1>8, <1>9

(* Executing a command is the only way to what is stored.                  *)
LEMMA ExecuteInv ==
  ASSUME IInv, NEW c \in Connections, Execute(c)
  PROVE  IInv'
<1> DEFINE o == Head(line[c])
<1> USE RedisBackendAssumption DEF IInv, Execute
<1>1. P!IInv' /\ M!IInv'
  BY PoolKept, MapKept
<1>2. /\ line \in [Connections -> Seq(Ops)]
      /\ o \in Ops /\ Tail(line[c]) \in Seq(Ops)
  <2>1. line[c] \in Seq(Ops)
    BY DEF Typed
  <2> QED BY <2>1, Shifted DEF Typed
<1>3. o.task \in Tasks /\ o.kind \in Kinds /\ "SUCCESS" \in States
  BY <1>2 DEF States, Final
<1>4. line' \in [Connections -> Seq(Ops)] /\ \A d \in Connections \ {c} : line'[d] = line[d]
  <2>1. line' = [line EXCEPT ![c] = Tail(line[c])]
    OBVIOUS
  <2> QED BY <1>2, <2>1
<1>5. /\ wire' \in Seq(Messages \union Replies) /\ SocketInOrder'
      /\ \A i \in 1..Len(wire') :
           \/ i \in 1..Len(wire) /\ wire'[i] = wire[i]
           \/ wire'[i] = [kind |-> "message", task |-> o.task,
                          status |-> "SUCCESS"] /\ o.kind = "put"
  <2>1. \/ wire' = wire
        \/ o.kind = "put" /\ wire' = Published(o.task, "SUCCESS")
    OBVIOUS
  <2>2. CASE wire' = wire
    BY <2>2 DEF Typed, SocketInOrder, subVars
  <2>3. CASE wire' # wire
    BY <1>3, <2>1, <2>3, WirePublished
  <2> QED BY <2>2, <2>3
<1>6. /\ reply \in [Ops -> States \union {None}]
      /\ store \in [Tasks -> States \union {None}]
  BY DEF Typed
<1>7. /\ reply' \in [Ops -> States \union {None}]
      /\ \A w \in Ops \ {o} : reply'[w] = reply[w]
      /\ reply'[o] \in {store[o.task], reply[o]}
  <2> DEFINE given == IF o.kind = "get" THEN store[o.task] ELSE reply[o]
  <2>1. /\ reply' = [reply EXCEPT ![o] = given]
        /\ given \in {store[o.task], reply[o]}
    OBVIOUS
  <2> HIDE DEF given
  <2> QED BY <1>2, <1>3, <1>6, <2>1
<1>8. /\ store' \in [Tasks -> States \union {None}]
      /\ \A t \in Tasks \ {o.task} : store'[t] = store[t]
      /\ \/ store'[o.task] \in {store[o.task], None}
         \/ store'[o.task] = "SUCCESS" /\ o.kind = "put"
  <2> DEFINE given == CASE o.kind = "get"    -> store[o.task]
                        [] o.kind = "put"    -> "SUCCESS"
                        [] o.kind = "delete" -> None
  <2>1. store' = [store EXCEPT ![o.task] = given]
    OBVIOUS
  <2>2. \/ given \in {store[o.task], None}
        \/ given = "SUCCESS" /\ o.kind = "put"
    BY <1>3 DEF Kinds
  <2> HIDE DEF given, Execute
  <2> QED BY <1>2, <1>3, <1>6, <2>1, <2>2
<1>9. Typed'
  BY <1>2, <1>4, <1>5, <1>7, <1>8 DEF Typed, subVars
<1>10. SubConnected'
  <2>1. \A d \in Connections : line'[d] # <<>> => line[d] # <<>>
    BY <1>4
  <2>2. call[Sub] \in {"granted", "using"} => leased[Sub] \in Connections
    BY DEF P!IInv, P!NoUseAfterDestroy, P!Leasing, P!TypeOK, Callers
  <2>3. /\ call' = call /\ leased' = leased /\ closer' = closer
        /\ created' = created
    BY DEF poolVars
  <2> QED BY <2>1, <2>2, <2>3 DEF SubConnected, Keeps, subVars
<1>11. AllTold' /\ Kept
  <2>1. Kept /\ out' = out /\ pc'[o] = "executed"
    BY <1>2 DEF Kept, Typed
  <2>2. o.kind = "put" => ToldNow(o.task, "SUCCESS")
    BY <1>2, <2>1 DEF ToldNow
  <2>3. \A w \in Ops : reply'[w] # None
          => \/ reply[w] # None /\ reply'[w] = reply[w]
             \/ Told(w.task, reply'[w])
    BY <1>2, <1>3, <1>7 DEF AllTold, AnswersTold, StoreTold, WireTold
  <2>4. \A t \in Tasks : store'[t] # None
          => \/ store[t] # None /\ store'[t] = store[t]
             \/ ToldNow(t, store'[t])
    BY <1>3, <1>8, <2>2
  <2>5. \A i \in 1..Len(wire') : wire'[i].kind = "message"
          => \/ i \in 1..Len(wire) /\ wire'[i] = wire[i]
             \/ ToldNow(wire'[i].task, wire'[i].status)
    BY <1>5, <2>2
  <2> HIDE DEF Execute
  <2> QED BY <2>1, <2>3, <2>4, <2>5, SaidGoesOn
<1>12. OneTaskEach' /\ ValuesTold'
  <2>1. /\ held' = held /\ promises' = promises /\ state' = state
        /\ value' = value
        /\ \A w \in Ops : pc'[w] = "listening" => pc[w] = "listening"
    BY DEF mapVars, Typed
  <2>2. OneTaskEach'
    BY <2>1 DEF OneTaskEach
  <2> HIDE DEF Execute
  <2>3. ValuesTold'
    BY <1>11, <2>1, ValuesGoOn DEF ValuesTold
  <2> QED BY <2>2, <2>3
<1> QED BY <1>1, <1>5, <1>9, <1>10, <1>11, <1>12

(* What a call is answered with was said of its task.                      *)
LEMMA AnswerInv ==
  ASSUME IInv, NEW o \in Ops, Answer(o) \/ Hear(o) \/ TimeOut(o)
  PROVE  IInv'
<1> USE RedisBackendAssumption DEF IInv, Gives
<1>1. /\ poolVars' = poolVars /\ mapVars' = mapVars /\ subVars' = subVars
      /\ serverVars' = serverVars /\ program' = program
      /\ reply' = reply /\ value' = value
  BY DEF Answer, Hear, TimeOut
<1>2. P!IInv' /\ M!IInv'
  BY <1>1, PoolKept, MapKept
<1>3. /\ pc' \in [Ops -> {"idle", "called", "sent", "executed", "listening",
                          "answered"}]
      /\ held' \in [Ops -> Promises \union {None}]
      /\ \A w \in Ops : /\ \/ held'[w] = held[w]
                           \/ held'[w] = None /\ pc'[w] = "answered"
                        /\ pc'[w] = "listening" => pc[w] = "listening"
                        /\ pc'[w] \in {pc[w], "answered"}
  <2>1. CASE Answer(o)
    BY <2>1 DEF Typed, Answer
  <2>2. CASE Hear(o)
    BY <2>2 DEF Typed, Hear
  <2>3. CASE TimeOut(o)
    BY <2>3 DEF Typed, TimeOut
  <2> QED BY <2>1, <2>2, <2>3
<1>4. PICK result :
        /\ out' = [out EXCEPT ![o] = result]
        /\ \/ result \in {"timed out", "rejected", "ok", out[o]}
           \/ result \in States /\ Told(o.task, result)
  <2>1. CASE Answer(o)
    <3> DEFINE given == IF o.kind = "get" THEN reply[o] ELSE "ok"
    <3>1. out' = [out EXCEPT ![o] = IF out[o] = "pending" THEN given ELSE out[o]]
      BY <2>1 DEF Answer
    <3>2. given = "ok" \/ (given \in States /\ Told(o.task, given))
      BY <2>1 DEF Answer, AllTold, AnswersTold, StoreTold, WireTold, States, Final
    <3> QED BY <3>1, <3>2
  <2>2. CASE Hear(o)
    <3> DEFINE p == held[o]
               given == IF state[p] = "fulfilled" THEN value[p] ELSE "rejected"
    <3>1. out' = [out EXCEPT ![o] = IF out[o] = "pending" THEN given ELSE out[o]]
      BY <2>2 DEF Hear
    <3>2. p \in Promises
      BY <2>2 DEF Hear, OneTaskEach, Typed
    <3>3. given = "rejected" \/ Told(o.task, given)
      BY <3>2 DEF ValuesTold
    <3>4. Told(o.task, given) => given \in States
      BY DEF Told, Typed, States, Final
    <3> QED BY <3>1, <3>3, <3>4
  <2>3. CASE TimeOut(o)
    BY <2>3 DEF TimeOut
  <2> QED BY <2>1, <2>2, <2>3
<1>5. Typed'
  <2>1. out' \in [Ops -> {"pending", "timed out", "rejected", "ok"} \union States]
    BY <1>4 DEF Typed
  <2> QED BY <1>1, <1>3, <2>1 DEF Typed, subVars, serverVars
<1>6. SubConnected' /\ SocketInOrder'
  BY <1>1 DEF SubConnected, Keeps, SocketInOrder, poolVars, subVars, serverVars
<1>7. AllTold' /\ Kept
  <2>1. \A w \in Ops : out'[w] \in States => Told(w.task, out'[w])
    BY <1>4 DEF AllTold, AnswersTold, StoreTold, WireTold, Typed, States, Final
  <2>2. /\ Kept /\ reply' = reply /\ store' = store /\ wire' = wire
    BY <1>1, <1>3 DEF Kept, serverVars
  <2> QED BY <2>1, <2>2, SaidGoesOn
<1>8. OneTaskEach' /\ ValuesTold'
  <2>1. /\ promises' = promises /\ state' = state /\ value' = value
    BY <1>1 DEF mapVars
  <2>2. OneTaskEach'
    BY <1>3, <2>1 DEF OneTaskEach
  <2>3. ValuesTold'
    <3>1. \A p \in Promises : state'[p] \in {"committed", "fulfilled"} =>
            /\ \A w \in Ops : held'[w] = p => Told(w.task, value'[p])
            /\ \A t \in Tasks : promises'[t] = p => Told(t, value'[p])
      BY <1>3, <2>1 DEF ValuesTold
    <3> QED BY <1>7, <3>1, ValuesGoOn
  <2> QED BY <2>2, <2>3
<1> QED BY <1>2, <1>5, <1>6, <1>7, <1>8

(* A get() that found no result waits for the promise of its own task.     *)
LEMMA ListenInv ==
  ASSUME IInv, NEW o \in Ops, Listen(o)
  PROVE  IInv'
<1> DEFINE t == o.task
<1> USE RedisBackendAssumption DEF IInv, Listen
<1>1. /\ P!IInv' /\ t \in Tasks
      /\ poolVars' = poolVars /\ subVars' = subVars /\ serverVars' = serverVars
      /\ out' = out /\ reply' = reply /\ value' = value /\ program' = program
      /\ pc' = [pc EXCEPT ![o] = "listening"]
      /\ held' = [held EXCEPT ![o] = promises'[t]]
  BY PoolKept
<1>2. /\ M!IInv'
      /\ promises'[t] # None
      /\ \A k \in Tasks \ {t} : promises'[k] = promises[k]
      /\ \/ promises' = promises /\ state' = state
         \/ /\ promises'[t] \in Promises /\ state'[promises'[t]] = "open"
            /\ \A w \in Ops : held[w] # promises'[t]
            /\ \A q \in Promises \ {promises'[t]} : state'[q] = state[q]
  <2>1. CASE promises[t] = None
    <3>1. Map!Get(t) /\ IdsKept
      BY <2>1
    <3>2. PICK p \in Map!Fresh :
             /\ M!IInv'
             /\ promises' = [promises EXCEPT ![t] = p]
             /\ state' = [state EXCEPT ![p] = "open"]
      BY <1>1, <3>1, MapGets
    <3>3. /\ p \in Promises /\ p # None
          /\ promises'[t] = p /\ state'[p] = "open"
          /\ \A k \in Tasks \ {t} : promises'[k] = promises[k]
          /\ \A q \in Promises \ {p} : state'[q] = state[q]
      BY <1>1, <3>2 DEF Map!Fresh, M!IInv, M!TypeOK
    <3>4. \A w \in Ops : held[w] # p
      BY <3>1, <3>2, <3>3 DEF Map!Fresh, Map!Settled, IdsKept, OneTaskEach
    <3> QED BY <3>2, <3>3, <3>4
  <2>2. CASE promises[t] # None
    <3>1. promises' = promises /\ state' = state /\ M!IInv'
      BY <2>2, MapKept DEF mapVars
    <3> QED BY <2>2, <3>1
  <2> QED BY <2>1, <2>2
<1>3. /\ promises \in [Tasks -> Promises \union {None}]
      /\ promises' \in [Tasks -> Promises \union {None}]
      /\ held \in [Ops -> Promises \union {None}]
      /\ pc \in [Ops -> {"idle", "called", "sent", "executed", "listening",
                         "answered"}]
  BY <1>2 DEF Typed, M!IInv, M!TypeOK
<1>4. held'[o] = promises'[t] /\ \A w \in Ops \ {o} : held'[w] = held[w]
  BY <1>1, <1>3
<1>5. Typed'
  <2>1. /\ held' \in [Ops -> Promises \union {None}]
        /\ pc' \in [Ops -> {"idle", "called", "sent", "executed", "listening",
                            "answered"}]
    BY <1>1, <1>3
  <2> HIDE DEF Listen
  <2> QED BY <1>1, <2>1 DEF Typed, subVars, serverVars
<1>6. SubConnected' /\ SocketInOrder'
  BY <1>1 DEF SubConnected, Keeps, SocketInOrder, poolVars, subVars, serverVars
<1>7. AllTold' /\ Kept
  <2>1. Kept /\ store' = store /\ wire' = wire
    BY <1>1, <1>3 DEF Kept, serverVars
  <2> QED BY <1>1, <2>1, SaidGoesOn
<1>8. \A k \in Tasks : promises'[k] = promises'[t] => k = t
  BY <1>1, <1>2 DEF M!IInv, M!OneKeyEach
<1>9. OneTaskEach'
  <2>1. \A w \in Ops : pc'[w] = "listening" => held'[w] # None
    BY <1>1, <1>2, <1>3, <1>4 DEF OneTaskEach
  <2>2. \A w \in Ops : held'[w] = promises'[t] => w.task = t
    BY <1>2, <1>4 DEF OneTaskEach
  <2>3. \A v, w \in Ops : held'[v] # None /\ held'[v] = held'[w] => v.task = w.task
    BY <1>4, <2>2 DEF OneTaskEach
  <2>4. \A w \in Ops, k \in Tasks :
          held'[w] # None /\ held'[w] = promises'[k] => w.task = k
    BY <1>2, <1>4, <1>8, <2>2 DEF OneTaskEach
  <2>5. /\ \A k \in Tasks : promises'[k] # None => state'[promises'[k]] # "unused"
        /\ \A w \in Ops : held'[w] # None => state'[held'[w]] # "unused"
    BY <1>2, <1>3, <1>4 DEF OneTaskEach
  <2> QED BY <2>1, <2>3, <2>4, <2>5 DEF OneTaskEach
<1>10. ValuesTold'
  <2>1. ASSUME NEW q \in Promises, state'[q] \in {"committed", "fulfilled"}
        PROVE  /\ \A w \in Ops : held'[w] = q => Told(w.task, value[q])
               /\ \A k \in Tasks : promises'[k] = q => Told(k, value[q])
    <3>1. state'[q] = state[q]
      BY <1>2, <2>1
    <3>2. \A k \in Tasks : promises'[k] = q => promises[k] = q
      BY <1>2, <2>1
    <3> QED BY <1>4, <2>1, <3>1, <3>2 DEF ValuesTold
  <2> QED BY <1>1, <1>7, <2>1, ValuesGoOn
<1> QED BY <1>1, <1>2, <1>5, <1>6, <1>7, <1>9, <1>10

(* What a worker reports is stored and published, and said from then on.   *)
LEMMA ReportInv ==
  ASSUME IInv, NEW t \in Tasks, Report(t)
  PROVE  IInv'
<1> USE DEF IInv
<1>1. PICK status \in WorkerStates :
        /\ reported' = [reported EXCEPT ![t] = @ \union {status}]
        /\ store' = [store EXCEPT ![t] = status]
        /\ wire' = Published(t, status)
        /\ UNCHANGED <<program, poolVars, mapVars, subVars, opVars, value, line,
                       subscribed>>
  BY DEF Report
<1>2. P!IInv' /\ M!IInv'
  BY <1>1, PoolKept, MapKept
<1>3. status \in States
  BY RedisBackendAssumption
<1>4. /\ wire' \in Seq(Messages \union Replies) /\ SocketInOrder'
      /\ \A i \in 1..Len(wire') :
           \/ i \in 1..Len(wire) /\ wire'[i] = wire[i]
           \/ wire'[i] = [kind |-> "message", task |-> t, status |-> status]
  BY <1>1, <1>3, WirePublished
<1>5. /\ reported' \in [Tasks -> SUBSET States]
      /\ store' \in [Tasks -> States \union {None}]
      /\ store'[t] = status /\ \A k \in Tasks \ {t} : store'[k] = store[k]
      /\ \A k \in Tasks : reported[k] \subseteq reported'[k]
      /\ status \in reported'[t]
  <2>1. /\ reported \in [Tasks -> SUBSET States]
        /\ store \in [Tasks -> States \union {None}]
    BY DEF Typed
  <2> QED BY <1>1, <1>3, <2>1
<1>6. Typed'
  BY <1>1, <1>4, <1>5 DEF Typed, subVars, opVars
<1>7. SubConnected'
  BY <1>1 DEF SubConnected, Keeps, poolVars, subVars
<1>8. /\ \A o \in Ops : o.task \in Tasks
      /\ \A k \in Tasks : \A s : Told(k, s) => ToldNow(k, s)
      /\ ToldNow(t, status)
  BY <1>1, <1>5, RedisBackendAssumption DEF Told, ToldNow, opVars
<1>9. AllTold'
  <2>1. \A o \in Ops : /\ out'[o] \in States => ToldNow(o.task, out'[o])
                       /\ reply'[o] # None => ToldNow(o.task, reply'[o])
    BY <1>1, <1>8 DEF AllTold, AnswersTold, StoreTold, WireTold, opVars
  <2>2. \A k \in Tasks : store'[k] # None => ToldNow(k, store'[k])
    BY <1>5, <1>8 DEF AllTold, AnswersTold, StoreTold, WireTold
  <2>3. \A i \in 1..Len(wire) : wire[i].kind = "message" => wire[i].task \in Tasks
    <3> DEFINE W == Messages \union Replies
    <3>1. wire \in Seq(W)
      BY DEF Typed
    <3> HIDE DEF W
    <3>2. \A i \in 1..Len(wire) : wire[i] \in W
      BY <3>1
    <3> QED BY <3>2 DEF Messages, Replies, W
  <2>4. \A i \in 1..Len(wire') :
          wire'[i].kind = "message" => ToldNow(wire'[i].task, wire'[i].status)
    BY <1>4, <1>8, <2>3 DEF AllTold, AnswersTold, StoreTold, WireTold
  <2> QED BY <2>1, <2>2, <2>4 DEF AllTold, AnswersTold, StoreTold, WireTold,
     Told, ToldNow
<1>10. OneTaskEach' /\ ValuesTold'
  <2>1. /\ held' = held /\ promises' = promises /\ state' = state
        /\ value' = value /\ pc' = pc
    BY <1>1 DEF mapVars, opVars
  <2>2. ValuesTold'
    BY <1>8, <2>1 DEF ValuesTold, Told, ToldNow
  <2> QED BY <2>1, <2>2 DEF OneTaskEach
<1> QED BY <1>2, <1>4, <1>6, <1>7, <1>9, <1>10

-----------------------------------------------------------------------------
(* end() *)

(* end() up to the reply to PUNSUBSCRIBE.                                   *)
LEMMA EndAsksInv ==
  ASSUME IInv, EndCall \/ EndUnsubscribe \/ ServerUnsubscribe
  PROVE  IInv'
<1> USE DEF IInv, EndCall, EndUnsubscribe, ServerUnsubscribe
<1>1. /\ poolVars' = poolVars /\ mapVars' = mapVars /\ opVars' = opVars
      /\ program' = program /\ value' = value /\ line' = line /\ store' = store
      /\ reported' = reported /\ sub' = sub /\ subscriber' = subscriber
      /\ \/ endpc = "idle" /\ sub # "new" /\ endpc' = "awaiting"
         \/ endpc = "awaiting" /\ sub = "listening" /\ endpc' = "punsubscribing"
         \/ endpc = "punsubscribing" /\ endpc' = endpc
  BY DEF serverVars, subVars
<1>2. P!IInv' /\ M!IInv'
  BY <1>1, PoolKept, MapKept
<1>3. /\ wire' \in Seq(Messages \union Replies)
      /\ \A i \in 1..Len(wire') :
           \/ i \in 1..Len(wire) /\ wire'[i] = wire[i]
           \/ wire'[i] = [kind |-> "unsubscribed"]
      /\ \/ wire' = wire /\ subscribed' = subscribed
         \/ /\ Len(wire) \in Nat /\ Len(wire') = Len(wire) + 1
            /\ endpc = "punsubscribing" /\ subscribed /\ ~subscribed'
  <2>1. CASE ServerUnsubscribe
    <3> DEFINE e == [kind |-> "unsubscribed"]
               W == Messages \union Replies
    <3>1. wire' = Append(wire, e) /\ wire \in Seq(W) /\ e \in W
      BY <2>1 DEF Typed, Replies
    <3> HIDE DEF W, e
    <3>2. /\ wire' \in Seq(W) /\ Len(wire) \in Nat
          /\ Len(wire') = Len(wire) + 1
          /\ \A i \in 1..Len(wire) : wire'[i] = wire[i]
          /\ wire'[Len(wire) + 1] = e
      BY <3>1, Appended
    <3>3. \A i \in 1..Len(wire') : \/ i \in 1..Len(wire) /\ wire'[i] = wire[i]
                                   \/ wire'[i] = e
      BY <3>2
    <3>4. endpc = "punsubscribing" /\ subscribed /\ ~subscribed'
      BY <2>1
    <3> QED BY <3>2, <3>3, <3>4 DEF W, e
  <2>2. CASE EndCall \/ EndUnsubscribe
    <3>1. wire' = wire /\ subscribed' = subscribed
      BY <2>2 DEF serverVars
    <3> QED BY <3>1 DEF Typed
  <2> QED BY <2>1, <2>2
<1>4. Typed'
  <2>1. subscribed' \in BOOLEAN
    BY <1>3 DEF Typed
  <2> QED BY <1>1, <1>3, <2>1 DEF Typed, opVars
<1>5. SubConnected'
  BY <1>1 DEF SubConnected, Keeps, poolVars
<1>6. SocketInOrder'
  <2>1. CASE wire' = wire /\ subscribed' = subscribed
    BY <1>1, <2>1 DEF SocketInOrder
  <2>2. CASE /\ Len(wire) \in Nat /\ Len(wire') = Len(wire) + 1
             /\ endpc = "punsubscribing" /\ subscribed /\ ~subscribed'
    <3>1. endpc' = "punsubscribing" /\ sub = "listening" /\ sub' = sub
      BY <1>1, <2>2 DEF SocketInOrder, Typed
    <3>2. \A i \in 1..Len(wire) : wire[i].kind \notin {"subscribed", "unsubscribed"}
      BY <2>2, <3>1 DEF SocketInOrder
    <3>3. \A i \in 1..Len(wire') :
            /\ wire'[i].kind # "subscribed"
            /\ wire'[i].kind = "unsubscribed" => i = Len(wire')
      <4> SUFFICES ASSUME NEW i \in 1..Len(wire')
                   PROVE  /\ wire'[i].kind # "subscribed"
                          /\ wire'[i].kind = "unsubscribed" => i = Len(wire')
        OBVIOUS
      <4>1. i \in 1..Len(wire) \/ i = Len(wire) + 1
        BY <2>2
      <4> QED BY <1>3, <2>2, <3>2, <4>1
    <3> QED BY <2>2, <3>1, <3>3 DEF SocketInOrder
  <2> QED BY <1>3, <2>1, <2>2
<1>7. AllTold'
  <2>1. \A i \in 1..Len(wire') : wire'[i].kind = "message"
          => i \in 1..Len(wire) /\ wire'[i] = wire[i]
    BY <1>3
  <2> QED BY <1>1, <2>1 DEF AllTold, AnswersTold, StoreTold, WireTold, Told, opVars
<1>8. OneTaskEach' /\ ValuesTold'
  BY <1>1 DEF OneTaskEach, ValuesTold, Told, mapVars, opVars
<1> QED BY <1>2, <1>4, <1>5, <1>6, <1>7, <1>8

(* end() after that reply, when the pool is emptied.                        *)
LEMMA EndDestroysInv ==
  ASSUME IInv, EndReturn \/ EndDestroy \/ EndDone
  PROVE  IInv'
<1> USE DEF IInv, EndReturn, EndDestroy, EndDone
<1>1. /\ mapVars' = mapVars /\ opVars' = opVars /\ program' = program
      /\ value' = value /\ line' = line /\ subscribed' = subscribed
      /\ store' = store /\ reported' = reported /\ sub' = sub
      /\ subscriber' = subscriber
  BY DEF serverVars, subVars
<1>2. /\ P!IInv' /\ M!IInv' /\ created' = created
      /\ Pool!ReturnAndDestroyAll(Sub, End)
           => call[Sub] = "using" /\ call'[Sub] = "idle"
      /\ Pool!DestroyResume(End) \/ Pool!DestroyDone(End)
           => closer[End] # "idle" /\ call' = call /\ leased' = leased
  BY <1>1, PoolEnds, MapKept
<1>3. /\ wire' \in Seq(Messages \union Replies)
      /\ \/ /\ EndReturn /\ endpc' = "destroying"
            /\ wire' = <<>> /\ ~subscribed /\ sub = "listening"
         \/ /\ EndDestroy \/ EndDone
            /\ wire' = wire /\ endpc \in {"destroying", "ended"}
            /\ endpc' \in {endpc, "ended"}
  <2>1. CASE EndReturn
    <3>1. /\ wire' = <<>> /\ wire' \in Seq(Messages \union Replies)
          /\ wire[1].kind = "unsubscribed" /\ 1 \in 1..Len(wire)
      BY <2>1, WireShifts
    <3>2. ~subscribed /\ endpc = "punsubscribing"
      BY <3>1 DEF SocketInOrder
    <3>3. sub = "listening"
      BY <3>2 DEF SocketInOrder, Typed
    <3> QED BY <2>1, <3>1, <3>2, <3>3
  <2>2. CASE EndDestroy \/ EndDone
    <3>1. wire' = wire /\ closer[End] # "idle" /\ endpc' \in {endpc, "ended"}
      BY <1>2, <2>2 DEF serverVars, subVars
    <3>2. endpc \in {"destroying", "ended"}
      BY <3>1 DEF SubConnected, Keeps, SocketInOrder, Typed
    <3> QED BY <2>2, <3>1, <3>2 DEF Typed
  <2> QED BY <2>1, <2>2
<1>4. Typed'
  BY <1>1, <1>3 DEF Typed, opVars
<1>5. SubConnected'
  BY <1>1, <1>2, <1>3 DEF SubConnected, Keeps
<1>6. SocketInOrder'
  BY <1>1, <1>3 DEF SocketInOrder
<1>7. AllTold'
  BY <1>1, <1>3 DEF AllTold, AnswersTold, StoreTold, WireTold, Told, opVars
<1>8. OneTaskEach' /\ ValuesTold'
  BY <1>1 DEF OneTaskEach, ValuesTold, Told, mapVars, opVars
<1> QED BY <1>2, <1>4, <1>5, <1>6, <1>7, <1>8
-----------------------------------------------------------------------------
(* Every action preserves the invariant.                                    *)
LEMMA NextInv == IInv /\ [Next]_vars => IInv'
<1> SUFFICES ASSUME IInv, [Next]_vars PROVE IInv'
  OBVIOUS
<1>1. CASE SubGet \/ SubSend \/ ServerSubscribe \/ SubReply \/ SubListen
  BY <1>1, SubInv
<1>2. CASE OnMessage
  BY <1>2, OnMessageInv
<1>3. CASE RunJob \/ \E t \in Timers : Forget(t)
  BY <1>3, MapInv
<1>4. ASSUME NEW o \in Ops,
             \/ ListenAtOnce(o) \/ UsePool(o) \/ Send(o) \/ Answer(o)
             \/ Listen(o) \/ Hear(o) \/ TimeOut(o) \/ Finish(o)
      PROVE  IInv'
  BY <1>4, CallInv, SendInv, AnswerInv, ListenInv
<1>5. ASSUME NEW c \in Callers, Connect(c)
      PROVE  IInv'
  BY <1>5, CallInv, ConnectSubInv DEF Callers
<1>6. ASSUME NEW c \in Connections, Execute(c)
      PROVE  IInv'
  BY <1>6, ExecuteInv
<1>7. CASE EndCall \/ EndUnsubscribe \/ ServerUnsubscribe
  BY <1>7, EndAsksInv
<1>8. CASE EndReturn \/ EndDestroy \/ EndDone
  BY <1>8, EndDestroysInv
<1>9. ASSUME NEW t \in Tasks, Report(t)
      PROVE  IInv'
  BY <1>9, ReportInv
<1>10. CASE UNCHANGED vars
  <2>1. P!IInv' /\ M!IInv'
    BY <1>10, PoolKept, MapKept DEF IInv, vars
  <2>2. Typed' /\ SubConnected' /\ SocketInOrder'
    BY <1>10 DEF IInv, Typed, SubConnected, Keeps, SocketInOrder, vars,
                 poolVars, subVars, opVars, serverVars
  <2>3. AllTold' /\ OneTaskEach' /\ ValuesTold'
    BY <1>10 DEF IInv, AllTold, AnswersTold, StoreTold, WireTold, OneTaskEach,
       ValuesTold, Told, vars, mapVars,
                 subVars, opVars, serverVars
  <2> QED BY <2>1, <2>2, <2>3 DEF IInv
<1> QED
  BY <1>1, <1>2, <1>3, <1>4, <1>5, <1>6, <1>7, <1>8, <1>9, <1>10 DEF Next

(* The invariant holds in every reachable state.                           *)
LEMMA Invariant == Spec => []IInv
<1>1. Init => IInv
  BY InitInv
<1>2. IInv /\ [Next]_vars => IInv'
  BY NextInv
<1> QED BY <1>1, <1>2, PTL DEF Spec
-----------------------------------------------------------------------------
(* What commands do: a second invariant, on top of the first.               *)

\* Where a call stands says what its promise and the server have come to.
CallsMatch ==
  \A o \in Ops :
    /\ call[o] # "idle" => pc[o] # "idle"
    /\ pc[o] = "idle" => out[o] = "pending"
    /\ o.kind = "get" => out[o] # "ok" /\ effects[o] = 0
    /\ o.kind # "get" =>
         /\ out[o] = IF pc[o] = "answered" THEN "ok" ELSE "pending"
         /\ effects[o] = IF pc[o] \in {"executed", "answered"} THEN 1 ELSE 0
         /\ pc[o] # "listening"

\* The commands on their way to the server are those that were sent, once each.
LineIsSent ==
  /\ \A c \in Connections : \A i \in 1..Len(line[c]) : pc[line[c][i]] = "sent"
  /\ \A c, d \in Connections : \A i \in 1..Len(line[c]), j \in 1..Len(line[d]) :
       line[c][i] = line[d][j] => c = d /\ i = j

\* Once destroyAll() has gone on, whoever had a connection has been answered.
OwedAnswered ==
  /\ endpc \in {"idle", "awaiting", "punsubscribing"} => owed = {}
  /\ \A o \in owed : o \in Ops /\ (call[o] = "using" \/ out[o] # "pending")
  /\ closer[End] \in {"resumed", "closing", "closed"}
       => \A o \in owed : out[o] # "pending"
  /\ endpc = "ended" => closer[End] = "closed"

Effective ==
  /\ effects \in [Ops -> 0..1]
  /\ CallsMatch
  /\ LineIsSent
  /\ OwedAnswered

LEMMA InitEffective == Init => Effective
<1> SUFFICES ASSUME Init PROVE Effective
  OBVIOUS
<1> USE RedisBackendAssumption DEF Init
<1>1. /\ \A o \in Ops : pc[o] = "idle" /\ out[o] = "pending" /\ effects[o] = 0
      /\ call = [c \in Callers |-> "idle"] /\ Ops \subseteq Callers
  BY DEF Pool!Init, Callers
<1>2. CallsMatch
  BY <1>1 DEF CallsMatch
<1>3. LineIsSent
  <2>1. \A c \in Connections : Len(line[c]) = 0
    OBVIOUS
  <2> QED BY <2>1 DEF LineIsSent
<1> QED BY <1>2, <1>3 DEF Effective, OwedAnswered

(* What a step of a call does to destroyAll(), which waits until nothing is *)
(* in use, and to the calls of the others.                                  *)
LEMMA CloserStep ==
  ASSUME P!IInv, NEW o \in Callers,
         Pool!Get(o) \/ Pool!StartCreate(o) \/ Pool!CreateOk(o) \/ Pool!Resume(o)
           \/ Pool!Return(o)
  PROVE  /\ P!IInv'
         /\ \A w \in Callers \ {o} : call[w] = "waiting" \/ call'[w] = call[w]
         /\ \/ closer'[End] = closer[End]
            \/ /\ closer[End] = "awaiting" /\ closer'[End] = "resumed"
               /\ \A w \in Callers : call'[w] # "using"
<1>1. Pool!Get(o) \/ Pool!CreateOk(o) \/ Pool!Resume(o) \/ Pool!Return(o)
  BY DEF Pool!Get
<1>2. /\ P!IInv'
      /\ \A w \in Callers \ {o} : call[w] = "waiting" \/ call'[w] = call[w]
  BY <1>1, PoolStep
<1>3. \/ closer'[End] = closer[End]
      \/ closer[End] = "awaiting" /\ closer'[End] = "resumed" /\ inUse' = {}
  BY <1>1 DEF Pool!Get, Pool!TakeUnused, Pool!StartCreate, Pool!Enqueue,
              Pool!CreateOk, Pool!Resume, Pool!Return, Pool!ReturnToWaiter,
              Pool!ReturnToUnused, Pool!Emitted, Pool!LeavesUse
<1>4. inUse' = {} => \A w \in Callers : call'[w] # "using"
  <2>1. P!ReturnNeverThrows'
    BY <1>2 DEF P!IInv
  <2> QED BY <2>1 DEF P!ReturnNeverThrows, P!Using
<1> QED BY <1>2, <1>3, <1>4

(* Steps that leave alone what the calls of get(), put() and delete() have  *)
(* come to and end(), whatever they do to the pool.                         *)
LEMMA OwedGoOn ==
  ASSUME IInv, Effective, NEW o \in Callers,
         \/ Pool!Get(o) \/ Pool!StartCreate(o) \/ Pool!CreateOk(o)
         \/ Pool!Resume(o)
         \/ Pool!Return(o) /\ (o \in Ops => out[o] # "pending"),
         out' = out, endpc' = endpc, owed' = owed
  PROVE  OwedAnswered'
<1>1. P!IInv /\ Ops \subseteq Callers
  BY DEF IInv, Callers
<1>2. /\ \A w \in Callers \ {o} : call[w] = "waiting" \/ call'[w] = call[w]
      /\ \/ closer'[End] = closer[End]
         \/ /\ closer[End] = "awaiting" /\ closer'[End] = "resumed"
            /\ \A w \in Callers : call'[w] # "using"
  BY <1>1, CloserStep
<1>3. o \in owed => call'[o] = "using" \/ out[o] # "pending"
  <2>1. CASE Pool!Return(o) /\ (o \in Ops => out[o] # "pending")
    BY <2>1 DEF Effective, OwedAnswered
  <2>2. CASE \/ Pool!Get(o) \/ Pool!StartCreate(o) \/ Pool!CreateOk(o)
             \/ Pool!Resume(o)
    BY <2>2 DEF Effective, OwedAnswered, Pool!Get, Pool!TakeUnused,
                Pool!StartCreate, Pool!Enqueue, Pool!CreateOk, Pool!Resume
  <2> QED BY <2>1, <2>2
<1>4. \A w \in owed : w \in Ops /\ (call'[w] = "using" \/ out[w] # "pending")
  BY <1>1, <1>2, <1>3 DEF Effective, OwedAnswered
<1> QED BY <1>1, <1>2, <1>4 DEF Effective, OwedAnswered

-----------------------------------------------------------------------------
(* Each step does what ResultBackend allows.                                *)

promise == [o \in Ops |-> Promise(o)]

LEMMA InitSimulates == Init => Backend!Init
<1> SUFFICES ASSUME Init PROVE Backend!Init
  OBVIOUS
<1>1. \A o \in Ops : Promise(o) = "none"
  BY DEF Init, Promise
<1> QED BY <1>1 DEF Init, Backend!Init

(* It is enough to look at the calls one by one ...                         *)
LEMMA AllMove ==
  ASSUME Typed, Typed', effects' \in [Ops -> 0..1],
         \A t \in Tasks : reported[t] \subseteq reported'[t],
         \A o \in Ops : Backend!Moves(o)
  PROVE  Backend!Next
<1>1. \A o \in Ops : Promise(o)' \in Backend!Unsettled \union {"rejected", "ok"}
                                      \union States
  BY DEF Typed, Promise, Backend!Unsettled
<1>2. promise' \in [Ops -> Backend!Unsettled \union {"rejected", "ok"}
                             \union States]
  BY <1>1 DEF promise
<1>3. reported' \in [Tasks -> SUBSET States]
  BY DEF Typed
<1> QED BY <1>2, <1>3 DEF Backend!Next, promise

(* ... and a call that the step leaves alone may stay as it is.             *)
LEMMA Rests ==
  ASSUME NEW w \in Ops, Promise(w)' = Promise(w), effects'[w] = effects[w]
  PROVE  Backend!Moves(w)
BY DEF Backend!Moves

(* Steps of nobody's call: the subscription, messages, the map, end(), what *)
(* workers report, and what the pool does for a call.                       *)
LEMMA QuietStep ==
  ASSUME IInv, IInv', Effective, OwedAnswered',
         pc' = pc, out' = out, effects' = effects, line' = line,
         \A t \in Tasks : reported[t] \subseteq reported'[t],
         \A w \in Ops : call'[w] # "idle" => call[w] # "idle"
  PROVE  Effective' /\ Backend!Next
<1>1. CallsMatch'
  BY DEF Effective, CallsMatch
<1>2. LineIsSent'
  BY DEF Effective, LineIsSent
<1>3. \A w \in Ops : Backend!Moves(w)
  BY Rests DEF Promise
<1>4. Backend!Next
  BY <1>3, AllMove DEF IInv, Effective
<1> QED BY <1>1, <1>2, <1>4 DEF Effective

(* Steps of one call.                                                       *)
LEMMA CallStep ==
  ASSUME IInv, IInv', Effective, OwedAnswered', LineIsSent', NEW o \in Ops,
         \A w \in Ops \ {o} : /\ pc'[w] = pc[w] /\ out'[w] = out[w]
                              /\ effects'[w] = effects[w]
                              /\ call'[w] # "idle" => call[w] # "idle",
         reported' = reported, effects' \in [Ops -> 0..1],
         pc'[o] # "idle",
         o.kind = "get" => out'[o] # "ok" /\ effects'[o] = 0,
         o.kind # "get" =>
           /\ out'[o] = IF pc'[o] = "answered" THEN "ok" ELSE "pending"
           /\ effects'[o] = IF pc'[o] \in {"executed", "answered"} THEN 1 ELSE 0
           /\ pc'[o] # "listening",
         Backend!Moves(o)
  PROVE  Effective' /\ Backend!Next
<1>1. CallsMatch'
  <2> SUFFICES ASSUME NEW w \in Ops
               PROVE  /\ call'[w] # "idle" => pc'[w] # "idle"
                      /\ pc'[w] = "idle" => out'[w] = "pending"
                      /\ w.kind = "get" => out'[w] # "ok" /\ effects'[w] = 0
                      /\ w.kind # "get" =>
                           /\ out'[w] = IF pc'[w] = "answered" THEN "ok"
                                                               ELSE "pending"
                           /\ effects'[w] = IF pc'[w] \in {"executed", "answered"}
                                            THEN 1 ELSE 0
                           /\ pc'[w] # "listening"
    BY DEF CallsMatch
  <2>1. CASE w = o
    BY <2>1
  <2>2. CASE w # o
    BY <2>2 DEF Effective, CallsMatch
  <2> QED BY <2>1, <2>2
<1>2. \A w \in Ops : Backend!Moves(w)
  BY Rests DEF Promise
<1>3. Backend!Next
  BY <1>2, AllMove DEF IInv
<1> QED BY <1>1, <1>3 DEF Effective

(* Whoever is no longer "sent" was not on its way, so the others still are. *)
LEMMA LinesGoOn ==
  ASSUME Typed, LineIsSent, NEW o \in Ops, line' = line, pc[o] # "sent",
         \A w \in Ops \ {o} : pc'[w] = pc[w]
  PROVE  LineIsSent'
<1>1. \A c \in Connections : line[c] \in Seq(Ops)
  BY DEF Typed
<1>2. \A c \in Connections : \A i \in 1..Len(line[c]) : line[c][i] \in Ops
  BY <1>1
<1>3. \A c \in Connections : \A i \in 1..Len(line[c]) : line[c][i] # o
  BY DEF LineIsSent
<1> QED BY <1>2, <1>3 DEF LineIsSent

(* A step that leaves the pool alone, and takes no answer back.             *)
LEMMA OwedKept ==
  ASSUME Effective, call' = call, closer' = closer, endpc' = endpc,
         owed' = owed,
         \A w \in Ops : out[w] # "pending" => out'[w] # "pending"
  PROVE  OwedAnswered'
BY DEF Effective, OwedAnswered

(* Steps that touch neither the pool nor a call.                            *)
LEMMA AsideSteps ==
  ASSUME IInv, IInv', Effective,
         \/ ServerSubscribe \/ SubReply \/ SubListen \/ OnMessage \/ RunJob
         \/ EndCall \/ EndUnsubscribe \/ ServerUnsubscribe
         \/ (\E t \in Timers : Forget(t)) \/ (\E t \in Tasks : Report(t))
         \/ UNCHANGED vars
  PROVE  Effective' /\ Backend!Next
<1>1. /\ pc' = pc /\ out' = out /\ effects' = effects /\ line' = line
      /\ call' = call /\ closer' = closer /\ owed' = owed
      /\ \/ endpc' = endpc
         \/ {endpc, endpc'} \subseteq {"idle", "awaiting", "punsubscribing"}
  BY DEF ServerSubscribe, SubReply, SubListen, OnMessage, RunJob, EndCall,
         EndUnsubscribe, ServerUnsubscribe, Forget, Report, vars, poolVars,
         subVars, opVars, serverVars
<1>2. \A t \in Tasks : reported[t] \subseteq reported'[t]
  <2>1. CASE \E t \in Tasks : Report(t)
    <3>1. PICK u \in Tasks, status \in States :
            reported' = [reported EXCEPT ![u] = @ \union {status}]
      BY <2>1, RedisBackendAssumption DEF Report
    <3> QED BY <3>1 DEF IInv, Typed
  <2>2. CASE ~\E t \in Tasks : Report(t)
    BY <2>2 DEF ServerSubscribe, SubReply, SubListen, OnMessage, RunJob,
                EndCall, EndUnsubscribe, ServerUnsubscribe, Forget, vars,
                serverVars
  <2> QED BY <2>1, <2>2
<1>3. OwedAnswered'
  BY <1>1 DEF Effective, OwedAnswered
<1> QED BY <1>1, <1>2, <1>3, QuietStep

(* What the pool does for whoever had called it.                            *)
LEMMA PoolSteps ==
  ASSUME IInv, IInv', Effective,
         \/ SubGet \/ SubSend \/ (\E c \in Callers : Connect(c))
         \/ (\E o \in Ops : Finish(o))
  PROVE  Effective' /\ Backend!Next
<1>1. PICK o \in Callers :
        \/ Pool!StartCreate(o) /\ o \notin Ops
        \/ Pool!CreateOk(o) \/ Pool!Resume(o)
        \/ Pool!Return(o) /\ (o \in Ops => out[o] # "pending")
  <2>1. CASE SubGet \/ SubSend
    BY <2>1, RedisBackendAssumption DEF SubGet, SubSend, Callers
  <2>2. CASE \E c \in Callers : Connect(c)
    BY <2>2 DEF Connect
  <2>3. CASE \E o \in Ops : Finish(o)
    BY <2>3 DEF Finish, Callers
  <2> QED BY <2>1, <2>2, <2>3
<1>2. /\ pc' = pc /\ out' = out /\ effects' = effects /\ line' = line
      /\ endpc' = endpc /\ owed' = owed /\ reported' = reported
  BY DEF SubGet, SubSend, Connect, Finish, subVars, opVars, serverVars
<1>3. OwedAnswered'
  BY <1>1, <1>2, OwedGoOn
<1>4. \A w \in Ops : call'[w] # "idle" => call[w] # "idle"
  <2>1. \A w \in Callers \ {o} : call[w] = "waiting" \/ call'[w] = call[w]
    BY <1>1, CloserStep DEF IInv
  <2>2. o \in Ops => call[o] # "idle"
    BY <1>1 DEF Pool!CreateOk, Pool!Resume, Pool!Return, Pool!ReturnToWaiter,
                Pool!ReturnToUnused, Pool!LeavesUse
  <2> QED BY <2>1, <2>2 DEF Callers
<1> QED BY <1>2, <1>3, <1>4, QuietStep

(* end() gives up its connection and waits for the others.                  *)
LEMMA EndSteps ==
  ASSUME IInv, IInv', Effective, EndReturn \/ EndDestroy \/ EndDone
  PROVE  Effective' /\ Backend!Next
<1>1. /\ pc' = pc /\ out' = out /\ effects' = effects /\ line' = line
      /\ reported' = reported
  BY DEF EndReturn, EndDestroy, EndDone, opVars, serverVars
<1>2. /\ closer \in [{End} -> P!CloserStates]
      /\ call \in [Callers -> P!CallStates] /\ Ops \subseteq Callers \ {Sub}
      /\ waiting \in Seq(Callers)
      /\ \A i \in DOMAIN waiting : call[waiting[i]] = "waiting"
  <2>1. P!Range(waiting) = {w \in Callers : call[w] = "waiting"}
    BY DEF IInv, P!IInv, P!QueuedIffWaiting
  <2> QED BY <2>1, RedisBackendAssumption
          DEF IInv, P!IInv, P!TypeOK, P!Range, Callers
<1>3. CASE EndReturn
  <2>1. /\ Pool!ReturnAndDestroyAll(Sub, End) /\ endpc' = "destroying"
        /\ owed' = {o \in Ops : call[o] = "using"}
    BY <1>3 DEF EndReturn
  <2>2. \A o \in Ops : call[o] = "waiting" \/ call'[o] = call[o]
    <3>1. CASE Pool!HandOver(Sub)
      <4>1. /\ waiting # <<>>
            /\ call' = [call EXCEPT ![Sub] = "idle", ![Head(waiting)] = "granted"]
        BY <3>1 DEF Pool!HandOver
      <4>2. call[Head(waiting)] = "waiting"
        BY <1>2, <4>1
      <4> QED BY <1>2, <4>1, <4>2
    <3>2. CASE Pool!Releases(Sub)
      BY <1>2, <3>2 DEF Pool!Releases
    <3> QED BY <2>1, <3>1, <3>2 DEF Pool!ReturnAndDestroyAll
  <2>3. \/ closer'[End] = "awaiting"
        \/ closer'[End] = "closing" /\ inUse' = {}
    BY <1>2, <2>1 DEF Pool!ReturnAndDestroyAll, Pool!DestroyUnused, Pool!Emitted
  <2>4. inUse' = {} => \A o \in Ops : call'[o] # "using"
    <3>1. P!ReturnNeverThrows'
      BY DEF IInv, P!IInv
    <3>2. Ops \subseteq Callers
      BY DEF Callers
    <3> QED BY <3>1, <3>2 DEF P!ReturnNeverThrows, P!Using
  <2>5. OwedAnswered'
    BY <2>1, <2>2, <2>3, <2>4 DEF OwedAnswered
  <2> QED BY <1>1, <2>2, <2>5, QuietStep
<1>4. CASE EndDestroy \/ EndDone
  <2>1. /\ call' = call /\ owed' = owed
        /\ closer[End] \in {"resumed", "closing"}
        /\ closer'[End] \in {"closing", "closed"}
        /\ \/ endpc' = endpc
           \/ endpc' = "ended" /\ closer'[End] = "closed"
    BY <1>2, <1>4 DEF EndDestroy, EndDone, Pool!DestroyResume,
                      Pool!DestroyUnused, Pool!DestroyDone, subVars
  <2>2. endpc' \in {"idle", "awaiting", "punsubscribing"} => endpc' = endpc
    BY <2>1
  <2>3. OwedAnswered'
    BY <1>1, <2>1, <2>2 DEF Effective, OwedAnswered
  <2> QED BY <1>1, <2>1, <2>3, QuietStep
<1> QED BY <1>3, <1>4

(* What RedisBackend has been told, ResultBackend has heard.                *)
LEMMA ToldIsSaid ==
  ASSUME IInv, Effective, NEW t \in Tasks, NEW status \in States \union {None},
         Told(t, status)
  PROVE  status \in States /\ Backend!Said(t, status)
<1>1. reported[t] \subseteq States
  BY DEF IInv, Typed
<1>2. status \in States
  BY <1>1, RedisBackendAssumption DEF Told, States, Final
<1>3. Backend!Said(t, status)
  BY DEF Told, Backend!Said, Effective, CallsMatch
<1> QED BY <1>2, <1>3

(* Before it has a connection, and if it needs none.                        *)
LEMMA CallingSteps ==
  ASSUME IInv, IInv', Effective, NEW o \in Ops, ListenAtOnce(o) \/ UsePool(o)
  PROVE  Effective' /\ Backend!Next
<1>1. /\ pc[o] = "idle" /\ pc'[o] \in {"listening", "called"}
      /\ pc'[o] = "listening" => o.kind = "get"
      /\ \A w \in Ops \ {o} : pc'[w] = pc[w]
  BY DEF ListenAtOnce, UsePool, MayCall, IInv, Typed
<1>2. /\ out' = out /\ effects' = effects /\ line' = line /\ endpc' = endpc
      /\ owed' = owed /\ reported' = reported
  BY DEF ListenAtOnce, UsePool, subVars, serverVars
<1>3. \A w \in Ops \ {o} : call'[w] # "idle" => call[w] # "idle"
  <2>1. CASE ListenAtOnce(o)
    BY <2>1 DEF ListenAtOnce, poolVars
  <2>2. CASE UsePool(o)
    BY <2>2, CloserStep DEF UsePool, IInv, Callers
  <2> QED BY <2>1, <2>2
<1>4. OwedAnswered'
  <2>1. CASE ListenAtOnce(o)
    BY <2>1, <1>2, OwedKept DEF ListenAtOnce, poolVars
  <2>2. CASE UsePool(o)
    BY <2>2, <1>2, OwedGoOn DEF UsePool, Callers
  <2> QED BY <2>1, <2>2
<1>5. LineIsSent'
  BY <1>1, <1>2, LinesGoOn DEF IInv, Effective
<1>6. Backend!Moves(o)
  BY <1>1, <1>2 DEF Effective, CallsMatch, Promise, Backend!Moves, Backend!Call
<1> QED BY <1>1, <1>2, <1>3, <1>4, <1>5, <1>6, CallStep DEF Effective, CallsMatch

(* What becomes of its promise.                                             *)
LEMMA AnsweringSteps ==
  ASSUME IInv, IInv', Effective, NEW o \in Ops,
         Answer(o) \/ Listen(o) \/ Hear(o) \/ TimeOut(o)
  PROVE  Effective' /\ Backend!Next
<1>1. /\ pc \in [Ops -> {"idle", "called", "sent", "executed", "listening",
                         "answered"}]
      /\ out \in [Ops -> {"pending", "timed out", "rejected", "ok"} \union States]
      /\ o.task \in Tasks
  BY RedisBackendAssumption DEF IInv, Typed
<1>2. /\ \A w \in Ops \ {o} : pc'[w] = pc[w] /\ out'[w] = out[w]
      /\ effects' = effects /\ line' = line /\ reported' = reported
      /\ call' = call /\ closer' = closer /\ endpc' = endpc /\ owed' = owed
  BY <1>1 DEF Answer, Listen, Hear, TimeOut, Gives, poolVars, subVars, serverVars
<1>3. \/ out'[o] = out[o]
      \/ out[o] = "pending" /\ pc[o] # "idle" /\ out'[o] # "pending"
         /\ \/ o.kind # "get" /\ out'[o] = "ok"
            \/ o.kind = "get" /\ out'[o] \in {"rejected", "timed out"}
            \/ o.kind = "get" /\ out'[o] \in States
               /\ Backend!Said(o.task, out'[o])
  <2>1. CASE Answer(o)
    <3>1. CASE o.kind = "get"
      <4>1. reply[o] \in States \union {None} /\ reply[o] # None
        BY <2>1, <3>1, RedisBackendAssumption
           DEF Answer, IInv, Typed, States, Final
      <4>2. reply[o] \in States /\ Backend!Said(o.task, reply[o])
        BY <1>1, <4>1, ToldIsSaid DEF IInv, AllTold, AnswersTold
      <4> QED BY <1>1, <2>1, <3>1, <4>2 DEF Answer, Gives, States, Final
    <3>2. CASE o.kind # "get"
      BY <1>1, <2>1, <3>2 DEF Answer, Gives
    <3> QED BY <3>1, <3>2
  <2>2. CASE Listen(o)
    BY <2>2 DEF Listen
  <2>3. CASE Hear(o)
    <3>1. o.kind = "get" /\ pc[o] = "listening" /\ held[o] \in Promises
      BY <2>3 DEF Hear, Effective, CallsMatch, IInv, Typed, OneTaskEach
    <3>2. CASE state[held[o]] = "fulfilled"
      <4>1. Told(o.task, value[held[o]])
        BY <3>1, <3>2 DEF IInv, ValuesTold
      <4>2. value[held[o]] \in States \union {None}
        BY <3>1 DEF IInv, Typed
      <4>3. value[held[o]] \in States /\ Backend!Said(o.task, value[held[o]])
        BY <1>1, <4>1, <4>2, ToldIsSaid
      <4> QED BY <1>1, <2>3, <3>1, <3>2, <4>3 DEF Hear, Gives, States, Final
    <3>3. CASE state[held[o]] # "fulfilled"
      BY <1>1, <2>3, <3>1, <3>3 DEF Hear, Gives
    <3> QED BY <3>2, <3>3
  <2>4. CASE TimeOut(o)
    BY <1>1, <2>4 DEF TimeOut, Effective, CallsMatch
  <2> QED BY <2>1, <2>2, <2>3, <2>4
<1>4. /\ pc[o] # "sent" \/ pc' = pc
      /\ pc[o] # "idle" => pc'[o] # "idle"
      /\ o.kind # "get" => /\ pc[o] = "executed" /\ pc'[o] = "answered"
                           /\ out'[o] = "ok"
  BY <1>1 DEF Answer, Listen, Hear, TimeOut, Gives, Effective, CallsMatch
<1>5. pc[o] # "idle" /\ pc'[o] # "idle"
  BY <1>4 DEF Answer, Listen, Hear, TimeOut, Effective, CallsMatch
<1>6. OwedAnswered'
  <2>1. \A w \in Ops : out[w] # "pending" => out'[w] # "pending"
    BY <1>2, <1>3
  <2> QED BY <1>2, <2>1, OwedKept
<1>7. LineIsSent'
  <2>1. CASE pc' = pc
    BY <1>2, <2>1 DEF Effective, LineIsSent
  <2>2. CASE pc' # pc
    BY <1>2, <1>4, <2>2, LinesGoOn DEF IInv, Effective
  <2> QED BY <2>1, <2>2
<1>8. Backend!Moves(o)
  <2>1. effects'[o] = effects[o] /\ (o.kind # "get" => effects'[o] > 0)
    <3>1. effects[o] = IF o.kind = "get" THEN 0 ELSE 1
      BY <1>4 DEF Effective, CallsMatch
    <3> QED BY <1>2, <3>1
  <2>2. o.kind = "get" => effects'[o] = 0
    BY <1>2 DEF Effective, CallsMatch
  <2>3. /\ promise[o] = IF out[o] = "timed out" THEN "rejected" ELSE out[o]
        /\ promise'[o] = IF out'[o] = "timed out" THEN "rejected" ELSE out'[o]
    BY <1>5 DEF promise, Promise
  <2>4. CASE promise'[o] = promise[o]
    BY <2>1, <2>4 DEF promise, Backend!Moves
  <2>5. CASE o.kind # "get" /\ out[o] = "pending" /\ out'[o] = "ok"
    <3>1. o.kind \in {"put", "delete"}
      BY <2>5, RedisBackendAssumption DEF Kinds
    <3>2. promise[o] = "pending" /\ promise'[o] = "ok"
      BY <2>3, <2>5
    <3>3. Backend!Confirm(o)
      BY <2>1, <2>5, <3>1, <3>2
         DEF promise, Backend!Confirm, Backend!Unsettled
    <3> QED BY <2>1, <3>3 DEF Backend!Moves
  <2>6. CASE o.kind = "get" /\ out[o] = "pending"
             /\ out'[o] \in {"rejected", "timed out"}
    <3>1. promise[o] = "pending" /\ promise'[o] = "rejected"
      BY <2>3, <2>6
    <3>2. Backend!Reject(o)
      BY <2>2, <2>6, <3>1 DEF promise, Backend!Reject, Backend!Unsettled
    <3> QED BY <2>1, <3>2 DEF Backend!Moves
  <2>7. CASE o.kind = "get" /\ out[o] = "pending" /\ out'[o] \in States
             /\ Backend!Said(o.task, out'[o])
    <3>1. promise[o] = "pending" /\ promise'[o] = out'[o]
      BY <2>3, <2>7 DEF States, Final
    <3>2. Backend!Fetch(o)
      BY <2>7, <3>1 DEF promise, Backend!Fetch, Backend!Unsettled
    <3> QED BY <2>1, <3>2 DEF Backend!Moves
  <2> QED BY <1>3, <2>3, <2>4, <2>5, <2>6, <2>7
<1>9. /\ o.kind = "get" => out'[o] # "ok" /\ effects'[o] = 0
      /\ o.kind # "get" =>
           /\ out'[o] = IF pc'[o] = "answered" THEN "ok" ELSE "pending"
           /\ effects'[o] = IF pc'[o] \in {"executed", "answered"} THEN 1 ELSE 0
           /\ pc'[o] # "listening"
  BY <1>2, <1>3, <1>4 DEF Effective, CallsMatch, States, Final
<1> QED BY <1>2, <1>5, <1>6, <1>7, <1>8, <1>9, CallStep DEF Effective

(* A command is sent by the one call that has the connection ...            *)
LEMMA SendSteps ==
  ASSUME IInv, IInv', Effective, NEW o \in Ops, Send(o)
  PROVE  Effective' /\ Backend!Next
<1> DEFINE c == leased[o]
<1>1. /\ pc[o] = "called" /\ pc' = [pc EXCEPT ![o] = "sent"]
      /\ pc \in [Ops -> {"idle", "called", "sent", "executed", "listening",
                         "answered"}]
      /\ line \in [Connections -> Seq(Ops)]
  BY DEF Send, IInv, Typed
<1>2. /\ out' = out /\ effects' = effects /\ endpc' = endpc /\ owed' = owed
      /\ reported' = reported
  BY DEF Send, subVars
<1>3. Pool!Resume(o)
  BY DEF Send
<1>4. c \in Connections
  <2>1. c \in created
    BY <1>3 DEF IInv, P!IInv, P!NoUseAfterDestroy, P!Leasing, Pool!Resume,
                Callers
  <2> QED BY <2>1 DEF IInv, P!IInv, P!TypeOK
<1>5. OwedAnswered'
  BY <1>2, <1>3, OwedGoOn DEF Callers
<1>6. \A w \in Ops \ {o} : call'[w] # "idle" => call[w] # "idle"
  BY <1>3, CloserStep DEF IInv, Callers
<1>7. LineIsSent'
  <2>1. \A d \in Connections : line[d] \in Seq(Ops)
    BY <1>1
  <2>2. \A d \in Connections : \A i \in 1..Len(line[d]) :
          line[d][i] \in Ops \ {o}
    BY <1>1, <2>1 DEF Effective, LineIsSent
  <2>3. /\ Len(line[c]) \in Nat /\ Len(Append(line[c], o)) = Len(line[c]) + 1
        /\ \A i \in 1..Len(line[c]) : Append(line[c], o)[i] = line[c][i]
        /\ Append(line[c], o)[Len(line[c]) + 1] = o
    BY <1>4, <2>1, Appended
  <2>4. /\ line'[c] = Append(line[c], o)
        /\ \A d \in Connections \ {c} : line'[d] = line[d]
    BY <1>1, <1>4 DEF Send
  <2> HIDE DEF c
  <2>5. \A d \in Connections : \A i \in 1..Len(line'[d]) :
          \/ i \in 1..Len(line[d]) /\ line'[d][i] = line[d][i]
          \/ d = c /\ i = Len(line[c]) + 1 /\ line'[d][i] = o
    BY <2>3, <2>4
  <2>6. \A d \in Connections : \A i \in 1..Len(line'[d]) :
          pc'[line'[d][i]] = "sent"
    BY <1>1, <2>2, <2>5 DEF Effective, LineIsSent
  <2>7. ASSUME NEW d \in Connections, NEW e \in Connections,
               NEW i \in 1..Len(line'[d]), NEW j \in 1..Len(line'[e]),
               line'[d][i] = line'[e][j]
        PROVE  d = e /\ i = j
    <3>1. \/ i \in 1..Len(line[d]) /\ line'[d][i] = line[d][i]
          \/ d = c /\ i = Len(line[c]) + 1 /\ line'[d][i] = o
      BY <2>5
    <3>2. \/ j \in 1..Len(line[e]) /\ line'[e][j] = line[e][j]
          \/ e = c /\ j = Len(line[c]) + 1 /\ line'[e][j] = o
      BY <2>5
    <3> QED BY <2>2, <2>7, <3>1, <3>2 DEF Effective, LineIsSent
  <2> QED BY <2>6, <2>7 DEF LineIsSent
<1>8. Backend!Moves(o)
  BY <1>1, <1>2 DEF Promise, Backend!Moves
<1> QED BY <1>1, <1>2, <1>5, <1>6, <1>7, <1>8, CallStep DEF Effective, CallsMatch

(* ... and executed once, when its promise still waits for the answer.      *)
LEMMA ExecuteSteps ==
  ASSUME IInv, IInv', Effective, NEW c \in Connections, Execute(c)
  PROVE  Effective' /\ Backend!Next
<1> DEFINE o == Head(line[c])
<1>1. /\ line[c] \in Seq(Ops) /\ line[c] # <<>>
      /\ \A d \in Connections : \A i \in 1..Len(line[d]) : line[d][i] \in Ops
      /\ pc \in [Ops -> {"idle", "called", "sent", "executed", "listening",
                         "answered"}]
      /\ line \in [Connections -> Seq(Ops)]
  <2>1. \A d \in Connections : line[d] \in Seq(Ops)
    BY DEF IInv, Typed
  <2>2. \A d \in Connections : \A i \in 1..Len(line[d]) : line[d][i] \in Ops
    BY <2>1
  <2> QED BY <2>1, <2>2 DEF Execute, IInv, Typed
<1>2. /\ o = line[c][1] /\ o \in Ops /\ 1 \in 1..Len(line[c])
      /\ Len(line[c]) \in Nat /\ Len(Tail(line[c])) = Len(line[c]) - 1
      /\ \A i \in 1..(Len(line[c]) - 1) :
           Tail(line[c])[i] = line[c][i + 1] /\ i + 1 \in 1..Len(line[c])
  BY <1>1, Shifted
<1>3. /\ pc[o] = "sent" /\ pc' = [pc EXCEPT ![o] = "executed"]
      /\ line'[c] = Tail(line[c])
      /\ \A d \in Connections \ {c} : line'[d] = line[d]
  <2>1. pc' = [pc EXCEPT ![o] = "executed"] /\ line' = [line EXCEPT ![c] = Tail(@)]
    BY DEF Execute
  <2>2. pc[o] = "sent"
    BY <1>2 DEF Effective, LineIsSent
  <2> QED BY <1>1, <2>1, <2>2
<1>4. /\ out' = out /\ call' = call /\ closer' = closer /\ endpc' = endpc
      /\ owed' = owed /\ reported' = reported
      /\ effects' = IF o.kind = "get" THEN effects
                                      ELSE [effects EXCEPT ![o] = @ + 1]
  BY DEF Execute, poolVars, subVars
<1> HIDE DEF o
<1>5. OwedAnswered'
  BY <1>4, OwedKept
<1>6. effects \in [Ops -> 0..1] /\ effects[o] = 0
  BY <1>2, <1>3 DEF Effective, CallsMatch
<1>7. /\ effects' \in [Ops -> 0..1]
      /\ effects'[o] = IF o.kind = "get" THEN 0 ELSE 1
      /\ \A w \in Ops \ {o} : effects'[w] = effects[w]
  BY <1>2, <1>4, <1>6
<1>8. LineIsSent'
  <2>1. \A d \in Connections : \A i \in 1..Len(line'[d]) :
          \/ d = c /\ i + 1 \in 1..Len(line[c]) /\ line'[d][i] = line[c][i + 1]
          \/ d # c /\ i \in 1..Len(line[d]) /\ line'[d][i] = line[d][i]
    BY <1>2, <1>3
  <2>2. \A d \in Connections : \A i \in 1..Len(line'[d]) :
          line'[d][i] \in Ops \ {o} /\ pc[line'[d][i]] = "sent"
    BY <1>1, <1>2, <2>1 DEF Effective, LineIsSent
  <2>3. \A d \in Connections : \A i \in 1..Len(line'[d]) :
          pc'[line'[d][i]] = "sent"
    BY <1>1, <1>3, <2>2
  <2>4. ASSUME NEW d \in Connections, NEW e \in Connections,
               NEW i \in 1..Len(line'[d]), NEW j \in 1..Len(line'[e]),
               line'[d][i] = line'[e][j]
        PROVE  d = e /\ i = j
    <3>1. /\ \/ d = c /\ i + 1 \in 1..Len(line[c]) /\ line'[d][i] = line[c][i + 1]
             \/ d # c /\ i \in 1..Len(line[d]) /\ line'[d][i] = line[d][i]
          /\ \/ e = c /\ j + 1 \in 1..Len(line[c]) /\ line'[e][j] = line[c][j + 1]
             \/ e # c /\ j \in 1..Len(line[e]) /\ line'[e][j] = line[e][j]
      BY <2>1
    <3>2. \A x, y \in Connections :
            \A k \in 1..Len(line[x]), l \in 1..Len(line[y]) :
              line[x][k] = line[y][l] => x = y /\ k = l
      BY DEF Effective, LineIsSent
    <3>3. i \in Nat /\ j \in Nat
      OBVIOUS
    <3> QED BY <2>4, <3>1, <3>2, <3>3
  <2> QED BY <2>3, <2>4 DEF LineIsSent
<1>9. out'[o] = out[o] /\ pc'[o] = "executed"
      /\ (o.kind # "get" => out[o] = "pending" /\ o.kind \in {"put", "delete"})
      /\ (o.kind = "get" => out[o] # "ok")
  BY <1>1, <1>2, <1>3, <1>4, RedisBackendAssumption
     DEF Effective, CallsMatch, Kinds
<1>10. Backend!Moves(o)
  <2>1. promise[o] = promise'[o] /\ (o.kind # "get" => promise[o] = "pending")
    BY <1>2, <1>3, <1>9 DEF promise, Promise
  <2>2. CASE o.kind = "get"
    BY <1>6, <1>7, <2>1, <2>2 DEF promise, Backend!Moves
  <2>3. CASE o.kind # "get"
    <3>1. effects[o] = 0 /\ effects'[o] = effects[o] + 1
      BY <1>6, <1>7, <2>3
    <3>2. Backend!TakeEffect(o)
      BY <1>9, <2>1, <2>3, <3>1
         DEF promise, Backend!TakeEffect, Backend!Unsettled
    <3> QED BY <2>1, <3>2 DEF promise, Backend!Moves
  <2> QED BY <2>2, <2>3
<1>11. /\ \A w \in Ops \ {o} : /\ pc'[w] = pc[w] /\ out'[w] = out[w]
                               /\ effects'[w] = effects[w]
                               /\ call'[w] # "idle" => call[w] # "idle"
       /\ o.kind = "get" => out'[o] # "ok" /\ effects'[o] = 0
       /\ o.kind # "get" =>
            /\ out'[o] = IF pc'[o] = "answered" THEN "ok" ELSE "pending"
            /\ effects'[o] = IF pc'[o] \in {"executed", "answered"} THEN 1 ELSE 0
            /\ pc'[o] # "listening"
  BY <1>1, <1>3, <1>4, <1>7, <1>9
<1> QED BY <1>2, <1>4, <1>5, <1>7, <1>8, <1>9, <1>10, <1>11, CallStep
        DEF Effective

(* Every step is one that ResultBackend allows.                             *)
LEMMA StepEffective ==
  ASSUME IInv, IInv', Effective, [Next]_vars
  PROVE  Effective' /\ Backend!Next
<1>1. CASE \/ ServerSubscribe \/ SubReply \/ SubListen \/ OnMessage \/ RunJob
           \/ EndCall \/ EndUnsubscribe \/ ServerUnsubscribe
           \/ (\E t \in Timers : Forget(t)) \/ (\E t \in Tasks : Report(t))
           \/ UNCHANGED vars
  BY <1>1, AsideSteps
<1>2. CASE \/ SubGet \/ SubSend \/ (\E c \in Callers : Connect(c))
           \/ (\E o \in Ops : Finish(o))
  BY <1>2, PoolSteps
<1>3. CASE EndReturn \/ EndDestroy \/ EndDone
  BY <1>3, EndSteps
<1>4. CASE \E o \in Ops : ListenAtOnce(o) \/ UsePool(o)
  BY <1>4, CallingSteps
<1>5. CASE \E o \in Ops : Answer(o) \/ Listen(o) \/ Hear(o) \/ TimeOut(o)
  BY <1>5, AnsweringSteps
<1>6. CASE \E o \in Ops : Send(o)
  BY <1>6, SendSteps
<1>7. CASE \E c \in Connections : Execute(c)
  BY <1>7, ExecuteSteps
<1> QED BY <1>1, <1>2, <1>3, <1>4, <1>5, <1>6, <1>7 DEF Next

(* Both invariants hold in every reachable state.                           *)
LEMMA EffectiveInvariant == Spec => [](IInv /\ Effective)
<1>1. Init => IInv /\ Effective
  BY InitInv, InitEffective
<1>2. IInv /\ Effective /\ [Next]_vars => (IInv /\ Effective)'
  BY NextInv, StepEffective
<1> QED BY <1>1, <1>2, PTL DEF Spec

(* However calls interleave on two connections, get(), put(), delete() and  *)
(* end() are a ResultBackend: a command is executed once at most and while  *)
(* its call waits, the promise of a put() or a delete() resolves only when  *)
(* it has been, that of a get() only with what was said of its task before, *)
(* and none settles twice, even though a timer and an answer race for it.   *)
THEOREM ImplementsResultBackend == Spec => ResultBackendSpec
<1>1. Init => Backend!Init
  BY InitSimulates
<1>2. IInv /\ IInv' /\ Effective /\ [Next]_vars
        => [Backend!Next]_<<promise, effects, reported>>
  BY StepEffective
<1> QED
  BY <1>1, <1>2, EffectiveInvariant, PTL
  DEF Spec, ResultBackendSpec, Backend!Spec, Backend!backendVars, promise

(* By the time that end() has come to its end, whoever had a connection     *)
(* when it gave up its own has been answered, and Redis has done what a     *)
(* put() or a delete() asked for.                                           *)
THEOREM EndAlwaysGentle == Spec => []EndIsGentle
<1>1. Effective => EndIsGentle
  <2> SUFFICES ASSUME Effective, endpc = "ended", NEW o \in owed
               PROVE  /\ out[o] # "pending"
                      /\ o.kind # "get" => out[o] = "ok" /\ effects[o] = 1
    BY DEF EndIsGentle
  <2>1. o \in Ops /\ out[o] # "pending"
    BY DEF Effective, OwedAnswered
  <2> QED BY <2>1 DEF Effective, CallsMatch
<1> QED BY <1>1, EffectiveInvariant, PTL

-----------------------------------------------------------------------------
(* Type correctness of the backend, of its pool and of its map.            *)
THEOREM TypeCorrect == Spec => []TypeOK
<1>1. IInv /\ Effective => TypeOK
  <2> SUFFICES ASSUME IInv, Effective PROVE TypeOK
    OBVIOUS
  <2>1. Pool!TypeOK
    BY DEF IInv, P!IInv, P!TypeOK, Pool!TypeOK, P!CallStates, Pool!CallStates,
           P!CloserStates, Pool!CloserStates
  <2>2. Map!TypeOK
    BY DEF IInv, M!IInv, M!TypeOK, Map!TypeOK, M!Entries, Map!Entries,
           M!NoEntry, Map!NoEntry, M!Settled, Map!Settled
  <2>3. effects \in [Ops -> 0..1] /\ owed \in SUBSET Ops
    BY DEF Effective, OwedAnswered
  <2> QED BY <2>1, <2>2, <2>3 DEF IInv, Typed, TypeOK
<1> QED BY <1>1, EffectiveInvariant, PTL

(* From PSUBSCRIBE to the reply to PUNSUBSCRIBE no operation has the       *)
(* connection of the subscription, or a command on it.                     *)
THEOREM SubscriberAlwaysReserved == Spec => []SubscriberReserved
<1>1. IInv => SubscriberReserved
  <2> SUFFICES ASSUME IInv, subscribed \/ wire # <<>>
               PROVE  /\ leased[Sub] = subscriber
                      /\ \A o \in Ops : leased[o] # subscriber
                      /\ line[subscriber] = <<>>
    BY DEF SubscriberReserved
  <2>1. Keeps
    BY DEF IInv, SocketInOrder, Typed, Keeps
  <2>2. /\ leased[Sub] = subscriber /\ line[subscriber] = <<>>
        /\ call[Sub] = "using"
    BY <2>1 DEF IInv, SubConnected
  <2>3. ASSUME NEW o \in Ops, leased[o] = subscriber
        PROVE  FALSE
    <3>1. o \in Callers /\ Sub \in Callers /\ o # Sub
      BY RedisBackendAssumption DEF Callers
    <3>2. subscriber # None
      BY <2>2, <3>1 DEF IInv, P!IInv, P!LeasedIffHolding, P!Leasing
    <3> QED BY <2>2, <2>3, <3>1, <3>2
            DEF IInv, P!IInv, P!LeasedIffHolding, P!Leasing, P!Exclusive
  <2> QED BY <2>2, <2>3
<1> QED BY <1>1, Invariant, PTL

(* No get() is answered with the result of another task, or with one that   *)
(* nobody reported.                                                        *)
THEOREM AnswersAlwaysReported == Spec => []AnswersAreReported
<1>1. IInv => AnswersAreReported
  BY DEF IInv, AllTold, AnswersTold, StoreTold, WireTold, Told, AnswersAreReported
<1> QED BY <1>1, Invariant, PTL
=============================================================================
