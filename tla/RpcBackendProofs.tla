-------------------------- MODULE RpcBackendProofs --------------------------
(***************************************************************************)
(* Proofs about RpcBackend, for any calls, tasks, channels and faults: its *)
(* type invariant, that a get() is only answered with what was reported or *)
(* put for its own task, that it implements ResultBackend, that end() is   *)
(* gentle, and that nobody else has the consumer's channel.                *)
(***************************************************************************)
EXTENDS RpcBackend, TLAPS

\* The proofs about the pool and about the map, for those that RpcBackend has.
P == INSTANCE ResourcePoolProofs WITH
  Closers <- {End}, Resources <- Channels, maxResources <- 2,
  CreateMayFail <- TRUE

M == INSTANCE PromiseMapProofs WITH
  Keys <- Tasks, timed <- TRUE, WithClear <- FALSE, maxFollows <- 0,
  follows <- {}, dropped <- {}

(* The inductive invariant: the pool's and the map's own, what each call   *)
(* has to do with the pool, and that nothing the consumer may receive, and *)
(* no promise of a task, has the result of another.                        *)

\* TypeOK but for the pool and the map, of which P!IInv and M!IInv speak, and
\* for the queue and the wire.
Typed ==
  /\ program \in Programs
  /\ connection \in {"connecting", "open", "failed", "lost", "closed"}
  /\ con \in {"new", "getting", "asserting", "asserted", "consuming",
              "listening", "failed"}
  /\ endpc \in {"idle", "awaiting", "cancelling", "destroying", "closing",
                "ended", "failed"}
  /\ pc \in [Ops -> {"idle", "called", "asserting", "ready", "draining",
                     "flushed", "failed", "listening", "over"}]
  /\ out \in [Ops -> {"pending", "rejected", "ok"} \union States]
  /\ held \in [Ops -> Promises \union {None}]
  /\ value \in [Promises -> States \union {None}]
  /\ {declared, consuming} \subseteq BOOLEAN
  /\ consuming => declared
  /\ reported \in SUBSET Tasks
  /\ effects \in [Ops -> Nat]

\* The pool has yet to let the caller go on with a channel.
Coming == {"creating", "waiting", "granted"}

\* Only a put() uses the pool, and only it goes the way of one.
PutsUsePool ==
  /\ \A o \in Ops : call[o] # "idle" => o.kind = "put" /\ pc[o] # "idle"
  /\ \A o \in Ops : call[o] \in Coming => pc[o] = "called"
  /\ \A o \in Ops : pc[o] \in {"asserting", "ready", "draining", "flushed",
                               "failed"} => o.kind = "put"

\* A put() has sent its result, whatever it has come to then.
Wrote(w) == effects[w] > 0

\* What has been said of task t: by its worker, or by a put() that sent it.
Told(t, status) ==
  \/ status = "FAILURE" /\ t \in reported
  \/ status = "SUCCESS" /\ \E w \in Puts : w.task = t /\ Wrote(w)

TrueMessages == {m \in Messages : Told(m.task, m.status)}

\* Whatever is queued, on its way or answered has been said of its task.
AllTold ==
  /\ \A o \in Ops : out[o] \in States => Told(o.task, out[o])
  /\ queue \in Seq(TrueMessages)
  /\ wire \in Seq(TrueMessages \union Notices)

\* A promise is of one task, whether the map or a call of get() still has it.
OneTaskEach ==
  /\ \A o \in Ops : pc[o] = "listening" => held[o] # None
  /\ \A o, w \in Ops : held[o] # None /\ held[o] = held[w] => o.task = w.task
  /\ \A o \in Ops, t \in Tasks :
       held[o] # None /\ held[o] = promises[t] => o.task = t
  /\ \A o \in Ops : held[o] # None => state[held[o]] # "unused"
  /\ \A t \in Tasks : promises[t] # None => state[promises[t]] # "unused"

\* And what it was or will be fulfilled with has been said of that task.
ValuesTold ==
  \A p \in Promises : state[p] \in {"committed", "fulfilled"} =>
    /\ \A o \in Ops : held[o] = p => Told(o.task, value[p])
    /\ \A t \in Tasks : promises[t] = p => Told(t, value[p])

IInv ==
  /\ Typed
  /\ P!IInv
  /\ M!IInv
  /\ PutsUsePool
  /\ AllTold
  /\ OneTaskEach
  /\ ValuesTold

(* A new backend satisfies the invariant. *)
LEMMA InitInv == Init => IInv
<1> SUFFICES ASSUME Init PROVE IInv
  OBVIOUS
<1> USE RpcBackendAssumption DEF Init
<1>1. P!Init /\ M!Init
  BY DEF Pool!Init, P!Init, Map!Init, M!Init, Map!NoEntry, M!NoEntry
<1>2. P!IInv
  BY <1>1, P!InitInv DEF P!PoolAssumption, Callers
<1>3. M!IInv
  BY <1>1, M!InitInv DEF M!PromiseMapAssumption
<1>4. Typed
  BY DEF Typed
<1>5. PutsUsePool
  BY <1>1 DEF P!Init, PutsUsePool, Coming, Callers
<1>6. AllTold
  <2>1. \A S : <<>> \in Seq(S)
    OBVIOUS
  <2>2. queue \in Seq(TrueMessages) /\ wire \in Seq(TrueMessages \union Notices)
    BY <2>1
  <2> QED BY <2>2 DEF AllTold, States
<1>7. OneTaskEach /\ ValuesTold
  BY <1>1 DEF OneTaskEach, ValuesTold, M!Init
<1> QED BY <1>2, <1>3, <1>4, <1>5, <1>6, <1>7 DEF IInv
-----------------------------------------------------------------------------
(* The pool and the map, when an operation leaves them alone. *)
LEMMA PoolKept ==
  ASSUME P!IInv, UNCHANGED poolVars
  PROVE  P!IInv'
<1>1. [P!Next]_(P!poolVars)
  BY DEF poolVars, P!poolVars
<1> QED BY <1>1, P!NextInv, RpcBackendAssumption DEF P!PoolAssumption, Callers

(* A step that does not touch the map keeps what is proved of it.           *)
LEMMA MapKept ==
  ASSUME M!IInv, UNCHANGED mapVars
  PROVE  M!IInv'
<1>1. [M!Next]_(M!mapVars)
  BY DEF mapVars, M!mapVars
<1> QED BY <1>1, M!NextInv, RpcBackendAssumption DEF M!PromiseMapAssumption

(* What a step of another caller, or of end(), does not do to a call.      *)
Steady(w) == /\ call[w] = "idle" => call'[w] = "idle"
             /\ call'[w] \in Coming => call[w] \in Coming

(* The steps of a call of the pool: nobody else starts or ends one.         *)
LEMMA PoolStep ==
  ASSUME P!IInv, NEW o \in Callers,
         \/ Pool!Get(o) \/ Pool!StartCreate(o) \/ Pool!CreateOk(o)
         \/ Pool!CreateFail(o) \/ Pool!Resume(o) \/ Pool!Return(o)
  PROVE  /\ P!IInv'
         /\ \A w \in Callers \ {o} : Steady(w)
         /\ Pool!Get(o) \/ call[o] # "idle" \/ Pool!StartCreate(o)
         /\ Pool!CreateFail(o) \/ Pool!Return(o) => call'[o] = "idle"
         /\ Pool!CreateOk(o) => Steady(o)
         /\ Pool!Resume(o) => call[o] = "granted" /\ call'[o] = "using"
<1>1. /\ call \in [Callers -> P!CallStates]
      /\ waiting \in Seq(Callers)
      /\ \A i \in DOMAIN waiting : call[waiting[i]] = "waiting"
  <2>1. P!Range(waiting) = {w \in Callers : call[w] = "waiting"}
    BY DEF P!IInv, P!QueuedIffWaiting
  <2> QED BY <2>1 DEF P!IInv, P!TypeOK, P!Range
<1>2. /\ Pool!Get(o) \/ Pool!StartCreate(o) => P!Get(o)
      /\ Pool!CreateOk(o) => P!CreateOk(o)
      /\ Pool!CreateFail(o) => P!CreateFail(o)
      /\ Pool!Resume(o) => P!Resume(o)
      /\ Pool!Return(o) => P!Return(o)
  BY DEF Pool!Get, Pool!TakeUnused, Pool!StartCreate, Pool!Enqueue, P!Get,
         P!TakeUnused, P!StartCreate, P!Enqueue, Pool!CreateOk, P!CreateOk,
         Pool!CreateFail, P!CreateFail,
         Pool!Resume, P!Resume, Pool!Return, Pool!ReturnToWaiter,
         Pool!ReturnToUnused, Pool!LeavesUse, Pool!HandOver, Pool!Releases,
         Pool!Emitted, P!Return, P!ReturnToWaiter, P!ReturnToUnused,
         P!LeavesUse, P!HandOver, P!Releases, P!Emitted
<1>3. P!IInv'
  <2>1. P!Next
    BY <1>2 DEF P!Next
  <2> QED BY <2>1, P!NextInv, RpcBackendAssumption DEF P!PoolAssumption, Callers
<1>4. Pool!CreateOk(o) => Steady(o)
  BY <1>1 DEF Pool!CreateOk, Steady, Coming
<1>5. Pool!Resume(o) => call[o] = "granted" /\ call'[o] = "using"
  BY <1>1 DEF Pool!Resume
<1>6. CASE Pool!Get(o) \/ Pool!StartCreate(o)
  BY <1>1, <1>3, <1>4, <1>5, <1>6 DEF Pool!Get, Pool!TakeUnused,
         Pool!StartCreate, Pool!Enqueue, Steady, Coming, Pool!CreateFail,
         Pool!Return, Pool!ReturnToWaiter, Pool!ReturnToUnused, Pool!LeavesUse
<1>7. CASE Pool!CreateOk(o) \/ Pool!CreateFail(o) \/ Pool!Resume(o)
  BY <1>1, <1>3, <1>4, <1>5, <1>7 DEF Steady, Coming, Pool!CreateOk,
         Pool!CreateFail, Pool!Resume, Pool!Return, Pool!ReturnToWaiter,
         Pool!ReturnToUnused, Pool!LeavesUse
<1>8. CASE Pool!Return(o)
  <2>1. call[o] = "using"
    BY <1>8 DEF Pool!Return, Pool!ReturnToWaiter, Pool!ReturnToUnused,
                Pool!LeavesUse
  <2>2. CASE Pool!HandOver(o)
    <3>1. /\ waiting # <<>>
          /\ call' = [call EXCEPT ![o] = "idle", ![Head(waiting)] = "granted"]
      BY <2>2 DEF Pool!HandOver
    <3>2. Head(waiting) \in Callers /\ call[Head(waiting)] = "waiting"
      BY <1>1, <3>1
    <3> QED BY <1>1, <1>3, <1>4, <1>5, <2>1, <3>1, <3>2 DEF Steady, Coming
  <2>3. CASE Pool!Releases(o)
    BY <1>1, <1>3, <1>4, <1>5, <2>1, <2>3 DEF Pool!Releases, Steady, Coming
  <2> QED BY <1>8, <2>2, <2>3
          DEF Pool!Return, Pool!ReturnToWaiter, Pool!ReturnToUnused
<1> QED BY <1>6, <1>7, <1>8

(* What end() does to the pool starts no call and ends none but Con's.      *)
LEMMA PoolEnds ==
  ASSUME P!IInv,
         \/ Pool!ReturnAndDestroyAll(Con, End)
         \/ Pool!DestroyResume(End) \/ Pool!DestroyDone(End)
  PROVE  /\ P!IInv'
         /\ \A w \in Callers : Steady(w)
<1>1. /\ call \in [Callers -> P!CallStates] /\ Con \in Callers
      /\ waiting \in Seq(Callers)
      /\ \A i \in DOMAIN waiting : call[waiting[i]] = "waiting"
  <2>1. P!Range(waiting) = {w \in Callers : call[w] = "waiting"}
    BY DEF P!IInv, P!QueuedIffWaiting
  <2> QED BY <2>1 DEF P!IInv, P!TypeOK, P!Range, Callers
<1>2. /\ Pool!ReturnAndDestroyAll(Con, End) => P!ReturnAndDestroyAll(Con, End)
      /\ Pool!DestroyResume(End) => P!DestroyResume(End)
      /\ Pool!DestroyDone(End) => P!DestroyDone(End)
  BY DEF Pool!ReturnAndDestroyAll, P!ReturnAndDestroyAll, Pool!DestroyResume,
         P!DestroyResume, Pool!DestroyDone, P!DestroyDone, Pool!DestroyUnused,
         P!DestroyUnused, Pool!LeavesUse, P!LeavesUse, Pool!HandOver,
         P!HandOver, Pool!Releases, P!Releases, Pool!Emitted, P!Emitted,
         Pool!Range, P!Range
<1>3. P!IInv'
  <2>1. P!Next
    BY <1>1, <1>2 DEF P!Next
  <2> QED BY <2>1, P!NextInv, RpcBackendAssumption DEF P!PoolAssumption, Callers
<1>4. CASE Pool!ReturnAndDestroyAll(Con, End)
  <2>1. CASE Pool!HandOver(Con)
    <3>1. /\ waiting # <<>>
          /\ call' = [call EXCEPT ![Con] = "idle", ![Head(waiting)] = "granted"]
      BY <2>1 DEF Pool!HandOver
    <3>2. Head(waiting) \in Callers /\ call[Head(waiting)] = "waiting"
      BY <1>1, <3>1
    <3> QED BY <1>1, <1>3, <3>1, <3>2 DEF Steady, Coming
  <2>2. CASE Pool!Releases(Con)
    BY <1>1, <1>3, <2>2 DEF Pool!Releases, Steady, Coming
  <2> QED BY <1>4, <2>1, <2>2 DEF Pool!ReturnAndDestroyAll
<1>5. CASE Pool!DestroyResume(End) \/ Pool!DestroyDone(End)
  BY <1>3, <1>5 DEF Pool!DestroyResume, Pool!DestroyDone,
                       Pool!DestroyUnused, Steady
<1> QED BY <1>4, <1>5
-----------------------------------------------------------------------------
(* What a message does to the map: one promise, which is the task's, or was *)
(* nobody's, is resolved.                                                   *)
LEMMA MapResolves ==
  ASSUME M!IInv, NEW t \in Tasks, Map!ResolveValue(t)
  PROVE  /\ M!IInv'
         /\ \E p \in Promises :
              /\ promises' = [promises EXCEPT ![t] = p]
              /\ state' = [state EXCEPT ![p] = "committed"]
              /\ \/ p = promises[t] /\ state[p] = "open"
                 \/ p \in Map!Fresh
<1> USE RpcBackendAssumption DEF M!PromiseMapAssumption
<1>1. M!ResolveValue(t)
  BY DEF Map!ResolveValue, M!ResolveValue, Map!Target, M!Target, Map!Settle,
         M!Settle, Map!Fresh, M!Fresh, Map!Settled, M!Settled, Map!NewTimers,
         M!NewTimers, Map!FreeTimers, M!FreeTimers, Map!Range, M!Range,
         Map!Injection, M!Injection, Map!IsInjective, M!IsInjective
<1>2. M!IInv'
  <2>1. M!Next
    BY <1>1 DEF M!Next
  <2> QED BY <2>1, M!NextInv
<1>3. PICK p \in Promises : /\ Map!Target(t, p)
                            /\ state' = [state EXCEPT ![p] = "committed"]
  BY DEF Map!ResolveValue
<1>4. data[t].functions # None
        => data[t].functions = promises[t] /\ state[promises[t]] = "open"
  BY DEF M!IInv, M!MapsAgree
<1> QED BY <1>2, <1>3, <1>4 DEF Map!Target

(* get() of a task that is not in the map makes it a new promise.           *)
LEMMA MapGets ==
  ASSUME M!IInv, NEW t \in Tasks, Map!Get(t)
  PROVE  /\ M!IInv'
         /\ promises[t] = None
         /\ \E p \in Map!Fresh :
              /\ promises' = [promises EXCEPT ![t] = p]
              /\ state' = [state EXCEPT ![p] = "open"]
<1> USE RpcBackendAssumption DEF M!PromiseMapAssumption
<1>1. M!Get(t)
  BY DEF Map!Get, M!Get, Map!Fresh, M!Fresh, Map!Settled, M!Settled
<1>2. M!IInv'
  <2>1. M!Next
    BY <1>1 DEF M!Next
  <2> QED BY <2>1, M!NextInv
<1> QED BY <1>2 DEF Map!Get

(* The other calls and callbacks give no task a promise, and what they      *)
(* fulfil was resolved before.                                              *)
LEMMA MapGoesOn ==
  ASSUME M!IInv,
         \/ \E t \in Tasks : Map!Delete(t)
         \/ \E timer \in Timers : Map!FireTimer(timer)
         \/ Map!RunJob \/ Map!RejectAll
  PROVE  /\ M!IInv'
         /\ \A t \in Tasks : promises'[t] \in {promises[t], None}
         /\ \A p \in Promises :
              \/ state'[p] = state[p]
              \/ state'[p] = "rejected"
              \/ state[p] = "committed" /\ state'[p] = "fulfilled"
<1> USE RpcBackendAssumption DEF M!PromiseMapAssumption
<1>1. /\ promises \in [Tasks -> Promises \union {None}]
      /\ state \in [Promises -> {"unused", "open", "committed"} \union M!Settled]
      /\ armed \in [Timers -> Tasks \union {None}]
  BY DEF M!IInv, M!TypeOK
<1>2. CASE \E t \in Tasks : Map!Delete(t)
  <2>1. PICK t \in Tasks : M!Delete(t)
    BY <1>2 DEF Map!Delete, M!Delete, Map!DoDelete, M!DoDelete, Map!NoEntry,
                M!NoEntry
  <2>2. M!Next
    BY <2>1 DEF M!Next
  <2>3. M!IInv'
    BY <2>2, M!NextInv
  <2> QED BY <1>1, <2>1, <2>3 DEF M!Delete, M!DoDelete
<1>3. CASE \E timer \in Timers : Map!FireTimer(timer)
  <2>1. PICK timer \in Timers : M!FireTimer(timer)
    BY <1>3 DEF Map!FireTimer, M!FireTimer, Map!DoDelete, M!DoDelete,
                Map!NoEntry, M!NoEntry
  <2>2. M!Next
    BY <2>1 DEF M!Next
  <2>3. M!IInv'
    BY <2>2, M!NextInv
  <2> QED BY <1>1, <2>1, <2>3 DEF M!FireTimer, M!DoDelete
<1>4. CASE Map!RunJob
  <2>1. M!RunJob
    BY <1>4 DEF Map!RunJob, M!RunJob
  <2>2. M!Next
    BY <2>1 DEF M!Next
  <2>3. M!IInv'
    BY <2>2, M!NextInv
  <2> DEFINE job == jobs[1]
  <2>4. /\ jobs # <<>> /\ promises' = promises
        /\ state' = [state EXCEPT ![Head(jobs).promise] = Head(jobs).status]
    BY <2>1 DEF M!RunJob
  <2>5. 1 \in 1..Len(jobs) /\ Head(jobs) = job
    BY <2>4 DEF M!IInv, M!TypeOK
  <2>6. /\ job \in [key : Tasks, promise : Promises, status : M!Settled]
        /\ [key |-> job.key, promise |-> job.promise] \in M!Pending
    BY <2>5, M!PendingFacts DEF M!IInv
  <2>7. state[job.promise] = "committed" /\ job.status \in M!Settled
    BY <2>6 DEF M!IInv, M!PendingOwns
  <2> QED BY <1>1, <2>3, <2>4, <2>5, <2>7 DEF M!Settled
<1>5. CASE Map!RejectAll
  <2>1. M!RejectAll
    BY <1>5 DEF Map!RejectAll, M!RejectAll, Map!Rejectable, M!Rejectable,
         Map!Settle, M!Settle, Map!NewTimers, M!NewTimers, Map!FreeTimers,
         M!FreeTimers, Map!Range, M!Range, Map!Injection, M!Injection,
         Map!IsInjective, M!IsInjective
  <2>2. M!Next
    BY <2>1 DEF M!Next
  <2>3. M!IInv'
    BY <2>2, M!NextInv
  <2> QED BY <1>1, <2>1, <2>3 DEF M!RejectAll
<1> QED BY <1>2, <1>3, <1>4, <1>5

-----------------------------------------------------------------------------
(* What was said once stays said: a put() that has sent its result has done *)
(* so for good.                                                             *)

WroteNow(w) == effects'[w] > 0

Kept == /\ reported \subseteq reported'
        /\ \A w \in Puts : Wrote(w) => WroteNow(w)

ToldNow(t, status) ==
  \/ status = "FAILURE" /\ t \in reported'
  \/ status = "SUCCESS" /\ \E w \in Puts : w.task = t /\ WroteNow(w)

(* What was said stays said, also of messages.                              *)
LEMMA SaidStays ==
  ASSUME Kept
  PROVE  /\ \A t, status : Told(t, status) => ToldNow(t, status)
         /\ TrueMessages \subseteq TrueMessages'
<1>1. \A t, status : Told(t, status) => ToldNow(t, status)
  BY DEF Kept, Told, ToldNow
<1>2. TrueMessages' = {m \in Messages : ToldNow(m.task, m.status)}
  BY DEF TrueMessages, Told, ToldNow, Wrote, WroteNow
<1> QED BY <1>1, <1>2 DEF TrueMessages

(* A sequence of members of S is one of any larger set.                     *)
LEMMA SeqWider ==
  ASSUME NEW S, NEW T, S \subseteq T, NEW s \in Seq(S)
  PROVE  s \in Seq(T)
  OBVIOUS

(* So a step that moves nothing but what was said before keeps AllTold...  *)
LEMMA SaidGoesOn ==
  ASSUME AllTold, Kept,
         \A o \in Ops : \/ out'[o] = out[o] \/ out'[o] \notin States
                        \/ Told(o.task, out'[o]),
         queue' \in Seq(TrueMessages),
         wire' \in Seq(TrueMessages \union Notices)
  PROVE  AllTold'
<1>1. TrueMessages \subseteq TrueMessages' /\ Notices' = Notices
  BY SaidStays DEF Notices
<1>2. \A o \in Ops : out'[o] \in States => ToldNow(o.task, out'[o])
  BY SaidStays DEF AllTold
<1>3. queue' \in Seq(TrueMessages')
  BY <1>1, SeqWider
<1>4. wire' \in Seq(TrueMessages' \union Notices)
  <2>1. TrueMessages \union Notices \subseteq TrueMessages' \union Notices
    BY <1>1
  <2> QED BY <2>1, SeqWider
<1> QED BY <1>1, <1>2, <1>3, <1>4 DEF AllTold, Told, ToldNow, Wrote, WroteNow

(* ... and one that gives no task another promise keeps the other two.     *)
LEMMA PromisesGoOn ==
  ASSUME Typed, M!IInv, OneTaskEach, ValuesTold, Kept, value' = value,
         \A t \in Tasks : promises'[t] \in {promises[t], None},
         \A p \in Promises : \/ state'[p] = state[p]
                             \/ state'[p] = "rejected"
                             \/ state[p] = "committed" /\ state'[p] = "fulfilled",
         \A o \in Ops : /\ \/ held'[o] = held[o]
                           \/ held'[o] = None /\ pc'[o] # "listening"
                        /\ pc'[o] = "listening" => pc[o] = "listening"
  PROVE  OneTaskEach' /\ ValuesTold'
<1>1. /\ held \in [Ops -> Promises \union {None}]
      /\ promises \in [Tasks -> Promises \union {None}]
  BY DEF Typed, M!IInv, M!TypeOK
<1>2. OneTaskEach'
  BY <1>1 DEF OneTaskEach
<1>3. ASSUME NEW p \in Promises, state'[p] \in {"committed", "fulfilled"}
      PROVE  /\ \A o \in Ops : held'[o] = p => ToldNow(o.task, value[p])
             /\ \A t \in Tasks : promises'[t] = p => ToldNow(t, value[p])
  <2>1. state[p] \in {"committed", "fulfilled"} /\ p # None
    BY <1>3, RpcBackendAssumption
  <2>2. /\ \A o \in Ops : held'[o] = p => held[o] = p
        /\ \A t \in Tasks : promises'[t] = p => promises[t] = p
    BY <2>1
  <2> QED BY <2>1, <2>2, SaidStays DEF ValuesTold
<1>4. ValuesTold'
  BY <1>3 DEF ValuesTold, Told, ToldNow, Wrote, WroteNow
<1> QED BY <1>2, <1>4

(* A message settles a promise of its own task, whoever waits for it.      *)
LEMMA MessageResolves ==
  ASSUME IInv, NEW m \in Messages, Told(m.task, m.status),
         Map!ResolveValue(m.task), IdsKept,
         value' = [value EXCEPT ![promises'[m.task]] = m.status],
         held' = held, pc' = pc, out' = out, effects' = effects,
         reported' = reported
  PROVE  /\ M!IInv' /\ value' \in [Promises -> States \union {None}]
         /\ OneTaskEach' /\ ValuesTold'
<1> DEFINE t == m.task
<1> USE RpcBackendAssumption DEF IInv
<1>1. t \in Tasks /\ m.status \in States
  BY DEF Messages
<1>2. /\ M!IInv
      /\ promises \in [Tasks -> Promises \union {None}]
      /\ state \in [Promises -> {"unused", "open", "committed"} \union M!Settled]
      /\ held \in [Ops -> Promises \union {None}]
      /\ value \in [Promises -> States \union {None}]
  BY DEF M!IInv, M!TypeOK, Typed
<1>3. PICK p \in Promises :
         /\ M!IInv'
         /\ promises' = [promises EXCEPT ![t] = p]
         /\ state' = [state EXCEPT ![p] = "committed"]
         /\ \/ p = promises[t] /\ state[p] = "open"
            \/ p \in Map!Fresh
  BY <1>1, <1>2, MapResolves
<1>4. /\ promises'[t] = p /\ \A k \in Tasks \ {t} : promises'[k] = promises[k]
      /\ state'[p] = "committed"
      /\ \A q \in Promises \ {p} : state'[q] = state[q]
      /\ value'[p] = m.status
      /\ \A q \in Promises \ {p} : value'[q] = value[q]
  BY <1>1, <1>2, <1>3
<1>5. \A k \in Tasks : promises'[k] = p => k = t
  BY <1>1, <1>2, <1>3, <1>4 DEF M!IInv, M!OneKeyEach, Map!Fresh
<1>6. \A o \in Ops : held[o] = p => o.task = t
  <2> SUFFICES ASSUME NEW o \in Ops, held[o] = p
               PROVE  o.task = t
    OBVIOUS
  <2>1. held[o] # None /\ state[p] # "unused"
    BY <1>3 DEF OneTaskEach
  <2>2. state[p] \notin Map!Settled
    BY <1>4, <2>1 DEF IdsKept, Map!Settled
  <2>3. p = promises[t]
    BY <1>3, <2>1, <2>2 DEF Map!Fresh
  <2> QED BY <1>1, <2>1, <2>3 DEF OneTaskEach
<1>7. p # None
  OBVIOUS
<1>8. OneTaskEach'
  <2>1. \A o \in Ops, k \in Tasks :
          held[o] # None /\ held[o] = promises'[k] => o.task = k
    BY <1>4, <1>6 DEF OneTaskEach
  <2>2. \A o \in Ops : held[o] # None => state'[held[o]] # "unused"
    BY <1>2, <1>4 DEF OneTaskEach
  <2>3. \A k \in Tasks : promises'[k] # None => state'[promises'[k]] # "unused"
    BY <1>2, <1>4 DEF OneTaskEach
  <2> QED BY <2>1, <2>2, <2>3 DEF OneTaskEach
<1>9. ValuesTold'
  <2> SUFFICES ASSUME NEW q \in Promises, state'[q] \in {"committed", "fulfilled"}
               PROVE  /\ \A o \in Ops : held[o] = q => Told(o.task, value'[q])
                      /\ \A k \in Tasks : promises'[k] = q => Told(k, value'[q])
    BY DEF ValuesTold, Told, Wrote
  <2>1. CASE q = p
    BY <1>4, <1>5, <1>6, <2>1
  <2>2. CASE q # p
    <3>1. state'[q] = state[q] /\ value'[q] = value[q]
      BY <1>4, <2>2
    <3>2. \A k \in Tasks : promises'[k] = q => promises[k] = q
      BY <1>4, <2>2
    <3> QED BY <3>1, <3>2 DEF ValuesTold
  <2> QED BY <2>1, <2>2
<1> QED BY <1>1, <1>2, <1>3, <1>8, <1>9


-----------------------------------------------------------------------------
(* Each action, for any step that does it. *)

Stages ==
  /\ connection \in {"connecting", "open", "failed", "lost", "closed"}
  /\ con \in {"new", "getting", "asserting", "asserted", "consuming",
              "listening", "failed"}
  /\ endpc \in {"idle", "awaiting", "cancelling", "destroying", "closing",
                "ended", "failed"}

(* Steps of the connection, the constructor and end() that change nothing  *)
(* but their own stage, and the pool.                                      *)
LEMMA StageInv ==
  ASSUME IInv, P!IInv', Stages',
         UNCHANGED <<program, mapVars, opVars, value, serverVars>>,
         \A o \in Ops : Steady(o)
  PROVE  IInv'
<1> USE DEF IInv
<1>1. M!IInv'
  BY MapKept
<1>2. Typed'
  BY DEF Typed, Stages, opVars, serverVars
<1>3. PutsUsePool'
  BY DEF PutsUsePool, Steady, opVars
<1>4. Kept /\ AllTold'
  BY DEF Kept, Wrote, WroteNow, Puts, AllTold, TrueMessages, Told, opVars, serverVars
<1>5. OneTaskEach' /\ ValuesTold'
  BY DEF OneTaskEach, ValuesTold, Told, Wrote, mapVars, opVars, serverVars
<1> QED BY <1>1, <1>2, <1>3, <1>4, <1>5

(* The constructor and end(), as far as they receive nothing.               *)
LEMMA StagesInv ==
  ASSUME IInv,
         \/ Connect \/ Construct \/ ConAssert \/ ConConsume \/ ConFails
         \/ EndCall \/ EndDestroy \/ EndClose \/ EndDone \/ EndFails
         \/ \E c \in Callers : OpenChannel(c)
  PROVE  IInv'
<1> USE DEF IInv
<1>1. Stages /\ Con \in Callers /\ \A o \in Ops : o \in Callers /\ o # Con
  BY RpcBackendAssumption DEF Typed, Stages, Callers
<1>2. CASE \/ Connect \/ ConConsume \/ ConFails \/ EndCall \/ EndClose
           \/ EndDone \/ EndFails
  <2>1. /\ Stages'
        /\ UNCHANGED <<program, poolVars, mapVars, opVars, value, serverVars>>
    BY <1>1, <1>2 DEF Connect, ConConsume, ConFails, EndCall, EndClose,
                      EndDone, EndFails, Stages
  <2>2. P!IInv' /\ call' = call
    BY <2>1, PoolKept DEF poolVars
  <2> QED BY <2>1, <2>2, StageInv DEF Steady
<1>3. CASE Construct \/ ConAssert \/ \E c \in Callers : OpenChannel(c)
  <2>1. /\ Stages'
        /\ UNCHANGED <<program, mapVars, opVars, value, serverVars>>
    BY <1>1, <1>3 DEF Construct, ConAssert, OpenChannel, Stages, stageVars
  <2>2. PICK c \in Callers :
          \/ c = Con /\ (Pool!StartCreate(c) \/ Pool!Resume(c))
          \/ Pool!CreateOk(c)
    BY <1>1, <1>3 DEF Construct, ConAssert, OpenChannel
  <2>3. /\ P!IInv'
        /\ \A w \in Callers \ {c} : Steady(w)
        /\ c # Con => Steady(c)
    BY <2>2, PoolStep
  <2> QED BY <1>1, <2>1, <2>3, StageInv
<1>4. CASE EndDestroy
  <2>1. UNCHANGED <<program, mapVars, stageVars, opVars, value, serverVars>>
    BY <1>4 DEF EndDestroy
  <2>2. Stages'
    BY <1>1, <2>1 DEF Stages, stageVars
  <2>3. P!IInv' /\ \A w \in Callers : Steady(w)
    BY <1>4, PoolEnds DEF EndDestroy
  <2> QED BY <1>1, <2>1, <2>2, <2>3, StageInv
<1> QED BY <1>2, <1>3, <1>4

(* What comes to the consumer's channel, or is lost with the connection,   *)
(* was on its way before.                                                  *)
LEMMA WireInv ==
  ASSUME IInv, P!IInv', M!IInv', Stages', OneTaskEach', ValuesTold',
         value' \in [Promises -> States \union {None}],
         UNCHANGED <<program, opVars, queue, reported>>,
         {declared', consuming'} \subseteq BOOLEAN, consuming' => declared',
         wire' \in Seq(TrueMessages \union Notices),
         \A o \in Ops : Steady(o)
  PROVE  IInv'
<1> USE DEF IInv
<1>1. Typed'
  BY DEF Typed, Stages, opVars
<1>2. PutsUsePool'
  BY DEF PutsUsePool, Steady, opVars
<1>3. Kept /\ AllTold'
  <2>1. Kept /\ out' = out /\ queue' \in Seq(TrueMessages)
    BY DEF Kept, Wrote, WroteNow, Puts, AllTold, opVars
  <2> QED BY <2>1, SaidGoesOn
<1> QED BY <1>1, <1>2, <1>3

(* The socket that gives up its first notice or message.                   *)
LEMMA Received ==
  ASSUME AllTold, NEW m, Receive(m)
  PROVE  /\ wire' \in Seq(TrueMessages \union Notices)
         /\ m \in TrueMessages \union Notices
<1> DEFINE W == TrueMessages \union Notices
<1>1. wire \in Seq(W) /\ wire # <<>> /\ m = Head(wire) /\ wire' = Tail(wire)
  BY DEF AllTold, Receive
<1> HIDE DEF W
<1>2. wire' \in Seq(W) /\ m \in W
  BY <1>1
<1> QED BY <1>2 DEF W

(* Whatever arrives at the consumer's channel.                              *)
LEMMA ReceiveInv ==
  ASSUME IInv,
         \/ ConListens \/ OnCancelled \/ EndReturn
         \/ \E m \in Messages : OnMessage(m)
  PROVE  IInv'
<1> USE DEF IInv
<1>1. /\ Stages /\ {declared, consuming} \subseteq BOOLEAN
      /\ consuming => declared
      /\ value \in [Promises -> States \union {None}]
      /\ \A o \in Ops : o \in Callers /\ o # Con
  BY RpcBackendAssumption DEF Typed, Stages, Callers
<1>2. ASSUME NEW m, Receive(m)
      PROVE  /\ wire' \in Seq(TrueMessages \union Notices)
             /\ m \in TrueMessages \union Notices
             /\ UNCHANGED <<program, opVars, queue, reported, declared,
                            consuming, connection>>
             /\ held' = held /\ pc' = pc /\ out' = out
             /\ effects' = effects /\ Kept
  BY <1>2, Received DEF Receive, opVars, Kept, Wrote, WroteNow
<1>3. CASE ConListens
  <2>1. /\ Receive(Notice("consume-ok")) /\ con' = "listening"
        /\ UNCHANGED <<poolVars, mapVars, endpc, value>>
    BY <1>3 DEF ConListens
  <2>2. P!IInv' /\ M!IInv' /\ call' = call
    BY <2>1, PoolKept, MapKept DEF poolVars
  <2>3. OneTaskEach' /\ ValuesTold'
    BY <1>2, <2>1, PromisesGoOn DEF mapVars
  <2>4. Stages'
    BY <1>1, <1>2, <2>1 DEF Stages
  <2> QED BY <1>1, <1>2, <2>1, <2>2, <2>3, <2>4, WireInv DEF Steady
<1>4. CASE OnCancelled
  <2>1. /\ Receive(Notice("cancelled")) /\ RejectAll
        /\ UNCHANGED <<poolVars, con, endpc, value>>
    BY <1>4 DEF OnCancelled
  <2>2. P!IInv' /\ call' = call
    BY <2>1, PoolKept DEF poolVars
  <2>3. M!IInv' /\ OneTaskEach' /\ ValuesTold'
    <3>1. CASE Map!RejectAll
      BY <1>2, <2>1, <3>1, MapGoesOn, PromisesGoOn
    <3>2. CASE UNCHANGED mapVars
      BY <1>2, <2>1, <3>2, MapKept, PromisesGoOn DEF mapVars
    <3> QED BY <2>1, <3>1, <3>2 DEF RejectAll
  <2>4. Stages'
    BY <1>1, <1>2, <2>1 DEF Stages
  <2> QED BY <1>1, <1>2, <2>1, <2>2, <2>3, <2>4, WireInv DEF Steady
<1>5. CASE EndReturn
  <2>1. /\ Receive(Notice("cancel-ok")) /\ endpc' = "destroying"
        /\ UNCHANGED <<mapVars, con, value>>
    BY <1>5 DEF EndReturn
  <2>2. P!IInv' /\ \A w \in Callers : Steady(w)
    BY <1>5, PoolEnds DEF EndReturn
  <2>3. M!IInv'
    BY <2>1, MapKept
  <2>4. OneTaskEach' /\ ValuesTold'
    BY <1>2, <2>1, PromisesGoOn DEF mapVars
  <2>5. Stages'
    BY <1>1, <1>2, <2>1 DEF Stages
  <2> QED BY <1>1, <1>2, <2>1, <2>2, <2>3, <2>4, <2>5, WireInv
<1>6. ASSUME NEW m \in Messages, OnMessage(m)
      PROVE  IInv'
  <2>1. /\ Receive(m) /\ Map!ResolveValue(m.task) /\ IdsKept
        /\ value' = [value EXCEPT ![promises'[m.task]] = m.status]
        /\ UNCHANGED <<poolVars, con, endpc>>
    BY <1>6 DEF OnMessage
  <2>2. P!IInv' /\ call' = call
    BY <2>1, PoolKept DEF poolVars
  <2>3. Told(m.task, m.status)
    <3>1. m.task \in Tasks /\ m.task # None
      BY RpcBackendAssumption DEF Messages
    <3>2. m \notin Notices
      BY <3>1 DEF Notices
    <3> QED BY <1>2, <2>1, <3>2 DEF TrueMessages
  <2>4. /\ M!IInv' /\ value' \in [Promises -> States \union {None}]
        /\ OneTaskEach' /\ ValuesTold'
    BY <1>2, <2>1, <2>3, MessageResolves
  <2>5. Stages'
    BY <1>1, <1>2, <2>1 DEF Stages
  <2> QED BY <1>1, <1>2, <2>1, <2>2, <2>4, <2>5, WireInv DEF Steady
<1> QED BY <1>3, <1>4, <1>5, <1>6

(* The server's steps; what it puts on the wire was in the queue, or is a  *)
(* notice.                                                                 *)
LEMMA ServerInv ==
  ASSUME IInv, \/ Lose \/ ServerDeclare \/ ServerConsume \/ ServerCancel
               \/ ServerCancelOk
  PROVE  IInv'
<1> USE DEF IInv
<1>1. /\ program' = program /\ value' = value /\ reported' = reported
      /\ UNCHANGED <<poolVars, mapVars>> /\ endpc' = endpc
      /\ out' = out /\ held' = held /\ effects' = effects
  BY DEF Lose, ServerDeclare, ServerConsume, ServerCancel, ServerCancelOk,
         opVars, serverVars, stageVars
<1>2. P!IInv' /\ M!IInv' /\ call' = call
  BY <1>1, PoolKept, MapKept DEF poolVars
<1>3. /\ \/ pc' = pc
         \/ \E o \in Ops : pc[o] = "asserting" /\ pc' = [pc EXCEPT ![o] = "ready"]
      /\ pc \in [Ops -> {"idle", "called", "asserting", "ready", "draining",
                         "flushed", "failed", "listening", "over"}]
  BY DEF Lose, ServerDeclare, ServerConsume, ServerCancel, ServerCancelOk,
         opVars, Typed
<1>4. /\ pc' \in [Ops -> {"idle", "called", "asserting", "ready", "draining",
                          "flushed", "failed", "listening", "over"}]
      /\ \A o \in Ops : \/ pc'[o] = pc[o]
                        \/ pc[o] = "asserting" /\ pc'[o] = "ready"
  BY <1>3
<1>5. Kept
  BY <1>1, <1>4 DEF Kept, Wrote, WroteNow, Puts
<1>6. OneTaskEach' /\ ValuesTold'
  BY <1>1, <1>4, <1>5, PromisesGoOn DEF mapVars
<1>7. PutsUsePool'
  BY <1>2, <1>4 DEF PutsUsePool, Steady
<1>8. /\ queue' \in Seq(TrueMessages)
      /\ wire' \in Seq(TrueMessages \union Notices)
  <2> DEFINE W == TrueMessages \union Notices
  <2>1. /\ queue \in Seq(TrueMessages) /\ wire \in Seq(W)
        /\ \A S : <<>> \in Seq(S)
        /\ Notice("consume-ok") \in W /\ Notice("cancelled") \in W
        /\ Notice("cancel-ok") \in W
    BY DEF AllTold, Notice, Notices
  <2>2. queue \in Seq(W)
    BY <2>1, SeqWider
  <2> HIDE DEF W
  <2>3. /\ \A e \in W : Append(wire, e) \in Seq(W)
        /\ \A e \in W : Append(wire, e) \o queue \in Seq(W)
    BY <2>1, <2>2
  <2>4. /\ queue' \in {queue, <<>>}
        /\ \/ wire' \in {wire, <<>>}
           \/ \E e \in W : wire' \in {Append(wire, e), Append(wire, e) \o queue}
    BY <2>1 DEF Lose, ServerDeclare, ServerConsume, ServerCancel,
                ServerCancelOk, serverVars
  <2>5. queue' \in Seq(TrueMessages) /\ wire' \in Seq(W)
    BY <2>1, <2>3, <2>4
  <2> QED BY <2>5 DEF W
<1>9. AllTold'
  BY <1>1, <1>5, <1>8, SaidGoesOn
<1>10. /\ Stages' /\ {declared', consuming'} \subseteq BOOLEAN
       /\ consuming' => declared'
  <2>1. /\ Stages /\ {declared, consuming} \subseteq BOOLEAN
        /\ consuming => declared
    BY DEF Typed, Stages
  <2>2. CASE Lose
    BY <2>1, <2>2 DEF Lose, Stages
  <2>3. CASE ServerDeclare
    BY <2>1, <2>3 DEF ServerDeclare, Stages
  <2>4. CASE ServerConsume
    BY <2>1, <2>4 DEF ServerConsume, Stages
  <2>5. CASE ServerCancel \/ ServerCancelOk
    BY <2>1, <2>5 DEF ServerCancel, ServerCancelOk, Stages, stageVars
  <2> QED BY <2>2, <2>3, <2>4, <2>5
<1>11. Typed'
  BY <1>1, <1>4, <1>10 DEF Typed, Stages
<1> QED BY <1>2, <1>6, <1>7, <1>9, <1>11

(* A message is queued or sent on once it has been said.                   *)
LEMMA Enqueues ==
  ASSUME AllTold, Kept, NEW m \in Messages, ToldNow(m.task, m.status),
         Enqueued(m), out' = out
  PROVE  AllTold'
<1> DEFINE W == TrueMessages' \union Notices
<1>1. /\ TrueMessages \subseteq TrueMessages' /\ m \in TrueMessages'
      /\ Notices' = Notices
      /\ TrueMessages \union Notices \subseteq W
  BY SaidStays DEF TrueMessages, Told, ToldNow, Wrote, WroteNow, Notices
<1>2. \A o \in Ops : out'[o] \in States => ToldNow(o.task, out'[o])
  BY SaidStays DEF AllTold
<1>3. queue \in Seq(TrueMessages') /\ wire \in Seq(W)
  BY <1>1, SeqWider DEF AllTold
<1>4. m \in W
  BY <1>1
<1> HIDE DEF W
<1>5. Append(queue, m) \in Seq(TrueMessages') /\ Append(wire, m) \in Seq(W)
  BY <1>1, <1>3, <1>4
<1>6. queue' \in Seq(TrueMessages') /\ wire' \in Seq(W)
  BY <1>3, <1>5 DEF Enqueued
<1> QED BY <1>1, <1>2, <1>6 DEF AllTold, Told, ToldNow, Wrote, WroteNow, W

(* A worker publishes a result.                                             *)
LEMMA ReportInv ==
  ASSUME IInv, NEW t \in Tasks, Report(t)
  PROVE  IInv'
<1> DEFINE m == [task |-> t, status |-> "FAILURE"]
<1> USE DEF IInv, Report
<1>1. P!IInv' /\ M!IInv' /\ call' = call
  BY PoolKept, MapKept DEF poolVars
<1>2. /\ pc' = pc /\ held' = held /\ out' = out /\ Kept
      /\ reported' = reported \union {t}
  BY DEF opVars, Kept, Wrote, WroteNow
<1>3. OneTaskEach' /\ ValuesTold'
  BY <1>2, PromisesGoOn DEF mapVars
<1>4. m \in Messages /\ ToldNow(m.task, m.status)
  BY <1>2 DEF Messages, States, ToldNow
<1>5. AllTold'
  BY <1>2, <1>4, Enqueues
<1>6. Typed' /\ PutsUsePool'
  BY <1>1, <1>2 DEF Typed, PutsUsePool, stageVars, opVars
<1> QED BY <1>1, <1>3, <1>5, <1>6

(* Microtasks and timers of the map, and end() that rejects what is in it. *)
LEMMA MapInv ==
  ASSUME IInv, RunJob \/ EndReject \/ \E timer \in Timers : Forget(timer)
  PROVE  IInv'
<1> USE DEF IInv, RunJob, EndReject, Forget
<1>1. /\ program' = program /\ poolVars' = poolVars /\ opVars' = opVars
      /\ value' = value /\ serverVars' = serverVars /\ Kept
      /\ held' = held /\ pc' = pc /\ out' = out
  BY DEF opVars, serverVars, Kept, Wrote, WroteNow
<1>2. P!IInv' /\ call' = call
  BY <1>1, PoolKept DEF poolVars
<1>3. M!IInv' /\ OneTaskEach' /\ ValuesTold'
  <2>1. CASE UNCHANGED mapVars
    BY <1>1, <2>1, MapKept, PromisesGoOn DEF mapVars
  <2>2. CASE Map!RunJob \/ Map!RejectAll \/ \E timer \in Timers : Map!FireTimer(timer)
    BY <1>1, <2>2, MapGoesOn, PromisesGoOn
  <2> QED BY <2>1, <2>2 DEF RejectAll
<1>4. Stages'
  BY DEF Stages, Typed, stageVars
<1>5. Typed'
  BY <1>1, <1>4 DEF Typed, Stages, opVars, serverVars
<1>6. PutsUsePool'
  BY <1>1, <1>2 DEF PutsUsePool, Steady
<1>7. AllTold'
  BY <1>1, SaidGoesOn DEF AllTold, serverVars
<1> QED BY <1>2, <1>3, <1>5, <1>6, <1>7

-----------------------------------------------------------------------------
(* get(), delete() and put() *)

Places == {"idle", "called", "asserting", "ready", "draining", "flushed",
           "failed", "listening", "over"}

(* What the steps of put() have in common: they await no promise, and none *)
(* makes the call start over.                                              *)
LEMMA PutMoves ==
  ASSUME IInv, NEW o \in Ops, o.kind = "put",
         NEW place \in Places \ {"idle", "listening"},
         P!IInv', \A w \in Ops \ {o} : Steady(w),
         call'[o] \in Coming => place = "called",
         pc' = [pc EXCEPT ![o] = place],
         \/ out' = out
         \/ \E result \in {"ok", "rejected"} : out' = [out EXCEPT ![o] = result],
         UNCHANGED <<program, mapVars, stageVars, held, value, declared,
                     consuming, reported>>,
         effects' = effects \/ effects' = [effects EXCEPT ![o] = @ + 1],
         AllTold'
  PROVE  IInv'
<1> USE DEF IInv
<1>1. M!IInv'
  BY MapKept
<1>2. /\ pc \in [Ops -> Places] /\ pc' \in [Ops -> Places]
      /\ pc'[o] = place
      /\ \A w \in Ops \ {o} : pc'[w] = pc[w] /\ out'[w] = out[w]
  BY DEF Typed, Places
<1>3. Kept
  BY DEF Kept, Wrote, WroteNow, Puts, Typed
<1>4. OneTaskEach' /\ ValuesTold'
  BY <1>2, <1>3, PromisesGoOn DEF mapVars
<1>5. PutsUsePool'
  BY <1>2 DEF PutsUsePool, Steady
<1>6. out' \in [Ops -> {"pending", "rejected", "ok"} \union States]
  BY DEF Typed
<1>7. Typed'
  BY <1>2, <1>6 DEF Typed, Places, stageVars
<1> QED BY <1>1, <1>4, <1>5, <1>7

(* Which place in put() was said and what may be answered changes nothing  *)
(* of what was said.                                                       *)
LEMMA PutTold ==
  ASSUME Typed, AllTold, NEW o \in Ops, NEW place \in Places \ {"idle"},
         pc' = [pc EXCEPT ![o] = place],
         \/ out' = out
         \/ \E result \in {"ok", "rejected"} : out' = [out EXCEPT ![o] = result],
         effects' = effects \/ effects' = [effects EXCEPT ![o] = @ + 1],
         reported' = reported
  PROVE  /\ Kept
         /\ UNCHANGED <<queue, wire>> => AllTold'
<1>1. /\ pc \in [Ops -> Places]
      /\ out \in [Ops -> {"pending", "rejected", "ok"} \union States]
  BY DEF Typed, Places
<1>2. Kept
  BY DEF Kept, Wrote, WroteNow, Puts, Typed
<1>3. \A w \in Ops : out'[w] = out[w] \/ out'[w] \notin States
  BY <1>1 DEF States
<1> QED BY <1>2, <1>3, SaidGoesOn DEF AllTold

(* The steps of put(), and a channel that cannot be opened for it.          *)
LEMMA PutInv ==
  ASSUME IInv, NEW o \in Ops,
         \/ Put(o) \/ PutAssert(o) \/ PutFails(o) \/ PutWrite(o) \/ PutFull(o)
         \/ Drain(o) \/ PutDone(o) \/ ChannelFails(o)
  PROVE  IInv'
<1> USE RpcBackendAssumption DEF IInv
<1>1. o \in Callers /\ \A w \in Ops : w \in Callers
  BY DEF Callers
<1>2. CASE Put(o)
  <2> USE <1>2 DEF Put, MayCall
  <2>1. P!IInv' /\ \A w \in Callers \ {o} : Steady(w)
    BY <1>1, PoolStep
  <2>2. "called" \in Places \ {"idle", "listening"}
    BY DEF Places
  <2>3. UNCHANGED <<queue, wire, declared, consuming, reported>>
    BY DEF serverVars
  <2>4. AllTold'
    BY <2>2, <2>3, PutTold
  <2> QED BY <1>1, <2>1, <2>2, <2>3, <2>4, PutMoves
<1>3. CASE PutAssert(o)
  <2> USE <1>3 DEF PutAssert
  <2>1. /\ P!IInv' /\ call[o] # "idle"
        /\ \A w \in Callers \ {o} : Steady(w)
    BY <1>1, PoolStep DEF Pool!Resume
  <2>2. PICK place \in {"asserting", "failed"} : pc' = [pc EXCEPT ![o] = place]
    OBVIOUS
  <2>3. place \in Places \ {"idle", "listening"}
    BY DEF Places
  <2>4. UNCHANGED <<queue, wire, declared, consuming, reported>>
    BY DEF serverVars
  <2>5. call[o] = "granted" /\ call'[o] = "using"
    BY <1>1, PoolStep
  <2>6. call'[o] \notin Coming
    BY <2>5 DEF Coming
  <2>7. AllTold'
    BY <2>2, <2>3, <2>4, PutTold
  <2>8. o.kind = "put" /\ out' = out
    BY <2>1 DEF PutsUsePool
  <2> HIDE DEF PutAssert
  <2> QED BY <1>1, <2>1, <2>2, <2>3, <2>4, <2>6, <2>7, <2>8, <1>3, PutMoves
          DEF PutAssert
<1>4. CASE PutFails(o) \/ Drain(o)
  <2> USE <1>4 DEF PutFails, Drain, PutGoes
  <2>1. P!IInv' /\ call' = call
    BY PoolKept DEF poolVars
  <2>2. PICK place \in {"failed", "ready"} :
           pc' = [pc EXCEPT ![o] = place]
    OBVIOUS
  <2>3. place \in Places \ {"idle", "listening"} /\ o.kind = "put"
    BY DEF Places, PutsUsePool
  <2>4. call'[o] \notin Coming
    BY <2>1 DEF PutsUsePool
  <2>5. AllTold'
    BY <2>2, <2>3, PutTold
  <2> QED BY <2>1, <2>2, <2>3, <2>4, <2>5, PutMoves DEF Steady
<1>5. ASSUME NEW to \in {"flushed", "draining"}, PutSends(o, to)
      PROVE  IInv'
  <2> DEFINE m == [task |-> o.task, status |-> "SUCCESS"]
  <2> USE <1>5 DEF PutSends, PutGoes
  <2>1. P!IInv' /\ call' = call
    BY PoolKept DEF poolVars
  <2>2. to \in Places \ {"idle", "listening"} /\ o.kind = "put"
    BY DEF Places, PutsUsePool
  <2>3. effects \in [Ops -> Nat] /\ effects' = [effects EXCEPT ![o] = @ + 1]
    BY DEF Typed
  <2>4. WroteNow(o) /\ call'[o] \notin Coming
    BY <2>1, <2>3 DEF WroteNow, PutsUsePool
  <2>5. Kept
    BY <2>2, <2>3, PutTold
  <2>6. m \in Messages /\ ToldNow(m.task, m.status)
    BY <2>2, <2>4 DEF Messages, States, ToldNow, Puts
  <2>7. AllTold'
    BY <2>5, <2>6, Enqueues
  <2> QED BY <2>1, <2>2, <2>3, <2>4, <2>7, PutMoves DEF Steady
<1>6. CASE PutDone(o)
  <2> USE <1>6 DEF PutDone
  <2>1. /\ P!IInv' /\ call[o] # "idle"
        /\ \A w \in Callers \ {o} : Steady(w)
    BY <1>1, PoolStep DEF Pool!Return, Pool!ReturnToWaiter,
                          Pool!ReturnToUnused, Pool!LeavesUse
  <2>2. "over" \in Places \ {"idle", "listening"} /\ o.kind = "put"
    BY <2>1 DEF Places, PutsUsePool
  <2>3. \E result \in {"ok", "rejected"} : out' = [out EXCEPT ![o] = result]
    OBVIOUS
  <2>4. UNCHANGED <<queue, wire, declared, consuming, reported>>
    BY DEF serverVars
  <2>5. call'[o] \notin Coming
    BY <1>1, PoolStep DEF Coming
  <2>6. AllTold'
    BY <2>2, <2>3, <2>4, PutTold
  <2> QED BY <1>1, <2>1, <2>2, <2>3, <2>4, <2>5, <2>6, PutMoves
<1>7. CASE ChannelFails(o)
  <2>1. /\ Pool!CreateFail(o)
        /\ pc' = [pc EXCEPT ![o] = "over"]
        /\ out' = [out EXCEPT ![o] = "rejected"]
        /\ UNCHANGED <<program, mapVars, con, held, effects, connection, endpc,
                       owed, value, serverVars>>
    BY <1>7 DEF ChannelFails
  <2>2. /\ P!IInv' /\ call[o] # "idle"
        /\ \A w \in Callers \ {o} : Steady(w)
    BY <1>1, <2>1, PoolStep DEF Pool!CreateFail
  <2>3. "over" \in Places \ {"idle", "listening"} /\ o.kind = "put"
    BY <2>2 DEF Places, PutsUsePool
  <2>4. UNCHANGED <<stageVars, queue, wire, declared, consuming, reported>>
    BY <2>1 DEF serverVars, stageVars
  <2>5. call[o] = "creating" /\ call'[o] = "idle"
    BY <1>1, <2>1, PoolStep DEF Pool!CreateFail
  <2>6. call'[o] \notin Coming
    BY <2>5 DEF Coming
  <2>7. AllTold'
    BY <2>1, <2>3, <2>4, PutTold
  <2> QED BY <1>1, <2>1, <2>2, <2>3, <2>4, <2>6, <2>7, PutMoves
<1> QED BY <1>2, <1>3, <1>4, <1>5, <1>6, <1>7 DEF PutWrite, PutFull

(* The channel of the consumer cannot be opened.                            *)
LEMMA ChannelFailsConInv ==
  ASSUME IInv, ChannelFails(Con)
  PROVE  IInv'
<1> USE DEF IInv
<1>1. /\ Pool!CreateFail(Con) /\ con' = "failed" /\ Con \in Callers
      /\ UNCHANGED <<program, mapVars, opVars, connection, endpc, value,
                     serverVars>>
      /\ \A o \in Ops : o \in Callers \ {Con}
  BY RpcBackendAssumption DEF ChannelFails, Callers
<1>2. /\ P!IInv'
      /\ \A w \in Callers \ {Con} : Steady(w)
  BY <1>1, PoolStep
<1>3. Stages'
  BY <1>1 DEF Typed, Stages
<1> QED BY <1>1, <1>2, <1>3, StageInv
(* The promise that get() awaits has settled.                              *)
LEMMA HearInv ==
  ASSUME IInv, NEW o \in Ops, Hear(o)
  PROVE  IInv'
<1> DEFINE p == held[o]
           answer == IF state[p] = "fulfilled" THEN value[p] ELSE "rejected"
<1> USE DEF IInv
<1>1. /\ pc[o] = "listening" /\ state[p] \in Map!Settled
      /\ pc' = [pc EXCEPT ![o] = "over"]
      /\ out' = [out EXCEPT ![o] = answer]
      /\ held' = [held EXCEPT ![o] = None]
      /\ UNCHANGED <<program, poolVars, mapVars, stageVars, effects, value,
                     serverVars>>
  BY DEF Hear
<1>2. P!IInv' /\ M!IInv' /\ call' = call
  BY <1>1, PoolKept, MapKept DEF poolVars
<1>3. p \in Promises /\ pc \in [Ops -> Places]
      /\ out \in [Ops -> {"pending", "rejected", "ok"} \union States]
      /\ held \in [Ops -> Promises \union {None}]
  BY <1>1 DEF Typed, Places, OneTaskEach
<1>4. \/ answer = "rejected"
      \/ answer \in States /\ Told(o.task, answer)
  <2>1. CASE state[p] = "fulfilled"
    <3>1. Told(o.task, value[p])
      BY <1>3, <2>1 DEF ValuesTold
    <3> QED BY <2>1, <3>1 DEF Told, States
  <2> QED BY <2>1
<1> HIDE DEF answer
<1>5. /\ \A w \in Ops : pc'[w] = (IF w = o THEN "over" ELSE pc[w])
      /\ \A w \in Ops : out'[w] = (IF w = o THEN answer ELSE out[w])
      /\ \A w \in Ops : held'[w] = (IF w = o THEN None ELSE held[w])
  BY <1>1, <1>3
<1>6. Kept /\ queue' = queue /\ wire' = wire
  BY <1>1, <1>5 DEF Kept, Wrote, WroteNow, Puts, serverVars
<1>7. AllTold'
  <2>1. /\ \A w \in Ops : \/ out'[w] = out[w] \/ out'[w] \notin States
                          \/ Told(w.task, out'[w])
        /\ queue' \in Seq(TrueMessages)
        /\ wire' \in Seq(TrueMessages \union Notices)
    BY <1>4, <1>5, <1>6 DEF AllTold, States
  <2> QED BY <1>6, <2>1, SaidGoesOn
<1>8. OneTaskEach' /\ ValuesTold'
  BY <1>1, <1>5, <1>6, PromisesGoOn DEF mapVars
<1>9. PutsUsePool'
  BY <1>1, <1>2, <1>5 DEF PutsUsePool, Steady
<1>10. Typed'
  BY <1>1, <1>3, <1>4 DEF Typed, Places, stageVars, serverVars
<1> QED BY <1>2, <1>7, <1>8, <1>9, <1>10

(* get() listens to the promise of its task, or to a new one.              *)
LEMMA GetInv ==
  ASSUME IInv, NEW o \in Ops, Get(o)
  PROVE  IInv'
<1> DEFINE t == o.task
<1> USE RpcBackendAssumption DEF IInv
<1>1. /\ t \in Tasks /\ o.kind = "get" /\ pc[o] = "idle"
      /\ IF promises[t] = None THEN Map!Get(t) /\ IdsKept ELSE UNCHANGED mapVars
      /\ pc' = [pc EXCEPT ![o] = "listening"]
      /\ held' = [held EXCEPT ![o] = promises'[t]]
      /\ UNCHANGED <<program, poolVars, stageVars, out, effects, value,
                     serverVars>>
  BY DEF Get, MayCall
<1>2. P!IInv' /\ call' = call
  BY <1>1, PoolKept DEF poolVars
<1>3. /\ M!IInv'
      /\ promises'[t] # None
      /\ \A k \in Tasks \ {t} : promises'[k] = promises[k]
      /\ \/ promises' = promises /\ state' = state
         \/ /\ promises'[t] \in Promises /\ state'[promises'[t]] = "open"
            /\ \A w \in Ops : held[w] # promises'[t]
            /\ \A q \in Promises \ {promises'[t]} : state'[q] = state[q]
  <2>1. CASE promises[t] = None
    <3>1. Map!Get(t) /\ IdsKept
      BY <1>1, <2>1
    <3>2. PICK p \in Map!Fresh :
             /\ M!IInv'
             /\ promises' = [promises EXCEPT ![t] = p]
             /\ state' = [state EXCEPT ![p] = "open"]
      BY <1>1, <3>1, MapGets
    <3>3. /\ p \in Promises /\ p # None
          /\ promises'[t] = p /\ state'[p] = "open"
          /\ \A k \in Tasks \ {t} : promises'[k] = promises[k]
          /\ \A q \in Promises \ {p} : state'[q] = state[q]
      BY <1>1, <3>2 DEF Map!Fresh, M!IInv, M!TypeOK
    <3>4. \A w \in Ops : held[w] # p
      BY <3>1, <3>2, <3>3 DEF Map!Fresh, Map!Settled, IdsKept, OneTaskEach
    <3> QED BY <3>2, <3>3, <3>4
  <2>2. CASE promises[t] # None
    <3>1. promises' = promises /\ state' = state /\ M!IInv'
      BY <1>1, <2>2, MapKept DEF mapVars
    <3> QED BY <2>2, <3>1
  <2> QED BY <2>1, <2>2
<1>4. /\ promises \in [Tasks -> Promises \union {None}]
      /\ promises' \in [Tasks -> Promises \union {None}]
      /\ held \in [Ops -> Promises \union {None}]
      /\ pc \in [Ops -> Places]
  BY <1>3 DEF Typed, M!IInv, M!TypeOK, Places
<1>5. /\ held'[o] = promises'[t] /\ \A w \in Ops \ {o} : held'[w] = held[w]
      /\ pc'[o] = "listening" /\ \A w \in Ops \ {o} : pc'[w] = pc[w]
      /\ out' = out /\ queue' = queue /\ wire' = wire /\ reported' = reported
  BY <1>1, <1>4 DEF serverVars
<1>6. Typed'
  <2>1. held' \in [Ops -> Promises \union {None}] /\ pc' \in [Ops -> Places]
    BY <1>1, <1>4 DEF Places
  <2> QED BY <1>1, <2>1 DEF Typed, Places, stageVars, serverVars
<1>7. Kept
  BY <1>1, <1>5 DEF Kept, Wrote, WroteNow, Puts
<1>8. PutsUsePool'
  BY <1>1, <1>2, <1>5 DEF PutsUsePool, Steady
<1>9. AllTold'
  BY <1>5, <1>7, SaidGoesOn DEF AllTold
<1>10. \A k \in Tasks : promises'[k] = promises'[t] => k = t
  BY <1>1, <1>3 DEF M!IInv, M!OneKeyEach
<1>11. OneTaskEach'
  <2>1. \A w \in Ops : pc'[w] = "listening" => held'[w] # None
    BY <1>3, <1>5 DEF OneTaskEach
  <2>2. \A w \in Ops : held'[w] = promises'[t] => w.task = t
    BY <1>3, <1>5 DEF OneTaskEach
  <2>3. \A v, w \in Ops : held'[v] # None /\ held'[v] = held'[w] => v.task = w.task
    BY <1>5, <2>2 DEF OneTaskEach
  <2>4. \A w \in Ops, k \in Tasks :
          held'[w] # None /\ held'[w] = promises'[k] => w.task = k
    BY <1>3, <1>5, <1>10, <2>2 DEF OneTaskEach
  <2>5. /\ \A k \in Tasks : promises'[k] # None => state'[promises'[k]] # "unused"
        /\ \A w \in Ops : held'[w] # None => state'[held'[w]] # "unused"
    BY <1>3, <1>4, <1>5 DEF OneTaskEach
  <2> QED BY <2>1, <2>3, <2>4, <2>5 DEF OneTaskEach
<1>12. ValuesTold'
  <2>1. ASSUME NEW q \in Promises, state'[q] \in {"committed", "fulfilled"}
        PROVE  /\ \A w \in Ops : held'[w] = q => ToldNow(w.task, value[q])
               /\ \A k \in Tasks : promises'[k] = q => ToldNow(k, value[q])
    <3>1. state'[q] = state[q]
      BY <1>3, <2>1
    <3>2. \A k \in Tasks : promises'[k] = q => promises[k] = q
      BY <1>3, <2>1
    <3>3. /\ \A w \in Ops : held'[w] = q => Told(w.task, value[q])
          /\ \A k \in Tasks : promises'[k] = q => Told(k, value[q])
      BY <1>1, <1>5, <2>1, <3>1, <3>2 DEF ValuesTold
    <3> QED BY <1>7, <3>3, SaidStays
  <2> QED BY <1>1, <2>1 DEF ValuesTold, Told, ToldNow, Wrote, WroteNow
<1> QED BY <1>2, <1>3, <1>6, <1>8, <1>9, <1>11, <1>12

(* delete() takes the result out of the map, if it is there.               *)
LEMMA DeleteInv ==
  ASSUME IInv, NEW o \in Ops, Delete(o)
  PROVE  IInv'
<1> USE DEF IInv
<1>1. /\ o.task \in Tasks /\ o.kind = "delete" /\ pc[o] = "idle"
      /\ Map!Delete(o.task) \/ UNCHANGED mapVars
      /\ pc' = [pc EXCEPT ![o] = "over"]
      /\ out' = [out EXCEPT ![o] = "ok"]
      /\ effects' = [effects EXCEPT ![o] = @ + 1]
      /\ UNCHANGED <<program, poolVars, stageVars, held, value, serverVars>>
  BY RpcBackendAssumption DEF Delete, MayCall
<1>2. P!IInv' /\ call' = call
  BY <1>1, PoolKept DEF poolVars
<1>3. /\ pc \in [Ops -> Places] /\ pc' \in [Ops -> Places]
      /\ out' \in [Ops -> {"pending", "rejected", "ok"} \union States]
      /\ pc'[o] = "over" /\ \A w \in Ops \ {o} : pc'[w] = pc[w]
  BY <1>1 DEF Typed, Places
<1>4. Kept
  BY <1>1 DEF Kept, Wrote, WroteNow, Puts, Typed, serverVars
<1>5. M!IInv' /\ OneTaskEach' /\ ValuesTold'
  <2>1. \A w \in Ops : /\ held'[w] = held[w]
                       /\ pc'[w] = "listening" => pc[w] = "listening"
    BY <1>1, <1>3
  <2>2. CASE Map!Delete(o.task)
    BY <1>1, <1>4, <2>1, <2>2, MapGoesOn, PromisesGoOn
  <2>3. CASE UNCHANGED mapVars
    BY <1>1, <1>4, <2>1, <2>3, MapKept, PromisesGoOn DEF mapVars
  <2> QED BY <1>1, <2>2, <2>3
<1>6. AllTold'
  <2>1. "over" \in Places \ {"idle"} /\ UNCHANGED <<queue, wire, reported>>
    BY <1>1 DEF Places, serverVars
  <2> QED BY <1>1, <2>1, PutTold
<1>7. PutsUsePool'
  BY <1>1, <1>2, <1>3 DEF PutsUsePool, Steady
<1>8. Typed'
  BY <1>1, <1>3 DEF Typed, Places, stageVars, serverVars
<1> QED BY <1>2, <1>5, <1>6, <1>7, <1>8
-----------------------------------------------------------------------------
(* Every action preserves the invariant.                                    *)
LEMMA NextInv == IInv /\ [Next]_vars => IInv'
<1> SUFFICES ASSUME IInv, [Next]_vars PROVE IInv'
  OBVIOUS
<1>1. CASE \/ Connect \/ Construct \/ ConAssert \/ ConConsume \/ ConFails
           \/ EndCall \/ EndDestroy \/ EndClose \/ EndDone \/ EndFails
           \/ \E c \in Callers : OpenChannel(c)
  BY <1>1, StagesInv
<1>2. CASE \/ ConListens \/ OnCancelled \/ EndReturn
           \/ \E m \in Messages : OnMessage(m)
  BY <1>2, ReceiveInv
<1>3. CASE \/ Lose \/ ServerDeclare \/ ServerConsume \/ ServerCancel
           \/ ServerCancelOk
  BY <1>3, ServerInv
<1>4. CASE RunJob \/ EndReject \/ \E timer \in Timers : Forget(timer)
  BY <1>4, MapInv
<1>5. ASSUME NEW c \in Callers, ChannelFails(c)
      PROVE  IInv'
  BY <1>5, ChannelFailsConInv, PutInv DEF Callers
<1>6. ASSUME NEW o \in Ops,
             \/ Get(o) \/ Delete(o) \/ Hear(o) \/ Put(o) \/ PutAssert(o)
             \/ PutFails(o) \/ PutWrite(o) \/ PutFull(o) \/ Drain(o)
             \/ PutDone(o)
      PROVE  IInv'
  BY <1>6, GetInv, DeleteInv, HearInv, PutInv
<1>7. ASSUME NEW t \in Tasks, Report(t)
      PROVE  IInv'
  BY <1>7, ReportInv
<1>8. CASE UNCHANGED vars
  <2>1. P!IInv' /\ M!IInv'
    BY <1>8, PoolKept, MapKept DEF IInv, vars
  <2>2. Typed' /\ PutsUsePool'
    BY <1>8 DEF IInv, Typed, PutsUsePool, vars, poolVars, stageVars, opVars,
                serverVars
  <2>3. AllTold' /\ OneTaskEach' /\ ValuesTold'
    BY <1>8 DEF IInv, AllTold, TrueMessages, OneTaskEach, ValuesTold, Told, Wrote,
                vars, mapVars, opVars, serverVars
  <2> QED BY <2>1, <2>2, <2>3 DEF IInv
<1> QED
  BY <1>1, <1>2, <1>3, <1>4, <1>5, <1>6, <1>7, <1>8
  DEF Next, ConNext, ServerNext, Arrives, OpNext, EndNext

(* The invariant holds in every reachable state.                           *)
LEMMA Invariant == Spec => []IInv
<1>1. Init => IInv
  BY InitInv
<1>2. IInv /\ [Next]_vars => IInv'
  BY NextInv
<1> QED BY <1>1, <1>2, PTL DEF Spec
-----------------------------------------------------------------------------
(* What calls do to their promises: a second invariant, on top of the       *)
(* first.                                                                   *)

\* Where a call stands says what its promise and the server have come to.
CallMatches(o) ==
  /\ pc[o] = "over" <=> out[o] # "pending"
  /\ o.kind = "get" => /\ out[o] # "ok" /\ effects[o] = 0
                       /\ pc[o] \in {"idle", "listening", "over"}
  /\ o.kind = "put" => /\ out[o] \in {"pending", "rejected", "ok"}
                       /\ pc[o] = "flushed" \/ out[o] = "ok" => effects[o] > 0
                       /\ pc[o] \notin {"flushed", "failed", "over"}
                            => effects[o] <= MaxFull
                       /\ pc[o] # "listening"
  /\ o.kind = "delete" => /\ out[o] \in {"pending", "ok"}
                          /\ effects[o] = IF pc[o] = "over" THEN 1 ELSE 0
                          /\ pc[o] \in {"idle", "over"}

CallsMatch == \A o \in Ops : CallMatches(o)

\* There is no channel before there is a connection, and no put() fails while
\* there is one.
FailsWithConnection ==
  /\ connection = "connecting" =>
       /\ created = {}
       /\ \A o \in Ops : o.kind = "put" => pc[o] \in {"idle", "called"}
  /\ Up => \A o \in Ops : o.kind = "put" => pc[o] # "failed" /\ out[o] # "rejected"

\* Once destroyAll() has gone on, whoever had a channel has been answered, and
\* end() only closes the connection if it was well up to then.
OwedAnswered ==
  /\ \A o \in owed : /\ o \in Ops /\ o.kind = "put"
                     /\ call[o] = "using" \/ out[o] # "pending"
  /\ closer[End] \in {"resumed", "closing", "closed"}
       => \A o \in owed : out[o] # "pending"
  /\ connection = "closed" => \A o \in owed : out[o] = "ok"

Effective ==
  /\ effects \in [Ops -> 0 .. MaxFull + 1]
  /\ CallsMatch
  /\ FailsWithConnection
  /\ OwedAnswered

LEMMA InitEffective == Init => Effective
<1> SUFFICES ASSUME Init PROVE Effective
  OBVIOUS
<1> USE RpcBackendAssumption DEF Init
<1>1. /\ \A o \in Ops : pc[o] = "idle" /\ out[o] = "pending" /\ effects[o] = 0
      /\ created = {} /\ owed = {} /\ connection = "connecting"
  BY DEF Pool!Init
<1>2. CallsMatch
  BY <1>1 DEF CallsMatch, CallMatches
<1> QED BY <1>1, <1>2 DEF Effective, FailsWithConnection, OwedAnswered, Up

(* What a step of a call does to destroyAll(), which waits until nothing is *)
(* in use, and to the calls of the others.                                  *)
LEMMA CloserStep ==
  ASSUME P!IInv, NEW o \in Callers,
         \/ Pool!Get(o) \/ Pool!StartCreate(o) \/ Pool!CreateOk(o)
         \/ Pool!CreateFail(o) \/ Pool!Resume(o) \/ Pool!Return(o)
  PROVE  /\ \A w \in Callers \ {o} : call[w] = "waiting" \/ call'[w] = call[w]
         /\ \/ closer'[End] = closer[End]
            \/ /\ closer[End] = "awaiting" /\ closer'[End] = "resumed"
               /\ \A w \in Callers : call'[w] # "using"
         /\ Pool!CreateOk(o) \/ created' = created
<1>1. /\ call \in [Callers -> P!CallStates]
      /\ waiting \in Seq(Callers)
      /\ \A i \in DOMAIN waiting : call[waiting[i]] = "waiting"
  <2>1. P!Range(waiting) = {w \in Callers : call[w] = "waiting"}
    BY DEF P!IInv, P!QueuedIffWaiting
  <2> QED BY <2>1 DEF P!IInv, P!TypeOK, P!Range
<1>2. \A w \in Callers \ {o} : call[w] = "waiting" \/ call'[w] = call[w]
  <2>1. CASE Pool!Get(o) \/ Pool!StartCreate(o)
    BY <1>1, <2>1 DEF Pool!Get, Pool!TakeUnused, Pool!StartCreate, Pool!Enqueue
  <2>2. CASE Pool!CreateOk(o) \/ Pool!CreateFail(o) \/ Pool!Resume(o)
    BY <1>1, <2>2 DEF Pool!CreateOk, Pool!CreateFail, Pool!Resume
  <2>3. CASE Pool!Return(o)
    <3>1. CASE Pool!HandOver(o)
      <4>1. /\ waiting # <<>>
            /\ call' = [call EXCEPT ![o] = "idle", ![Head(waiting)] = "granted"]
        BY <3>1 DEF Pool!HandOver
      <4>2. call[Head(waiting)] = "waiting"
        BY <1>1, <4>1
      <4> QED BY <1>1, <4>1, <4>2
    <3>2. CASE Pool!Releases(o)
      BY <1>1, <3>2 DEF Pool!Releases
    <3> QED BY <2>3, <3>1, <3>2
            DEF Pool!Return, Pool!ReturnToWaiter, Pool!ReturnToUnused
  <2> QED BY <2>1, <2>2, <2>3
<1>3. /\ \/ closer'[End] = closer[End]
         \/ closer[End] = "awaiting" /\ closer'[End] = "resumed" /\ inUse' = {}
      /\ Pool!CreateOk(o) \/ created' = created
  BY DEF Pool!Get, Pool!TakeUnused, Pool!StartCreate, Pool!Enqueue,
         Pool!CreateOk, Pool!CreateFail, Pool!Resume, Pool!Return,
         Pool!ReturnToWaiter, Pool!ReturnToUnused, Pool!Emitted, Pool!LeavesUse
<1>4. inUse' = {} => \A w \in Callers : call'[w] # "using"
  <2>1. P!ReturnNeverThrows'
    BY PoolStep DEF P!IInv
  <2> QED BY <2>1 DEF P!ReturnNeverThrows, P!Using
<1> QED BY <1>2, <1>3, <1>4

(* So end() still waits for whoever it had to wait for.                     *)
LEMMA OwedGoOn ==
  ASSUME IInv, Effective, NEW o \in Callers,
         \/ Pool!Get(o) \/ Pool!StartCreate(o) \/ Pool!CreateOk(o)
         \/ Pool!CreateFail(o) \/ Pool!Resume(o)
         \/ Pool!Return(o) /\ (o \in Ops => out'[o] # "pending"),
         \A w \in Ops : out[w] # "pending" => out'[w] = out[w],
         connection' = connection, owed' = owed
  PROVE  OwedAnswered'
<1>1. P!IInv /\ Ops \subseteq Callers
  BY DEF IInv, Callers
<1>2. /\ \A w \in Callers \ {o} : call[w] = "waiting" \/ call'[w] = call[w]
      /\ \/ closer'[End] = closer[End]
         \/ /\ closer[End] = "awaiting" /\ closer'[End] = "resumed"
            /\ \A w \in Callers : call'[w] # "using"
  BY <1>1, CloserStep
<1>3. o \in owed => call'[o] = "using" \/ out'[o] # "pending"
  <2>1. CASE Pool!Return(o) /\ (o \in Ops => out'[o] # "pending")
    BY <2>1 DEF Effective, OwedAnswered
  <2>2. CASE \/ Pool!Get(o) \/ Pool!StartCreate(o) \/ Pool!CreateOk(o)
             \/ Pool!CreateFail(o) \/ Pool!Resume(o)
    <3>1. call[o] # "using"
      BY <2>2 DEF Pool!Get, Pool!TakeUnused, Pool!StartCreate, Pool!Enqueue,
                  Pool!CreateOk, Pool!CreateFail, Pool!Resume
    <3> QED BY <3>1 DEF Effective, OwedAnswered
  <2> QED BY <2>1, <2>2
<1>4. \A w \in owed : /\ w \in Ops /\ w.kind = "put"
                      /\ call'[w] = "using" \/ out'[w] # "pending"
  BY <1>1, <1>2, <1>3 DEF Effective, OwedAnswered
<1>5. connection = "closed" => \A w \in owed : out'[w] = "ok"
  BY DEF Effective, OwedAnswered
<1> QED BY <1>1, <1>2, <1>4, <1>5 DEF Effective, OwedAnswered

(* A step that leaves the pool alone, and takes no answer back.             *)
LEMMA OwedKept ==
  ASSUME Effective, call' = call, closer' = closer, owed' = owed,
         connection' = connection \/ connection' # "closed",
         \A w \in Ops : out[w] # "pending" => out'[w] = out[w]
  PROVE  OwedAnswered'
BY DEF Effective, OwedAnswered
-----------------------------------------------------------------------------
(* Each step does what ResultBackend allows.                                *)

promise  == [o \in Ops |-> Promise(o)]
statuses == [t \in Tasks |-> IF t \in reported THEN {"FAILURE"} ELSE {}]

LEMMA InitSimulates == Init => Backend!Init
<1> SUFFICES ASSUME Init PROVE Backend!Init
  OBVIOUS
<1>1. \A o \in Ops : Promise(o) = "none"
  BY DEF Init, Promise
<1> QED BY <1>1 DEF Init, Backend!Init

(* It is enough to look at the calls one by one ...                         *)
LEMMA AllMove ==
  ASSUME Typed, Typed', reported \subseteq reported',
         \A o \in Ops : Backend!Moves(o)
  PROVE  Backend!Next
<1>1. \A o \in Ops : Promise(o)' \in Backend!Unsettled \union {"rejected", "ok"}
                                      \union States
  BY DEF Typed, Promise, Backend!Unsettled
<1>2. promise' \in [Ops -> Backend!Unsettled \union {"rejected", "ok"}
                             \union States]
  BY <1>1 DEF promise
<1>3. /\ statuses' \in [Tasks -> SUBSET States]
      /\ \A t \in Tasks : statuses[t] \subseteq statuses'[t]
  BY DEF statuses, States
<1> QED BY <1>2, <1>3 DEF Typed, Backend!Next, promise, statuses

(* ... and a call that the step leaves alone may stay as it is.             *)
LEMMA Rests ==
  ASSUME NEW w \in Ops, Promise(w)' = Promise(w), effects'[w] = effects[w]
  PROVE  Backend!Moves(w)
BY DEF Backend!Moves

(* What RpcBackend has been told, ResultBackend has heard.                  *)
LEMMA ToldIsSaid ==
  ASSUME NEW t \in Tasks, NEW status, Told(t, status)
  PROVE  status \in States /\ Backend!Said(t, status)
<1>1. CASE status = "FAILURE" /\ t \in reported
  BY <1>1 DEF Backend!Said, States
<1>2. CASE status = "SUCCESS" /\ \E w \in Puts : w.task = t /\ Wrote(w)
  BY <1>2 DEF Backend!Said, States, Puts, Wrote
<1> QED BY <1>1, <1>2 DEF Told

(* Steps of nobody's call: the connection, the constructor, what arrives,   *)
(* the map, end(), what workers report, and what the pool does for a call.  *)
LEMMA QuietStep ==
  ASSUME IInv, IInv', Effective, OwedAnswered', FailsWithConnection',
         pc' = pc, out' = out, effects' = effects, reported \subseteq reported'
  PROVE  Effective' /\ Backend!Next
<1>1. CallsMatch'
  BY DEF Effective, CallsMatch, CallMatches
<1>2. \A w \in Ops : Backend!Moves(w)
  BY Rests DEF Promise
<1>3. Backend!Next
  BY <1>2, AllMove DEF IInv
<1> QED BY <1>1, <1>3 DEF Effective

(* Steps of one call.                                                       *)
LEMMA CallStep ==
  ASSUME IInv, IInv', Effective, OwedAnswered', FailsWithConnection',
         NEW o \in Ops,
         \A w \in Ops \ {o} : /\ pc'[w] = pc[w] /\ out'[w] = out[w]
                              /\ effects'[w] = effects[w],
         reported' = reported, effects' \in [Ops -> 0 .. MaxFull + 1],
         CallMatches(o)',
         Backend!Moves(o)
  PROVE  Effective' /\ Backend!Next
<1>1. CallsMatch'
  <2> SUFFICES ASSUME NEW w \in Ops
               PROVE  CallMatches(w)'
    BY DEF CallsMatch
  <2>1. CASE w = o
    BY <2>1
  <2>2. CASE w # o
    BY <2>2 DEF Effective, CallsMatch, CallMatches
  <2> QED BY <2>1, <2>2
<1>2. \A w \in Ops : Backend!Moves(w)
  BY Rests DEF Promise
<1>3. Backend!Next
  BY <1>2, AllMove DEF IInv
<1> QED BY <1>1, <1>3 DEF Effective

(* Steps that touch neither the pool nor a call.                            *)
LEMMA AsideSteps ==
  ASSUME IInv, IInv', Effective,
         \/ Connect \/ Lose \/ ConConsume \/ ConFails \/ ConListens
         \/ OnCancelled \/ (\E m \in Messages : OnMessage(m))
         \/ EndCall \/ EndReject \/ EndClose \/ EndDone \/ EndFails
         \/ ServerConsume \/ ServerCancel \/ ServerCancelOk \/ RunJob
         \/ (\E t \in Timers : Forget(t)) \/ (\E t \in Tasks : Report(t))
         \/ UNCHANGED vars
  PROVE  Effective' /\ Backend!Next
<1>1. /\ pc' = pc /\ out' = out /\ effects' = effects /\ owed' = owed
      /\ call' = call /\ closer' = closer /\ created' = created
  BY DEF Connect, Lose, ConConsume, ConFails, ConListens, OnCancelled,
         OnMessage, Receive, EndCall, EndReject, EndClose, EndDone, EndFails,
         ServerConsume, ServerCancel, ServerCancelOk, RunJob, Forget, Report,
         vars, poolVars, stageVars, opVars, serverVars
<1>2. \/ connection' = connection
      \/ connection = "connecting" /\ connection' \in {"open", "failed"}
      \/ connection = "open" /\ connection' = "lost"
      \/ /\ connection = "open" /\ connection' = "closed"
         /\ closer[End] = "closed"
  BY DEF Connect, Lose, ConConsume, ConFails, ConListens, OnCancelled,
         OnMessage, Receive, EndCall, EndReject, EndClose, EndDone, EndFails,
         ServerConsume, ServerCancel, ServerCancelOk, RunJob, Forget, Report,
         vars, stageVars, Up
<1>3. reported \subseteq reported'
  BY DEF Connect, Lose, ConConsume, ConFails, ConListens, OnCancelled,
         OnMessage, Receive, EndCall, EndReject, EndClose, EndDone, EndFails,
         ServerConsume, ServerCancel, ServerCancelOk, RunJob, Forget, Report,
         vars, serverVars
<1>4. FailsWithConnection'
  BY <1>1, <1>2 DEF Effective, FailsWithConnection, CallsMatch, CallMatches, Up
<1>5. OwedAnswered'
  <2>1. connection = "open" /\ closer[End] = "closed"
          => \A o \in owed : out[o] = "ok"
    BY DEF Effective, FailsWithConnection, OwedAnswered, CallsMatch,
           CallMatches, Up
  <2> QED BY <1>1, <1>2, <2>1 DEF Effective, OwedAnswered
<1> QED BY <1>1, <1>3, <1>4, <1>5, QuietStep

(* What the pool does for the constructor, or opens.                        *)
LEMMA PoolSteps ==
  ASSUME IInv, IInv', Effective,
         \/ Construct \/ ConAssert \/ (\E c \in Callers : OpenChannel(c))
         \/ ChannelFails(Con)
  PROVE  Effective' /\ Backend!Next
<1>1. PICK c \in Callers :
        \/ Pool!StartCreate(c) \/ Pool!CreateFail(c) \/ Pool!Resume(c)
        \/ Pool!CreateOk(c) /\ Up
  BY DEF Construct, ConAssert, OpenChannel, ChannelFails, Callers
<1>2. /\ pc' = pc /\ out' = out /\ effects' = effects /\ owed' = owed
      /\ connection' = connection /\ reported' = reported
  BY DEF Construct, ConAssert, OpenChannel, ChannelFails, stageVars, opVars,
         serverVars
<1>3. OwedAnswered'
  BY <1>1, <1>2, OwedGoOn
<1>4. FailsWithConnection'
  <2>1. Up \/ created' = created
    BY <1>1, CloserStep, RpcBackendAssumption DEF IInv, Pool!CreateOk,
       Pool!StartCreate, Pool!CreateFail, Pool!Resume
  <2> QED BY <1>2, <2>1 DEF Effective, FailsWithConnection, Up
<1> QED BY <1>2, <1>3, <1>4, QuietStep

(* end() gives up its channel and waits for the others.                     *)
LEMMA EndSteps ==
  ASSUME IInv, IInv', Effective, EndReturn \/ EndDestroy
  PROVE  Effective' /\ Backend!Next
<1>1. /\ pc' = pc /\ out' = out /\ effects' = effects /\ reported' = reported
      /\ connection' = connection /\ created' = created
  BY DEF EndReturn, EndDestroy, Receive, opVars, stageVars, serverVars,
         Pool!ReturnAndDestroyAll, Pool!DestroyResume, Pool!DestroyDone
<1>2. /\ closer \in [{End} -> P!CloserStates]
      /\ call \in [Callers -> P!CallStates]
      /\ \A o \in Ops : o \in Callers /\ o # Con
      /\ waiting \in Seq(Callers)
      /\ \A i \in DOMAIN waiting : call[waiting[i]] = "waiting"
  <2>1. P!Range(waiting) = {w \in Callers : call[w] = "waiting"}
    BY DEF IInv, P!IInv, P!QueuedIffWaiting
  <2> QED BY <2>1, RpcBackendAssumption
          DEF IInv, P!IInv, P!TypeOK, P!Range, Callers
<1>3. FailsWithConnection'
  BY <1>1 DEF Effective, FailsWithConnection, Up
<1>4. CASE EndReturn
  <2>1. /\ Pool!ReturnAndDestroyAll(Con, End) /\ Up
        /\ owed' = {o \in Ops : call[o] = "using"}
    BY <1>4 DEF EndReturn, Receive
  <2>2. \A o \in Ops : call[o] = "using" => call'[o] = "using"
    <3>1. CASE Pool!HandOver(Con)
      <4>1. /\ waiting # <<>>
            /\ call' = [call EXCEPT ![Con] = "idle", ![Head(waiting)] = "granted"]
        BY <3>1 DEF Pool!HandOver
      <4>2. call[Head(waiting)] = "waiting"
        BY <1>2, <4>1
      <4> QED BY <1>2, <4>1, <4>2
    <3>2. CASE Pool!Releases(Con)
      BY <1>2, <3>2 DEF Pool!Releases
    <3> QED BY <2>1, <3>1, <3>2 DEF Pool!ReturnAndDestroyAll
  <2>3. \/ closer'[End] = "awaiting"
        \/ closer'[End] = "closing" /\ inUse' = {}
    BY <1>2, <2>1 DEF Pool!ReturnAndDestroyAll, Pool!DestroyUnused, Pool!Emitted
  <2>4. inUse' = {} => \A o \in Ops : call'[o] # "using"
    <3>1. P!ReturnNeverThrows' /\ Ops \subseteq Callers
      BY DEF IInv, P!IInv, Callers
    <3> QED BY <3>1 DEF P!ReturnNeverThrows, P!Using
  <2>5. \A o \in Ops : call[o] = "using" => o.kind = "put"
    BY DEF IInv, PutsUsePool
  <2>6. OwedAnswered'
    BY <1>1, <2>1, <2>2, <2>3, <2>4, <2>5 DEF OwedAnswered, Up
  <2> QED BY <1>1, <1>3, <2>6, QuietStep
<1>5. CASE EndDestroy
  <2>1. /\ call' = call /\ owed' = owed
        /\ closer[End] \in {"resumed", "closing"}
    BY <1>2, <1>5 DEF EndDestroy, Pool!DestroyResume, Pool!DestroyDone,
                      stageVars
  <2>2. OwedAnswered'
    BY <1>1, <2>1 DEF Effective, OwedAnswered
  <2> QED BY <1>1, <1>3, <2>2, QuietStep
<1> QED BY <1>4, <1>5

(* get() waits, and hears what was said of its task, or is rejected;        *)
(* delete() is done at once.                                                *)
LEMMA MapSteps ==
  ASSUME IInv, IInv', Effective, NEW o \in Ops, Get(o) \/ Hear(o) \/ Delete(o)
  PROVE  Effective' /\ Backend!Next
<1>1. /\ pc \in [Ops -> Places] /\ o.task \in Tasks
      /\ out \in [Ops -> {"pending", "rejected", "ok"} \union States]
      /\ effects \in [Ops -> 0 .. MaxFull + 1] /\ MaxFull \in Nat
  BY RpcBackendAssumption DEF IInv, Typed, Places, Effective
<1>2. /\ call' = call /\ closer' = closer /\ created' = created /\ owed' = owed
      /\ connection' = connection /\ reported' = reported
  BY DEF Get, Hear, Delete, poolVars, stageVars, serverVars
<1>3. /\ \A w \in Ops \ {o} : /\ pc'[w] = pc[w] /\ out'[w] = out[w]
                              /\ effects'[w] = effects[w]
      /\ o.kind # "put"
  BY <1>1 DEF Get, Hear, Delete, MayCall, Effective, CallsMatch, CallMatches,
              IInv, PutsUsePool
<1>4. \/ /\ o.kind = "get" /\ pc[o] = "idle" /\ pc'[o] = "listening"
         /\ out' = out /\ effects' = effects
      \/ /\ o.kind = "get" /\ pc[o] = "listening" /\ pc'[o] = "over"
         /\ effects' = effects
         /\ \/ out'[o] = "rejected"
            \/ out'[o] \in States /\ Backend!Said(o.task, out'[o])
      \/ /\ o.kind = "delete" /\ pc[o] = "idle" /\ pc'[o] = "over"
         /\ out'[o] = "ok" /\ effects' = [effects EXCEPT ![o] = @ + 1]
  <2>1. CASE Get(o)
    BY <1>1, <2>1 DEF Get, MayCall
  <2>2. CASE Hear(o)
    <3>1. o.kind = "get" /\ pc[o] = "listening" /\ held[o] \in Promises
      BY <2>2, RpcBackendAssumption
         DEF Hear, Effective, CallsMatch, CallMatches, IInv, Typed,
             OneTaskEach, Kinds
    <3>2. CASE state[held[o]] = "fulfilled"
      <4>1. Told(o.task, value[held[o]])
        BY <3>1, <3>2 DEF IInv, ValuesTold
      <4>2. value[held[o]] \in States /\ Backend!Said(o.task, value[held[o]])
        BY <1>1, <4>1, ToldIsSaid
      <4> QED BY <1>1, <2>2, <3>1, <3>2, <4>2 DEF Hear
    <3>3. CASE state[held[o]] # "fulfilled"
      BY <1>1, <2>2, <3>1, <3>3 DEF Hear
    <3> QED BY <3>2, <3>3
  <2>3. CASE Delete(o)
    BY <1>1, <2>3 DEF Delete, MayCall
  <2> QED BY <2>1, <2>2, <2>3
<1>5. /\ out[o] = "pending" /\ effects[o] = 0
      /\ pc[o] # "over"
  BY <1>4 DEF Effective, CallsMatch, CallMatches
<1>6. /\ effects' \in [Ops -> 0 .. MaxFull + 1]
      /\ effects'[o] = IF o.kind = "get" THEN 0 ELSE 1
  BY <1>1, <1>4, <1>5
<1>7. OwedAnswered'
  BY <1>2, <1>3, <1>5, OwedKept
<1>8. FailsWithConnection'
  BY <1>2, <1>3 DEF Effective, FailsWithConnection, Up
<1>9. Backend!Moves(o)
  BY <1>4, <1>5, <1>6
     DEF Promise, States, Backend!Moves, Backend!Call, Backend!Reject,
         Backend!Confirm, Backend!Fetch, Backend!TakeEffect, Backend!Unsettled,
         Backend!Said
<1>10. CallMatches(o)'
  BY <1>3, <1>4, <1>5, <1>6 DEF States, CallMatches
<1> QED BY <1>2, <1>3, <1>6, <1>7, <1>8, <1>9, <1>10, CallStep

(* The way of a put(): while it goes on its promise waits, and it is        *)
(* resolved as it comes to its end only if it has written.                  *)
LEMMA PutSteps ==
  ASSUME IInv, IInv', Effective, NEW o \in Ops,
         \/ Put(o) \/ PutAssert(o) \/ PutFails(o) \/ PutWrite(o) \/ PutFull(o)
         \/ Drain(o) \/ PutDone(o) \/ ChannelFails(o)
         \/ ServerDeclare /\ pc[o] = "asserting" /\ pc' = [pc EXCEPT ![o] = "ready"]
  PROVE  Effective' /\ Backend!Next
<1>1. /\ pc \in [Ops -> Places]
      /\ out \in [Ops -> {"pending", "rejected", "ok"} \union States]
      /\ effects \in [Ops -> 0 .. MaxFull + 1] /\ MaxFull \in Nat
      /\ o \in Callers /\ o # Con
  BY RpcBackendAssumption DEF IInv, Typed, Places, Effective, Callers
<1>2. /\ owed' = owed /\ connection' = connection /\ reported' = reported
  BY <1>1 DEF Put, PutAssert, PutFails, PutWrite, PutFull, PutSends, Drain,
         PutDone, PutGoes, ChannelFails, ServerDeclare, stageVars, serverVars
<1>3. \A w \in Ops \ {o} : /\ pc'[w] = pc[w] /\ out'[w] = out[w]
                           /\ effects'[w] = effects[w]
  BY <1>1 DEF Put, PutAssert, PutFails, PutWrite, PutFull, PutSends, Drain,
              PutDone, PutGoes, ChannelFails, ServerDeclare
<1>4. /\ o.kind = "put"
      /\ pc[o] \in {"idle", "called", "asserting", "ready", "draining",
                    "flushed", "failed"}
  BY <1>1 DEF Put, MayCall, PutAssert, PutFails, PutWrite, PutFull,
              PutSends, Drain, PutDone, PutGoes, ChannelFails, Pool!Resume, Pool!CreateFail, IInv,
              PutsUsePool, Coming
<1>5. /\ out[o] = "pending"
      /\ IF pc[o] = "flushed" THEN effects[o] > 0
         ELSE pc[o] # "failed" => effects[o] <= MaxFull
  BY <1>4 DEF Effective, CallsMatch, CallMatches
\* Where it goes, and what with.
<1>6. \/ /\ pc'[o] \in {"called", "asserting", "ready", "draining", "failed"}
         /\ pc[o] # "flushed"
         /\ pc[o] = "failed" => pc'[o] = "failed"
         /\ out' = out /\ effects' = effects
      \/ /\ pc[o] = "ready"
         /\ \/ pc'[o] = "flushed"
            \/ pc'[o] = "draining" /\ effects[o] < MaxFull
         /\ out' = out /\ effects' = [effects EXCEPT ![o] = @ + 1]
      \/ /\ pc'[o] = "over" /\ effects' = effects
         /\ out'[o] = IF pc[o] = "flushed" THEN "ok" ELSE "rejected"
  BY <1>1 DEF Put, MayCall, PutAssert, PutFails, PutWrite, PutFull,
              PutSends, Drain, PutDone, PutGoes, ChannelFails, ServerDeclare, Pool!Resume,
              Pool!CreateFail, IInv, PutsUsePool, Coming
<1>7. effects' \in [Ops -> 0 .. MaxFull + 1] /\ CallMatches(o)'
  <2>1. effects'[o] \in 0 .. MaxFull + 1
    BY <1>1, <1>5, <1>6
  <2> QED BY <1>1, <1>4, <1>5, <1>6, <2>1 DEF CallMatches
<1>8. \/ call' = call /\ closer' = closer /\ created' = created
      \/ Pool!Get(o) \/ Pool!CreateFail(o) \/ Pool!Resume(o)
      \/ Pool!Return(o) /\ out'[o] # "pending"
  BY <1>1 DEF Put, PutAssert, PutFails, PutWrite, PutFull, PutSends, Drain,
              PutDone, PutGoes, ChannelFails, ServerDeclare, poolVars
<1>9. OwedAnswered'
  <2>1. \A w \in Ops : out[w] # "pending" => out'[w] = out[w]
    BY <1>3, <1>5
  <2>2. CASE call' = call /\ closer' = closer
    BY <1>2, <2>1, <2>2, OwedKept
  <2>3. CASE \/ Pool!Get(o) \/ Pool!CreateFail(o) \/ Pool!Resume(o)
             \/ Pool!Return(o) /\ out'[o] # "pending"
    BY <1>1, <1>2, <2>1, <2>3, OwedGoOn
  <2> QED BY <1>8, <2>2, <2>3
<1>10. FailsWithConnection'
  <2>1. created' = created
    BY <1>1, <1>8, CloserStep DEF IInv, Pool!CreateOk, Pool!Get, Pool!TakeUnused,
       Pool!StartCreate, Pool!Enqueue, Pool!CreateFail, Pool!Resume,
       Pool!Return, Pool!ReturnToWaiter, Pool!ReturnToUnused
  <2>2. ASSUME connection = "connecting"
        PROVE  pc'[o] = "called"
    <3>1. created = {}
      BY <2>2 DEF Effective, FailsWithConnection
    <3>2. ~PutAssert(o)
      BY <1>1, <3>1 DEF PutAssert, Pool!Resume, IInv, P!IInv,
                        P!NoUseAfterDestroy, P!Leasing
    <3>3. pc[o] \in {"idle", "called"}
      BY <1>4, <2>2 DEF Effective, FailsWithConnection
    <3> QED BY <1>1, <2>2, <3>2, <3>3
            DEF Put, PutFails, PutWrite, PutFull, PutSends, Drain, PutDone,
                PutGoes, ChannelFails, Up
  <2>3. ASSUME Up
        PROVE  pc'[o] # "failed" /\ out'[o] # "rejected"
    <3>1. pc[o] # "failed"
      BY <1>4, <2>3 DEF Effective, FailsWithConnection
    <3> QED BY <1>1, <1>5, <2>3, <3>1
            DEF Put, PutAssert, PutFails, PutWrite, PutFull, PutSends, Drain,
                PutDone, PutGoes, ChannelFails, ServerDeclare, Up
  <2> QED BY <1>2, <1>3, <2>1, <2>2, <2>3 DEF Effective, FailsWithConnection, Up
<1>11. Backend!Moves(o)
  BY <1>4, <1>5, <1>6, <1>7
     DEF CallMatches, Promise, Backend!Moves, Backend!Call, Backend!Reject,
         Backend!RepeatedBy, Backend!Confirm, Backend!TakeEffect,
         Backend!Unsettled
<1> QED BY <1>2, <1>3, <1>7, <1>9, <1>10, <1>11, CallStep

(* Every step is one that ResultBackend allows.                             *)
LEMMA StepEffective ==
  ASSUME IInv, IInv', Effective, [Next]_vars
  PROVE  Effective' /\ Backend!Next
<1>1. CASE \/ Connect \/ Lose \/ ConConsume \/ ConFails \/ ConListens
           \/ OnCancelled \/ (\E m \in Messages : OnMessage(m))
           \/ EndCall \/ EndReject \/ EndClose \/ EndDone \/ EndFails
           \/ ServerConsume \/ ServerCancel \/ ServerCancelOk \/ RunJob
           \/ (\E t \in Timers : Forget(t)) \/ (\E t \in Tasks : Report(t))
           \/ UNCHANGED vars
  BY <1>1, AsideSteps
<1>2. CASE \/ Construct \/ ConAssert \/ (\E c \in Callers : OpenChannel(c))
           \/ ChannelFails(Con)
  BY <1>2, PoolSteps
<1>3. CASE EndReturn \/ EndDestroy
  BY <1>3, EndSteps
<1>4. CASE \E o \in Ops : Get(o) \/ Hear(o) \/ Delete(o)
  BY <1>4, MapSteps
<1>5. CASE \E o \in Ops : \/ Put(o) \/ PutAssert(o) \/ PutFails(o) \/ PutWrite(o)
                          \/ PutFull(o) \/ Drain(o) \/ PutDone(o)
                          \/ ChannelFails(o)
  BY <1>5, PutSteps
<1>6. CASE ServerDeclare
  <2>1. CASE UNCHANGED pc
    <3>1. /\ out' = out /\ effects' = effects /\ reported' = reported
          /\ call' = call /\ closer' = closer /\ owed' = owed
          /\ connection' = connection /\ created' = created
      BY <1>6 DEF ServerDeclare, poolVars
    <3>2. OwedAnswered'
      BY <3>1, OwedKept
    <3>3. FailsWithConnection'
      BY <2>1, <3>1 DEF Effective, FailsWithConnection, Up
    <3> QED BY <2>1, <3>1, <3>2, <3>3, QuietStep
  <2>2. CASE \E o \in Ops : /\ pc[o] = "asserting"
                            /\ pc' = [pc EXCEPT ![o] = "ready"]
    BY <1>6, <2>2, PutSteps
  <2> QED BY <1>6, <2>1, <2>2 DEF ServerDeclare
<1>7. CASE \E c \in Callers : ChannelFails(c)
  BY <1>2, <1>5, <1>7 DEF Callers
<1> QED BY <1>1, <1>2, <1>3, <1>4, <1>5, <1>6, <1>7
        DEF Next, ConNext, ServerNext, Arrives, OpNext, EndNext

(* Both invariants hold in every reachable state.                           *)
LEMMA EffectiveInvariant == Spec => [](IInv /\ Effective)
<1>1. Init => IInv /\ Effective
  BY InitInv, InitEffective
<1>2. IInv /\ Effective /\ [Next]_vars => (IInv /\ Effective)'
  BY NextInv, StepEffective
<1> QED BY <1>1, <1>2, PTL DEF Spec

(* However messages, puts and failures of the connection interleave on two  *)
(* channels, get(), put(), delete() and end() are a ResultBackend that      *)
(* repeats: a result is sent only while its put() waits, a put() resolves   *)
(* only when it has been, a get() only with what was said of its task       *)
(* before and is rejected without effect, and none settles twice.  How often *)
(* a put() sends its result, or whether a rejected one has, is not promised. *)
THEOREM ImplementsResultBackend == Spec => ResultBackendSpec
<1>1. Init => Backend!Init
  BY InitSimulates
<1>2. IInv /\ IInv' /\ Effective /\ [Next]_vars
        => [Backend!Next]_<<promise, effects, statuses>>
  BY StepEffective
<1> QED
  BY <1>1, <1>2, EffectiveInvariant, PTL
  DEF Spec, ResultBackendSpec, Backend!Spec, Backend!backendVars, promise,
      statuses

(* When end() closes the connection, every put() that had a channel as it   *)
(* gave up its own has sent its result and resolved: destroyAll() waits     *)
(* for them, and had one failed the connection would not be there to close. *)
THEOREM EndAlwaysGentle == Spec => []EndIsGentle
<1>1. Effective => EndIsGentle
  <2> SUFFICES ASSUME Effective, connection = "closed", NEW o \in owed
               PROVE  out[o] = "ok" /\ effects[o] > 0
    BY DEF EndIsGentle
  <2>1. o \in Ops /\ o.kind = "put" /\ out[o] = "ok"
    BY DEF Effective, OwedAnswered
  <2> QED BY <2>1 DEF Effective, CallsMatch, CallMatches
<1> QED BY <1>1, EffectiveInvariant, PTL

-----------------------------------------------------------------------------
(* The channel of the consumer: a third invariant, on top of the first.     *)

\* From consume() to the reply to cancel(), what the socket holds and how far
\* the constructor and end() have come tell of each other: the reply to
\* consume() comes first, that to cancel() last.
Reserving ==
  /\ call[Con] \in IF con = "getting" THEN {"creating", "granted"}
                                      ELSE {"idle", "using"}
  /\ con \in {"new", "getting", "asserting", "asserted", "consuming"}
       => endpc \in {"idle", "awaiting"}
  /\ endpc = "cancelling" => con = "listening"
  /\ con \in {"asserting", "asserted", "consuming", "listening"}
       /\ endpc \in {"idle", "awaiting", "cancelling"} => call[Con] = "using"
  /\ closer[End] # "idle" => endpc \notin {"idle", "awaiting", "cancelling"}
  /\ consuming \/ wire # <<>> =>
       /\ Up /\ con \in {"consuming", "listening"}
       /\ endpc \in {"idle", "awaiting", "cancelling"}
  /\ con = "consuming" => \/ wire = <<>> /\ ~consuming
                          \/ wire # <<>> /\ wire[1] = Notice("consume-ok")
  /\ \A i \in 1..Len(wire) : wire[i] = Notice("cancel-ok") =>
       i = Len(wire) /\ endpc = "cancelling" /\ ~consuming

LEMMA InitReserving == Init => Reserving
<1> SUFFICES ASSUME Init PROVE Reserving
  OBVIOUS
<1>1. /\ call[Con] = "idle" /\ closer[End] = "idle" /\ wire = <<>> /\ ~consuming
      /\ con = "new" /\ endpc = "idle"
  BY DEF Init, Pool!Init, Callers
<1>2. Len(wire) = 0
  BY <1>1
<1> QED BY <1>1, <1>2 DEF Reserving

(* Steps of the other calls, and of the map.                                *)
LEMMA OthersReserve ==
  ASSUME IInv, Reserving,
         connection' = connection, con' = con, endpc' = endpc,
         consuming' = consuming, wire' = wire,
         \/ call' = call /\ closer' = closer
         \/ Pool!CreateOk(Con)
         \/ \E o \in Callers \ {Con} :
              \/ Pool!Get(o) \/ Pool!StartCreate(o) \/ Pool!CreateOk(o)
              \/ Pool!CreateFail(o) \/ Pool!Resume(o) \/ Pool!Return(o)
  PROVE  Reserving'
<1>1. P!IInv /\ Con \in Callers /\ call \in [Callers -> P!CallStates]
  BY DEF IInv, P!IInv, P!TypeOK, Callers
<1>2. /\ \/ call'[Con] = call[Con]
         \/ call[Con] = "creating" /\ call'[Con] = "granted"
      /\ closer[End] = "idle" => closer'[End] = "idle"
  <2>1. CASE Pool!CreateOk(Con)
    BY <1>1, <2>1 DEF Pool!CreateOk
  <2>2. CASE \E o \in Callers \ {Con} :
               \/ Pool!Get(o) \/ Pool!StartCreate(o) \/ Pool!CreateOk(o)
               \/ Pool!CreateFail(o) \/ Pool!Resume(o) \/ Pool!Return(o)
    <3>1. call[Con] # "waiting"
      BY DEF Reserving
    <3> QED BY <1>1, <2>2, <3>1, CloserStep
  <2> QED BY <2>1, <2>2
<1> QED BY <1>2 DEF Reserving, Up

(* Steps of the connection, the constructor and end() that send and receive *)
(* nothing.                                                                 *)
LEMMA StagesReserve ==
  ASSUME IInv, Reserving,
         \/ Connect \/ Construct \/ ConAssert \/ ConConsume \/ ConFails
         \/ ChannelFails(Con) \/ ServerDeclare
         \/ EndCall \/ EndReject \/ EndDestroy \/ EndClose \/ EndDone \/ EndFails
  PROVE  Reserving'
<1>1. /\ Con \in Callers /\ call \in [Callers -> P!CallStates]
      /\ closer \in [{End} -> P!CloserStates]
      /\ endpc \in {"idle", "awaiting", "cancelling", "destroying", "closing",
                    "ended", "failed"}
      /\ con \in {"new", "getting", "asserting", "asserted", "consuming",
                  "listening", "failed"}
  BY DEF IInv, P!IInv, P!TypeOK, Callers, Typed
<1>2. wire' = wire /\ consuming' = consuming
  BY DEF Connect, Construct, ConAssert, ConConsume, ConFails, ChannelFails,
         ServerDeclare, EndCall, EndReject, EndDestroy, EndClose, EndDone,
         EndFails, serverVars
<1>3. CASE Connect
  BY <1>2, <1>3 DEF Connect, Reserving, poolVars, Up
<1>4. CASE Construct \/ ConAssert \/ ChannelFails(Con)
  BY <1>1, <1>2, <1>4 DEF Construct, ConAssert, ChannelFails, Pool!StartCreate,
     Pool!Resume, Pool!CreateFail, Reserving, Up
<1>5. CASE ConConsume \/ ConFails
  BY <1>2, <1>5 DEF ConConsume, ConFails, Reserving, poolVars, Up
<1>6. CASE ServerDeclare
  BY <1>2, <1>6 DEF ServerDeclare, Reserving, poolVars, Up
<1>7. CASE EndCall \/ EndReject
  BY <1>2, <1>7 DEF EndCall, EndReject, Reserving, poolVars, Up
<1>8. CASE EndDestroy
  BY <1>1, <1>2, <1>8 DEF EndDestroy, Pool!DestroyResume, Pool!DestroyUnused,
     Pool!DestroyDone, stageVars, Reserving, Up
<1>9. CASE EndClose \/ EndDone \/ EndFails
  BY <1>1, <1>2, <1>9 DEF EndClose, EndDone, EndFails, Reserving, poolVars, Up
<1> QED BY <1>3, <1>4, <1>5, <1>6, <1>7, <1>8, <1>9

(* What Tail() and Append() do to a sequence, by positions.                 *)
LEMMA Shifted ==
  ASSUME NEW S, NEW s \in Seq(S), s # <<>>
  PROVE  /\ Tail(s) \in Seq(S) /\ Head(s) = s[1]
         /\ Len(s) \in Nat \ {0} /\ Len(Tail(s)) = Len(s) - 1
         /\ \A i \in 1..(Len(s) - 1) : Tail(s)[i] = s[i + 1]
  OBVIOUS

LEMMA Appended ==
  ASSUME NEW S, NEW s \in Seq(S), NEW e \in S
  PROVE  /\ Append(s, e) # <<>>
         /\ Len(s) \in Nat /\ Len(Append(s, e)) = Len(s) + 1
         /\ \A i \in 1..Len(s) : Append(s, e)[i] = s[i]
         /\ Append(s, e)[Len(s) + 1] = e
         /\ s # <<>> => Append(s, e)[1] = s[1]
<1>1. /\ Append(s, e) \in Seq(S)
      /\ Len(s) \in Nat /\ Len(Append(s, e)) = Len(s) + 1
      /\ \A i \in 1..Len(s) : Append(s, e)[i] = s[i]
      /\ Append(s, e)[Len(s) + 1] = e
  OBVIOUS
<1>2. s # <<>> => 1 \in 1..Len(s)
  OBVIOUS
<1>3. Append(s, e) # <<>>
  BY <1>1
<1> QED BY <1>1, <1>2, <1>3

(* What the consumer receives.                                              *)
LEMMA ReceiptsReserve ==
  ASSUME IInv, Reserving,
         \/ ConListens \/ OnCancelled \/ EndReturn
         \/ \E m \in Messages : OnMessage(m)
  PROVE  Reserving'
<1>1. /\ wire \in Seq(TrueMessages \union Notices) /\ wire # <<>> /\ Up
      /\ wire' = Tail(wire) /\ consuming' = consuming
      /\ connection' = connection
  BY DEF IInv, AllTold, ConListens, OnCancelled, EndReturn, OnMessage, Receive
<1> DEFINE W == TrueMessages \union Notices
<1>2. wire \in Seq(W)
  BY <1>1
<1> HIDE DEF W
<1>3. /\ wire' \in Seq(W) /\ Head(wire) = wire[1]
      /\ Len(wire) \in Nat \ {0} /\ Len(wire') = Len(wire) - 1
      /\ \A i \in 1..(Len(wire) - 1) : wire'[i] = wire[i + 1]
  BY <1>1, <1>2, Shifted
<1>4. \A i \in 1..Len(wire') : wire'[i] = Notice("cancel-ok") =>
        i = Len(wire') /\ endpc = "cancelling" /\ ~consuming
  BY <1>3 DEF Reserving
<1>5. /\ con \in {"consuming", "listening"}
      /\ endpc \in {"idle", "awaiting", "cancelling"} /\ call[Con] = "using"
  BY <1>1 DEF Reserving
<1>6. CASE ConListens
  <2>1. con' = "listening" /\ endpc' = endpc /\ call' = call /\ closer' = closer
    BY <1>6 DEF ConListens, poolVars
  <2> QED BY <1>1, <1>4, <1>5, <2>1 DEF Reserving, Up
<1>7. CASE OnCancelled \/ \E m \in Messages : OnMessage(m)
  <2>1. con' = con /\ endpc' = endpc /\ call' = call /\ closer' = closer
    BY <1>7 DEF OnCancelled, OnMessage, poolVars
  <2>2. wire[1] # Notice("consume-ok")
    <3>1. CASE OnCancelled
      BY <1>3, <3>1 DEF OnCancelled, Receive, Notice
    <3>2. ASSUME NEW m \in Messages, OnMessage(m)
          PROVE  wire[1] # Notice("consume-ok")
      BY <1>3, <3>2, RpcBackendAssumption DEF OnMessage, Receive, Notice, Messages
    <3> QED BY <1>7, <3>1, <3>2
  <2>3. con = "listening"
    BY <1>1, <1>5, <2>2 DEF Reserving
  <2> QED BY <1>1, <1>4, <1>5, <2>1, <2>3 DEF Reserving, Up
<1>8. CASE EndReturn
  <2>1. /\ wire[1] = Notice("cancel-ok") /\ endpc' = "destroying" /\ con' = con
        /\ Pool!ReturnAndDestroyAll(Con, End)
    BY <1>3, <1>8 DEF EndReturn, Receive
  <2>2. Len(wire) = 1 /\ endpc = "cancelling" /\ ~consuming
    BY <1>3, <2>1 DEF Reserving
  <2>3. wire' = <<>> /\ Len(wire') = 0 /\ con = "listening"
    BY <1>3, <2>2 DEF Reserving
  <2>4. call'[Con] = "idle"
    <3>1. /\ call \in [Callers -> P!CallStates] /\ Con \in Callers
          /\ call[Con] = "using"
          /\ waiting \in Seq(Callers)
          /\ \A i \in DOMAIN waiting : call[waiting[i]] = "waiting"
      <4>1. P!Range(waiting) = {w \in Callers : call[w] = "waiting"}
        BY DEF IInv, P!IInv, P!QueuedIffWaiting
      <4> QED BY <1>5, <4>1 DEF IInv, P!IInv, P!TypeOK, P!Range, Callers
    <3>2. CASE Pool!HandOver(Con)
      <4>1. /\ waiting # <<>>
            /\ call' = [call EXCEPT ![Con] = "idle", ![Head(waiting)] = "granted"]
        BY <3>2 DEF Pool!HandOver
      <4>2. call[Head(waiting)] = "waiting"
        BY <3>1, <4>1
      <4> QED BY <3>1, <4>1, <4>2
    <3>3. CASE Pool!Releases(Con)
      BY <3>1, <3>3 DEF Pool!Releases
    <3> QED BY <2>1, <3>2, <3>3 DEF Pool!ReturnAndDestroyAll
  <2>5. con' = "listening" /\ endpc' = "destroying" /\ ~consuming'
    BY <1>1, <2>1, <2>2, <2>3
  <2>6. \A i \in 1..Len(wire') : FALSE
    BY <2>3
  <2> QED BY <2>3, <2>4, <2>5, <2>6 DEF Reserving
<1> QED BY <1>6, <1>7, <1>8

(* What the server sends, or loses, and what is written for it.             *)
LEMMA ServerReserves ==
  ASSUME IInv, Reserving,
         \/ Lose \/ ServerConsume \/ ServerCancel \/ ServerCancelOk
         \/ (\E t \in Tasks : Report(t)) \/ (\E o \in Ops : PutWrite(o) \/ PutFull(o))
  PROVE  Reserving'
<1> DEFINE W == Messages \union Notices
<1>1. /\ wire \in Seq(W) /\ queue \in Seq(Messages)
      /\ Len(wire) \in Nat
  <2>1. TrueMessages \subseteq Messages /\ TrueMessages \union Notices \subseteq W
    BY DEF TrueMessages
  <2> QED BY <2>1 DEF IInv, AllTold
<1> HIDE DEF W
<1>2. /\ call' = call /\ closer' = closer /\ endpc' = endpc
      /\ ~ServerConsume => con' = con
      /\ ~Lose => connection' = connection
  BY DEF Lose, ServerConsume, ServerCancel, ServerCancelOk, Report, PutWrite,
         PutFull, PutSends, PutGoes, poolVars, stageVars
<1>3. CASE Lose
  BY <1>2, <1>3 DEF Lose, Reserving
<1>4. CASE ServerConsume
  <2>1. con = "consuming" /\ wire = <<>> /\ ~consuming /\ Up
    <3>1. con = "consuming" /\ ~consuming /\ Up
          /\ Notice("consume-ok") \notin Range(wire)
      BY <1>4 DEF ServerConsume
    <3>2. wire = <<>>
      <4>1. wire # <<>> => wire[1] \in Range(wire)
        BY <1>1 DEF Range
      <4> QED BY <3>1, <4>1 DEF Reserving
    <3> QED BY <3>1, <3>2
  <2>2. CASE declared
    <3>1. /\ wire' = Append(wire, Notice("consume-ok")) \o queue
          /\ consuming' = TRUE /\ con' = con
      BY <1>4, <2>2 DEF ServerConsume
    <3>2. /\ Len(queue) \in Nat /\ Len(wire') = 1 + Len(queue)
          /\ wire'[1] = Notice("consume-ok")
          /\ \A i \in 2..Len(wire') : wire'[i] \in Messages
      BY <1>1, <2>1, <3>1
    <3>3. Notice("cancel-ok") \notin Messages
      BY RpcBackendAssumption DEF Notice, Messages
    <3>4. \A i \in 1..Len(wire') : wire'[i] # Notice("cancel-ok")
      BY <3>2, <3>3 DEF Notice
    <3>5. wire' # <<>>
      BY <3>2
    <3>6. /\ call[Con] = "using" /\ endpc \in {"idle", "awaiting"}
          /\ closer[End] = "idle" /\ connection' = connection
      BY <1>2, <1>4, <2>1 DEF Reserving, ServerConsume
    <3> QED BY <1>2, <2>1, <3>1, <3>2, <3>4, <3>5, <3>6 DEF Reserving, Up
  <2>3. CASE ~declared
    BY <1>2, <1>4, <2>1, <2>3 DEF ServerConsume, Reserving, Up
  <2> QED BY <2>2, <2>3
<1>5. CASE ServerCancelOk
  <2>1. /\ wire' = Append(wire, Notice("cancel-ok")) /\ consuming' = FALSE /\ Up
        /\ endpc = "cancelling" /\ Notice("cancel-ok") \notin Range(wire)
    BY <1>5 DEF ServerCancelOk
  <2>2. \A i \in 1..Len(wire) : wire[i] # Notice("cancel-ok")
    BY <1>1, <2>1 DEF Range
  <2>3. /\ Len(wire') = Len(wire) + 1
        /\ \A i \in 1..Len(wire) : wire'[i] = wire[i]
    BY <1>1, <2>1, Appended
  <2>4. \A i \in 1..Len(wire') : wire'[i] = Notice("cancel-ok") => i = Len(wire')
    BY <1>1, <2>2, <2>3
  <2>5. con = "listening" /\ con' = con
    BY <1>2, <1>5, <2>1 DEF Reserving, ServerCancelOk, stageVars
  <2> QED BY <1>2, <1>5, <2>1, <2>4, <2>5 DEF Reserving, Up, ServerCancelOk, stageVars
<1>6. CASE \/ ServerCancel \/ (\E t \in Tasks : Report(t))
           \/ (\E o \in Ops : PutWrite(o) \/ PutFull(o))
  <2>1. /\ con' = con /\ connection' = connection
        /\ consuming' => consuming
    <3>1. CASE ServerCancel
      BY <3>1 DEF ServerCancel, stageVars
    <3>2. ASSUME NEW t \in Tasks, Report(t)
          PROVE  con' = con /\ connection' = connection /\ consuming' = consuming
      BY <3>2 DEF Report, stageVars
    <3>3. ASSUME NEW o \in Ops, PutWrite(o) \/ PutFull(o)
          PROVE  con' = con /\ connection' = connection /\ consuming' = consuming
      BY <3>3 DEF PutWrite, PutFull, PutSends, PutGoes, stageVars
    <3> QED BY <1>6, <3>1, <3>2, <3>3
  <2>2. \/ wire' = wire
        \/ consuming /\ \E m \in W : /\ wire' = Append(wire, m)
                                     /\ m # Notice("cancel-ok")
    <3>1. CASE ServerCancel
      <4>1. Notice("cancelled") \in W /\ Notice("cancelled") # Notice("cancel-ok")
        BY DEF W, Notice, Notices
      <4> QED BY <3>1, <4>1 DEF ServerCancel
    <3>2. ASSUME NEW t \in Tasks, Report(t)
          PROVE  \/ wire' = wire
                 \/ consuming /\ \E m \in W : /\ wire' = Append(wire, m)
                                              /\ m # Notice("cancel-ok")
      <4>1. /\ [task |-> t, status |-> "FAILURE"] # Notice("cancel-ok")
            /\ [task |-> t, status |-> "FAILURE"] \in W
        BY RpcBackendAssumption DEF Notice, W, Messages, States
      <4> QED BY <3>2, <4>1 DEF Report, Enqueued
    <3>3. ASSUME NEW o \in Ops, PutWrite(o) \/ PutFull(o)
          PROVE  \/ wire' = wire
                 \/ consuming /\ \E m \in W : /\ wire' = Append(wire, m)
                                              /\ m # Notice("cancel-ok")
      <4>1. /\ [task |-> o.task, status |-> "SUCCESS"] # Notice("cancel-ok")
            /\ [task |-> o.task, status |-> "SUCCESS"] \in W
        BY RpcBackendAssumption DEF Notice, W, Messages, States
      <4> QED BY <3>3, <4>1 DEF PutWrite, PutFull, PutSends, Enqueued
    <3> QED BY <1>6, <3>1, <3>2, <3>3
  <2>3. CASE wire' = wire
    BY <1>2, <2>1, <2>3 DEF Reserving, Up
  <2>4. ASSUME NEW m \in W, consuming, wire' = Append(wire, m), m # Notice("cancel-ok")
        PROVE  Reserving'
    <3>1. /\ wire' # <<>> /\ Len(wire') = Len(wire) + 1
          /\ \A i \in 1..Len(wire) : wire'[i] = wire[i]
          /\ wire'[Len(wire) + 1] = m
          /\ wire # <<>> => wire'[1] = wire[1]
      BY <1>1, <2>4, Appended
    <3>2. \A i \in 1..Len(wire') : wire'[i] # Notice("cancel-ok")
      BY <1>1, <2>4, <3>1 DEF Reserving
    <3> QED BY <1>2, <2>1, <2>4, <3>1, <3>2 DEF Reserving, Up
  <2> QED BY <2>2, <2>3, <2>4
<1> QED BY <1>3, <1>4, <1>5, <1>6

-----------------------------------------------------------------------------
LEMMA NextReserving ==
  ASSUME IInv, Reserving, [Next]_vars
  PROVE  Reserving'
<1>1. CASE \/ RunJob \/ (\E t \in Timers : Forget(t))
           \/ (\E o \in Ops : \/ Get(o) \/ Hear(o) \/ Delete(o)
                              \/ PutFails(o) \/ Drain(o))
           \/ UNCHANGED vars
  BY <1>1, OthersReserve DEF Get, RunJob, Forget, Hear, Delete, PutFails,
     Drain, PutGoes, poolVars, stageVars, serverVars, vars
<1>2. ASSUME NEW o \in Ops, Put(o) \/ PutAssert(o) \/ PutDone(o)
      PROVE  Reserving'
  <2>1. o \in Callers \ {Con}
    BY RpcBackendAssumption DEF Callers
  <2> QED BY <1>2, <2>1, OthersReserve DEF Put, PutAssert, PutDone, stageVars,
          serverVars
<1>3. ASSUME NEW c \in Callers, OpenChannel(c)
      PROVE  Reserving'
  <2>1. c = Con \/ c \in Callers \ {Con}
    OBVIOUS
  <2> QED BY <1>3, <2>1, OthersReserve DEF OpenChannel, stageVars, serverVars
<1>4. ASSUME NEW c \in Callers, ChannelFails(c)
      PROVE  Reserving'
  <2>1. CASE c = Con
    BY <1>4, <2>1, StagesReserve
  <2>2. CASE c # Con
    BY <1>4, <2>2, OthersReserve DEF ChannelFails, serverVars
  <2> QED BY <2>1, <2>2
<1>5. CASE \/ Connect \/ Construct \/ ConAssert \/ ConConsume \/ ConFails
           \/ ServerDeclare \/ EndCall \/ EndReject \/ EndDestroy \/ EndClose
           \/ EndDone \/ EndFails
  BY <1>5, StagesReserve
<1>6. CASE \/ ConListens \/ OnCancelled \/ EndReturn
           \/ (\E m \in Messages : OnMessage(m))
  BY <1>6, ReceiptsReserve
<1>7. CASE \/ Lose \/ ServerConsume \/ ServerCancel \/ ServerCancelOk
           \/ (\E t \in Tasks : Report(t)) \/ (\E o \in Ops : PutWrite(o) \/ PutFull(o))
  BY <1>7, ServerReserves
<1> QED BY <1>1, <1>2, <1>3, <1>4, <1>5, <1>6, <1>7
        DEF Next, ConNext, ServerNext, Arrives, OpNext, EndNext

(* The constructor takes a channel for the consumer, and only end() gives   *)
(* it back, after the reply to cancel(): whatever calls, losses and failures *)
(* come between, no put() has that channel while the server has the consumer *)
(* or anything of it is on its way.                                         *)
THEOREM ConsumerAlwaysReserved == Spec => []ConsumerReserved
<1>1. IInv /\ Reserving => ConsumerReserved
  <2> SUFFICES ASSUME IInv, Reserving, consuming \/ wire # <<>>
               PROVE  /\ call[Con] = "using" /\ leased[Con] \notin destroyed
                      /\ \A o \in Ops : leased[o] # leased[Con]
    BY DEF ConsumerReserved
  <2>1. call[Con] = "using" /\ Con \in Callers
    BY DEF Reserving, Callers
  <2>2. /\ leased[Con] \in Channels /\ leased[Con] # None
        /\ leased[Con] \notin destroyed
    BY <2>1 DEF IInv, P!IInv, P!TypeOK, P!LeasedIffHolding, P!Leasing,
       P!NoUseAfterDestroy
  <2>3. ASSUME NEW o \in Ops, leased[o] = leased[Con]
        PROVE  FALSE
    <3>1. o \in Callers /\ o # Con
      BY RpcBackendAssumption DEF Callers
    <3> QED BY <2>1, <2>2, <2>3, <3>1
            DEF IInv, P!IInv, P!LeasedIffHolding, P!Leasing, P!Exclusive
  <2> QED BY <2>1, <2>2, <2>3
<1>2. Init => IInv /\ Reserving
  BY InitInv, InitReserving
<1>3. IInv /\ Reserving /\ [Next]_vars => (IInv /\ Reserving)'
  BY NextInv, NextReserving
<1> QED BY <1>1, <1>2, <1>3, PTL DEF Spec

-----------------------------------------------------------------------------
(* Type correctness of the backend, of its pool and of its map, and of     *)
(* what is in the queue and on its way to the consumer.                    *)
THEOREM TypeCorrect == Spec => []TypeOK
<1>1. IInv /\ Effective => TypeOK
  <2> SUFFICES ASSUME IInv, Effective PROVE TypeOK
    OBVIOUS
  <2>1. Pool!TypeOK
    BY DEF IInv, P!IInv, P!TypeOK, Pool!TypeOK, P!CallStates, Pool!CallStates,
           P!CloserStates, Pool!CloserStates
  <2>2. Map!TypeOK
    BY DEF IInv, M!IInv, M!TypeOK, Map!TypeOK, M!Entries, Map!Entries,
           M!NoEntry, Map!NoEntry, M!Settled, Map!Settled
  <2>3. queue \in Seq(Messages) /\ wire \in Seq(Messages \union Notices)
    <3>1. /\ TrueMessages \subseteq Messages
          /\ TrueMessages \union Notices \subseteq Messages \union Notices
      BY DEF TrueMessages
    <3> QED BY <3>1, SeqWider DEF IInv, AllTold
  <2>4. effects \in [Ops -> 0 .. MaxFull + 1] /\ owed \in SUBSET Ops
    BY DEF Effective, OwedAnswered
  <2> QED BY <2>1, <2>2, <2>3, <2>4 DEF IInv, Typed, TypeOK
<1> QED BY <1>1, EffectiveInvariant, PTL

(* No get() is answered with the result of another task, or with one that   *)
(* nobody reported or sent: createTimeoutPromise(this.promises.get(taskId)) *)
(* after any onMessage(), delete(), timer of the map or rejectAll().        *)
THEOREM AnswersAlwaysReported == Spec => []AnswersAreReported
<1>1. IInv => AnswersAreReported
  BY DEF IInv, AllTold, Told, Wrote, AnswersAreReported, States
<1> QED BY <1>1, Invariant, PTL
=============================================================================
