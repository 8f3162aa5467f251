---------------------------- MODULE ResourcePool ----------------------------
(***************************************************************************)
(* The resource pool of src/containers/resource_pool.ts, with the FIFO of  *)
(* waiting callers that src/containers/promise_queue.ts keeps for it.  The *)
(* RabbitMQ backend and broker use it for channels and the Redis backend   *)
(* for connections.                                                        *)
(*                                                                         *)
(* One action is one uninterrupted run of the event loop.  What comes      *)
(* after an await is an action of its own, so between the moment a         *)
(* resource is given to a promise ("granted") and the moment the get()     *)
(* that waits on it records it in inUse ("using"), anything else may run.  *)
(*                                                                         *)
(* A caller stands for one use of the pool at a time: get() or use(), then *)
(* return().  It starts over when it has returned its resource.            *)
(***************************************************************************)
EXTENDS Naturals, Sequences, FiniteSets, Functions

CONSTANTS Callers,        \* users of the pool
          Closers,        \* calls of destroyAll()
          Resources,      \* the objects create() may produce
          maxResources,   \* the limit given to the constructor
          CreateMayFail,  \* whether create() may throw or reject
          None            \* no resource

ASSUME PoolAssumption ==
  /\ maxResources \in Nat
  /\ CreateMayFail \in BOOLEAN
  /\ None \notin Callers \union Resources

VARIABLES
  unused,         \* List of idle resources, oldest first
  inUse,          \* Set of resources whose get() has completed
  resourceCount,  \* number of times create() was called
  waiting,        \* PromiseQueue: the callers whose promise is queued
  call,           \* call[c]: how far the caller's get() has come
  leased,         \* leased[c]: the resource c's promise was resolved with
  created,        \* resources create() has produced
  destroyed,      \* resources destroy() was called on
  closer          \* closer[d]: how far the destroyAll() has come

poolVars == <<unused, inUse, resourceCount, waiting, call, leased, created,
              destroyed, closer>>

CallStates   == {"idle", "creating", "waiting", "granted", "using"}
CloserStates == {"idle", "awaiting", "resumed", "closing", "closed"}

TypeOK ==
  /\ unused \in Seq(Resources)
  /\ inUse \in SUBSET Resources
  /\ resourceCount \in 0..maxResources
  /\ waiting \in Seq(Callers)
  /\ call \in [Callers -> CallStates]
  /\ leased \in [Callers -> Resources \union {None}]
  /\ created \in SUBSET Resources
  /\ destroyed \in SUBSET created
  /\ closer \in [Closers -> CloserStates]

Init ==
  /\ unused = <<>>
  /\ inUse = {}
  /\ resourceCount = 0
  /\ waiting = <<>>
  /\ call = [c \in Callers |-> "idle"]
  /\ leased = [c \in Callers |-> None]
  /\ created = {}
  /\ destroyed = {}
  /\ closer = [d \in Closers |-> "idle"]
-----------------------------------------------------------------------------
(* get(): everything up to the first await, which is getResource(). *)

\* Mutant: reads the first resource without taking it off the list.
TakeUnused_Peeks(c) ==
  /\ call[c] = "idle"
  /\ unused # <<>>
  /\ call' = [call EXCEPT ![c] = "granted"]
  /\ leased' = [leased EXCEPT ![c] = Head(unused)]
  /\ UNCHANGED <<unused, inUse, resourceCount, waiting, created, destroyed,
                 closer>>

\* unused.shift() found a resource.
TakeUnused(c) ==
  /\ call[c] = "idle"
  /\ unused # <<>>
  /\ call' = [call EXCEPT ![c] = "granted"]
  /\ leased' = [leased EXCEPT ![c] = Head(unused)]
  /\ unused' = Tail(unused)
  /\ UNCHANGED <<inUse, resourceCount, waiting, created, destroyed, closer>>

\* Mutant: the limit is compared after the count has gone up.
StartCreate_OneTooMany(c) ==
  /\ call[c] = "idle"
  /\ unused = <<>>
  /\ resourceCount <= maxResources
  /\ call' = [call EXCEPT ![c] = "creating"]
  /\ resourceCount' = resourceCount + 1
  /\ UNCHANGED <<unused, inUse, waiting, leased, created, destroyed, closer>>

\* Mutant: counts a resource once it is there, not when it is asked for.
StartCreate_Uncounted(c) ==
  /\ call[c] = "idle"
  /\ unused = <<>>
  /\ Cardinality(created) < maxResources
  /\ call' = [call EXCEPT ![c] = "creating"]
  /\ resourceCount' = Cardinality(created)
  /\ UNCHANGED <<unused, inUse, waiting, leased, created, destroyed, closer>>

\* Below the limit: the count goes up before create() has produced anything.
StartCreate(c) ==
  /\ call[c] = "idle"
  /\ unused = <<>>
  /\ resourceCount < maxResources
  /\ call' = [call EXCEPT ![c] = "creating"]
  /\ resourceCount' = resourceCount + 1
  /\ UNCHANGED <<unused, inUse, waiting, leased, created, destroyed, closer>>

\* At the limit: waiting.push().
Enqueue(c) ==
  /\ call[c] = "idle"
  /\ unused = <<>>
  /\ resourceCount >= maxResources
  /\ call' = [call EXCEPT ![c] = "waiting"]
  /\ waiting' = Append(waiting, c)
  /\ UNCHANGED <<unused, inUse, resourceCount, leased, created, destroyed,
                 closer>>

Get(c) == TakeUnused(c) \/ StartCreate(c) \/ Enqueue(c)

\* create()'s promise settles; a failure rejects get() and nothing else.
CreateOk(c) ==
  /\ call[c] = "creating"
  /\ \E r \in Resources \ created :
       /\ created' = created \union {r}
       /\ leased' = [leased EXCEPT ![c] = r]
  /\ call' = [call EXCEPT ![c] = "granted"]
  /\ UNCHANGED <<unused, inUse, resourceCount, waiting, destroyed, closer>>

CreateFail(c) ==
  /\ CreateMayFail
  /\ call[c] = "creating"
  /\ call' = [call EXCEPT ![c] = "idle"]
  /\ UNCHANGED <<unused, inUse, resourceCount, waiting, leased, created,
                 destroyed, closer>>

\* The rest of get(): inUse.add(resource).  use() then invokes its function.
Resume(c) ==
  /\ call[c] = "granted"
  /\ call' = [call EXCEPT ![c] = "using"]
  /\ inUse' = inUse \union {leased[c]}
  /\ UNCHANGED <<unused, resourceCount, waiting, leased, created, destroyed,
                 closer>>
-----------------------------------------------------------------------------
(* return(), directly or from returnAfter() once use()'s function settled. *)

\* Mutant: asks has() where it should delete().
LeavesUse_Stays(c) ==
  /\ call[c] = "using"
  /\ leased[c] \in inUse
  /\ inUse' = inUse

\* inUse.delete(resource), which throws for a resource that is not there.
LeavesUse(c) ==
  /\ call[c] = "using"
  /\ leased[c] \in inUse
  /\ inUse' = inUse \ {leased[c]}

\* Mutant: pop() where it should shift().
HandOver_Newest(c) ==
  LET w == waiting[Len(waiting)] IN
  /\ waiting # <<>>
  /\ call' = [call EXCEPT ![c] = "idle", ![w] = "granted"]
  /\ leased' = [leased EXCEPT ![c] = None, ![w] = leased[c]]
  /\ waiting' = SubSeq(waiting, 1, Len(waiting) - 1)

\* waiting.resolveOne(resource) found a caller: it skips the unused list.
HandOver(c) ==
  LET w == Head(waiting) IN
  /\ waiting # <<>>
  /\ call' = [call EXCEPT ![c] = "idle", ![w] = "granted"]
  /\ leased' = [leased EXCEPT ![c] = None, ![w] = leased[c]]
  /\ waiting' = Tail(waiting)

\* Mutant: nobody looks whether a caller is waiting.
Releases_Always(c) ==
  /\ call' = [call EXCEPT ![c] = "idle"]
  /\ leased' = [leased EXCEPT ![c] = None]
  /\ UNCHANGED waiting

Releases(c) ==
  /\ waiting = <<>>
  /\ call' = [call EXCEPT ![c] = "idle"]
  /\ leased' = [leased EXCEPT ![c] = None]
  /\ UNCHANGED waiting

\* Mutant: only the destroyAll() that came last keeps its listener.
Emitted_Once(used) ==
  [d \in Closers |->
     IF closer[d] = "awaiting" /\ used = {}
        /\ d = CHOOSE e \in Closers : closer[e] = "awaiting"
     THEN "resumed" ELSE closer[d]]

\* emptyEmitter.emit("empty") when nothing is in inUse any more.
Emitted(used) ==
  [d \in Closers |-> IF closer[d] = "awaiting" /\ used = {} THEN "resumed"
                                                            ELSE closer[d]]

\* Mutant: the early return after resolveOne() is missing.
ReturnToWaiter_PushesToo(c) ==
  /\ LeavesUse(c)
  /\ HandOver(c)
  /\ unused' = Append(unused, leased[c])
  /\ UNCHANGED <<resourceCount, created, destroyed, closer>>

ReturnToWaiter(c) ==
  /\ LeavesUse(c)
  /\ HandOver(c)
  /\ UNCHANGED <<unused, resourceCount, created, destroyed, closer>>

\* Mutant: either announces "empty" or keeps the resource, not both.
ReturnToUnused_Forgets(c) ==
  /\ LeavesUse(c)
  /\ Releases(c)
  /\ closer' = Emitted(inUse \ {leased[c]})
  /\ unused' = IF closer' # closer THEN unused ELSE Append(unused, leased[c])
  /\ UNCHANGED <<resourceCount, created, destroyed>>

ReturnToUnused(c) ==
  /\ LeavesUse(c)
  /\ Releases(c)
  /\ closer' = Emitted(inUse \ {leased[c]})
  /\ unused' = Append(unused, leased[c])
  /\ UNCHANGED <<resourceCount, created, destroyed>>

Return(c) == ReturnToWaiter(c) \/ ReturnToUnused(c)
-----------------------------------------------------------------------------
(* destroyAll() *)

\* Mutant: the list is not replaced by a fresh one.
DestroyUnused_KeepsList(d) ==
  /\ closer' = [closer EXCEPT ![d] = "closing"]
  /\ destroyed' = destroyed \union Range(unused)
  /\ UNCHANGED unused

\* Array.from(this.unused), a fresh list, destroy() on each of the old one.
DestroyUnused(d) ==
  /\ closer' = [closer EXCEPT ![d] = "closing"]
  /\ destroyed' = destroyed \union Range(unused)
  /\ unused' = <<>>

DestroyAllNow(d) ==
  /\ closer[d] = "idle"
  /\ inUse = {}
  /\ DestroyUnused(d)
  /\ UNCHANGED <<inUse, resourceCount, waiting, call, leased, created>>

\* promisifyEvent(this.emptyEmitter, "empty") registers its listener at once.
DestroyAllLater(d) ==
  /\ closer[d] = "idle"
  /\ inUse # {}
  /\ closer' = [closer EXCEPT ![d] = "awaiting"]
  /\ UNCHANGED <<unused, inUse, resourceCount, waiting, call, leased, created,
                 destroyed>>

DestroyAll(d) == DestroyAllNow(d) \/ DestroyAllLater(d)

\* The continuation after the event; it does not look at inUse again.
DestroyResume(d) ==
  /\ closer[d] = "resumed"
  /\ DestroyUnused(d)
  /\ UNCHANGED <<inUse, resourceCount, waiting, call, leased, created>>

\* Promise.all(replies) settles.
DestroyDone(d) ==
  /\ closer[d] = "closing"
  /\ closer' = [closer EXCEPT ![d] = "closed"]
  /\ UNCHANGED <<unused, inUse, resourceCount, waiting, call, leased, created,
                 destroyed>>

(* return(resource) and destroyAll() with no await between them, which is  *)
(* how end() of both result backends gives up its last resource.           *)
ReturnAndDestroyAll(c, d) ==
  /\ closer[d] = "idle"
  /\ LeavesUse(c)
  /\ \/ /\ HandOver(c)
        /\ IF inUse' = {}
           THEN DestroyUnused(d)
           ELSE /\ closer' = [closer EXCEPT ![d] = "awaiting"]
                /\ UNCHANGED <<unused, destroyed>>
     \/ /\ Releases(c)
        /\ IF inUse' = {}
           THEN /\ closer' = [Emitted({}) EXCEPT ![d] = "closing"]
                /\ destroyed' = destroyed \union Range(unused)
                                          \union {leased[c]}
                /\ unused' = <<>>
           ELSE /\ closer' = [closer EXCEPT ![d] = "awaiting"]
                /\ unused' = Append(unused, leased[c])
                /\ UNCHANGED destroyed
  /\ UNCHANGED <<resourceCount, created>>
-----------------------------------------------------------------------------
Next ==
  \/ \E c \in Callers : Get(c) \/ CreateOk(c) \/ CreateFail(c) \/ Resume(c)
                        \/ Return(c)
  \/ \E d \in Closers : DestroyAll(d) \/ DestroyResume(d) \/ DestroyDone(d)
  \/ \E c \in Callers, d \in Closers : ReturnAndDestroyAll(c, d)

Spec == Init /\ [][Next]_poolVars

(* The event loop runs every continuation that is ready; create() and      *)
(* destroy() settle; whoever has a resource returns it in the end (use()   *)
(* does so as soon as its function settles).  Nobody has to call get().    *)
Fairness ==
  /\ \A c \in Callers : /\ WF_poolVars(CreateOk(c) \/ CreateFail(c))
                        /\ WF_poolVars(Resume(c))
                        /\ WF_poolVars(Return(c))
  /\ \A d \in Closers : /\ WF_poolVars(DestroyResume(d))
                        /\ WF_poolVars(DestroyDone(d))

FairSpec == Spec /\ Fairness
-----------------------------------------------------------------------------
Using    == {c \in Callers : call[c] = "using"}
Leasing  == {c \in Callers : call[c] \in {"granted", "using"}}
Creating == {c \in Callers : call[c] = "creating"}

\* Two calls never hold the same resource: between the promise that hands a
\* resource over and the inUse.add() that records it nobody else gets it.
Exclusive ==
  \A c, w \in Leasing : leased[c] = leased[w] => c = w

\* Nobody holds a connection or channel that destroyAll() has closed, however
\* its continuation interleaves with get() and return().
NoUseAfterDestroy ==
  \A c \in Leasing : leased[c] \in created \ destroyed

\* A caller only ever waits while no resource lies idle and the limit is
\* reached: return() and destroyAll() never strand a queued promise next to a
\* resource it could have had.
NoIdleWhileWaiting ==
  waiting # <<>> => unused = <<>> /\ resourceCount = maxResources

\* Every resource that create() made is in exactly one place: idle, on lease
\* or destroyed.
NoLostResource ==
  /\ created = Range(unused) \union {leased[c] : c \in Leasing}
                             \union destroyed
  /\ Range(unused) \intersect {leased[c] : c \in Leasing} = {}
  /\ destroyed \intersect Range(unused) = {}
  /\ IsInjective(unused)

\* No more resources are made, or being made, than were counted and allowed.
WithinLimit ==
  Cardinality(created) + Cardinality(Creating) <= resourceCount

\* inUse is what callers hold past get(), so a return() of a resource that its
\* caller got from the pool never throws "does not belong to this pool".
ReturnNeverThrows ==
  inUse = {leased[c] : c \in Using}

\* Whoever queues is served before anyone behind it in the queue and before
\* any newcomer.
NoOvertaking ==
  [][\A c \in Callers :
       waiting # <<>> /\ call[c] # "granted" /\ call'[c] = "granted"
         => call[c] = "creating" \/ c = Head(waiting)]_poolVars

\* Where each resource is in its life, and who has it on lease.
Life(made, gone) ==
  [r \in Resources |-> IF r \in gone THEN "gone"
                       ELSE IF r \in made THEN "live" ELSE "absent"]

Holder(lease) ==
  [r \in Resources |-> IF \E c \in Callers : lease[c] = r
                       THEN CHOOSE c \in Callers : lease[c] = r ELSE None]

\* The pool lends resources the way ResourceLease says.
Lease == INSTANCE ResourceLease WITH
  life   <- Life(created, destroyed),
  holder <- Holder(leased)

LeaseSpec == Lease!Spec

\* Unless a create() fails or resources are destroyed, both of which the count
\* does not show, each get() comes to an end.
Served ==
  [](resourceCount = Cardinality(created) + Cardinality(Creating)
     /\ destroyed = {})
    => \A c \in Callers :
         call[c] \in {"creating", "waiting"} ~> call[c] = "using"

\* destroyAll() settles once callers stop asking for more.  (While they keep
\* asking, return() passes resources on and "empty" need never be emitted.)
DestroyAllSettles ==
  <>[][\A c \in Callers : ~Get(c)]_poolVars
    => \A d \in Closers : closer[d] = "awaiting" ~> closer[d] = "closed"
-----------------------------------------------------------------------------
(* What the comments of resource_pool.ts promise and the code does not do. *)

\* "If none are available, one will be created" (lines 117-118): whoever waits
\* waits for a resource that somebody holds or that is being made.
WaiterHasSource ==
  waiting # <<>> => Leasing \union Creating # {}

\* destroyAll() calls destroy() "after all resources have been returned"
\* (lines 170-171).
DestroysWhenAllReturned ==
  [][\A d \in Closers :
       closer[d] # "closing" /\ closer'[d] = "closing"
         => \A c \in Callers : call'[c] \notin {"granted", "using"}]_poolVars
=============================================================================
