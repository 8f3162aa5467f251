----------------------------- MODULE PromiseMap -----------------------------
(***************************************************************************)
(* The map from task ids to promises of src/containers/promise_map.ts, in  *)
(* which both result backends keep the results they have heard of and the  *)
(* promises of the callers that wait for one.                              *)
(*                                                                         *)
(* One action is one call, one microtask or one timer callback.  Callers   *)
(* may run between any two microtasks; timers only fire once the queue of  *)
(* microtasks is empty.  The few microtasks it takes an owned promise to   *)
(* follow the one that doResolve() returns are not told apart: both settle *)
(* with the microtask that calls setStatus().                              *)
(***************************************************************************)
EXTENDS Naturals, Sequences, FiniteSets, Functions

CONSTANTS Keys,         \* keys of the map
          Promises,     \* bounds how many promises are pending or in the map
          Timers,       \* bounds how many timers are armed
          timed,        \* whether the constructor was given a timeout
          WithClear,    \* whether clear() is called
          maxFollows,   \* bounds how many values given to resolve() are pending
          None

ASSUME PromiseMapAssumption ==
  /\ {timed, WithClear} \subseteq BOOLEAN
  /\ maxFollows \in Nat
  /\ None \notin Keys \union Promises \union Timers

VARIABLES
  promises,  \* promises[k]: the promise owned for k
  data,      \* data[k]: MapData; functions names the promise they settle
  state,     \* state[p]: of the promise itself, whoever still refers to it
  follows,   \* doResolve() calls that await a promise
  jobs,      \* microtasks that will continue a doResolve(), in order
  armed,     \* armed[t]: the key whose doDelete() timer t will call
  stale,     \* history: keys whose status a late setStatus() has set
  dropped    \* history: armed timers whose entry clear() has dropped

mapVars == <<promises, data, state, follows, jobs, armed, stale, dropped>>

Settled == {"fulfilled", "rejected"}
NoEntry == [functions |-> None, status |-> "absent", timer |-> None]

Entries == [functions : Promises \union {None},
            status : {"pending"} \union Settled,
            timer : Timers \union {None}]

TypeOK ==
  /\ promises \in [Keys -> Promises \union {None}]
  /\ data \in [Keys -> Entries \union {NoEntry}]
  /\ state \in [Promises -> {"unused", "open", "committed"} \union Settled]
  /\ follows \in SUBSET [key : Keys, promise : Promises]
  /\ jobs \in Seq([key : Keys, promise : Promises, status : Settled])
  /\ armed \in [Timers -> Keys \union {None}]
  /\ stale \in SUBSET Keys
  /\ dropped \in SUBSET Timers

Init ==
  /\ promises = [k \in Keys |-> None]
  /\ data = [k \in Keys |-> NoEntry]
  /\ state = [p \in Promises |-> "unused"]
  /\ follows = {}
  /\ jobs = <<>>
  /\ armed = [t \in Timers |-> None]
  /\ stale = {}
  /\ dropped = {}

\* Promises that may stand for a new one: settled and not in the map.
Fresh == {p \in Promises : /\ state[p] \in {"unused"} \union Settled
                           /\ \A k \in Keys : promises[k] # p}
-----------------------------------------------------------------------------
(* setTimeout(), the end of settle() *)

FreeTimers == {t \in Timers : armed[t] = None}

\* The ways to give each key of K a timer: one that is not armed, or that of an
\* entry of K, which is cleared first.
NewTimers(K) ==
  LET free == (FreeTimers \union {data[k].timer : k \in K}) \ {None}
  IN  IF timed THEN Injection(K, free) ELSE [K -> {None}]

\* Mutant: the timer that an earlier resolve() or reject() set is not cleared.
Settle_Rearms(K, status) == \E timer \in NewTimers(K) :
  /\ data' = [k \in Keys |->
                IF k \in K THEN [functions |-> None, status |-> status,
                                 timer |-> timer[k]]
                           ELSE data[k]]
  /\ stale' = stale \ K
  /\ armed' = [t \in Timers |->
                 IF t \in Range(timer) THEN CHOOSE k \in K : timer[k] = t
                 ELSE armed[t]]

\* removeFunctions(), the new status and a new timer in place of the old one,
\* for every key of K.
Settle(K, status) == \E timer \in NewTimers(K) :
  /\ data' = [k \in Keys |->
                IF k \in K THEN [functions |-> None, status |-> status,
                                 timer |-> timer[k]]
                           ELSE data[k]]
  /\ stale' = stale \ K
  /\ armed' = [t \in Timers |->
                 IF t \in Range(timer) THEN CHOOSE k \in K : timer[k] = t
                 ELSE IF \E k \in K : data[k].timer = t THEN None
                 ELSE armed[t]]

\* The promise that settles: the pending one of a get(), or else a new one.
Target(k, p) ==
  /\ IF data[k].functions # None THEN p = data[k].functions ELSE p \in Fresh
  /\ promises' = [promises EXCEPT ![k] = p]
-----------------------------------------------------------------------------
\* Mutant: the status changes before the promise settles.
ResolveValue_StatusEarly(k) ==
  \E p \in Promises :
    /\ Target(k, p)
    /\ Settle({k}, "fulfilled")
    /\ state' = [state EXCEPT ![p] = "committed"]
    /\ jobs' = Append(jobs, [key |-> k, promise |-> p, status |-> "fulfilled"])
    /\ UNCHANGED <<follows, dropped>>

\* resolve() with a plain value: doResolve() continues one microtask later.
ResolveValue(k) ==
  \E p \in Promises :
    /\ Target(k, p)
    /\ Settle({k}, "pending")
    /\ state' = [state EXCEPT ![p] = "committed"]
    /\ jobs' = Append(jobs, [key |-> k, promise |-> p, status |-> "fulfilled"])
    /\ UNCHANGED <<follows, dropped>>

\* resolve() with a promise, which may settle much later or never.
ResolvePromise(k) ==
  \E p \in Promises :
    /\ Cardinality(follows) < maxFollows
    /\ Target(k, p)
    /\ Settle({k}, "pending")
    /\ state' = [state EXCEPT ![p] = "committed"]
    /\ follows' = follows \union {[key |-> k, promise |-> p]}
    /\ UNCHANGED <<jobs, dropped>>

Reject(k) ==
  \E p \in Promises :
    /\ Target(k, p)
    /\ Settle({k}, "rejected")
    /\ state' = [state EXCEPT ![p] = "rejected"]
    /\ UNCHANGED <<follows, jobs, dropped>>

\* Mutant: break where the loop should continue.
Rejectable_FirstOnly ==
  LET K == {k \in Keys : data[k].status = "pending" /\ data[k].functions # None}
  IN  IF K = {} THEN {} ELSE {CHOOSE k \in K : TRUE}

\* The keys rejectAll() does not skip.
Rejectable ==
  {k \in Keys : data[k].status = "pending" /\ data[k].functions # None}

RejectAll ==
  /\ Rejectable # {}
  /\ Settle(Rejectable, "rejected")
  /\ state' = [p \in Promises |->
                 IF \E k \in Rejectable : data[k].functions = p THEN "rejected"
                                                                ELSE state[p]]
  /\ UNCHANGED <<promises, follows, jobs, dropped>>

\* Mutant: the timeout of a promise runs from the get() that makes it.
Get_Arms(k) ==
  /\ promises[k] = None
  /\ \E p \in Fresh, t \in FreeTimers :
       /\ state' = [state EXCEPT ![p] = "open"]
       /\ promises' = [promises EXCEPT ![k] = p]
       /\ data' = [data EXCEPT ![k] = [functions |-> p, status |-> "pending",
                                       timer |-> t]]
       /\ armed' = [armed EXCEPT ![t] = k]
  /\ stale' = stale \ {k}
  /\ UNCHANGED <<follows, jobs, dropped>>

\* get() of a key that is not in the map; any other get() changes nothing.
Get(k) ==
  /\ promises[k] = None
  /\ \E p \in Fresh :
       /\ state' = [state EXCEPT ![p] = "open"]
       /\ promises' = [promises EXCEPT ![k] = p]
       /\ data' = [data EXCEPT ![k] = [functions |-> p, status |-> "pending",
                                       timer |-> None]]
  /\ stale' = stale \ {k}
  /\ UNCHANGED <<follows, jobs, armed, dropped>>

\* Mutant: empties the entry but forgets the timer in it.
DoDelete_KeepsTimer(k, fired) ==
  /\ state' = [p \in Promises |->
                 IF p = data[k].functions THEN "rejected" ELSE state[p]]
  /\ stale' = stale \ {k}
  /\ armed' = [t \in Timers |->
                 IF t \in fired THEN None ELSE armed[t]]
  /\ data' = [data EXCEPT ![k].functions = None, ![k].status = "absent"]
  /\ promises' = [promises EXCEPT ![k] = None]

\* Mutant: the promise of whoever waits for the key is not rejected.
DoDelete_Silently(k, fired) ==
  /\ stale' = stale \ {k}
  /\ armed' = [t \in Timers |->
                 IF t \in fired \union {data[k].timer} THEN None ELSE armed[t]]
  /\ data' = [data EXCEPT ![k] = NoEntry]
  /\ promises' = [promises EXCEPT ![k] = None]
  /\ UNCHANGED state

DoDelete(k, fired) ==
  /\ state' = [p \in Promises |->
                 IF p = data[k].functions THEN "rejected" ELSE state[p]]
  /\ stale' = stale \ {k}
  /\ armed' = [t \in Timers |->
                 IF t \in fired \union {data[k].timer} THEN None ELSE armed[t]]
  /\ data' = [data EXCEPT ![k] = NoEntry]
  /\ promises' = [promises EXCEPT ![k] = None]

Delete(k) ==
  /\ data[k] # NoEntry
  /\ DoDelete(k, {})
  /\ UNCHANGED <<follows, jobs, dropped>>

\* clear() leaves every timer armed.
Clear ==
  /\ WithClear
  /\ state' = [p \in Promises |->
                 IF \E k \in Keys : data[k].functions = p THEN "rejected"
                                                          ELSE state[p]]
  /\ promises' = [k \in Keys |-> None]
  /\ data' = [k \in Keys |-> NoEntry]
  /\ stale' = {}
  /\ dropped' = {t \in Timers : armed[t] # None}
  /\ UNCHANGED <<follows, jobs, armed>>
-----------------------------------------------------------------------------
\* The promise given to resolve() settles.
SettleFollowed ==
  \E f \in follows, status \in Settled :
    /\ follows' = follows \ {f}
    /\ jobs' = Append(jobs, [key |-> f.key, promise |-> f.promise,
                             status |-> status])
    /\ UNCHANGED <<promises, data, state, armed, stale, dropped>>

\* The rest of doResolve(): setStatus(), which brings an entry back that was
\* deleted meanwhile, and the promise it returned settles.
RunJob ==
  LET job == Head(jobs) IN
  /\ jobs # <<>>
  /\ jobs' = Tail(jobs)
  /\ state' = [state EXCEPT ![job.promise] = job.status]
  /\ data' = [data EXCEPT ![job.key].status = job.status]
  /\ stale' = IF promises[job.key] = job.promise THEN stale
                                                 ELSE stale \union {job.key}
  /\ UNCHANGED <<promises, follows, armed, dropped>>

\* Mutant: a timer that fires does nothing for a key that is settled.
FireTimer_PendingOnly(t) ==
  LET k == armed[t] IN
  /\ k # None
  /\ jobs = <<>>
  /\ IF data[k].status = "pending"
     THEN DoDelete(k, {t})
     ELSE /\ armed' = [armed EXCEPT ![t] = None]
          /\ UNCHANGED <<state, data, promises, stale>>
  /\ dropped' = dropped \ {t}
  /\ UNCHANGED <<follows, jobs>>

\* doDelete(key, new Error("timed out")), whatever the key now stands for.
FireTimer(t) ==
  /\ armed[t] # None
  /\ jobs = <<>>
  /\ DoDelete(armed[t], {t})
  /\ dropped' = dropped \ {t}
  /\ UNCHANGED <<follows, jobs>>

Next ==
  \/ \E k \in Keys : \/ ResolveValue(k) \/ ResolvePromise(k) \/ Reject(k)
                     \/ Get(k) \/ Delete(k)
  \/ RejectAll \/ Clear \/ SettleFollowed \/ RunJob
  \/ \E t \in Timers : FireTimer(t)

Spec == Init /\ [][Next]_mapVars

(* The event loop runs every microtask, does not go on queueing them for   *)
(* ever, and calls a timer that is due when none is left.                  *)
FairSpec ==
  /\ Spec
  /\ WF_mapVars(RunJob)
  /\ []<>(jobs = <<>>)
  /\ \A t \in Timers : SF_mapVars(FireTimer(t))
-----------------------------------------------------------------------------
\* The two Maps agree, whatever resolve(), delete(), clear() and late
\* microtasks did to a key before: a caller's pending promise can be found and
\* settled; what has a promise has data, with functions of that promise and
\* only of a pending one; and an entry that a late setStatus() brought back has
\* neither functions nor a timer for get() to overwrite.
MapsAgree ==
  /\ \A p \in Promises :
       state[p] = "open" => \E k \in Keys : /\ promises[k] = p
                                           /\ data[k].functions = p
  /\ \A k \in Keys :
       /\ promises[k] # None => data[k] # NoEntry
       /\ data[k].functions # None => /\ data[k].functions = promises[k]
                                      /\ state[promises[k]] = "open"
       /\ promises[k] = None => data[k].timer = None

\* Every entry's timer is armed for its key, and but for those that clear()
\* leaves behind, no timer survives the entry it was set for to delete a later
\* one.
TimersMatch ==
  /\ \A k \in Keys : data[k].timer # None => armed[data[k].timer] = k
  /\ \A t \in Timers \ dropped : armed[t] # None => data[armed[t]].timer = t

\* The map never calls a promise pending that has settled, and the status of a
\* settled one is wrong in one case only: resolve()'s setStatus() ran after the
\* key had been deleted, rejected or resolved again, and nobody has touched the
\* key since.
StatusTruthfulUnlessStale ==
  /\ \A k \in Keys : promises[k] # None /\ state[promises[k]] \in Settled
                      => data[k].status \in Settled
  /\ \A k \in Keys \ stale : data[k].status \in Settled
       => promises[k] # None /\ state[promises[k]] = data[k].status

\* And that is the only way in which rejectAll() leaves anyone waiting.
RejectAllCompleteUnlessStale ==
  [][RejectAll => \A k \in Keys \ stale :
       promises[k] # None => state'[promises[k]] # "open"]_mapVars

\* The timer of an entry cuts short nothing but a promise that follows another.
OwnTimerDeletesSettled ==
  jobs = <<>> => \A k \in Keys :
    data[k].timer # None => \/ state[promises[k]] \in Settled
                           \/ [key |-> k, promise |-> promises[k]] \in follows

\* With a timeout, no settled promise stays in the map for ever.
Forgotten ==
  \A p \in Promises :
    (\E k \in Keys : promises[k] = p) /\ state[p] \in Settled
      ~> \A k \in Keys : promises[k] # p
=============================================================================
