--------------------------- MODULE PromiseMapProofs ---------------------------
(***************************************************************************)
(* Proofs about PromiseMap, for any sets of keys, promises and timers, with *)
(* or without a timeout: its type invariant, the invariants that tie its    *)
(* Maps, timers and statuses together, and what rejectAll() leaves waiting. *)
(***************************************************************************)
EXTENDS PromiseMap, TLAPS

(* The inductive invariant.  To what the runs check it adds what the code  *)
(* relies on without saying so: no promise is owned by two keys, a promise *)
(* that follows another is settled by one microtask only and is in the map *)
(* under its own key or not at all, and an entry's timer is never armed    *)
(* for a promise nothing will settle.                                      *)

\* The calls of doResolve() that have not set a status yet.
Pending == follows \union {[key |-> jobs[i].key, promise |-> jobs[i].promise] :
                             i \in 1..Len(jobs)}

OneKeyEach ==
  \A j, k \in Keys : promises[j] = promises[k] /\ promises[j] # None => j = k

PendingOwns ==
  \A f \in Pending : /\ state[f.promise] = "committed"
                     /\ \A k \in Keys : promises[k] = f.promise => k = f.key

PendingApart ==
  /\ \A f, g \in follows : f.promise = g.promise => f = g
  /\ \A f \in follows, i \in 1..Len(jobs) : f.promise # jobs[i].promise
  /\ \A i, j \in 1..Len(jobs) : jobs[i].promise = jobs[j].promise => i = j

TimedSettles ==
  \A k \in Keys : data[k].timer # None =>
    /\ promises[k] # None
    /\ \/ state[promises[k]] \in Settled
       \/ [key |-> k, promise |-> promises[k]] \in Pending

IInv ==
  /\ TypeOK
  /\ OneKeyEach
  /\ PendingOwns
  /\ PendingApart
  /\ TimedSettles
  /\ MapsAgree
  /\ TimersMatch
  /\ StatusTruthfulUnlessStale

(* An empty map satisfies the invariant. *)
LEMMA InitInv == Init => IInv
<1> SUFFICES ASSUME Init PROVE IInv
  OBVIOUS
<1> USE PromiseMapAssumption DEF Init, NoEntry
<1>1. Pending = {} /\ 1..Len(jobs) = {}
  BY DEF Pending
<1>2. TypeOK
  BY DEF TypeOK
<1>3. OneKeyEach /\ PendingOwns /\ PendingApart /\ TimedSettles
  BY <1>1 DEF OneKeyEach, PendingOwns, PendingApart, TimedSettles
<1>4. MapsAgree /\ TimersMatch /\ StatusTruthfulUnlessStale
  BY DEF MapsAgree, TimersMatch, StatusTruthfulUnlessStale, Settled
<1> QED BY <1>2, <1>3, <1>4 DEF IInv
-----------------------------------------------------------------------------
(* What an entry of the map may look like. *)
LEMMA EntryFacts ==
  ASSUME NEW e \in Entries \union {NoEntry}
  PROVE  /\ e.functions \in Promises \union {None}
         /\ e.status \in {"pending", "absent"} \union Settled
         /\ e.timer \in Timers \union {None}
         /\ e.status = "absent" <=> e = NoEntry
         /\ e = NoEntry => e.functions = None /\ e.timer = None
  BY DEF Entries, NoEntry, Settled

(* settle() gives every key of K the status, no functions and a timer that *)
(* is armed for it, and leaves no other timer of theirs armed.             *)
LEMMA SettleFacts ==
  ASSUME TypeOK, NEW K \in SUBSET Keys,
         NEW status \in {"pending"} \union Settled, Settle(K, status)
  PROVE  /\ data' \in [Keys -> Entries \union {NoEntry}]
         /\ armed' \in [Timers -> Keys \union {None}]
         /\ stale' = stale \ K /\ stale' \in SUBSET Keys
         /\ \A k \in K : /\ data'[k].functions = None
                         /\ data'[k].status = status
                         /\ data'[k] # NoEntry
         /\ \A k \in Keys \ K : data'[k] = data[k]
         /\ TimersMatch /\ dropped' = dropped => TimersMatch'
<1> USE PromiseMapAssumption DEF TypeOK
<1>1. PICK timer \in NewTimers(K) :
         /\ data' = [k \in Keys |->
                       IF k \in K THEN [functions |-> None, status |-> status,
                                        timer |-> timer[k]]
                                  ELSE data[k]]
         /\ stale' = stale \ K
         /\ armed' = [t \in Timers |->
                        IF t \in Range(timer) THEN CHOOSE k \in K : timer[k] = t
                        ELSE IF \E k \in K : data[k].timer = t THEN None
                        ELSE armed[t]]
  BY DEF Settle
<1>2. /\ timer \in [K -> Timers \union {None}]
      /\ \A k \in K : timer[k] # None =>
           \/ armed[timer[k]] = None
           \/ \E j \in K : timer[k] = data[j].timer
      /\ \A j, k \in K : timer[j] = timer[k] /\ timer[j] # None => j = k
  <2>1. CASE timed
    <3>1. \A k \in K : data[k].timer \in Timers \union {None}
      BY EntryFacts
    <3> QED BY <1>1, <2>1, <3>1
            DEF NewTimers, Injection, IsInjective, FreeTimers
  <2>2. CASE ~timed
    BY <1>1, <2>2 DEF NewTimers
  <2> QED BY <2>1, <2>2
<1>3. Range(timer) = {timer[k] : k \in K}
  BY <1>2 DEF Range
<1>4. \A k \in K : timer[k] # None => armed'[timer[k]] = k
  <2> TAKE k \in K
  <2> HAVE timer[k] # None
  <2>1. timer[k] \in Timers /\ timer[k] \in Range(timer)
    BY <1>2, <1>3
  <2>2. (CHOOSE j \in K : timer[j] = timer[k]) = k
    BY <1>2
  <2> QED BY <1>1, <2>1, <2>2
<1>5. \A t \in Timers \ Range(timer) :
         armed'[t] = IF \E k \in K : data[k].timer = t THEN None ELSE armed[t]
  BY <1>1
<1>6. \A t \in Timers : t \in Range(timer) =>
         \E k \in K : timer[k] = t /\ armed'[t] = k
  BY <1>2, <1>3, <1>4
<1>7. data' \in [Keys -> Entries \union {NoEntry}]
  <2>1. \A k \in K : [functions |-> None, status |-> status,
                      timer |-> timer[k]] \in Entries
    BY <1>2 DEF Entries
  <2> QED BY <1>1, <2>1
<1>8. armed' \in [Timers -> Keys \union {None}]
  <2>1. \A t \in Timers : armed'[t] \in Keys \union {None}
    BY <1>5, <1>6
  <2> QED BY <1>1, <2>1
<1>9. \A k \in K : /\ data'[k].functions = None
                   /\ data'[k].status = status
                   /\ data'[k].timer = timer[k]
                   /\ data'[k] # NoEntry
  BY <1>1 DEF NoEntry, Settled
<1>10. \A k \in Keys \ K : data'[k] = data[k]
  BY <1>1
<1>11. ASSUME TimersMatch, dropped' = dropped
       PROVE  TimersMatch'
  <2>1. ASSUME NEW k \in Keys, data'[k].timer # None
        PROVE  armed'[data'[k].timer] = k
    <3>1. CASE k \in K
      BY <1>4, <1>9, <2>1, <3>1
    <3>2. CASE k \notin K
      <4> DEFINE t == data[k].timer
      <4>1. t \in Timers /\ armed[t] = k /\ data'[k].timer = t
        BY <1>10, <1>11, <2>1, <3>2, EntryFacts DEF TimersMatch
      <4>2. \A j \in K : data[j].timer # t
        BY <1>11, <3>2, <4>1 DEF TimersMatch
      <4>3. t \notin Range(timer)
        BY <1>2, <1>3, <4>1, <4>2
      <4> QED BY <1>5, <4>1, <4>2, <4>3
    <3> QED BY <3>1, <3>2
  <2>2. ASSUME NEW t \in Timers \ dropped', armed'[t] # None
        PROVE  data'[armed'[t]].timer = t
    <3>1. CASE t \in Range(timer)
      BY <1>6, <1>9, <3>1
    <3>2. CASE t \notin Range(timer)
      <4>1. armed'[t] = armed[t] /\ \A k \in K : data[k].timer # t
        BY <1>5, <2>2, <3>2
      <4>2. armed[t] \in Keys /\ data[armed[t]].timer = t
        BY <1>11, <2>2, <4>1 DEF TimersMatch
      <4> QED BY <1>10, <4>1, <4>2
    <3> QED BY <3>1, <3>2
  <2> QED BY <2>1, <2>2 DEF TimersMatch
<1> QED BY <1>1, <1>7, <1>8, <1>9, <1>10, <1>11
-----------------------------------------------------------------------------
(* What the pending calls of doResolve() are. *)
LEMMA PendingFacts ==
  ASSUME TypeOK
  PROVE  /\ Pending \subseteq [key : Keys, promise : Promises]
         /\ follows \subseteq Pending
         /\ \A i \in 1..Len(jobs) :
              /\ jobs[i] \in [key : Keys, promise : Promises, status : Settled]
              /\ [key |-> jobs[i].key, promise |-> jobs[i].promise] \in Pending
<1>1. \A i \in 1..Len(jobs) :
        jobs[i] \in [key : Keys, promise : Promises, status : Settled]
  <2> DEFINE J == [key : Keys, promise : Promises, status : Settled]
  <2>1. jobs \in Seq(J)
    BY DEF TypeOK
  <2> HIDE DEF J
  <2>2. \A i \in 1..Len(jobs) : jobs[i] \in J
    BY <2>1
  <2> QED BY <2>2 DEF J
<1>2. \A i \in 1..Len(jobs) : [key |-> jobs[i].key, promise |-> jobs[i].promise]
                               \in [key : Keys, promise : Promises]
  BY <1>1
<1>3. follows \subseteq [key : Keys, promise : Promises]
  BY DEF TypeOK
<1> QED BY <1>1, <1>2, <1>3 DEF Pending

(* The promise that resolve() or reject() settles follows no other, and    *)
(* only k owns it from then on.                                            *)
LEMMA TargetFacts ==
  ASSUME IInv, NEW k \in Keys, NEW p \in Promises, Target(k, p)
  PROVE  /\ promises' \in [Keys -> Promises \union {None}]
         /\ promises'[k] = p
         /\ \A j \in Keys \ {k} : promises'[j] = promises[j] /\ promises[j] # p
         /\ state[p] # "committed"
         /\ data[k].functions # None => p = data[k].functions
<1> USE PromiseMapAssumption DEF IInv
<1>1. promises' = [promises EXCEPT ![k] = p]
  BY DEF Target
<1>2. CASE data[k].functions # None
  <2>1. p = data[k].functions /\ p = promises[k] /\ state[p] = "open"
    BY <1>2 DEF Target, MapsAgree
  <2> QED BY <1>1, <2>1 DEF TypeOK, OneKeyEach
<1>3. CASE data[k].functions = None
  <2>1. p \in Fresh
    BY <1>3 DEF Target
  <2> QED BY <1>1, <1>3, <2>1 DEF TypeOK, Fresh, Settled
<1> QED BY <1>2, <1>3

(* Whatever a promise is resolved with, or rejected: all of the invariant  *)
(* but what concerns the doResolve() calls themselves.                     *)
LEMMA ReplaceInv ==
  ASSUME IInv, NEW k \in Keys, NEW p \in Promises, NEW status, NEW st,
         Target(k, p), Settle({k}, status), dropped' = dropped,
         state' = [state EXCEPT ![p] = st],
         \/ /\ st = "committed" /\ status = "pending"
            /\ Pending' = Pending \union {[key |-> k, promise |-> p]}
         \/ /\ st = "rejected" /\ status = "rejected"
            /\ Pending' = Pending
  PROVE  /\ OneKeyEach' /\ PendingOwns' /\ TimedSettles'
         /\ MapsAgree' /\ TimersMatch' /\ StatusTruthfulUnlessStale'
<1> USE PromiseMapAssumption DEF IInv
<1>1. /\ promises' \in [Keys -> Promises \union {None}]
      /\ promises'[k] = p
      /\ \A j \in Keys \ {k} : promises'[j] = promises[j] /\ promises[j] # p
      /\ state[p] # "committed"
      /\ data[k].functions # None => p = data[k].functions
  BY TargetFacts
<1>2. status \in {"pending"} \union Settled
  BY DEF Settled
<1>3. /\ stale' = stale \ {k}
      /\ data'[k].functions = None
      /\ data'[k].status = status
      /\ data'[k] # NoEntry
      /\ \A j \in Keys \ {k} : data'[j] = data[j]
      /\ TimersMatch'
  <2> HIDE DEF IInv
  <2>1. TypeOK /\ TimersMatch
    BY DEF IInv
  <2> QED BY SettleFacts, <1>2, <2>1
<1>4. /\ state'[p] = st
      /\ \A q \in Promises \ {p} : state'[q] = state[q]
  BY DEF TypeOK
<1>5. Pending \subseteq [key : Keys, promise : Promises]
  BY PendingFacts
<1>6. OneKeyEach'
  BY <1>1 DEF OneKeyEach
<1>7. PendingOwns'
  <2>1. ASSUME NEW f \in Pending
        PROVE  /\ state'[f.promise] = "committed"
               /\ \A j \in Keys : promises'[j] = f.promise => j = f.key
    <3>1. f.promise \in Promises /\ f.promise # p /\ state[f.promise] = "committed"
      BY <1>1, <1>5, <2>1 DEF PendingOwns
    <3> QED BY <1>1, <1>4, <3>1 DEF PendingOwns
  <2>2. st = "committed" =>
          /\ state'[p] = "committed"
          /\ \A j \in Keys : promises'[j] = p => j = k
    BY <1>1, <1>4
  <2> QED BY <2>1, <2>2 DEF PendingOwns
<1>8. TimedSettles'
  <2>1. ASSUME NEW j \in Keys, data'[j].timer # None
        PROVE  /\ promises'[j] # None
               /\ \/ state'[promises'[j]] \in Settled
                  \/ [key |-> j, promise |-> promises'[j]] \in Pending'
    <3>1. CASE j = k
      BY <1>1, <1>4, <3>1 DEF Settled
    <3>2. CASE j # k
      BY <1>1, <1>3, <1>4, <2>1, <3>2 DEF TimedSettles, TypeOK
    <3> QED BY <3>1, <3>2
  <2> QED BY <2>1 DEF TimedSettles
<1>9. MapsAgree'
  <2>1. ASSUME NEW q \in Promises, state'[q] = "open"
        PROVE  \E j \in Keys : promises'[j] = q /\ data'[j].functions = q
    <3>1. q # p /\ state[q] = "open"
      BY <1>4, <2>1
    <3>2. PICK j \in Keys : promises[j] = q /\ data[j].functions = q
      BY <3>1 DEF MapsAgree
    <3>3. j # k
      BY <1>1, <3>1, <3>2
    <3> QED BY <1>1, <1>3, <3>2, <3>3
  <2>2. ASSUME NEW j \in Keys
        PROVE  /\ promises'[j] # None => data'[j] # NoEntry
               /\ data'[j].functions # None =>
                    /\ data'[j].functions = promises'[j]
                    /\ state'[promises'[j]] = "open"
               /\ promises'[j] = None => data'[j].timer = None
    <3>1. CASE j = k
      BY <1>1, <1>3, <3>1
    <3>2. CASE j # k
      <4>1. promises'[j] = promises[j] /\ data'[j] = data[j] /\ promises[j] # p
        BY <1>1, <1>3, <3>2
      <4>2. promises[j] \in Promises => state'[promises[j]] = state[promises[j]]
        BY <1>4, <4>1
      <4>3. promises[j] \in Promises \union {None}
            /\ data[j].functions \in Promises \union {None}
        BY EntryFacts DEF TypeOK
      <4> QED BY <4>1, <4>2, <4>3 DEF MapsAgree
    <3> QED BY <3>1, <3>2
  <2> QED BY <2>1, <2>2 DEF MapsAgree
<1>10. StatusTruthfulUnlessStale'
  <2>1. ASSUME NEW j \in Keys
        PROVE  /\ promises'[j] # None /\ state'[promises'[j]] \in Settled
                    => data'[j].status \in Settled
               /\ j \notin stale' /\ data'[j].status \in Settled
                    => /\ promises'[j] # None
                       /\ state'[promises'[j]] = data'[j].status
    <3>1. CASE j = k
      BY <1>1, <1>3, <1>4, <3>1 DEF Settled
    <3>2. CASE j # k
      <4>1. promises'[j] = promises[j] /\ data'[j] = data[j] /\ promises[j] # p
        BY <1>1, <1>3, <3>2
      <4>2. promises[j] \in Promises => state'[promises[j]] = state[promises[j]]
        BY <1>4, <4>1
      <4>3. promises[j] \in Promises \union {None} /\ (j \in stale' <=> j \in stale)
        BY <1>3, <3>2 DEF TypeOK
      <4> QED BY <4>1, <4>2, <4>3 DEF StatusTruthfulUnlessStale
    <3> QED BY <3>1, <3>2
  <2> QED BY <2>1 DEF StatusTruthfulUnlessStale
<1> QED BY <1>3, <1>6, <1>7, <1>8, <1>9, <1>10

(* A doResolve() call that is queued comes last among the microtasks. *)
LEMMA JobAppended ==
  ASSUME TypeOK, NEW k \in Keys, NEW p \in Promises, NEW status \in Settled,
         jobs' = Append(jobs, [key |-> k, promise |-> p, status |-> status])
  PROVE  /\ jobs' \in Seq([key : Keys, promise : Promises, status : Settled])
         /\ Len(jobs) \in Nat /\ Len(jobs') = Len(jobs) + 1
         /\ \A i \in 1..Len(jobs) : jobs'[i] = jobs[i]
         /\ jobs'[Len(jobs) + 1].key = k
         /\ jobs'[Len(jobs) + 1].promise = p
<1> DEFINE J == [key : Keys, promise : Promises, status : Settled]
           job == [key |-> k, promise |-> p, status |-> status]
<1>1. jobs \in Seq(J) /\ job \in J
  BY DEF TypeOK
<1>2. job.key = k /\ job.promise = p
  OBVIOUS
<1> HIDE DEF J, job
<1>3. /\ Append(jobs, job) \in Seq(J)
      /\ Len(jobs) \in Nat /\ Len(Append(jobs, job)) = Len(jobs) + 1
      /\ \A i \in 1..Len(jobs) : Append(jobs, job)[i] = jobs[i]
      /\ Append(jobs, job)[Len(jobs) + 1] = job
  BY <1>1
<1>4. jobs' = Append(jobs, job)
  BY DEF job
<1> QED BY <1>2, <1>3, <1>4 DEF J

(* Type correctness is the same for every call that settles keys.         *)
LEMMA SettleTypeOK ==
  ASSUME TypeOK, NEW K \in SUBSET Keys,
         NEW status \in {"pending"} \union Settled, Settle(K, status),
         promises' \in [Keys -> Promises \union {None}],
         state' \in [Promises -> {"unused", "open", "committed"} \union Settled],
         follows' \in SUBSET [key : Keys, promise : Promises],
         jobs' \in Seq([key : Keys, promise : Promises, status : Settled]),
         dropped' = dropped
  PROVE  TypeOK'
<1>1. /\ data' \in [Keys -> Entries \union {NoEntry}]
      /\ armed' \in [Timers -> Keys \union {None}]
      /\ stale' \in SUBSET Keys
  BY SettleFacts
<1> QED BY <1>1 DEF TypeOK

(* resolve() with a value preserves the invariant. *)
LEMMA ResolveValueInv ==
  ASSUME IInv, NEW k \in Keys, ResolveValue(k)
  PROVE  IInv'
<1>1. PICK p \in Promises :
        /\ Target(k, p)
        /\ Settle({k}, "pending")
        /\ state' = [state EXCEPT ![p] = "committed"]
        /\ jobs' = Append(jobs, [key |-> k, promise |-> p,
                                 status |-> "fulfilled"])
        /\ follows' = follows /\ dropped' = dropped
  BY DEF ResolveValue
<1>2. TypeOK
  BY DEF IInv
<1>3. /\ promises' \in [Keys -> Promises \union {None}]
      /\ state[p] # "committed"
  BY <1>1, TargetFacts
<1>4. /\ jobs' \in Seq([key : Keys, promise : Promises, status : Settled])
      /\ Len(jobs) \in Nat /\ Len(jobs') = Len(jobs) + 1
      /\ \A i \in 1..Len(jobs) : jobs'[i] = jobs[i]
      /\ jobs'[Len(jobs) + 1].key = k
      /\ jobs'[Len(jobs) + 1].promise = p
  <2>1. "fulfilled" \in Settled
    BY DEF Settled
  <2> QED BY <1>1, <1>2, <2>1, JobAppended
<1>5. 1..Len(jobs') = 1..Len(jobs) \union {Len(jobs) + 1}
  BY <1>4
<1>6. Pending' = Pending \union {[key |-> k, promise |-> p]}
  BY <1>1, <1>4, <1>5 DEF Pending
<1>7. \A f \in Pending : f.promise # p
  BY <1>3 DEF IInv, PendingOwns
<1>8. /\ \A f \in follows : f.promise # p
      /\ \A i \in 1..Len(jobs) : jobs[i].promise # p
  BY <1>2, <1>7, PendingFacts
<1>9. PendingApart'
  BY <1>1, <1>4, <1>5, <1>8 DEF IInv, PendingApart
<1>10. TypeOK'
  <2>1. state' \in [Promises -> {"unused", "open", "committed"} \union Settled]
    BY <1>1, <1>2 DEF TypeOK
  <2>2. follows' \in SUBSET [key : Keys, promise : Promises]
    BY <1>1, <1>2 DEF TypeOK
  <2> QED BY <1>1, <1>2, <1>3, <1>4, <2>1, <2>2, SettleTypeOK
<1>11. /\ OneKeyEach' /\ PendingOwns' /\ TimedSettles'
       /\ MapsAgree' /\ TimersMatch' /\ StatusTruthfulUnlessStale'
  BY <1>1, <1>6, ReplaceInv
<1> QED BY <1>9, <1>10, <1>11 DEF IInv

(* So does resolve() with a promise. *)
LEMMA ResolvePromiseInv ==
  ASSUME IInv, NEW k \in Keys, ResolvePromise(k)
  PROVE  IInv'
<1>1. PICK p \in Promises :
        /\ Target(k, p)
        /\ Settle({k}, "pending")
        /\ state' = [state EXCEPT ![p] = "committed"]
        /\ follows' = follows \union {[key |-> k, promise |-> p]}
        /\ jobs' = jobs /\ dropped' = dropped
  BY DEF ResolvePromise
<1>2. TypeOK
  BY DEF IInv
<1>3. /\ promises' \in [Keys -> Promises \union {None}]
      /\ state[p] # "committed"
  BY <1>1, TargetFacts
<1>4. Pending' = Pending \union {[key |-> k, promise |-> p]}
  BY <1>1 DEF Pending
<1>5. \A f \in Pending : f.promise # p
  BY <1>3 DEF IInv, PendingOwns
<1>6. /\ \A f \in follows : f.promise # p
      /\ \A i \in 1..Len(jobs) : jobs[i].promise # p
  BY <1>2, <1>5, PendingFacts
<1>7. PendingApart'
  BY <1>1, <1>6 DEF IInv, PendingApart
<1>8. TypeOK'
  <2>1. state' \in [Promises -> {"unused", "open", "committed"} \union Settled]
    BY <1>1, <1>2 DEF TypeOK
  <2>2. follows' \in SUBSET [key : Keys, promise : Promises]
    BY <1>1, <1>2 DEF TypeOK
  <2>3. jobs' \in Seq([key : Keys, promise : Promises, status : Settled])
    BY <1>1, <1>2 DEF TypeOK
  <2> QED BY <1>1, <1>2, <1>3, <2>1, <2>2, <2>3, SettleTypeOK
<1>9. /\ OneKeyEach' /\ PendingOwns' /\ TimedSettles'
      /\ MapsAgree' /\ TimersMatch' /\ StatusTruthfulUnlessStale'
  BY <1>1, <1>4, ReplaceInv
<1> QED BY <1>7, <1>8, <1>9 DEF IInv

(* And reject(). *)
LEMMA RejectInv ==
  ASSUME IInv, NEW k \in Keys, Reject(k)
  PROVE  IInv'
<1>1. PICK p \in Promises :
        /\ Target(k, p)
        /\ Settle({k}, "rejected")
        /\ state' = [state EXCEPT ![p] = "rejected"]
        /\ follows' = follows /\ jobs' = jobs /\ dropped' = dropped
  BY DEF Reject
<1>2. TypeOK
  BY DEF IInv
<1>3. promises' \in [Keys -> Promises \union {None}]
  BY <1>1, TargetFacts
<1>4. Pending' = Pending /\ PendingApart'
  BY <1>1 DEF Pending, IInv, PendingApart
<1>5. TypeOK'
  <2>1. state' \in [Promises -> {"unused", "open", "committed"} \union Settled]
    BY <1>1, <1>2 DEF TypeOK, Settled
  <2>2. /\ follows' \in SUBSET [key : Keys, promise : Promises]
        /\ jobs' \in Seq([key : Keys, promise : Promises, status : Settled])
    BY <1>1, <1>2 DEF TypeOK
  <2>3. "rejected" \in Settled
    BY DEF Settled
  <2> QED BY <1>1, <1>2, <1>3, <2>1, <2>2, <2>3, SettleTypeOK
<1>6. /\ OneKeyEach' /\ PendingOwns' /\ TimedSettles'
      /\ MapsAgree' /\ TimersMatch' /\ StatusTruthfulUnlessStale'
  BY <1>1, <1>4, ReplaceInv
<1> QED BY <1>4, <1>5, <1>6 DEF IInv

(* rejectAll() settles every waiting promise and its entry together. *)
LEMMA RejectAllInv ==
  ASSUME IInv, RejectAll
  PROVE  IInv'
<1> USE PromiseMapAssumption
<1>1. /\ Settle(Rejectable, "rejected")
      /\ state' = [p \in Promises |->
                     IF \E k \in Rejectable : data[k].functions = p
                     THEN "rejected" ELSE state[p]]
      /\ promises' = promises /\ follows' = follows
      /\ jobs' = jobs /\ dropped' = dropped
  BY DEF RejectAll
<1>2. TypeOK /\ TimersMatch
  BY DEF IInv
<1>3. /\ Rejectable \in SUBSET Keys
      /\ "rejected" \in {"pending"} \union Settled
  BY DEF Rejectable, Settled
<1>4. /\ stale' = stale \ Rejectable
      /\ \A k \in Rejectable : /\ data'[k].functions = None
                               /\ data'[k].status = "rejected"
                               /\ data'[k] # NoEntry
      /\ \A k \in Keys \ Rejectable : data'[k] = data[k]
      /\ TimersMatch'
  BY <1>1, <1>2, <1>3, SettleFacts
<1>5. \A k \in Rejectable : /\ promises[k] \in Promises
                            /\ data[k].functions = promises[k]
                            /\ state[promises[k]] = "open"
                            /\ state'[promises[k]] = "rejected"
  <2> TAKE k \in Rejectable
  <2>1. /\ k \in Keys /\ data[k].functions # None
        /\ data[k].functions = promises[k]
        /\ state[promises[k]] = "open"
    BY <1>3 DEF Rejectable, IInv, MapsAgree
  <2>2. promises[k] \in Promises
    BY <1>2, <2>1 DEF TypeOK
  <2> QED BY <1>1, <2>1, <2>2
<1>6. \A q \in Promises : \/ state'[q] = state[q]
                          \/ state[q] = "open" /\ state'[q] = "rejected"
  BY <1>1, <1>5
<1>7. \A j \in Keys \ Rejectable :
        promises[j] # None => /\ promises[j] \in Promises
                              /\ state'[promises[j]] = state[promises[j]]
  <2> TAKE j \in Keys \ Rejectable
  <2> HAVE promises[j] # None
  <2>1. promises[j] \in Promises
    BY <1>2 DEF TypeOK
  <2>2. \A k \in Rejectable : data[k].functions # promises[j]
    BY <1>3, <1>5 DEF IInv, OneKeyEach
  <2> QED BY <1>1, <2>1, <2>2
<1>8. TypeOK'
  <2>1. state' \in [Promises -> {"unused", "open", "committed"} \union Settled]
    BY <1>1, <1>2 DEF TypeOK, Settled
  <2>2. /\ promises' \in [Keys -> Promises \union {None}]
        /\ follows' \in SUBSET [key : Keys, promise : Promises]
        /\ jobs' \in Seq([key : Keys, promise : Promises, status : Settled])
    BY <1>1, <1>2 DEF TypeOK
  <2> QED BY <1>1, <1>2, <1>3, <2>1, <2>2, SettleTypeOK
<1>9. Pending' = Pending /\ PendingApart' /\ OneKeyEach'
  BY <1>1 DEF Pending, IInv, PendingApart, OneKeyEach
<1>10. PendingOwns'
  <2>1. \A f \in Pending : f.promise \in Promises
    BY <1>2, PendingFacts
  <2> QED BY <1>1, <1>6, <1>9, <2>1 DEF IInv, PendingOwns
<1>11. TimedSettles'
  <2>1. ASSUME NEW k \in Keys, data'[k].timer # None
        PROVE  /\ promises[k] # None
               /\ \/ state'[promises[k]] \in Settled
                  \/ [key |-> k, promise |-> promises[k]] \in Pending
    <3>1. CASE k \in Rejectable
      BY <1>5, <3>1 DEF Settled
    <3>2. CASE k \notin Rejectable
      BY <1>4, <1>7, <2>1, <3>2 DEF IInv, TimedSettles
    <3> QED BY <3>1, <3>2
  <2> QED BY <1>1, <1>9, <2>1 DEF TimedSettles
<1>12. MapsAgree'
  <2>1. ASSUME NEW q \in Promises, state'[q] = "open"
        PROVE  \E j \in Keys : promises[j] = q /\ data'[j].functions = q
    <3>1. PICK j \in Keys : promises[j] = q /\ data[j].functions = q
      BY <1>6, <2>1 DEF IInv, MapsAgree
    <3>2. j \notin Rejectable
      BY <1>5, <2>1, <3>1
    <3> QED BY <1>4, <3>1, <3>2
  <2>2. ASSUME NEW j \in Keys
        PROVE  /\ promises[j] # None => data'[j] # NoEntry
               /\ data'[j].functions # None =>
                    /\ data'[j].functions = promises[j]
                    /\ state'[promises[j]] = "open"
               /\ promises[j] = None => data'[j].timer = None
    <3>1. CASE j \in Rejectable
      BY <1>4, <1>5, <3>1
    <3>2. CASE j \notin Rejectable
      <4>1. data[j].functions \in Promises \union {None}
        BY <1>2, EntryFacts DEF TypeOK
      <4> QED BY <1>4, <1>7, <3>2, <4>1 DEF IInv, MapsAgree
    <3> QED BY <3>1, <3>2
  <2> QED BY <1>1, <2>1, <2>2 DEF MapsAgree
<1>13. StatusTruthfulUnlessStale'
  <2>1. ASSUME NEW j \in Keys
        PROVE  /\ promises[j] # None /\ state'[promises[j]] \in Settled
                    => data'[j].status \in Settled
               /\ j \notin stale' /\ data'[j].status \in Settled
                    => promises[j] # None /\ state'[promises[j]] = data'[j].status
    <3>1. CASE j \in Rejectable
      BY <1>4, <1>5, <3>1 DEF Settled
    <3>2. CASE j \notin Rejectable
      <4>1. data'[j] = data[j] /\ (j \in stale' <=> j \in stale)
        BY <1>4, <3>2
      <4> QED BY <1>7, <3>2, <4>1 DEF IInv, StatusTruthfulUnlessStale
    <3> QED BY <3>1, <3>2
  <2> QED BY <1>1, <2>1 DEF StatusTruthfulUnlessStale
<1> QED BY <1>4, <1>8, <1>9, <1>10, <1>11, <1>12, <1>13 DEF IInv

(* get() makes a promise that waits. *)
LEMMA GetInv ==
  ASSUME IInv, NEW k \in Keys, Get(k)
  PROVE  IInv'
<1> USE PromiseMapAssumption
<1>1. PICK p \in Fresh :
        /\ promises[k] = None
        /\ state' = [state EXCEPT ![p] = "open"]
        /\ promises' = [promises EXCEPT ![k] = p]
        /\ data' = [data EXCEPT ![k] = [functions |-> p, status |-> "pending",
                                        timer |-> None]]
        /\ stale' = stale \ {k}
        /\ follows' = follows /\ jobs' = jobs
        /\ armed' = armed /\ dropped' = dropped
  BY DEF Get
<1>2. TypeOK
  BY DEF IInv
<1>3. /\ p \in Promises /\ p # None /\ state[p] # "committed" /\ state[p] # "open"
      /\ \A j \in Keys : promises[j] # p
  BY DEF Fresh, Settled
<1>4. [functions |-> p, status |-> "pending", timer |-> None] \in Entries \ {NoEntry}
  BY <1>3 DEF Entries, NoEntry
<1>5. /\ promises'[k] = p
      /\ data'[k] = [functions |-> p, status |-> "pending", timer |-> None]
      /\ \A j \in Keys \ {k} : promises'[j] = promises[j] /\ data'[j] = data[j]
      /\ state'[p] = "open"
      /\ \A q \in Promises \ {p} : state'[q] = state[q]
  BY <1>1, <1>2, <1>3 DEF TypeOK
<1>6. \A j \in Keys : promises[j] # None =>
        promises[j] \in Promises /\ state'[promises[j]] = state[promises[j]]
  BY <1>2, <1>3, <1>5 DEF TypeOK
<1>7. data[k].timer = None
  BY <1>1 DEF IInv, MapsAgree
<1>8. TypeOK'
  <2>1. data' \in [Keys -> Entries \union {NoEntry}]
    BY <1>1, <1>2, <1>4 DEF TypeOK
  <2> QED BY <1>1, <1>2, <1>3, <2>1 DEF TypeOK
<1>9. Pending' = Pending /\ PendingApart'
  BY <1>1 DEF Pending, IInv, PendingApart
<1>10. OneKeyEach'
  BY <1>3, <1>5 DEF IInv, OneKeyEach
<1>11. PendingOwns'
  <2>1. \A f \in Pending : f.promise \in Promises /\ f.promise # p
    BY <1>2, <1>3, PendingFacts DEF IInv, PendingOwns
  <2> QED BY <1>5, <1>9, <2>1 DEF IInv, PendingOwns
<1>12. TimedSettles'
  BY <1>5, <1>6, <1>9 DEF IInv, TimedSettles
<1>13. MapsAgree'
  <2>1. ASSUME NEW q \in Promises, state'[q] = "open"
        PROVE  \E j \in Keys : promises'[j] = q /\ data'[j].functions = q
    <3>1. CASE q = p
      BY <1>5, <3>1
    <3>2. CASE q # p
      <4>1. PICK j \in Keys : promises[j] = q /\ data[j].functions = q
        BY <1>5, <2>1, <3>2 DEF IInv, MapsAgree
      <4>2. j # k
        BY <1>1, <4>1
      <4> QED BY <1>5, <4>1, <4>2
    <3> QED BY <3>1, <3>2
  <2>2. ASSUME NEW j \in Keys
        PROVE  /\ promises'[j] # None => data'[j] # NoEntry
               /\ data'[j].functions # None =>
                    /\ data'[j].functions = promises'[j]
                    /\ state'[promises'[j]] = "open"
               /\ promises'[j] = None => data'[j].timer = None
    <3>1. CASE j = k
      BY <1>3, <1>4, <1>5, <3>1
    <3>2. CASE j # k
      <4>1. data[j].functions \in Promises \union {None}
        BY <1>2, EntryFacts DEF TypeOK
      <4> QED BY <1>5, <1>6, <3>2, <4>1 DEF IInv, MapsAgree
    <3> QED BY <3>1, <3>2
  <2> QED BY <2>1, <2>2 DEF MapsAgree
<1>14. TimersMatch'
  <2>1. \A j \in Keys : data'[j].timer = data[j].timer
    BY <1>5, <1>7
  <2>2. \A t \in Timers : armed[t] # None => armed[t] \in Keys
    BY <1>2 DEF TypeOK
  <2> QED BY <1>1, <2>1, <2>2 DEF IInv, TimersMatch
<1>15. StatusTruthfulUnlessStale'
  <2>1. ASSUME NEW j \in Keys
        PROVE  /\ promises'[j] # None /\ state'[promises'[j]] \in Settled
                    => data'[j].status \in Settled
               /\ j \notin stale' /\ data'[j].status \in Settled
                    => /\ promises'[j] # None
                       /\ state'[promises'[j]] = data'[j].status
    <3>1. CASE j = k
      BY <1>5, <3>1 DEF Settled
    <3>2. CASE j # k
      <4>1. j \in stale' <=> j \in stale
        BY <1>1, <3>2
      <4> QED BY <1>5, <1>6, <3>2, <4>1 DEF IInv, StatusTruthfulUnlessStale
    <3> QED BY <3>1, <3>2
  <2> QED BY <2>1 DEF StatusTruthfulUnlessStale
<1> QED BY <1>8, <1>9, <1>10, <1>11, <1>12, <1>13, <1>14, <1>15 DEF IInv

(* doDelete() rejects whoever waits for the key and takes its timer along, *)
(* whether delete() or a timer of the key calls it.                        *)
LEMMA DoDeleteInv ==
  ASSUME IInv, NEW k \in Keys, NEW fired \in SUBSET Timers,
         \A t \in fired : armed[t] = k,
         DoDelete(k, fired), dropped' = dropped \ fired,
         follows' = follows, jobs' = jobs
  PROVE  IInv'
<1> USE PromiseMapAssumption
<1>1. TypeOK
  BY DEF IInv
<1>2. /\ \A q \in Promises : state'[q] = IF q = data[k].functions THEN "rejected"
                                                               ELSE state[q]
      /\ stale' = stale \ {k}
      /\ \A t \in Timers : armed'[t] = IF t \in fired \union {data[k].timer}
                                       THEN None ELSE armed[t]
      /\ data'[k] = NoEntry /\ promises'[k] = None
      /\ \A j \in Keys \ {k} : data'[j] = data[j] /\ promises'[j] = promises[j]
  BY <1>1 DEF DoDelete, TypeOK
<1>3. NoEntry.functions = None /\ NoEntry.timer = None /\ NoEntry.status = "absent"
  BY DEF NoEntry
<1>4. \A j \in Keys \ {k} : promises[j] # None =>
        promises[j] \in Promises /\ state'[promises[j]] = state[promises[j]]
  <2> TAKE j \in Keys \ {k}
  <2> HAVE promises[j] # None
  <2>1. promises[j] \in Promises
    BY <1>1 DEF TypeOK
  <2>2. data[k].functions # promises[j]
    BY DEF IInv, MapsAgree, OneKeyEach
  <2> QED BY <1>2, <2>1, <2>2
<1>5. \A q \in Promises : \/ state'[q] = state[q]
                          \/ state[q] = "open" /\ state'[q] = "rejected"
  BY <1>2 DEF IInv, MapsAgree
<1>6. TypeOK'
  <2>1. state' \in [Promises -> {"unused", "open", "committed"} \union Settled]
    BY <1>1 DEF DoDelete, TypeOK, Settled
  <2>2. /\ data' \in [Keys -> Entries \union {NoEntry}]
        /\ promises' \in [Keys -> Promises \union {None}]
        /\ armed' \in [Timers -> Keys \union {None}]
        /\ stale' \in SUBSET Keys /\ dropped' \in SUBSET Timers
    BY <1>1 DEF DoDelete, TypeOK
  <2> QED BY <1>1, <2>1, <2>2 DEF TypeOK
<1>7. Pending' = Pending /\ PendingApart'
  BY DEF Pending, IInv, PendingApart
<1>8. OneKeyEach'
  BY <1>2 DEF IInv, OneKeyEach
<1>9. PendingOwns'
  <2>1. \A f \in Pending : f.promise \in Promises /\ f.promise # None
    BY <1>1, PendingFacts
  <2> QED BY <1>2, <1>5, <1>7, <2>1 DEF IInv, PendingOwns
<1>10. TimedSettles'
  BY <1>2, <1>3, <1>4, <1>7 DEF IInv, TimedSettles
<1>11. MapsAgree'
  <2>1. ASSUME NEW q \in Promises, state'[q] = "open"
        PROVE  \E j \in Keys : promises'[j] = q /\ data'[j].functions = q
    <3>1. PICK j \in Keys : promises[j] = q /\ data[j].functions = q
      BY <1>5, <2>1 DEF IInv, MapsAgree
    <3>2. j # k
      BY <1>2, <2>1, <3>1
    <3> QED BY <1>2, <3>1, <3>2
  <2>2. ASSUME NEW j \in Keys
        PROVE  /\ promises'[j] # None => data'[j] # NoEntry
               /\ data'[j].functions # None =>
                    /\ data'[j].functions = promises'[j]
                    /\ state'[promises'[j]] = "open"
               /\ promises'[j] = None => data'[j].timer = None
    <3>1. CASE j = k
      BY <1>2, <1>3, <3>1
    <3>2. CASE j # k
      <4>1. data[j].functions \in Promises \union {None}
        BY <1>1, EntryFacts DEF TypeOK
      <4> QED BY <1>2, <1>4, <3>2, <4>1 DEF IInv, MapsAgree
    <3> QED BY <3>1, <3>2
  <2> QED BY <2>1, <2>2 DEF MapsAgree
<1>12. TimersMatch'
  <2>1. ASSUME NEW j \in Keys, data'[j].timer # None
        PROVE  armed'[data'[j].timer] = j
    <3>1. j # k /\ data'[j].timer = data[j].timer
      BY <1>2, <1>3, <2>1
    <3>2. armed[data[j].timer] = j /\ data[j].timer \in Timers
      BY <1>1, <2>1, <3>1, EntryFacts DEF IInv, TimersMatch, TypeOK
    <3>3. data[j].timer \notin fired \union {data[k].timer}
      BY <2>1, <3>1, <3>2 DEF IInv, TimersMatch
    <3> QED BY <1>2, <3>1, <3>2, <3>3
  <2>2. ASSUME NEW t \in Timers \ dropped', armed'[t] # None
        PROVE  data'[armed'[t]].timer = t
    <3>1. /\ t \notin fired /\ t # data[k].timer
          /\ armed'[t] = armed[t] /\ t \notin dropped
      BY <1>2, <2>2
    <3>2. data[armed[t]].timer = t /\ armed[t] \in Keys
      BY <1>1, <2>2, <3>1 DEF IInv, TimersMatch, TypeOK
    <3> QED BY <1>2, <3>1, <3>2
  <2> QED BY <2>1, <2>2 DEF TimersMatch
<1>13. StatusTruthfulUnlessStale'
  <2>1. ASSUME NEW j \in Keys
        PROVE  /\ promises'[j] # None /\ state'[promises'[j]] \in Settled
                    => data'[j].status \in Settled
               /\ j \notin stale' /\ data'[j].status \in Settled
                    => /\ promises'[j] # None
                       /\ state'[promises'[j]] = data'[j].status
    <3>1. CASE j = k
      BY <1>2, <1>3, <3>1 DEF Settled
    <3>2. CASE j # k
      BY <1>2, <1>4, <3>2 DEF IInv, StatusTruthfulUnlessStale
    <3> QED BY <3>1, <3>2
  <2> QED BY <2>1 DEF StatusTruthfulUnlessStale
<1> QED BY <1>6, <1>7, <1>8, <1>9, <1>10, <1>11, <1>12, <1>13 DEF IInv

(* delete() *)
LEMMA DeleteInv ==
  ASSUME IInv, NEW k \in Keys, Delete(k)
  PROVE  IInv'
<1>1. /\ DoDelete(k, {}) /\ dropped' = dropped \ {}
      /\ follows' = follows /\ jobs' = jobs
  BY DEF Delete
<1> QED BY <1>1, DoDeleteInv

(* A timer that fires, for whatever its key now stands for. *)
LEMMA FireTimerInv ==
  ASSUME IInv, NEW t \in Timers, FireTimer(t)
  PROVE  IInv'
<1>1. /\ armed[t] # None /\ DoDelete(armed[t], {t})
      /\ dropped' = dropped \ {t} /\ follows' = follows /\ jobs' = jobs
  BY DEF FireTimer
<1>2. armed[t] \in Keys
  BY <1>1 DEF IInv, TypeOK
<1> QED BY <1>1, <1>2, DoDeleteInv

(* clear() rejects whoever waits and empties both Maps. *)
LEMMA ClearInv ==
  ASSUME IInv, Clear
  PROVE  IInv'
<1> USE PromiseMapAssumption
<1>1. TypeOK
  BY DEF IInv
<1>2. /\ \A q \in Promises : state'[q] = IF \E k \in Keys : data[k].functions = q
                                         THEN "rejected" ELSE state[q]
      /\ \A k \in Keys : promises'[k] = None /\ data'[k] = NoEntry
      /\ stale' = {} /\ dropped' = {t \in Timers : armed[t] # None}
      /\ follows' = follows /\ jobs' = jobs /\ armed' = armed
  BY DEF Clear
<1>3. NoEntry.functions = None /\ NoEntry.timer = None /\ NoEntry.status = "absent"
  BY DEF NoEntry
<1>4. \A q \in Promises : /\ state'[q] # "open"
                          /\ state[q] = "committed" => state'[q] = "committed"
  BY <1>2 DEF IInv, MapsAgree
<1>5. TypeOK'
  <2>1. state' \in [Promises -> {"unused", "open", "committed"} \union Settled]
    BY <1>1 DEF Clear, TypeOK, Settled
  <2>2. /\ data' \in [Keys -> Entries \union {NoEntry}]
        /\ promises' \in [Keys -> Promises \union {None}]
        /\ stale' \in SUBSET Keys /\ dropped' \in SUBSET Timers
    BY <1>1 DEF Clear, TypeOK
  <2> QED BY <1>1, <1>2, <2>1, <2>2 DEF TypeOK
<1>6. Pending' = Pending /\ PendingApart'
  BY <1>2 DEF Pending, IInv, PendingApart
<1>7. PendingOwns'
  <2>1. \A f \in Pending : f.promise \in Promises /\ f.promise # None
    BY <1>1, PendingFacts
  <2> QED BY <1>2, <1>4, <1>6, <2>1 DEF IInv, PendingOwns
<1>8. OneKeyEach' /\ TimedSettles' /\ MapsAgree'
  BY <1>2, <1>3, <1>4 DEF OneKeyEach, TimedSettles, MapsAgree
<1>9. TimersMatch'
  BY <1>2, <1>3 DEF TimersMatch
<1>10. StatusTruthfulUnlessStale'
  BY <1>2, <1>3 DEF StatusTruthfulUnlessStale, Settled
<1> QED BY <1>5, <1>6, <1>7, <1>8, <1>9, <1>10 DEF IInv

(* The promise given to resolve() settles: its call goes from the awaiting *)
(* ones to the microtasks.                                                 *)
LEMMA SettleFollowedInv ==
  ASSUME IInv, SettleFollowed
  PROVE  IInv'
<1>1. PICK f \in follows, status \in Settled :
        /\ follows' = follows \ {f}
        /\ jobs' = Append(jobs, [key |-> f.key, promise |-> f.promise,
                                 status |-> status])
        /\ promises' = promises /\ data' = data /\ state' = state
        /\ armed' = armed /\ stale' = stale /\ dropped' = dropped
  BY DEF SettleFollowed
<1>2. TypeOK
  BY DEF IInv
<1>3. /\ f \in [key : Keys, promise : Promises]
      /\ f = [key |-> f.key, promise |-> f.promise]
      /\ f.key \in Keys /\ f.promise \in Promises
  BY <1>2 DEF TypeOK
<1>4. /\ jobs' \in Seq([key : Keys, promise : Promises, status : Settled])
      /\ Len(jobs) \in Nat /\ Len(jobs') = Len(jobs) + 1
      /\ \A i \in 1..Len(jobs) : jobs'[i] = jobs[i]
      /\ jobs'[Len(jobs) + 1].key = f.key
      /\ jobs'[Len(jobs) + 1].promise = f.promise
  BY <1>1, <1>2, <1>3, JobAppended
<1>5. 1..Len(jobs') = 1..Len(jobs) \union {Len(jobs) + 1}
  BY <1>4
<1>6. Pending' = Pending
  BY <1>1, <1>3, <1>4, <1>5 DEF Pending
<1>7. PendingApart'
  BY <1>1, <1>4, <1>5 DEF IInv, PendingApart
<1>8. TypeOK'
  BY <1>1, <1>2, <1>4 DEF TypeOK
<1>9. /\ OneKeyEach' /\ PendingOwns' /\ TimedSettles'
      /\ MapsAgree' /\ TimersMatch' /\ StatusTruthfulUnlessStale'
  BY <1>1, <1>6 DEF IInv, OneKeyEach, PendingOwns, TimedSettles, MapsAgree,
                    TimersMatch, StatusTruthfulUnlessStale
<1> QED BY <1>7, <1>8, <1>9 DEF IInv

(* A microtask sets the status: of the entry whose promise settles, or of  *)
(* one that has come in its place, which is then stale.                    *)
LEMMA RunJobInv ==
  ASSUME IInv, RunJob
  PROVE  IInv'
<1> USE PromiseMapAssumption
<1> DEFINE J == [key : Keys, promise : Promises, status : Settled]
           job == Head(jobs)
           own == [key |-> job.key, promise |-> job.promise]
<1>1. TypeOK
  BY DEF IInv
<1>2. /\ jobs # <<>> /\ jobs' = Tail(jobs)
      /\ state' = [state EXCEPT ![job.promise] = job.status]
      /\ data' = [data EXCEPT ![job.key].status = job.status]
      /\ stale' = IF promises[job.key] = job.promise
                  THEN stale ELSE stale \union {job.key}
      /\ promises' = promises /\ follows' = follows
      /\ armed' = armed /\ dropped' = dropped
  BY DEF RunJob
<1>3. /\ job \in J /\ job = jobs[1] /\ 1 \in 1..Len(jobs)
      /\ jobs' \in Seq(J)
      /\ Len(jobs) \in Nat \ {0} /\ Len(jobs') = Len(jobs) - 1
      /\ \A i \in 1..Len(jobs') : i + 1 \in 1..Len(jobs) /\ jobs'[i] = jobs[i + 1]
  <2>1. jobs \in Seq(J)
    BY <1>1 DEF TypeOK
  <2> HIDE DEF J
  <2> QED BY <1>2, <2>1
<1>4. job.key \in Keys /\ job.promise \in Promises /\ job.status \in Settled
  BY <1>3
<1>5. own \in Pending /\ own.key = job.key /\ own.promise = job.promise
  BY <1>3 DEF Pending
<1>6. /\ state[job.promise] = "committed"
      /\ \A k \in Keys : promises[k] = job.promise => k = job.key
  BY <1>5 DEF IInv, PendingOwns
<1> HIDE DEF J, job, own
<1>7. /\ Pending = Pending' \union {own}
      /\ \A f \in Pending' : f.promise # job.promise
  <2>1. \A i \in 1..Len(jobs) : i # 1 => i - 1 \in 1..Len(jobs') /\ jobs'[i - 1] = jobs[i]
    BY <1>3
  <2>2. \A f \in Pending' : f \in Pending
    BY <1>2, <1>3 DEF Pending
  <2>3. ASSUME NEW f \in Pending, f # own
        PROVE  f \in Pending'
    <3>1. CASE f \in follows
      BY <1>2, <3>1 DEF Pending
    <3>2. CASE f \notin follows
      <4>1. PICK i \in 1..Len(jobs) : f = [key |-> jobs[i].key, promise |-> jobs[i].promise]
        BY <3>2 DEF Pending
      <4>2. i # 1
        BY <1>3, <2>3, <4>1 DEF own
      <4> QED BY <2>1, <4>1, <4>2 DEF Pending
    <3> QED BY <3>1, <3>2
  <2>4. ASSUME NEW f \in Pending'
        PROVE  f.promise # job.promise
    <3>1. CASE f \in follows
      BY <1>3, <3>1 DEF IInv, PendingApart
    <3>2. CASE f \notin follows
      <4>1. PICK i \in 1..Len(jobs') : f = [key |-> jobs'[i].key, promise |-> jobs'[i].promise]
        BY <1>2, <2>4, <3>2 DEF Pending
      <4>2. i + 1 # 1 /\ i + 1 \in 1..Len(jobs) /\ f.promise = jobs[i + 1].promise
        BY <1>3, <4>1
      <4> QED BY <1>3, <4>2 DEF IInv, PendingApart
    <3> QED BY <3>1, <3>2
  <2> QED BY <1>5, <2>2, <2>3, <2>4
<1>8. /\ state'[job.promise] = job.status
      /\ \A q \in Promises \ {job.promise} : state'[q] = state[q]
  BY <1>1, <1>2, <1>4 DEF TypeOK
<1>9. /\ \A k \in Keys : /\ data'[k].functions = data[k].functions
                         /\ data'[k].timer = data[k].timer
      /\ data'[job.key].status = job.status
      /\ \A k \in Keys \ {job.key} : data'[k] = data[k]
      /\ data' \in [Keys -> Entries \union {NoEntry}]
      /\ data'[job.key] # NoEntry
  <2>1. data[job.key] \in Entries \union {NoEntry}
    BY <1>1, <1>4 DEF TypeOK
  <2>2. data'[job.key] = [functions |-> data[job.key].functions,
                          status |-> job.status, timer |-> data[job.key].timer]
    BY <1>1, <1>2, <1>4, <2>1 DEF TypeOK, Entries, NoEntry
  <2>3. data'[job.key] \in Entries
    BY <1>4, <2>1, <2>2, EntryFacts DEF Entries
  <2>4. data'[job.key] # NoEntry
    BY <1>4, <2>2 DEF NoEntry, Settled
  <2>5. /\ \A k \in Keys \ {job.key} : data'[k] = data[k]
        /\ data' \in [Keys -> Entries \union {NoEntry}]
    <3>1. data' = [k \in Keys |-> IF k = job.key THEN data'[job.key] ELSE data[k]]
      BY <1>1, <1>2, <1>4 DEF TypeOK
    <3> HIDE <1>2
    <3> QED BY <1>1, <2>3, <3>1 DEF TypeOK
  <2> QED BY <1>4, <2>2, <2>4, <2>5
<1>10. TypeOK'
  <2>1. /\ state' \in [Promises -> {"unused", "open", "committed"} \union Settled]
        /\ stale' \in SUBSET Keys
    BY <1>1, <1>2, <1>4 DEF TypeOK
  <2> QED BY <1>1, <1>2, <1>3, <1>9, <2>1 DEF TypeOK, J
<1>11. OneKeyEach'
  BY <1>2 DEF IInv, OneKeyEach
<1>12. PendingOwns'
  <2>1. \A f \in Pending' : f \in Pending /\ f.promise \in Promises \ {job.promise}
    BY <1>1, <1>7, PendingFacts
  <2> QED BY <1>2, <1>8, <2>1 DEF IInv, PendingOwns
<1>13. PendingApart'
  <2>1. \A f \in follows, i \in 1..Len(jobs') : f.promise # jobs'[i].promise
    BY <1>3 DEF IInv, PendingApart
  <2>2. ASSUME NEW i \in 1..Len(jobs'), NEW j \in 1..Len(jobs'),
               jobs'[i].promise = jobs'[j].promise
        PROVE  i = j
    <3>1. i + 1 = j + 1
      BY <1>3, <2>2 DEF IInv, PendingApart
    <3> QED BY <3>1
  <2> QED BY <1>2, <2>1, <2>2 DEF IInv, PendingApart
<1>14. TimedSettles'
  <2>1. ASSUME NEW k \in Keys, data'[k].timer # None
        PROVE  /\ promises[k] # None
               /\ \/ state'[promises[k]] \in Settled
                  \/ [key |-> k, promise |-> promises[k]] \in Pending'
    <3>1. /\ promises[k] # None
          /\ \/ state[promises[k]] \in Settled
             \/ [key |-> k, promise |-> promises[k]] \in Pending
      BY <1>9, <2>1 DEF IInv, TimedSettles
    <3>2. promises[k] \in Promises
      BY <1>1, <3>1 DEF TypeOK
    <3>3. CASE promises[k] = job.promise
      BY <1>4, <1>8, <3>1, <3>3
    <3>4. CASE promises[k] # job.promise
      <4>1. state'[promises[k]] = state[promises[k]]
        BY <1>8, <3>2, <3>4
      <4>2. [key |-> k, promise |-> promises[k]] # own
        BY <1>5, <3>4
      <4> QED BY <1>7, <3>1, <4>1, <4>2
    <3> QED BY <3>3, <3>4
  <2> QED BY <1>2, <2>1 DEF TimedSettles
<1>15. MapsAgree'
  <2>1. ASSUME NEW q \in Promises, state'[q] = "open"
        PROVE  \E j \in Keys : promises[j] = q /\ data'[j].functions = q
    <3>1. state[q] = "open"
      BY <1>4, <1>8, <2>1 DEF Settled
    <3> QED BY <1>9, <3>1 DEF IInv, MapsAgree
  <2>2. ASSUME NEW j \in Keys
        PROVE  /\ promises[j] # None => data'[j] # NoEntry
               /\ data'[j].functions # None =>
                    /\ data'[j].functions = promises[j]
                    /\ state'[promises[j]] = "open"
               /\ promises[j] = None => data'[j].timer = None
    <3>1. data'[j] # NoEntry \/ data'[j] = data[j]
      BY <1>9
    <3>2. ASSUME data[j].functions # None
          PROVE  /\ data[j].functions = promises[j]
                 /\ state'[promises[j]] = "open"
      <4>1. /\ data[j].functions = promises[j] /\ promises[j] # None
            /\ state[promises[j]] = "open"
        BY <3>2 DEF IInv, MapsAgree
      <4>2. promises[j] \in Promises \ {job.promise}
        BY <1>1, <1>6, <4>1 DEF TypeOK
      <4> QED BY <1>8, <4>1, <4>2
    <3> QED BY <1>9, <3>1, <3>2 DEF IInv, MapsAgree
  <2> QED BY <1>2, <2>1, <2>2 DEF MapsAgree
<1>16. TimersMatch'
  <2>1. \A t \in Timers : armed[t] # None => armed[t] \in Keys
    BY <1>1 DEF TypeOK
  <2> QED BY <1>2, <1>9, <2>1 DEF IInv, TimersMatch
<1>17. StatusTruthfulUnlessStale'
  <2>1. ASSUME NEW j \in Keys
        PROVE  /\ promises[j] # None /\ state'[promises[j]] \in Settled
                    => data'[j].status \in Settled
               /\ j \notin stale' /\ data'[j].status \in Settled
                    => promises[j] # None /\ state'[promises[j]] = data'[j].status
    <3>1. promises[j] \in Promises \union {None}
      BY <1>1 DEF TypeOK
    <3>2. CASE j = job.key
      BY <1>2, <1>4, <1>8, <1>9, <3>2
    <3>3. CASE j # job.key
      <4>1. promises[j] # None => state'[promises[j]] = state[promises[j]]
        BY <1>6, <1>8, <3>1, <3>3
      <4> QED BY <1>2, <1>9, <3>3, <4>1 DEF IInv, StatusTruthfulUnlessStale
    <3> QED BY <3>2, <3>3
  <2> QED BY <1>2, <2>1 DEF StatusTruthfulUnlessStale
<1> QED BY <1>10, <1>11, <1>12, <1>13, <1>14, <1>15, <1>16, <1>17 DEF IInv
-----------------------------------------------------------------------------
(* Every step preserves the invariant. *)
LEMMA NextInv == IInv /\ [Next]_mapVars => IInv'
<1> SUFFICES ASSUME IInv, [Next]_mapVars PROVE IInv'
  OBVIOUS
<1>1. ASSUME NEW k \in Keys,
             ResolveValue(k) \/ ResolvePromise(k) \/ Reject(k) \/ Get(k) \/ Delete(k)
      PROVE  IInv'
  BY <1>1, ResolveValueInv, ResolvePromiseInv, RejectInv, GetInv, DeleteInv
<1>2. CASE RejectAll
  BY <1>2, RejectAllInv
<1>3. CASE Clear
  BY <1>3, ClearInv
<1>4. CASE SettleFollowed
  BY <1>4, SettleFollowedInv
<1>5. CASE RunJob
  BY <1>5, RunJobInv
<1>6. ASSUME NEW t \in Timers, FireTimer(t)
      PROVE  IInv'
  BY <1>6, FireTimerInv
<1>7. CASE UNCHANGED mapVars
  BY <1>7 DEF mapVars, IInv, TypeOK, OneKeyEach, Pending, PendingOwns, PendingApart,
              TimedSettles, MapsAgree, TimersMatch, StatusTruthfulUnlessStale
<1> QED BY <1>1, <1>2, <1>3, <1>4, <1>5, <1>6, <1>7 DEF Next

(* The invariant holds in every reachable state. *)
LEMMA Invariant == Spec => []IInv
<1> QED BY InitInv, NextInv, PTL DEF Spec

(* Type correctness. *)
THEOREM TypeCorrect == Spec => []TypeOK
<1>1. IInv => TypeOK
  BY DEF IInv
<1> QED BY <1>1, Invariant, PTL

(* The two Maps of PromiseMap agree about every key, in whatever order     *)
(* calls, microtasks and timers come, for any number of keys.              *)
THEOREM MapsAlwaysAgree == Spec => []MapsAgree
<1>1. IInv => MapsAgree
  BY DEF IInv
<1> QED BY <1>1, Invariant, PTL

(* A timer is armed for the entry that holds it; only clear() leaves one   *)
(* behind.                                                                 *)
THEOREM TimersAlwaysMatch == Spec => []TimersMatch
<1>1. IInv => TimersMatch
  BY DEF IInv
<1> QED BY <1>1, Invariant, PTL

(* isPending() and its like tell the truth but for a key that a late       *)
(* setStatus() has touched.                                                *)
THEOREM StatusesTruthful == Spec => []StatusTruthfulUnlessStale
<1>1. IInv => StatusTruthfulUnlessStale
  BY DEF IInv
<1> QED BY <1>1, Invariant, PTL

(* With no microtask left, an entry's timer belongs to a promise that has  *)
(* settled or follows another.                                             *)
THEOREM TimersDeleteSettled == Spec => []OwnTimerDeletesSettled
<1>1. IInv => OwnTimerDeletesSettled
  <2> SUFFICES ASSUME IInv, jobs = <<>>, NEW k \in Keys, data[k].timer # None
               PROVE  \/ state[promises[k]] \in Settled
                      \/ [key |-> k, promise |-> promises[k]] \in follows
    BY DEF OwnTimerDeletesSettled
  <2>1. Pending = follows
    BY DEF Pending
  <2> QED BY <2>1 DEF IInv, TimedSettles
<1> QED BY <1>1, Invariant, PTL

(* rejectAll() rejects every promise somebody waits for, unless a late     *)
(* setStatus() has called it settled.                                      *)
THEOREM RejectAllComplete == Spec => RejectAllCompleteUnlessStale
<1>1. IInv /\ [Next]_mapVars =>
        [RejectAll => \A k \in Keys \ stale :
           promises[k] # None => state'[promises[k]] # "open"]_mapVars
  <2> SUFFICES ASSUME IInv, RejectAll, NEW k \in Keys \ stale,
                      promises[k] # None, state'[promises[k]] = "open"
               PROVE  FALSE
    OBVIOUS
  <2>1. promises[k] \in Promises
    BY DEF IInv, TypeOK
  <2>2. /\ state[promises[k]] = "open"
        /\ \A j \in Rejectable : data[j].functions # promises[k]
    BY <2>1 DEF RejectAll
  <2>3. data[k].functions = promises[k]
    BY <2>1, <2>2 DEF IInv, MapsAgree, OneKeyEach
  <2>4. data[k] \in Entries \union {NoEntry}
    BY DEF IInv, TypeOK
  <2>5. data[k].status \notin Settled
    BY <2>2 DEF IInv, StatusTruthfulUnlessStale, Settled
  <2>6. data[k].status = "pending"
    BY <2>3, <2>4, <2>5, EntryFacts
  <2> QED BY <2>2, <2>3, <2>6 DEF Rejectable
<1> QED BY <1>1, Invariant, PTL DEF Spec, RejectAllCompleteUnlessStale
=============================================================================
