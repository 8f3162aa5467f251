-------------------------- MODULE ResourcePoolProofs --------------------------
(***************************************************************************)
(* Proofs about ResourcePool, for any number of callers, closers and       *)
(* resources and any limit: its safety invariants, and that it implements  *)
(* ResourceLease.                                                          *)
(***************************************************************************)
EXTENDS ResourcePool, FiniteSetTheorems, TLAPS

(* What a queue of distinct elements looks like after push() and shift().  *)

(* push() of a caller that is not in the queue.                             *)
LEMMA AppendFacts ==
  ASSUME NEW S, NEW s \in Seq(S), NEW x \in S
  PROVE  /\ Append(s, x) \in Seq(S)
         /\ Range(Append(s, x)) = Range(s) \union {x}
         /\ IsInjective(s) /\ x \notin Range(s) => IsInjective(Append(s, x))
<1>1. /\ Append(s, x) \in Seq(S)
      /\ DOMAIN s = 1..Len(s) /\ DOMAIN Append(s, x) = 1..(Len(s) + 1)
      /\ Append(s, x)[Len(s) + 1] = x
      /\ \A i \in 1..Len(s) : Append(s, x)[i] = s[i]
  OBVIOUS
<1>2. Len(s) \in Nat
  OBVIOUS
<1>3. Range(Append(s, x)) = Range(s) \union {x}
  <2>1. \A y \in Range(Append(s, x)) : y \in Range(s) \union {x}
    BY <1>1, <1>2 DEF Range
  <2>2. \A y \in Range(s) : y \in Range(Append(s, x))
    BY <1>1, <1>2 DEF Range
  <2>3. x \in Range(Append(s, x))
    BY <1>1, <1>2 DEF Range
  <2> QED BY <2>1, <2>2, <2>3
<1>4. ASSUME IsInjective(s), x \notin Range(s)
      PROVE  IsInjective(Append(s, x))
  BY <1>1, <1>2, <1>4 DEF Range, IsInjective
<1> QED BY <1>1, <1>3, <1>4

(* What shift() takes from the front, and what it leaves. *)
LEMMA ShiftFacts ==
  ASSUME NEW S, NEW s \in Seq(S), s # <<>>
  PROVE  /\ Head(s) \in S
         /\ Tail(s) \in Seq(S)
         /\ Range(s) = Range(Tail(s)) \union {Head(s)}
         /\ IsInjective(s) => /\ IsInjective(Tail(s))
                              /\ Head(s) \notin Range(Tail(s))
<1>1. /\ Len(s) \in Nat \ {0}
      /\ Head(s) = s[1] /\ Head(s) \in S
      /\ Tail(s) \in Seq(S)
      /\ DOMAIN s = 1..Len(s) /\ DOMAIN Tail(s) = 1..(Len(s) - 1)
      /\ \A i \in 1..(Len(s) - 1) : Tail(s)[i] = s[i + 1]
  OBVIOUS
<1>2. Range(s) = Range(Tail(s)) \union {Head(s)}
  <2>1. \A y \in Range(s) : y \in Range(Tail(s)) \union {Head(s)}
    <3> TAKE y \in Range(s)
    <3>1. PICK i \in 1..Len(s) : y = s[i]
      BY <1>1 DEF Range
    <3>2. CASE i = 1
      BY <1>1, <3>1, <3>2
    <3>3. CASE i # 1
      <4>1. i - 1 \in 1..(Len(s) - 1) /\ Tail(s)[i - 1] = s[i]
        BY <1>1, <3>3
      <4> QED BY <1>1, <3>1, <4>1 DEF Range
    <3> QED BY <3>2, <3>3
  <2>2. \A y \in Range(Tail(s)) : y \in Range(s)
    BY <1>1 DEF Range
  <2>3. Head(s) \in Range(s)
    BY <1>1 DEF Range
  <2> QED BY <2>1, <2>2, <2>3
<1>3. ASSUME IsInjective(s)
      PROVE  IsInjective(Tail(s)) /\ Head(s) \notin Range(Tail(s))
  <2>1. IsInjective(Tail(s))
    <3> SUFFICES ASSUME NEW i \in 1..(Len(s) - 1), NEW j \in 1..(Len(s) - 1),
                        Tail(s)[i] = Tail(s)[j]
                 PROVE  i = j
      BY <1>1 DEF IsInjective
    <3>1. i + 1 \in DOMAIN s /\ j + 1 \in DOMAIN s /\ s[i + 1] = s[j + 1]
      BY <1>1
    <3> QED BY <1>1, <1>3, <3>1 DEF IsInjective
  <2>2. ASSUME NEW i \in 1..(Len(s) - 1), Head(s) = Tail(s)[i]
        PROVE  FALSE
    <3>1. 1 \in DOMAIN s /\ i + 1 \in DOMAIN s /\ s[i + 1] = s[1] /\ i + 1 # 1
      BY <1>1, <2>2
    <3> QED BY <1>3, <3>1 DEF IsInjective
  <2> QED BY <1>1, <2>1, <2>2 DEF Range
<1> QED BY <1>1, <1>2, <1>3
-----------------------------------------------------------------------------
(* The inductive invariant.  To what the runs check it adds that leased is *)
(* set for exactly the calls that hold a resource and that the queue holds *)
(* each waiting call once, without which a hand-over could make two calls  *)
(* hold one resource.                                                      *)

LeasedIffHolding == \A c \in Callers : leased[c] # None <=> c \in Leasing

QueuedIffWaiting ==
  /\ Range(waiting) = {c \in Callers : call[c] = "waiting"}
  /\ IsInjective(waiting)

IInv ==
  /\ TypeOK
  /\ LeasedIffHolding
  /\ QueuedIffWaiting
  /\ Exclusive
  /\ NoUseAfterDestroy
  /\ NoIdleWhileWaiting
  /\ NoLostResource
  /\ ReturnNeverThrows

(* A new pool satisfies the invariant. *)
LEMMA InitInv == Init => IInv
<1> SUFFICES ASSUME Init PROVE IInv
  OBVIOUS
<1> USE PoolAssumption DEF Init
<1>1. Leasing = {} /\ Using = {} /\ Range(<<>>) = {} /\ IsInjective(<<>>)
  BY DEF Leasing, Using, Range, IsInjective
<1>2. TypeOK
  BY DEF TypeOK, CallStates, CloserStates
<1>3. LeasedIffHolding /\ QueuedIffWaiting
  BY <1>1 DEF LeasedIffHolding, QueuedIffWaiting
<1>4. Exclusive /\ NoUseAfterDestroy /\ NoIdleWhileWaiting
      /\ NoLostResource /\ ReturnNeverThrows
  BY <1>1 DEF Exclusive, NoUseAfterDestroy, NoIdleWhileWaiting,
              NoLostResource, ReturnNeverThrows
<1> QED BY <1>2, <1>3, <1>4 DEF IInv

(* get() may take the resource at the front of the unused list. *)
LEMMA TakeUnusedInv ==
  ASSUME IInv, NEW c \in Callers, TakeUnused(c)
  PROVE  IInv'
<1> USE PoolAssumption DEF IInv, TakeUnused
<1> DEFINE r == Head(unused)
<1>1. /\ r \in Resources /\ r # None
      /\ unused' \in Seq(Resources)
      /\ Range(unused) = Range(unused') \union {r}
      /\ IsInjective(unused') /\ r \notin Range(unused')
  BY ShiftFacts DEF TypeOK, NoLostResource
<1>2. /\ Leasing' = Leasing \union {c} /\ c \notin Leasing
      /\ Using' = Using
      /\ leased'[c] = r
      /\ \A w \in Callers \ {c} : leased'[w] = leased[w]
  BY DEF TypeOK, Leasing, Using
<1>3. TypeOK'
  BY <1>1 DEF TypeOK, CallStates
<1>4. LeasedIffHolding'
  BY <1>1, <1>2 DEF LeasedIffHolding
<1>5. QueuedIffWaiting'
  BY DEF QueuedIffWaiting, TypeOK
<1>6. r \in created \ destroyed /\ \A w \in Leasing : leased[w] # r
  BY <1>1 DEF NoLostResource
<1>7. Exclusive' /\ NoUseAfterDestroy'
  BY <1>2, <1>6 DEF Exclusive, NoUseAfterDestroy, Leasing
<1>8. NoIdleWhileWaiting'
  BY DEF NoIdleWhileWaiting
<1>9. NoLostResource'
  <2>1. {leased'[w] : w \in Leasing'} = {leased[w] : w \in Leasing} \union {r}
    BY <1>2 DEF Leasing
  <2> QED BY <1>1, <1>6, <2>1 DEF NoLostResource
<1>10. ReturnNeverThrows'
  BY <1>2 DEF ReturnNeverThrows, Using, TypeOK
<1> QED BY <1>3, <1>4, <1>5, <1>7, <1>8, <1>9, <1>10

(* get() may start a create() below the limit: nobody waits then. *)
LEMMA StartCreateInv ==
  ASSUME IInv, NEW c \in Callers, StartCreate(c)
  PROVE  IInv'
<1> USE PoolAssumption DEF IInv, StartCreate
<1>1. Leasing' = Leasing /\ Using' = Using
  BY DEF TypeOK, Leasing, Using
<1>2. TypeOK'
  BY DEF TypeOK, CallStates
<1>3. LeasedIffHolding' /\ QueuedIffWaiting'
  BY <1>1 DEF LeasedIffHolding, QueuedIffWaiting, TypeOK
<1>4. Exclusive' /\ NoUseAfterDestroy' /\ NoLostResource' /\ ReturnNeverThrows'
  BY <1>1 DEF Exclusive, NoUseAfterDestroy, NoLostResource, ReturnNeverThrows
<1>5. waiting = <<>>
  BY DEF NoIdleWhileWaiting, TypeOK
<1>6. NoIdleWhileWaiting'
  BY <1>5 DEF NoIdleWhileWaiting
<1> QED BY <1>2, <1>3, <1>4, <1>6

(* get() may queue: nothing is unused and the limit is reached. *)
LEMMA EnqueueInv ==
  ASSUME IInv, NEW c \in Callers, Enqueue(c)
  PROVE  IInv'
<1> USE PoolAssumption DEF IInv, Enqueue
<1>1. Leasing' = Leasing /\ Using' = Using
  BY DEF TypeOK, Leasing, Using
<1>2. c \notin Range(waiting)
  BY DEF QueuedIffWaiting
<1>3. /\ waiting' \in Seq(Callers)
      /\ Range(waiting') = Range(waiting) \union {c}
      /\ IsInjective(waiting')
  BY <1>2, AppendFacts DEF TypeOK, QueuedIffWaiting
<1>4. TypeOK'
  BY <1>3 DEF TypeOK, CallStates
<1>5. LeasedIffHolding' /\ QueuedIffWaiting'
  BY <1>1, <1>3 DEF LeasedIffHolding, QueuedIffWaiting, TypeOK
<1>6. Exclusive' /\ NoUseAfterDestroy' /\ NoLostResource' /\ ReturnNeverThrows'
  BY <1>1 DEF Exclusive, NoUseAfterDestroy, NoLostResource, ReturnNeverThrows
<1>7. NoIdleWhileWaiting'
  BY DEF NoIdleWhileWaiting, TypeOK
<1> QED BY <1>4, <1>5, <1>6, <1>7

(* A new resource is on nobody's lease and not idle. *)
LEMMA CreateOkInv ==
  ASSUME IInv, NEW c \in Callers, CreateOk(c)
  PROVE  IInv'
<1> USE PoolAssumption DEF IInv
<1>1. PICK r \in Resources \ created :
        created' = created \union {r} /\ leased' = [leased EXCEPT ![c] = r]
  BY DEF CreateOk
<1> USE DEF CreateOk
<1>2. /\ Leasing' = Leasing \union {c} /\ c \notin Leasing
      /\ Using' = Using
      /\ leased'[c] = r
      /\ \A w \in Callers \ {c} : leased'[w] = leased[w]
  BY <1>1 DEF TypeOK, Leasing, Using
<1>3. TypeOK'
  BY <1>1 DEF TypeOK, CallStates
<1>4. LeasedIffHolding' /\ QueuedIffWaiting'
  BY <1>1, <1>2 DEF LeasedIffHolding, QueuedIffWaiting, TypeOK
<1>5. \A w \in Leasing : leased[w] # r
  BY <1>1 DEF NoUseAfterDestroy
<1>6. Exclusive' /\ NoUseAfterDestroy'
  BY <1>1, <1>2, <1>5 DEF Exclusive, NoUseAfterDestroy, Leasing, TypeOK
<1>7. NoIdleWhileWaiting'
  BY DEF NoIdleWhileWaiting
<1>8. NoLostResource'
  <2>1. {leased'[w] : w \in Leasing'} = {leased[w] : w \in Leasing} \union {r}
    BY <1>2 DEF Leasing
  <2>2. r \notin Range(unused) /\ r \notin destroyed
    BY <1>1 DEF NoLostResource, TypeOK
  <2> QED BY <1>1, <2>1, <2>2 DEF NoLostResource
<1>9. ReturnNeverThrows'
  <2>1. \A w \in Using : leased'[w] = leased[w]
    BY <1>2 DEF Using, Leasing
  <2> QED BY <1>2, <2>1 DEF ReturnNeverThrows
<1> QED BY <1>3, <1>4, <1>6, <1>7, <1>8, <1>9

(* A create() that fails leaves its caller with nothing. *)
LEMMA CreateFailInv ==
  ASSUME IInv, NEW c \in Callers, CreateFail(c)
  PROVE  IInv'
<1> USE PoolAssumption DEF IInv, CreateFail
<1>1. Leasing' = Leasing /\ Using' = Using
  BY DEF TypeOK, Leasing, Using
<1>2. TypeOK'
  BY DEF TypeOK, CallStates
<1>3. LeasedIffHolding' /\ QueuedIffWaiting' /\ NoIdleWhileWaiting'
  BY <1>1 DEF LeasedIffHolding, QueuedIffWaiting, NoIdleWhileWaiting, TypeOK
<1>4. Exclusive' /\ NoUseAfterDestroy' /\ NoLostResource' /\ ReturnNeverThrows'
  BY <1>1 DEF Exclusive, NoUseAfterDestroy, NoLostResource, ReturnNeverThrows
<1> QED BY <1>2, <1>3, <1>4

(* inUse.add() after the await: the lease is already the caller's. *)
LEMMA ResumeInv ==
  ASSUME IInv, NEW c \in Callers, Resume(c)
  PROVE  IInv'
<1> USE PoolAssumption DEF IInv, Resume
<1>1. Leasing' = Leasing /\ Using' = Using \union {c}
  BY DEF TypeOK, Leasing, Using
<1>2. leased[c] \in Resources
  BY DEF LeasedIffHolding, Leasing, TypeOK
<1>3. TypeOK'
  BY <1>2 DEF TypeOK, CallStates
<1>4. LeasedIffHolding' /\ QueuedIffWaiting' /\ NoIdleWhileWaiting'
  BY <1>1 DEF LeasedIffHolding, QueuedIffWaiting, NoIdleWhileWaiting, TypeOK
<1>5. Exclusive' /\ NoUseAfterDestroy' /\ NoLostResource'
  BY <1>1 DEF Exclusive, NoUseAfterDestroy, NoLostResource
<1>6. ReturnNeverThrows'
  BY <1>1 DEF ReturnNeverThrows
<1> QED BY <1>3, <1>4, <1>5, <1>6
-----------------------------------------------------------------------------
(* return() *)

\* What a caller gives back was its own alone.
(* What a caller that calls return() holds, and that only it holds it. *)
LEMMA GivesBack ==
  ASSUME IInv, NEW c \in Callers, LeavesUse(c)
  PROVE  /\ c \in Leasing /\ c \in Using
         /\ leased[c] \in Resources /\ leased[c] # None
         /\ leased[c] \in created \ destroyed
         /\ leased[c] \notin Range(unused)
         /\ \A w \in Leasing \ {c} : leased[w] # leased[c]
         /\ inUse' = {leased[w] : w \in Using \ {c}}
<1> USE PoolAssumption DEF IInv, LeavesUse
<1>1. c \in Leasing /\ c \in Using
  BY DEF Leasing, Using
<1>2. leased[c] \in Resources /\ leased[c] # None
  BY <1>1 DEF LeasedIffHolding, TypeOK
<1>3. leased[c] \in created \ destroyed
  BY <1>1 DEF NoUseAfterDestroy
<1>4. leased[c] \notin Range(unused)
  BY <1>1 DEF NoLostResource
<1>5. \A w \in Leasing \ {c} : leased[w] # leased[c]
  BY <1>1 DEF Exclusive
<1>6. Using \subseteq Leasing
  BY DEF Using, Leasing
<1>7. inUse' = {leased[w] : w \in Using \ {c}}
  BY <1>1, <1>5, <1>6 DEF ReturnNeverThrows
<1> QED BY <1>1, <1>2, <1>3, <1>4, <1>5, <1>7

\* A hand-over keeps the invariant, whatever it does to closer.
(* return() may resolve the oldest waiting promise with the resource. *)
LEMMA HandOverInv ==
  ASSUME IInv, NEW c \in Callers, LeavesUse(c), HandOver(c),
         UNCHANGED <<unused, resourceCount, created, destroyed>>,
         closer' \in [Closers -> CloserStates]
  PROVE  IInv'
<1> USE PoolAssumption DEF IInv
<1> DEFINE w == Head(waiting)
           r == leased[c]
<1>1. /\ w \in Callers /\ waiting' \in Seq(Callers)
      /\ Range(waiting) = Range(waiting') \union {w}
      /\ IsInjective(waiting') /\ w \notin Range(waiting')
  BY ShiftFacts DEF HandOver, TypeOK, QueuedIffWaiting
<1>2. call[w] = "waiting" /\ w # c /\ w \notin Leasing /\ w \notin Using
  BY <1>1 DEF QueuedIffWaiting, LeavesUse, Leasing, Using
<1>3. /\ call' = [call EXCEPT ![c] = "idle", ![w] = "granted"]
      /\ leased' = [leased EXCEPT ![c] = None, ![w] = r]
  BY DEF HandOver
<1>4. /\ c \in Leasing /\ c \in Using
      /\ r \in Resources /\ r # None
      /\ r \in created \ destroyed
      /\ \A v \in Leasing \ {c} : leased[v] # r
      /\ inUse' = {leased[v] : v \in Using \ {c}}
  BY GivesBack
<1>5. /\ Leasing' = (Leasing \ {c}) \union {w}
      /\ Using' = Using \ {c}
      /\ leased'[w] = r /\ leased'[c] = None
      /\ \A v \in Callers \ {c, w} : leased'[v] = leased[v]
  BY <1>1, <1>2, <1>3 DEF TypeOK, Leasing, Using
<1>6. TypeOK'
  <2>1. inUse' \in SUBSET Resources
    BY DEF LeavesUse, TypeOK
  <2> QED BY <1>1, <1>3, <1>4, <2>1 DEF TypeOK, CallStates
<1>7. LeasedIffHolding'
  BY <1>1, <1>4, <1>5 DEF LeasedIffHolding, Leasing
<1>8. QueuedIffWaiting'
  <2>1. \A v \in Callers : call'[v] = "waiting" <=> call[v] = "waiting" /\ v # w
    BY <1>1, <1>2, <1>3 DEF TypeOK, LeavesUse
  <2> QED BY <1>1, <2>1 DEF QueuedIffWaiting
<1>9. Exclusive' /\ NoUseAfterDestroy'
  BY <1>4, <1>5 DEF Exclusive, NoUseAfterDestroy, Leasing
<1>10. NoIdleWhileWaiting'
  BY DEF NoIdleWhileWaiting, HandOver
<1>11. NoLostResource'
  <2>1. {leased'[v] : v \in Leasing'} = {leased[v] : v \in Leasing}
    BY <1>1, <1>2, <1>4, <1>5 DEF Leasing
  <2> QED BY <2>1 DEF NoLostResource
<1>12. ReturnNeverThrows'
  <2>1. \A v \in Using \ {c} : leased'[v] = leased[v]
    BY <1>2, <1>5 DEF Using
  <2> QED BY <1>4, <1>5, <2>1 DEF ReturnNeverThrows
<1> QED BY <1>6, <1>7, <1>8, <1>9, <1>10, <1>11, <1>12

\* What becomes of the calls when a resource goes back with nobody waiting.
(* What changes when the resource goes to nobody. *)
LEMMA ReleasesFacts ==
  ASSUME IInv, NEW c \in Callers, LeavesUse(c), Releases(c)
  PROVE  /\ Leasing' = Leasing \ {c} /\ Using' = Using \ {c}
         /\ \A v \in Callers \ {c} : leased'[v] = leased[v]
         /\ {leased[v] : v \in Leasing}
              = {leased'[v] : v \in Leasing'} \union {leased[c]}
         /\ leased[c] \notin {leased'[v] : v \in Leasing'}
         /\ call' \in [Callers -> CallStates]
         /\ leased' \in [Callers -> Resources \union {None}]
         /\ inUse' \in SUBSET Resources
         /\ LeasedIffHolding' /\ QueuedIffWaiting'
         /\ Exclusive' /\ ReturnNeverThrows'
<1> USE PoolAssumption DEF IInv, Releases
<1>1. /\ c \in Leasing /\ c \in Using
      /\ \A w \in Leasing \ {c} : leased[w] # leased[c]
      /\ inUse' = {leased[w] : w \in Using \ {c}}
  BY GivesBack DEF IInv
<1>2. /\ Leasing' = Leasing \ {c} /\ Using' = Using \ {c}
      /\ leased'[c] = None
      /\ \A v \in Callers \ {c} : leased'[v] = leased[v]
  BY DEF TypeOK, Leasing, Using
<1>3. /\ call' \in [Callers -> CallStates]
      /\ leased' \in [Callers -> Resources \union {None}]
  BY DEF TypeOK, CallStates
<1>4. inUse' \in SUBSET Resources
  BY DEF LeavesUse, TypeOK
<1>5. /\ {leased[v] : v \in Leasing}
           = {leased'[v] : v \in Leasing'} \union {leased[c]}
      /\ leased[c] \notin {leased'[v] : v \in Leasing'}
  BY <1>1, <1>2 DEF Leasing
<1>6. LeasedIffHolding' /\ Exclusive'
  BY <1>2 DEF LeasedIffHolding, Exclusive, Leasing
<1>7. QueuedIffWaiting'
  <2>1. \A v \in Callers : call'[v] = "waiting" <=> call[v] = "waiting"
    BY DEF TypeOK, LeavesUse
  <2> QED BY <2>1 DEF QueuedIffWaiting
<1>8. ReturnNeverThrows'
  <2>1. \A v \in Using \ {c} : leased'[v] = leased[v]
    BY <1>2 DEF Using
  <2> QED BY <1>1, <1>2, <2>1 DEF ReturnNeverThrows
<1> QED BY <1>2, <1>3, <1>4, <1>5, <1>6, <1>7, <1>8

\* The resource goes to the end of the unused list.
(* return() may put the resource on the unused list. *)
LEMMA ReleaseInv ==
  ASSUME IInv, NEW c \in Callers, LeavesUse(c), Releases(c),
         unused' = Append(unused, leased[c]),
         UNCHANGED <<resourceCount, created, destroyed>>,
         closer' \in [Closers -> CloserStates]
  PROVE  IInv'
<1> DEFINE r == leased[c]
<1>1. /\ r \in Resources /\ r \in created \ destroyed /\ r \notin Range(unused)
  BY GivesBack
<1>2. /\ Leasing' = Leasing \ {c}
      /\ \A v \in Callers \ {c} : leased'[v] = leased[v]
      /\ {leased[v] : v \in Leasing} = {leased'[v] : v \in Leasing'} \union {r}
      /\ r \notin {leased'[v] : v \in Leasing'}
  BY ReleasesFacts
<1>3. /\ call' \in [Callers -> CallStates]
      /\ leased' \in [Callers -> Resources \union {None}]
      /\ inUse' \in SUBSET Resources
      /\ LeasedIffHolding' /\ QueuedIffWaiting'
      /\ Exclusive' /\ ReturnNeverThrows'
  BY ReleasesFacts
<1> USE DEF IInv
<1>4. /\ unused' \in Seq(Resources) /\ IsInjective(unused')
      /\ Range(unused') = Range(unused) \union {r}
  BY <1>1, AppendFacts DEF TypeOK, NoLostResource
<1>5. TypeOK'
  BY <1>3, <1>4 DEF TypeOK, Releases
<1>6. NoUseAfterDestroy'
  BY <1>2 DEF NoUseAfterDestroy, Leasing
<1>7. NoIdleWhileWaiting'
  BY DEF NoIdleWhileWaiting, Releases
<1>8. NoLostResource'
  BY <1>1, <1>2, <1>4 DEF NoLostResource
<1> QED BY <1>3, <1>5, <1>6, <1>7, <1>8

\* The resource is destroyed at once with all that was idle.
(* return() and destroyAll() in one step may destroy it with the rest. *)
LEMMA ReleaseAndDestroyInv ==
  ASSUME IInv, NEW c \in Callers, LeavesUse(c), Releases(c),
         unused' = <<>>,
         destroyed' = destroyed \union Range(unused) \union {leased[c]},
         UNCHANGED <<resourceCount, created>>,
         closer' \in [Closers -> CloserStates]
  PROVE  IInv'
<1> DEFINE r == leased[c]
<1>1. /\ r \in Resources /\ r \in created \ destroyed /\ r \notin Range(unused)
  BY GivesBack
<1>2. /\ Leasing' = Leasing \ {c}
      /\ \A v \in Callers \ {c} : leased'[v] = leased[v]
      /\ {leased[v] : v \in Leasing} = {leased'[v] : v \in Leasing'} \union {r}
      /\ r \notin {leased'[v] : v \in Leasing'}
  BY ReleasesFacts
<1>3. /\ call' \in [Callers -> CallStates]
      /\ leased' \in [Callers -> Resources \union {None}]
      /\ inUse' \in SUBSET Resources
      /\ LeasedIffHolding' /\ QueuedIffWaiting'
      /\ Exclusive' /\ ReturnNeverThrows'
  BY ReleasesFacts
<1> USE DEF IInv
<1>4. Range(unused') = {} /\ IsInjective(unused') /\ unused' \in Seq(Resources)
  BY DEF Range, IsInjective
<1>5. Range(unused) \subseteq created
  BY DEF NoLostResource
<1>6. TypeOK'
  BY <1>1, <1>3, <1>4, <1>5 DEF TypeOK, Releases
<1>7. \A v \in Leasing' : leased'[v] \in {leased[x] : x \in Leasing}
  BY <1>2
<1>8. NoUseAfterDestroy'
  <2> SUFFICES ASSUME NEW v \in Leasing'
               PROVE  leased'[v] \in created' \ destroyed'
    BY DEF NoUseAfterDestroy
  <2>1. v \in Leasing /\ leased'[v] = leased[v] /\ leased[v] # r
    BY <1>2 DEF Leasing
  <2>2. leased[v] \in created \ destroyed /\ leased[v] \notin Range(unused)
    BY <2>1 DEF NoUseAfterDestroy, NoLostResource
  <2> QED BY <2>1, <2>2
<1>9. NoIdleWhileWaiting'
  BY DEF NoIdleWhileWaiting, Releases
<1>10. NoLostResource'
  BY <1>1, <1>2, <1>4 DEF NoLostResource
<1> QED BY <1>3, <1>6, <1>8, <1>9, <1>10

(* Telling the closers of an empty inUse keeps their states. *)
LEMMA EmittedType ==
  ASSUME TypeOK, NEW used
  PROVE  Emitted(used) \in [Closers -> CloserStates]
BY DEF TypeOK, Emitted, CloserStates

(* return() keeps the invariant, whoever gets the resource. *)
LEMMA ReturnInv ==
  ASSUME IInv, NEW c \in Callers, Return(c)
  PROVE  IInv'
<1>1. CASE ReturnToWaiter(c)
  BY <1>1, HandOverInv DEF ReturnToWaiter, IInv, TypeOK
<1>2. CASE ReturnToUnused(c)
  BY <1>2, ReleaseInv, EmittedType DEF ReturnToUnused, IInv
<1> QED BY <1>1, <1>2 DEF Return
-----------------------------------------------------------------------------
(* destroyAll() *)

\* A step that moves nothing but a destroyAll().
(* A step in which only a destroyAll() call moves on. *)
LEMMA CloserOnlyInv ==
  ASSUME IInv,
         UNCHANGED <<unused, inUse, resourceCount, waiting, call, leased,
                     created, destroyed>>,
         closer' \in [Closers -> CloserStates]
  PROVE  IInv'
<1> USE DEF IInv
<1>1. Leasing' = Leasing /\ Using' = Using
  BY DEF Leasing, Using
<1>2. TypeOK'
  BY DEF TypeOK
<1>3. LeasedIffHolding' /\ QueuedIffWaiting' /\ NoIdleWhileWaiting'
  BY <1>1 DEF LeasedIffHolding, QueuedIffWaiting, NoIdleWhileWaiting
<1>4. Exclusive' /\ NoUseAfterDestroy' /\ NoLostResource' /\ ReturnNeverThrows'
  BY <1>1 DEF Exclusive, NoUseAfterDestroy, NoLostResource, ReturnNeverThrows
<1> QED BY <1>2, <1>3, <1>4

\* Whatever is idle is destroyed; leases are not affected.
(* destroyAll() destroys what is idle, which is on nobody's lease. *)
LEMMA DestroyUnusedInv ==
  ASSUME IInv, NEW d \in Closers, DestroyUnused(d),
         UNCHANGED <<inUse, resourceCount, waiting, call, leased, created>>
  PROVE  IInv'
<1> USE DEF IInv, DestroyUnused
<1>1. Leasing' = Leasing /\ Using' = Using
  BY DEF Leasing, Using
<1>2. Range(unused') = {} /\ IsInjective(unused') /\ unused' \in Seq(Resources)
  BY DEF Range, IsInjective
<1>3. Range(unused) \subseteq created
  BY DEF NoLostResource
<1>4. TypeOK'
  BY <1>2, <1>3 DEF TypeOK, CloserStates
<1>5. LeasedIffHolding' /\ QueuedIffWaiting' /\ Exclusive' /\ ReturnNeverThrows'
  BY <1>1 DEF LeasedIffHolding, QueuedIffWaiting, Exclusive, ReturnNeverThrows
<1>6. NoUseAfterDestroy'
  BY <1>1 DEF NoUseAfterDestroy, NoLostResource
<1>7. NoIdleWhileWaiting'
  BY DEF NoIdleWhileWaiting
<1>8. NoLostResource'
  BY <1>1, <1>2 DEF NoLostResource
<1> QED BY <1>4, <1>5, <1>6, <1>7, <1>8

\* With a caller waiting nothing is idle: destroyAll() finds nothing to close.
(* While somebody waits, return() followed by destroyAll() destroys nothing. *)
LEMMA NothingIdle ==
  ASSUME IInv, waiting # <<>>
  PROVE  unused = <<>> /\ Range(unused) = {}
BY DEF IInv, NoIdleWhileWaiting, Range

(* The return() and destroyAll() that end() calls without an await between. *)
LEMMA ReturnAndDestroyAllInv ==
  ASSUME IInv, NEW c \in Callers, NEW d \in Closers, ReturnAndDestroyAll(c, d)
  PROVE  IInv'
<1>1. LeavesUse(c) /\ UNCHANGED <<resourceCount, created>>
  BY DEF ReturnAndDestroyAll
<1>2. /\ [closer EXCEPT ![d] = "closing"] \in [Closers -> CloserStates]
      /\ [closer EXCEPT ![d] = "awaiting"] \in [Closers -> CloserStates]
      /\ [Emitted({}) EXCEPT ![d] = "closing"] \in [Closers -> CloserStates]
  BY EmittedType DEF IInv, TypeOK, CloserStates
<1>3. CASE HandOver(c) /\ inUse' = {} /\ DestroyUnused(d)
  <2>1. unused' = unused /\ destroyed' = destroyed
    BY <1>3, NothingIdle DEF HandOver, DestroyUnused
  <2>2. closer' \in [Closers -> CloserStates]
    BY <1>2, <1>3 DEF DestroyUnused
  <2> QED BY <1>1, <1>3, <2>1, <2>2, HandOverInv
<1>4. CASE /\ HandOver(c) /\ inUse' # {}
           /\ closer' = [closer EXCEPT ![d] = "awaiting"]
           /\ UNCHANGED <<unused, destroyed>>
  BY <1>1, <1>2, <1>4, HandOverInv
<1>5. CASE /\ Releases(c) /\ inUse' = {}
           /\ closer' = [Emitted({}) EXCEPT ![d] = "closing"]
           /\ destroyed' = destroyed \union Range(unused) \union {leased[c]}
           /\ unused' = <<>>
  BY <1>1, <1>2, <1>5, ReleaseAndDestroyInv
<1>6. CASE /\ Releases(c) /\ inUse' # {}
           /\ closer' = [closer EXCEPT ![d] = "awaiting"]
           /\ unused' = Append(unused, leased[c])
           /\ UNCHANGED destroyed
  BY <1>1, <1>2, <1>6, ReleaseInv
<1> QED BY <1>3, <1>4, <1>5, <1>6 DEF ReturnAndDestroyAll

(* Every step keeps the invariant. *)
LEMMA NextInv == IInv /\ [Next]_poolVars => IInv'
<1> SUFFICES ASSUME IInv, [Next]_poolVars PROVE IInv'
  OBVIOUS
<1>1. ASSUME NEW c \in Callers, Get(c)
      PROVE  IInv'
  BY <1>1, TakeUnusedInv, StartCreateInv, EnqueueInv DEF Get
<1>2. ASSUME NEW c \in Callers, CreateOk(c) \/ CreateFail(c)
      PROVE  IInv'
  BY <1>2, CreateOkInv, CreateFailInv
<1>3. ASSUME NEW c \in Callers, Resume(c)
      PROVE  IInv'
  BY <1>3, ResumeInv
<1>4. ASSUME NEW c \in Callers, Return(c)
      PROVE  IInv'
  BY <1>4, ReturnInv
<1>5. ASSUME NEW d \in Closers, DestroyAll(d)
      PROVE  IInv'
  <2>1. CASE DestroyAllNow(d)
    BY <2>1, DestroyUnusedInv DEF DestroyAllNow
  <2>2. CASE DestroyAllLater(d)
    BY <2>2, CloserOnlyInv DEF DestroyAllLater, IInv, TypeOK, CloserStates
  <2> QED BY <1>5, <2>1, <2>2 DEF DestroyAll
<1>6. ASSUME NEW d \in Closers, DestroyResume(d)
      PROVE  IInv'
  BY <1>6, DestroyUnusedInv DEF DestroyResume
<1>7. ASSUME NEW d \in Closers, DestroyDone(d)
      PROVE  IInv'
  BY <1>7, CloserOnlyInv DEF DestroyDone, IInv, TypeOK, CloserStates
<1>8. ASSUME NEW c \in Callers, NEW d \in Closers, ReturnAndDestroyAll(c, d)
      PROVE  IInv'
  BY <1>8, ReturnAndDestroyAllInv
<1>9. CASE UNCHANGED poolVars
  BY <1>9, CloserOnlyInv DEF poolVars, IInv, TypeOK
<1> QED BY <1>1, <1>2, <1>3, <1>4, <1>5, <1>6, <1>7, <1>8, <1>9 DEF Next

(* The invariant holds for ever. *)
LEMMA Invariant == Spec => []IInv
<1>1. Init => IInv
  BY InitInv
<1>2. IInv /\ [Next]_poolVars => IInv'
  BY NextInv
<1> QED BY <1>1, <1>2, PTL DEF Spec
-----------------------------------------------------------------------------
(* The pool's variables keep their types; in particular resourceCount stays *)
(* at or below the limit given to the constructor.                          *)
THEOREM TypeCorrect == Spec => []TypeOK
<1>1. IInv => TypeOK
  BY DEF IInv
<1> QED BY <1>1, Invariant, PTL

(* No two calls hold one resource, however get() and return() interleave    *)
(* with the continuations of other calls.                                   *)
THEOREM ExclusiveUse == Spec => []Exclusive
<1>1. IInv => Exclusive
  BY DEF IInv
<1> QED BY <1>1, Invariant, PTL

(* destroyAll() never closes a resource under a call that holds it.         *)
THEOREM NeverUsedDestroyed == Spec => []NoUseAfterDestroy
<1>1. IInv => NoUseAfterDestroy
  BY DEF IInv
<1> QED BY <1>1, Invariant, PTL

(* return() and destroyAll() never leave an idle resource next to a waiting *)
(* caller.                                                                  *)
THEOREM NothingIdleWhileWaiting == Spec => []NoIdleWhileWaiting
<1>1. IInv => NoIdleWhileWaiting
  BY DEF IInv
<1> QED BY <1>1, Invariant, PTL

(* A resource create() made is idle, on lease or destroyed, and only one of *)
(* the three.                                                               *)
THEOREM NothingLost == Spec => []NoLostResource
<1>1. IInv => NoLostResource
  BY DEF IInv
<1> QED BY <1>1, Invariant, PTL

(* A caller that returns what get() gave it is never told that the resource *)
(* does not belong to the pool.                                             *)
THEOREM ReturnSucceeds == Spec => []ReturnNeverThrows
<1>1. IInv => ReturnNeverThrows
  BY DEF IInv
<1> QED BY <1>1, Invariant, PTL

(* While somebody waits, a resource that comes back goes to whoever has     *)
(* waited longest: neither a newcomer nor a later caller is granted one.    *)
THEOREM FirstComeFirstServed == Spec => NoOvertaking
<1> DEFINE Fair == \A c \in Callers :
             waiting # <<>> /\ call[c] # "granted" /\ call'[c] = "granted"
               => call[c] = "creating" \/ c = Head(waiting)
<1>1. IInv /\ [Next]_poolVars => [Fair]_poolVars
  <2> SUFFICES ASSUME IInv, Next,
                      NEW c \in Callers, waiting # <<>>,
                      call[c] # "granted", call'[c] = "granted"
               PROVE  call[c] = "creating" \/ c = Head(waiting)
    OBVIOUS
  <2>1. unused = <<>> /\ call \in [Callers -> CallStates]
    BY DEF IInv, NoIdleWhileWaiting, TypeOK
  <2>2. ASSUME NEW v \in Callers,
               Get(v) \/ CreateOk(v) \/ CreateFail(v) \/ Resume(v)
        PROVE  call[c] = "creating"
    BY <2>1, <2>2 DEF Get, TakeUnused, StartCreate, Enqueue, CreateOk,
                      CreateFail, Resume
  <2>3. ASSUME NEW v \in Callers, HandOver(v) \/ Releases(v)
        PROVE  c = Head(waiting)
    BY <2>1, <2>3 DEF HandOver, Releases
  <2>4. ASSUME NEW d \in Closers,
               DestroyAll(d) \/ DestroyResume(d) \/ DestroyDone(d)
        PROVE  FALSE
    BY <2>4 DEF DestroyAll, DestroyAllNow, DestroyAllLater, DestroyResume,
                DestroyDone
  <2> QED BY <2>2, <2>3, <2>4 DEF Next, Return, ReturnToWaiter,
                                  ReturnToUnused, ReturnAndDestroyAll
<1>2. Spec => [][Fair]_poolVars
  BY <1>1, Invariant, PTL DEF Spec
<1> QED BY <1>2 DEF NoOvertaking
-----------------------------------------------------------------------------
(* The pool implements ResourceLease. *)

\* A lease to at most one call each.
IsLease(lease) ==
  /\ lease \in [Callers -> Resources \union {None}]
  /\ \A c, w \in Callers : lease[c] = lease[w] /\ lease[c] # None => c = w

(* No resource is leased twice, so leased can be inverted. *)
LEMMA LeasedIsLease == IInv => IsLease(leased)
BY DEF IInv, TypeOK, LeasedIffHolding, Exclusive, IsLease

\* What Holder reads off a lease.
LEMMA HolderFacts ==
  ASSUME NEW lease, IsLease(lease), NEW r \in Resources
  PROVE  /\ Holder(lease)[r] \in Callers \union {None}
         /\ \A c \in Callers : Holder(lease)[r] = c <=> lease[c] = r
<1> USE PoolAssumption DEF IsLease, Holder
<1>1. CASE \E c \in Callers : lease[c] = r
  <2>1. PICK c \in Callers : lease[c] = r
    BY <1>1
  <2>2. \A w \in Callers : lease[w] = r => w = c
    BY <2>1
  <2>3. (CHOOSE w \in Callers : lease[w] = r) = c
    BY <2>1, <2>2
  <2>4. Holder(lease)[r] = c
    BY <1>1, <2>3
  <2> QED BY <2>1, <2>2, <2>4
<1>2. CASE ~ \E c \in Callers : lease[c] = r
  <2>1. Holder(lease)[r] = None
    BY <1>2
  <2> QED BY <1>2, <2>1
<1> QED BY <1>1, <1>2

\* A call that held nothing gets a resource that nobody held.
(* The inverse of a lease when an idle or new resource is granted. *)
LEMMA HolderGains ==
  ASSUME NEW lease, IsLease(lease), NEW c \in Callers, NEW r \in Resources,
         lease[c] = None, \A w \in Callers : lease[w] # r
  PROVE  /\ \A s \in Resources : Holder(lease)[s] # c
         /\ Holder(lease)[r] = None
         /\ Holder([lease EXCEPT ![c] = r]) = [Holder(lease) EXCEPT ![r] = c]
<1> USE PoolAssumption
<1> DEFINE new == [lease EXCEPT ![c] = r]
<1>1. IsLease(new)
  BY DEF IsLease
<1>2. \A s \in Resources : Holder(lease)[s] # c
  BY HolderFacts
<1>3. Holder(lease)[r] = None
  BY HolderFacts
<1>4. ASSUME NEW s \in Resources
      PROVE  Holder(new)[s] = IF s = r THEN c ELSE Holder(lease)[s]
  <2>1. \A w \in Callers : new[w] = IF w = c THEN r ELSE lease[w]
    BY DEF IsLease
  <2> HIDE DEF new
  <2>2. /\ Holder(new)[s] \in Callers \union {None}
        /\ \A w \in Callers : Holder(new)[s] = w <=> new[w] = s
    BY <1>1, HolderFacts
  <2>3. /\ Holder(lease)[s] \in Callers \union {None}
        /\ \A w \in Callers : Holder(lease)[s] = w <=> lease[w] = s
    BY HolderFacts
  <2> QED BY <2>1, <2>2, <2>3
<1>5. Holder(new) = [Holder(lease) EXCEPT ![r] = c]
  BY <1>4 DEF Holder
<1> QED BY <1>2, <1>3, <1>5

\* A call gives up what it held.
(* The inverse of a lease when a resource is given back. *)
LEMMA HolderLoses ==
  ASSUME NEW lease, IsLease(lease), NEW c \in Callers, NEW r \in Resources,
         lease[c] = r
  PROVE  /\ Holder(lease)[r] = c
         /\ Holder([lease EXCEPT ![c] = None])
              = [Holder(lease) EXCEPT ![r] = None]
<1> USE PoolAssumption
<1> DEFINE new == [lease EXCEPT ![c] = None]
<1>1. IsLease(new)
  BY DEF IsLease
<1>2. Holder(lease)[r] = c
  BY HolderFacts
<1>3. ASSUME NEW s \in Resources
      PROVE  Holder(new)[s] = IF s = r THEN None ELSE Holder(lease)[s]
  <2>1. \A w \in Callers : new[w] = IF w = c THEN None ELSE lease[w]
    BY DEF IsLease
  <2> HIDE DEF new
  <2>2. /\ Holder(new)[s] \in Callers \union {None}
        /\ \A w \in Callers : Holder(new)[s] = w <=> new[w] = s
    BY <1>1, HolderFacts
  <2>3. /\ Holder(lease)[s] \in Callers \union {None}
        /\ \A w \in Callers : Holder(lease)[s] = w <=> lease[w] = s
    BY HolderFacts
  <2>4. \A w \in Callers : lease[w] = r => w = c
    BY DEF IsLease
  <2> QED BY <2>1, <2>2, <2>3, <2>4
<1>4. Holder(new) = [Holder(lease) EXCEPT ![r] = None]
  BY <1>3 DEF Holder
<1> QED BY <1>2, <1>4

\* One caller's resource passes to a caller that held nothing.
(* The inverse of a lease when a resource is handed over. *)
LEMMA HolderPasses ==
  ASSUME NEW lease, IsLease(lease), NEW c \in Callers, NEW w \in Callers,
         NEW r \in Resources, lease[c] = r, lease[w] = None
  PROVE  /\ Holder(lease)[r] = c
         /\ \A s \in Resources : Holder(lease)[s] # w
         /\ Holder([lease EXCEPT ![c] = None, ![w] = r])
              = [Holder(lease) EXCEPT ![r] = w]
<1> USE PoolAssumption
<1> DEFINE mid == [lease EXCEPT ![c] = None]
<1>1. IsLease(mid) /\ mid[w] = None /\ \A v \in Callers : mid[v] # r
  BY DEF IsLease
<1>2. [lease EXCEPT ![c] = None, ![w] = r] = [mid EXCEPT ![w] = r]
  BY DEF IsLease
<1>3. /\ Holder(lease)[r] = c
      /\ Holder(mid) = [Holder(lease) EXCEPT ![r] = None]
  BY HolderLoses
<1> HIDE DEF mid
<1>4. Holder([mid EXCEPT ![w] = r]) = [Holder(mid) EXCEPT ![r] = w]
  BY <1>1, HolderGains
<1>5. [Holder(mid) EXCEPT ![r] = w] = [Holder(lease) EXCEPT ![r] = w]
  BY <1>3 DEF Holder
<1>6. \A s \in Resources : Holder(lease)[s] # w
  BY HolderFacts
<1> QED BY <1>2, <1>3, <1>4, <1>5, <1>6

\* What is not on lease can be destroyed.
(* What destroyAll() destroys is alive and held by nobody. *)
LEMMA DestroySimulates ==
  ASSUME IInv, NEW d \in Closers, DestroyUnused(d), UNCHANGED <<created, leased>>
  PROVE  Lease!Destroy(Range(unused))
<1>1. \A r \in Range(unused) : /\ r \in Resources /\ r \in created \ destroyed
                               /\ \A c \in Callers : leased[c] # r
  <2> TAKE r \in Range(unused)
  <2>1. r \in created /\ r \notin destroyed
    BY DEF IInv, NoLostResource
  <2>2. r \in Resources
    BY <2>1 DEF IInv, TypeOK
  <2>3. \A c \in Callers : leased[c] # r
    BY <2>2, PoolAssumption DEF IInv, NoLostResource, LeasedIffHolding
  <2> QED BY <2>1, <2>2, <2>3
<1>2. \A r \in Range(unused) : Holder(leased)[r] = None
  BY <1>1, LeasedIsLease, HolderFacts
<1>3. \A r \in Range(unused) : Life(created, destroyed)[r] = "live"
  BY <1>1 DEF Life
<1>4. Life(created', destroyed')
        = [r \in Resources |-> IF r \in Range(unused) THEN "gone"
                               ELSE Life(created, destroyed)[r]]
  BY DEF DestroyUnused, Life
<1> QED BY <1>2, <1>3, <1>4 DEF Lease!Destroy

(* A return() without a waiting caller gives the resource back. *)
LEMMA GiveBackSimulates ==
  ASSUME IInv, NEW c \in Callers, LeavesUse(c), Releases(c),
         UNCHANGED <<created, destroyed>>
  PROVE  Lease!GiveBack(c, leased[c])
<1>1. leased[c] \in Resources
  BY GivesBack
<1>2. /\ Holder(leased)[leased[c]] = c
      /\ Holder([leased EXCEPT ![c] = None])
           = [Holder(leased) EXCEPT ![leased[c]] = None]
  BY <1>1, LeasedIsLease, HolderLoses
<1> QED BY <1>2 DEF Releases, Lease!GiveBack

(* A return() with a waiting caller passes the resource on. *)
LEMMA PassOnSimulates ==
  ASSUME IInv, NEW c \in Callers, LeavesUse(c), HandOver(c),
         UNCHANGED <<created, destroyed>>
  PROVE  /\ Head(waiting) \in Callers
         /\ Lease!PassOn(c, Head(waiting), leased[c])
<1> DEFINE w == Head(waiting)
<1>1. leased[c] \in Resources
  BY GivesBack
<1>2. w \in Callers /\ w \in Range(waiting)
  BY ShiftFacts DEF HandOver, IInv, TypeOK
<1>3. leased[w] = None
  BY <1>2 DEF IInv, QueuedIffWaiting, LeasedIffHolding, Leasing
<1>4. /\ Holder(leased)[leased[c]] = c
      /\ \A s \in Resources : Holder(leased)[s] # w
      /\ Holder([leased EXCEPT ![c] = None, ![w] = leased[c]])
           = [Holder(leased) EXCEPT ![leased[c]] = w]
  BY <1>1, <1>2, <1>3, LeasedIsLease, HolderPasses
<1> QED BY <1>2, <1>4 DEF HandOver, Lease!PassOn, Lease!HoldsNothing

(* get() grants a resource or changes no lease. *)
LEMMA GetSimulates ==
  ASSUME IInv, NEW c \in Callers, Get(c)
  PROVE  [Lease!Next]_(Lease!leaseVars)
<1>1. CASE TakeUnused(c)
  <2> DEFINE r == Head(unused)
  <2>1. r \in Resources /\ r \in Range(unused)
    BY <1>1, ShiftFacts DEF TakeUnused, IInv, TypeOK
  <2>2. r \in created \ destroyed /\ \A w \in Callers : leased[w] # r
    BY <2>1, PoolAssumption DEF IInv, NoLostResource, LeasedIffHolding
  <2>3. leased[c] = None /\ leased' = [leased EXCEPT ![c] = r]
    BY <1>1 DEF TakeUnused, IInv, LeasedIffHolding, Leasing
  <2>4. /\ \A s \in Resources : Holder(leased)[s] # c
        /\ Holder(leased)[r] = None
        /\ Holder(leased') = [Holder(leased) EXCEPT ![r] = c]
    BY <2>1, <2>2, <2>3, LeasedIsLease, HolderGains
  <2>5. Life(created, destroyed)[r] = "live"
        /\ Life(created', destroyed') = Life(created, destroyed)
    BY <1>1, <2>1, <2>2 DEF Life, TakeUnused
  <2>6. Lease!Lend(c, r)
    BY <2>4, <2>5 DEF Lease!Lend, Lease!HoldsNothing
  <2> QED BY <2>1, <2>6 DEF Lease!Next
<1>2. CASE StartCreate(c) \/ Enqueue(c)
  BY <1>2 DEF StartCreate, Enqueue, Lease!leaseVars
<1> QED BY <1>1, <1>2 DEF Get

(* create() makes a resource for its caller or changes no lease. *)
LEMMA CreateSimulates ==
  ASSUME IInv, NEW c \in Callers, CreateOk(c) \/ CreateFail(c)
  PROVE  [Lease!Next]_(Lease!leaseVars)
<1>1. CASE CreateOk(c)
  <2>1. PICK r \in Resources \ created :
          created' = created \union {r} /\ leased' = [leased EXCEPT ![c] = r]
    BY <1>1 DEF CreateOk
  <2>2. leased[c] = None /\ \A w \in Callers : leased[w] # r
    BY <1>1, <2>1, PoolAssumption
    DEF CreateOk, IInv, LeasedIffHolding, Leasing, NoUseAfterDestroy
  <2>3. /\ \A s \in Resources : Holder(leased)[s] # c
        /\ Holder(leased') = [Holder(leased) EXCEPT ![r] = c]
    BY <2>1, <2>2, LeasedIsLease, HolderGains
  <2>4. /\ destroyed' = destroyed /\ destroyed \subseteq created
    BY <1>1 DEF CreateOk, IInv, TypeOK
  <2>5. /\ Life(created, destroyed)[r] = "absent"
        /\ Life(created', destroyed')
             = [Life(created, destroyed) EXCEPT ![r] = "live"]
    BY <2>1, <2>4 DEF Life
  <2>6. Lease!Make(c, r)
    BY <2>3, <2>5 DEF Lease!Make, Lease!HoldsNothing
  <2> QED BY <2>6 DEF Lease!Next
<1>2. CASE CreateFail(c)
  BY <1>2 DEF CreateFail, Lease!leaseVars
<1> QED BY <1>1, <1>2

(* return() gives back or passes on. *)
LEMMA ReturnSimulates ==
  ASSUME IInv, NEW c \in Callers, Return(c)
  PROVE  [Lease!Next]_(Lease!leaseVars)
<1>1. CASE ReturnToWaiter(c)
  <2>1. Lease!PassOn(c, Head(waiting), leased[c]) /\ Head(waiting) \in Callers
    BY <1>1, PassOnSimulates DEF ReturnToWaiter
  <2>2. leased[c] \in Resources
    BY <1>1, GivesBack DEF ReturnToWaiter
  <2> QED BY <2>1, <2>2 DEF Lease!Next
<1>2. CASE ReturnToUnused(c)
  <2>1. Lease!GiveBack(c, leased[c])
    BY <1>2, GiveBackSimulates DEF ReturnToUnused
  <2>2. leased[c] \in Resources
    BY <1>2, GivesBack DEF ReturnToUnused
  <2> QED BY <2>1, <2>2 DEF Lease!Next
<1> QED BY <1>1, <1>2 DEF Return

(* So does return() followed by destroyAll(), which then destroys too. *)
LEMMA ReturnAndDestroyAllSimulates ==
  ASSUME IInv, NEW c \in Callers, NEW d \in Closers, ReturnAndDestroyAll(c, d)
  PROVE  [Lease!Next]_(Lease!leaseVars)
<1> DEFINE r == leased[c]
           S == Range(unused) \union {r}
<1>1. LeavesUse(c) /\ created' = created
  BY DEF ReturnAndDestroyAll
<1>2. r \in Resources /\ r \in created \ destroyed
  BY <1>1, GivesBack
<1>3. CASE HandOver(c)
  <2>1. destroyed' = destroyed
    BY <1>3, NothingIdle DEF ReturnAndDestroyAll, HandOver, Releases,
                             DestroyUnused
  <2>2. Lease!PassOn(c, Head(waiting), r) /\ Head(waiting) \in Callers
    BY <1>1, <1>3, <2>1, PassOnSimulates
  <2> QED BY <1>2, <2>2 DEF Lease!Next
<1>4. CASE Releases(c) /\ destroyed' = destroyed
  <2>1. Lease!GiveBack(c, r)
    BY <1>1, <1>4, GiveBackSimulates
  <2> QED BY <1>2, <2>1 DEF Lease!Next
<1>5. CASE Releases(c) /\ destroyed' = destroyed \union Range(unused) \union {r}
  <2>1. /\ Holder(leased)[r] = c
        /\ Holder(leased') = [Holder(leased) EXCEPT ![r] = None]
    BY <1>2, <1>5, LeasedIsLease, HolderLoses DEF Releases
  <2>2. \A s \in Range(unused) : /\ s \in Resources /\ s \in created \ destroyed
                                 /\ \A w \in Callers : leased[w] # s
    <3> TAKE s \in Range(unused)
    <3>1. s \in created /\ s \notin destroyed /\ s \in Resources
      BY DEF IInv, NoLostResource, TypeOK
    <3>2. \A w \in Callers : leased[w] # s
      BY <3>1, PoolAssumption DEF IInv, NoLostResource, LeasedIffHolding
    <3> QED BY <3>1, <3>2
  <2>3. \A s \in S : /\ Life(created, destroyed)[s] = "live"
                     /\ Holder(leased)[s] \in {c, None}
    <3>1. \A s \in S : Life(created, destroyed)[s] = "live"
      BY <1>2, <2>2 DEF Life
    <3>2. \A s \in Range(unused) : Holder(leased)[s] = None
      BY <2>2, LeasedIsLease, HolderFacts
    <3> QED BY <2>1, <3>1, <3>2
  <2>4. Life(created', destroyed')
          = [s \in Resources |-> IF s \in S THEN "gone"
                                 ELSE Life(created, destroyed)[s]]
    BY <1>1, <1>5 DEF Life
  <2>5. Lease!GiveBackAndDestroy(c, r, S)
    BY <2>1, <2>3, <2>4 DEF Lease!GiveBackAndDestroy
  <2>6. S \in SUBSET Resources
    BY <1>2, <2>2
  <2> HIDE DEF S
  <2> QED BY <1>2, <2>5, <2>6 DEF Lease!Next
<1> QED BY <1>3, <1>4, <1>5 DEF ReturnAndDestroyAll

(* Every step of the pool is a step of ResourceLease or changes nothing in it. *)
LEMMA StepSimulates == IInv /\ [Next]_poolVars => [Lease!Next]_(Lease!leaseVars)
<1> SUFFICES ASSUME IInv, [Next]_poolVars
             PROVE  [Lease!Next]_(Lease!leaseVars)
  OBVIOUS
<1>1. ASSUME NEW c \in Callers, Get(c)
      PROVE  [Lease!Next]_(Lease!leaseVars)
  BY <1>1, GetSimulates
<1>2. ASSUME NEW c \in Callers, CreateOk(c) \/ CreateFail(c)
      PROVE  [Lease!Next]_(Lease!leaseVars)
  BY <1>2, CreateSimulates
<1>3. ASSUME NEW c \in Callers, Resume(c)
      PROVE  [Lease!Next]_(Lease!leaseVars)
  BY <1>3 DEF Resume, Lease!leaseVars
<1>4. ASSUME NEW c \in Callers, Return(c)
      PROVE  [Lease!Next]_(Lease!leaseVars)
  BY <1>4, ReturnSimulates
<1>5. ASSUME NEW d \in Closers,
             DestroyUnused(d), UNCHANGED <<created, leased>>
      PROVE  [Lease!Next]_(Lease!leaseVars)
  <2>1. Lease!Destroy(Range(unused))
    BY <1>5, DestroySimulates
  <2>2. Range(unused) \in SUBSET Resources
    BY DEF IInv, NoLostResource, TypeOK
  <2> QED BY <2>1, <2>2 DEF Lease!Next
<1>6. ASSUME NEW d \in Closers,
             DestroyAll(d) \/ DestroyResume(d) \/ DestroyDone(d)
      PROVE  [Lease!Next]_(Lease!leaseVars)
  <2>1. CASE DestroyAllNow(d) \/ DestroyResume(d)
    BY <2>1, <1>5 DEF DestroyAllNow, DestroyResume
  <2>2. CASE DestroyAllLater(d) \/ DestroyDone(d)
    BY <2>2 DEF DestroyAllLater, DestroyDone, Lease!leaseVars
  <2> QED BY <1>6, <2>1, <2>2 DEF DestroyAll
<1>7. ASSUME NEW c \in Callers, NEW d \in Closers, ReturnAndDestroyAll(c, d)
      PROVE  [Lease!Next]_(Lease!leaseVars)
  BY <1>7, ReturnAndDestroyAllSimulates
<1>8. CASE UNCHANGED poolVars
  BY <1>8 DEF poolVars, Lease!leaseVars
<1> QED BY <1>1, <1>2, <1>3, <1>4, <1>6, <1>7, <1>8 DEF Next

(* The pool implements ResourceLease: each of its steps makes, lends, passes *)
(* on, takes back or destroys resources as that specification allows, or is  *)
(* invisible to it.                                                          *)
THEOREM ImplementsLease == Spec => LeaseSpec
<1>1. Init => Lease!Init
  <2> SUFFICES ASSUME Init PROVE Lease!Init
    OBVIOUS
  <2>1. Life(created, destroyed) = [r \in Resources |-> "absent"]
    BY DEF Init, Life
  <2>2. \A r \in Resources, c \in Callers : leased[c] # r
    BY PoolAssumption DEF Init
  <2>3. Holder(leased) = [r \in Resources |-> None]
    BY <2>2 DEF Holder
  <2> QED BY <2>1, <2>3 DEF Lease!Init
<1>2. IInv /\ [Next]_poolVars => [Lease!Next]_(Lease!leaseVars)
  BY StepSimulates
<1> QED BY <1>1, <1>2, Invariant, PTL DEF Spec, LeaseSpec, Lease!Spec
-----------------------------------------------------------------------------
(* The count.  The sets are finite because one step adds one element.      *)

Counted ==
  /\ IsFiniteSet(created) /\ IsFiniteSet(Creating)
  /\ WithinLimit

(* Every step keeps the count of what is made and being made. *)
LEMMA CountedNext == IInv /\ Counted /\ [Next]_poolVars => Counted'
<1> SUFFICES ASSUME IInv, Counted, [Next]_poolVars PROVE Counted'
  OBVIOUS
<1>1. /\ IsFiniteSet(created) /\ Cardinality(created) \in Nat
      /\ IsFiniteSet(Creating) /\ Cardinality(Creating) \in Nat
      /\ Cardinality(created) + Cardinality(Creating) <= resourceCount
      /\ resourceCount \in Nat
      /\ call \in [Callers -> CallStates]
  BY PoolAssumption, FS_CardinalityType DEF Counted, WithinLimit, IInv, TypeOK
<1>2. ASSUME created' = created, Creating' = Creating,
             resourceCount' = resourceCount
      PROVE  Counted'
  BY <1>2 DEF Counted, WithinLimit
<1>3. ASSUME NEW c \in Callers, StartCreate(c)
      PROVE  Counted'
  <2>1. Creating' = Creating \union {c} /\ c \notin Creating
    BY <1>1, <1>3 DEF StartCreate, Creating
  <2>2. IsFiniteSet(Creating') /\ Cardinality(Creating') = Cardinality(Creating) + 1
    BY <1>1, <2>1, FS_AddElement
  <2> QED BY <1>1, <1>3, <2>2 DEF StartCreate, Counted, WithinLimit
<1>4. ASSUME NEW c \in Callers, call[c] = "creating", call'[c] # "creating",
             \A v \in Callers \ {c} : call'[v] = call[v]
      PROVE  /\ IsFiniteSet(Creating')
             /\ Cardinality(Creating') = Cardinality(Creating) - 1
  <2>1. Creating' = Creating \ {c} /\ c \in Creating
    BY <1>4 DEF Creating
  <2> QED BY <1>1, <2>1, FS_RemoveElement
<1>5. ASSUME NEW c \in Callers, CreateOk(c)
      PROVE  Counted'
  <2>1. PICK r \in Resources \ created : created' = created \union {r}
    BY <1>5 DEF CreateOk
  <2>2. IsFiniteSet(created') /\ Cardinality(created') = Cardinality(created) + 1
    BY <1>1, <2>1, FS_AddElement
  <2>3. IsFiniteSet(Creating') /\ Cardinality(Creating') = Cardinality(Creating) - 1
    BY <1>1, <1>4, <1>5 DEF CreateOk
  <2> QED BY <1>1, <1>5, <2>2, <2>3 DEF CreateOk, Counted, WithinLimit
<1>6. ASSUME NEW c \in Callers, CreateFail(c)
      PROVE  Counted'
  <2>1. IsFiniteSet(Creating') /\ Cardinality(Creating') = Cardinality(Creating) - 1
    BY <1>1, <1>4, <1>6 DEF CreateFail
  <2> QED BY <1>1, <1>6, <2>1 DEF CreateFail, Counted, WithinLimit
<1>7. ASSUME NEW c \in Callers, TakeUnused(c) \/ Enqueue(c) \/ Resume(c)
      PROVE  Counted'
  <2>1. Creating' = Creating
    BY <1>1, <1>7 DEF TakeUnused, Enqueue, Resume, Creating
  <2> QED BY <1>2, <1>7, <2>1 DEF TakeUnused, Enqueue, Resume
<1>8. ASSUME NEW c \in Callers, LeavesUse(c), HandOver(c) \/ Releases(c)
      PROVE  Creating' = Creating
  <2>1. CASE HandOver(c)
    <3>1. Head(waiting) \in Callers /\ call[Head(waiting)] = "waiting"
      BY <2>1, ShiftFacts DEF HandOver, IInv, TypeOK, QueuedIffWaiting
    <3> QED BY <1>1, <1>8, <2>1, <3>1 DEF HandOver, LeavesUse, Creating
  <2>2. CASE Releases(c)
    BY <1>1, <1>8, <2>2 DEF Releases, LeavesUse, Creating
  <2> QED BY <1>8, <2>1, <2>2
<1>9. ASSUME NEW c \in Callers, Return(c)
      PROVE  Counted'
  BY <1>2, <1>8, <1>9 DEF Return, ReturnToWaiter, ReturnToUnused
<1>10. ASSUME NEW d \in Closers,
              DestroyAll(d) \/ DestroyResume(d) \/ DestroyDone(d)
       PROVE  Counted'
  BY <1>2, <1>10 DEF DestroyAll, DestroyAllNow, DestroyAllLater, DestroyResume,
                     DestroyDone, Creating
<1>11. ASSUME NEW c \in Callers, NEW d \in Closers, ReturnAndDestroyAll(c, d)
       PROVE  Counted'
  BY <1>2, <1>8, <1>11 DEF ReturnAndDestroyAll
<1>12. CASE UNCHANGED poolVars
  BY <1>2, <1>12 DEF poolVars, Creating
<1> QED BY <1>3, <1>5, <1>6, <1>7, <1>9, <1>10, <1>11, <1>12 DEF Next, Get

(* The limit holds while creations are under way: with calls interleaved at  *)
(* their awaits there are never more resources, made or being made, than     *)
(* resourceCount, which TypeCorrect bounds by maxResources.                  *)
THEOREM LimitHolds == Spec => []WithinLimit
<1>1. Init => Counted
  <2> SUFFICES ASSUME Init PROVE Counted
    OBVIOUS
  <2>1. created = {} /\ Creating = {} /\ resourceCount = 0
    BY DEF Init, Creating
  <2> QED BY <2>1, FS_EmptySet DEF Counted, WithinLimit
<1>2. IInv /\ Counted /\ [Next]_poolVars => Counted'
  BY CountedNext
<1>3. Counted => WithinLimit
  BY DEF Counted
<1> QED BY <1>1, <1>2, <1>3, Invariant, PTL DEF Spec
=============================================================================
