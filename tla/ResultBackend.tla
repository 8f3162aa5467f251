---------------------------- MODULE ResultBackend ----------------------------
(***************************************************************************)
(* What src/result_backend.ts promises of every backend, with nothing said *)
(* of connections, subscriptions or queues: a result is received, or       *)
(* deleted, while its call waits; the promise of a call settles once, that *)
(* of put() or delete() resolving only when that has happened, and that of *)
(* get() only with what was said of its own task before.  A step may       *)
(* settle any number of promises.                                          *)
(*                                                                         *)
(* A result is received once at most, and a rejection says that it was     *)
(* not.  Of the put() of a backend that Repeats neither is true: it may    *)
(* give its result again and again while it waits, and be rejected then.   *)
(***************************************************************************)
EXTENDS Naturals

CONSTANTS
  Calls,    \* each with a kind, "get", "put" or "delete", and a task
  Tasks,
  Statuses, \* of results; put() is given "SUCCESS"
  Repeats   \* in BOOLEAN: whether put() may give its result twice

VARIABLES
  promise,  \* promise[c]: what the promise of c has come to
  effects,  \* effects[c]: how often a result was received, or deleted, for c
  reported  \* reported[t]: the statuses that workers gave of t

backendVars == <<promise, effects, reported>>

Unsettled == {"none", "pending"}

Init ==
  /\ promise = [c \in Calls |-> "none"]
  /\ effects = [c \in Calls |-> 0]
  /\ reported = [t \in Tasks |-> {}]

Said(t, status) ==
  \/ status \in reported[t]
  \/ status = "SUCCESS"
     /\ \E w \in Calls : w.kind = "put" /\ w.task = t /\ effects[w] > 0

Call(c) == promise[c] = "none" /\ promise'[c] = "pending"

RepeatedBy(c) == Repeats /\ c.kind = "put"

Reject(c) ==
  /\ promise[c] \in Unsettled /\ promise'[c] = "rejected"
  /\ effects'[c] = 0 \/ RepeatedBy(c)

Confirm(c) ==
  /\ c.kind \in {"put", "delete"}
  /\ promise[c] \in Unsettled /\ promise'[c] = "ok" /\ effects'[c] > 0

Fetch(c) ==
  /\ c.kind = "get"
  /\ promise[c] \in Unsettled /\ promise'[c] \in Statuses
  /\ Said(c.task, promise'[c])

TakeEffect(c) ==
  /\ c.kind \in {"put", "delete"}
  /\ promise[c] \in Unsettled /\ promise'[c] \in {"pending", "ok"}
  /\ effects[c] = 0 \/ RepeatedBy(c)
  /\ effects'[c] = effects[c] + 1

Moves(c) ==
  /\ \/ Call(c) \/ Reject(c) \/ Confirm(c) \/ Fetch(c)
     \/ promise'[c] = promise[c]
  /\ TakeEffect(c) \/ effects'[c] = effects[c]

Next ==
  /\ promise' \in [Calls -> Unsettled \union {"rejected", "ok"} \union Statuses]
  /\ effects' \in [Calls -> Nat]
  /\ reported' \in [Tasks -> SUBSET Statuses]
  /\ \A t \in Tasks : reported[t] \subseteq reported'[t]
  /\ \A c \in Calls : Moves(c)

Spec == Init /\ [][Next]_backendVars
=============================================================================
