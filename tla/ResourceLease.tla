--------------------------- MODULE ResourceLease ---------------------------
(***************************************************************************)
(* What a resource pool promises, with nothing said about queues, promises *)
(* or event emitters: every resource is made once, is on lease to at most  *)
(* one caller at a time, may pass directly from one caller to another, and *)
(* is never leased again once it has been destroyed.                       *)
(*                                                                         *)
(* ResourcePool implements this specification; see Lease in that module.   *)
(***************************************************************************)
CONSTANTS Callers,    \* the calls that ask for a resource
          Resources,  \* every resource that can ever be made
          None        \* no caller

VARIABLES life,       \* life[r]: "absent", then "live", then "gone"
          holder      \* holder[r]: the caller that has r on lease, or None

leaseVars == <<life, holder>>

TypeOK ==
  /\ life   \in [Resources -> {"absent", "live", "gone"}]
  /\ holder \in [Resources -> Callers \union {None}]

Init ==
  /\ life   = [r \in Resources |-> "absent"]
  /\ holder = [r \in Resources |-> None]

HoldsNothing(c) == \A r \in Resources : holder[r] # c

\* A new resource goes straight to the caller it was made for.
Make(c, r) ==
  /\ life[r] = "absent"
  /\ HoldsNothing(c)
  /\ life'   = [life EXCEPT ![r] = "live"]
  /\ holder' = [holder EXCEPT ![r] = c]

Lend(c, r) ==
  /\ life[r] = "live"
  /\ holder[r] = None
  /\ HoldsNothing(c)
  /\ holder' = [holder EXCEPT ![r] = c]
  /\ UNCHANGED life

GiveBack(c, r) ==
  /\ holder[r] = c
  /\ holder' = [holder EXCEPT ![r] = None]
  /\ UNCHANGED life

PassOn(c, w, r) ==
  /\ holder[r] = c
  /\ HoldsNothing(w)
  /\ holder' = [holder EXCEPT ![r] = w]
  /\ UNCHANGED life

\* Only resources nobody has on lease are destroyed.
Destroy(S) ==
  /\ \A r \in S : life[r] = "live" /\ holder[r] = None
  /\ life' = [r \in Resources |-> IF r \in S THEN "gone" ELSE life[r]]
  /\ UNCHANGED holder

\* The last lease is given back and everything left is destroyed.
GiveBackAndDestroy(c, r, S) ==
  /\ holder[r] = c
  /\ \A s \in S : life[s] = "live" /\ holder[s] \in {c, None}
  /\ holder' = [holder EXCEPT ![r] = None]
  /\ life' = [s \in Resources |-> IF s \in S THEN "gone" ELSE life[s]]

Next ==
  \/ \E c \in Callers, r \in Resources :
       Make(c, r) \/ Lend(c, r) \/ GiveBack(c, r)
  \/ \E c, w \in Callers, r \in Resources : PassOn(c, w, r)
  \/ \E S \in SUBSET Resources : Destroy(S)
  \/ \E c \in Callers, r \in Resources, S \in SUBSET Resources :
       GiveBackAndDestroy(c, r, S)

Spec == Init /\ [][Next]_leaseVars
=============================================================================
