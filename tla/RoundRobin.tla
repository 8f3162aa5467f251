----------------------------- MODULE RoundRobin -----------------------------
(***************************************************************************)
(* getRoundRobinStrategy() of src/client.ts:131-142: the choice of a       *)
(* broker for each new task, and of the next one in a failover.            *)
(***************************************************************************)
EXTENDS Naturals

VARIABLES
  size,   \* how many brokers there are
  index,  \* the one to choose next
  picks   \* picks[b]: how often broker b was chosen

vars == <<size, index, picks>>

Positions == 0..(size - 1)

Init ==
  /\ size \in Nat \ {0}
  /\ index = 0
  /\ picks = [b \in Positions |-> 0]

\* Mutant: the index is not reduced.
Pick_NoModulo(b) ==
  /\ b = index
  /\ index' = index + 1
  /\ picks' = [picks EXCEPT ![b] = @ + 1]

\* Mutant: the index stops at the last broker.
Pick_NoWrap(b) ==
  /\ b = index
  /\ index' = IF index + 1 < size THEN index + 1 ELSE index
  /\ picks' = [picks EXCEPT ![b] = @ + 1]

Pick(b) ==
  /\ b = index
  /\ index' = (index + 1) % size
  /\ picks' = [picks EXCEPT ![b] = @ + 1]

Next == (\E b \in Positions : Pick(b)) /\ UNCHANGED size

Spec == Init /\ [][Next]_vars

\* Whatever the order in which tasks are made and fail over, no broker is
\* chosen more than once more often than another.
Balanced == \A a, b \in Positions : picks[a] <= picks[b] + 1
=============================================================================
