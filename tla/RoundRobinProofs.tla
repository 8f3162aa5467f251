-------------------------- MODULE RoundRobinProofs --------------------------
(* Proofs about RoundRobin, for any number of brokers. *)
EXTENDS RoundRobin, TLAPS

\* All brokers were chosen q times, those before the index once more.
Laps(q) == picks = [b \in Positions |-> IF b < index THEN q + 1 ELSE q]

IInv ==
  /\ size \in Nat \ {0}
  /\ index \in Positions
  /\ \E q \in Nat : Laps(q)

(* The first choice is that of broker 0, and nothing was chosen before. *)
LEMMA InitIInv == Init => IInv
  <1> SUFFICES ASSUME Init PROVE IInv
    OBVIOUS
  <1>1. size \in Nat \ {0} /\ index = 0 /\ index \in Positions
    BY DEF Init, Positions
  <1>2. Laps(0)
    BY <1>1 DEF Init, Laps, Positions
  <1> QED
    BY <1>1, <1>2 DEF IInv

(* A choice advances the index within a lap, and the choice of the last     *)
(* broker begins the next one.                                              *)
LEMMA NextIInv == IInv /\ [Next]_vars => IInv'
  <1> SUFFICES ASSUME IInv, [Next]_vars PROVE IInv'
    OBVIOUS
  <1>1. CASE UNCHANGED vars
    BY <1>1 DEF IInv, vars, Laps, Positions
  <1>2. CASE Next
    <2>1. PICK q \in Nat : Laps(q)
      BY DEF IInv
    <2>2. size \in Nat \ {0} /\ size' = size /\ Positions' = Positions
      BY <1>2 DEF IInv, Next, Positions
    <2>3. index \in Positions /\ index \in Nat /\ index < size
      BY <2>2 DEF IInv, Positions
    <2>4. Pick(index)
      BY <1>2 DEF Next, Pick
    <2>5. \A b \in Positions : picks'[b] = IF b <= index THEN q + 1 ELSE q
      BY <2>1, <2>2, <2>3, <2>4 DEF Laps, Pick, Positions
    <2>6. picks' = [b \in Positions |-> IF b <= index THEN q + 1 ELSE q]
      BY <2>1, <2>2, <2>3, <2>4 DEF Laps, Pick, Positions
    <2>7. CASE index + 1 < size
      <3>1. index' = index + 1
        BY <2>2, <2>3, <2>4, <2>7 DEF Pick
      <3>2. index' \in Positions'
        BY <2>2, <2>3, <2>7, <3>1 DEF Positions
      <3>3. Laps(q)'
        BY <2>2, <2>3, <2>6, <3>1 DEF Laps, Positions
      <3> QED
        BY <2>2, <3>2, <3>3 DEF IInv
    <2>8. CASE index + 1 = size
      <3>1. index' = 0
        BY <2>2, <2>3, <2>4, <2>8 DEF Pick
      <3>2. index' \in Positions'
        BY <2>2, <3>1 DEF Positions
      <3>3. Laps(q + 1)'
        BY <2>2, <2>3, <2>6, <2>8, <3>1 DEF Laps, Positions
      <3> QED
        BY <2>2, <3>2, <3>3 DEF IInv
    <2> QED
      BY <2>2, <2>3, <2>7, <2>8
  <1> QED
    BY <1>1, <1>2

(* Whose turn it is tells how often each was chosen.                        *)
LEMMA IInvBalanced == IInv => Balanced
  BY DEF IInv, Balanced, Laps, Positions

(* For any number of brokers, and whatever the order in which tasks are     *)
(* made and fail over, no broker is chosen more than once more often than   *)
(* another.                                                                 *)
THEOREM PicksBalanced == Spec => []Balanced
  BY InitIInv, NextIInv, IInvBalanced, PTL DEF Spec
=============================================================================
