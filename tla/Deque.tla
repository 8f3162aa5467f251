------------------------------- MODULE Deque -------------------------------
(***************************************************************************)
(* What a List promises to whoever uses it: a sequence that grows and      *)
(* shrinks at both ends, in constant time or not.  List implements it.     *)
(***************************************************************************)
EXTENDS Naturals, Sequences

CONSTANTS Arguments,  \* what push() and unshift() may be called with
          None        \* undefined

VARIABLES items,      \* the elements, front to back
          length,     \* what the property length says
          returned    \* what the last pop() or shift() returned

dequeVars == <<items, length, returned>>

Init ==
  /\ items = <<>>
  /\ length = 0
  /\ returned = None

Push(elements) ==
  /\ items' = items \o elements
  /\ length' = length + Len(elements)
  /\ UNCHANGED returned

Unshift(elements) ==
  /\ items' = elements \o items
  /\ length' = length + Len(elements)
  /\ UNCHANGED returned

Pop ==
  /\ items # <<>>
  /\ returned' = items[Len(items)]
  /\ items' = SubSeq(items, 1, Len(items) - 1)
  /\ length' = length - 1

Shift ==
  /\ items # <<>>
  /\ returned' = Head(items)
  /\ items' = Tail(items)
  /\ length' = length - 1

\* pop() or shift() of an empty list.
Nothing ==
  /\ items = <<>>
  /\ returned' = None
  /\ UNCHANGED <<items, length>>

Next ==
  \/ \E elements \in Arguments : Push(elements) \/ Unshift(elements)
  \/ Pop \/ Shift \/ Nothing

Spec == Init /\ [][Next]_dequeVars
=============================================================================
