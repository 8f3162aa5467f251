-------------------------------- MODULE List --------------------------------
(***************************************************************************)
(* The doubly linked list of src/containers/list.ts: the unused resources  *)
(* of a ResourcePool and the callers of a PromiseQueue are kept in one.    *)
(*                                                                         *)
(* push() and unshift() take any number of elements and link one node per  *)
(* step; nothing else runs before their loop is over.  Iterators are       *)
(* generators, so any calls may come between two of their steps.           *)
(***************************************************************************)
EXTENDS Integers, Sequences, Functions

CONSTANTS Elements,   \* what may be put into the list
          Arguments,  \* the argument lists of push() and unshift()
          Nodes,      \* every node that is ever made
          Iterators,  \* every iterator that is ever made
          None        \* undefined

ASSUME ListAssumption ==
  /\ Arguments \subseteq Seq(Elements)
  /\ None \notin Elements \union Nodes

VARIABLES
  head, tail, size,  \* the fields
  heap,      \* heap[n]: what node n contains; no element before it is made
  loop,      \* the push() or unshift() in its loop: arguments not yet linked
  returned,  \* what the last pop() or shift() returned
  iter,      \* iter[i]: the generator's state and its variable current
  chain,     \* history: the nodes of the list, front to back
  due,       \* history: due[i], nodes that were in the list when i started,
             \* have not left it, and have not been yielded
  seen       \* history: seen[i], the nodes i has yielded

fields  == <<head, tail, size, heap, loop, returned>>
history == <<chain, due, seen>>
vars    == <<fields, iter, history>>

Contents == [element : Elements \union {None}, next : Nodes \union {None},
             previous : Nodes \union {None}]
Unmade   == [element |-> None, next |-> None, previous |-> None]

TypeOK ==
  /\ {head, tail} \subseteq Nodes \union {None}
  /\ size \in Nat
  /\ heap \in [Nodes -> Contents]
  /\ loop \in [end : {"front", "back"}, rest : Seq(Elements)]
  /\ returned \in Elements \union {None}
  /\ iter \in [Iterators -> [state : {"new", "running", "done"},
                             current : Nodes \union {None}]]
  /\ chain \in Seq(Nodes)
  /\ due \in [Iterators -> SUBSET Nodes]
  /\ seen \in [Iterators -> SUBSET Nodes]

Init ==
  /\ head = None /\ tail = None /\ size = 0
  /\ heap = [n \in Nodes |-> Unmade]
  /\ loop = [end |-> "back", rest |-> <<>>]
  /\ returned = None
  /\ iter = [i \in Iterators |-> [state |-> "new", current |-> None]]
  /\ chain = <<>>
  /\ due = [i \in Iterators |-> {}]
  /\ seen = [i \in Iterators |-> {}]

Idle  == loop.rest = <<>>
Fresh == {n \in Nodes : heap[n].element = None}
-----------------------------------------------------------------------------
\* push() and unshift() up to their loops.
Call(end, elements) ==
  /\ Idle
  /\ loop' = [end |-> end, rest |-> elements]
  /\ UNCHANGED <<head, tail, size, heap, returned, iter, history>>

\* Mutant: a node pushed onto a list that is not empty does not point back.
PushOne_OneWay(n) ==
  /\ loop.end = "back" /\ loop.rest # <<>>
  /\ loop' = [loop EXCEPT !.rest = Tail(@)]
  /\ size' = size + 1
  /\ tail' = n
  /\ IF tail = None
     THEN /\ head' = n
          /\ heap' = [heap EXCEPT ![n] = [Unmade EXCEPT
                                            !.element = Head(loop.rest)]]
     ELSE /\ UNCHANGED head
          /\ heap' = [heap EXCEPT ![n] = [Unmade EXCEPT
                                            !.element = Head(loop.rest)],
                                  ![tail].next = n]
  /\ chain' = Append(chain, n)
  /\ UNCHANGED <<returned, iter, due, seen>>

\* pushOne()
PushOne(n) ==
  /\ loop.end = "back" /\ loop.rest # <<>>
  /\ loop' = [loop EXCEPT !.rest = Tail(@)]
  /\ size' = size + 1
  /\ tail' = n
  /\ IF tail = None
     THEN /\ head' = n
          /\ heap' = [heap EXCEPT ![n] = [Unmade EXCEPT
                                            !.element = Head(loop.rest)]]
     ELSE /\ UNCHANGED head
          /\ heap' = [heap EXCEPT ![n] = [element |-> Head(loop.rest),
                                          next |-> None, previous |-> tail],
                                  ![tail].next = n]
  /\ chain' = Append(chain, n)
  /\ UNCHANGED <<returned, iter, due, seen>>

\* Mutant: the loop of unshift() goes up, and turns the arguments round.
UnshiftOne_FirstFirst(n) ==
  /\ loop.end = "front" /\ loop.rest # <<>>
  /\ loop' = [loop EXCEPT !.rest = Tail(@)]
  /\ size' = size + 1
  /\ head' = n
  /\ IF head = None
     THEN /\ tail' = n
          /\ heap' = [heap EXCEPT ![n] = [Unmade EXCEPT
                                            !.element = Head(loop.rest)]]
     ELSE /\ UNCHANGED tail
          /\ heap' = [heap EXCEPT ![n] = [element |-> Head(loop.rest),
                                          next |-> head, previous |-> None],
                                  ![head].previous = n]
  /\ chain' = <<n>> \o chain
  /\ UNCHANGED <<returned, iter, due, seen>>

\* unshiftOne(); the loop of unshift() goes from the last argument down.
UnshiftOne(n) ==
  LET last == Len(loop.rest) IN
  /\ loop.end = "front" /\ loop.rest # <<>>
  /\ loop' = [loop EXCEPT !.rest = SubSeq(@, 1, last - 1)]
  /\ size' = size + 1
  /\ head' = n
  /\ IF head = None
     THEN /\ tail' = n
          /\ heap' = [heap EXCEPT ![n] = [Unmade EXCEPT
                                            !.element = loop.rest[last]]]
     ELSE /\ UNCHANGED tail
          /\ heap' = [heap EXCEPT ![n] = [element |-> loop.rest[last],
                                          next |-> head, previous |-> None],
                                  ![head].previous = n]
  /\ chain' = <<n>> \o chain
  /\ UNCHANGED <<returned, iter, due, seen>>
-----------------------------------------------------------------------------
\* Nobody has to yield a node that has left the list.
Unlinked(n) ==
  /\ due' = [i \in Iterators |-> due[i] \ {n}]
  /\ UNCHANGED <<loop, iter, seen>>

\* pop(); the node that leaves keeps its pointers.
Pop ==
  /\ Idle /\ tail # None
  /\ size' = size - 1
  /\ returned' = heap[tail].element
  /\ tail' = heap[tail].previous
  /\ IF tail' # None
     THEN /\ heap' = [heap EXCEPT ![tail'].next = None]
          /\ UNCHANGED head
     ELSE /\ head' = None
          /\ UNCHANGED heap
  /\ chain' = SubSeq(chain, 1, Len(chain) - 1)
  /\ Unlinked(tail)

\* Mutant: cuts the node that leaves off from the list.
Shift_CutsOff ==
  /\ Idle /\ head # None
  /\ size' = size - 1
  /\ returned' = heap[head].element
  /\ head' = heap[head].next
  /\ IF head' # None
     THEN /\ heap' = [heap EXCEPT ![head'].previous = None, ![head].next = None]
          /\ UNCHANGED tail
     ELSE /\ tail' = None
          /\ UNCHANGED heap
  /\ chain' = Tail(chain)
  /\ Unlinked(head)

\* shift(); the node that leaves keeps its pointers.
Shift ==
  /\ Idle /\ head # None
  /\ size' = size - 1
  /\ returned' = heap[head].element
  /\ head' = heap[head].next
  /\ IF head' # None
     THEN /\ heap' = [heap EXCEPT ![head'].previous = None]
          /\ UNCHANGED tail
     ELSE /\ tail' = None
          /\ UNCHANGED heap
  /\ chain' = Tail(chain)
  /\ Unlinked(head)

\* Mutant: counts the element before it looks whether there is one.
PopNothing_Counts ==
  /\ Idle /\ tail = None
  /\ returned' = None
  /\ size' = size - 1
  /\ UNCHANGED <<head, tail, heap, loop, iter, history>>

\* pop() and shift() of an empty list return early.
PopNothing ==
  /\ Idle /\ tail = None
  /\ returned' = None
  /\ UNCHANGED <<head, tail, size, heap, loop, iter, history>>

ShiftNothing ==
  /\ Idle /\ head = None
  /\ returned' = None
  /\ UNCHANGED <<head, tail, size, heap, loop, iter, history>>
-----------------------------------------------------------------------------
(* One next() of an iterator.  The first one reads this.head: a generator  *)
(* does not start before.                                                  *)

Current(i) == IF iter[i].state = "new" THEN head ELSE iter[i].current
Due(i)     == IF iter[i].state = "new" THEN Range(chain) ELSE due[i]

\* current moves on before the element is yielded.
Yield(i) ==
  /\ Idle /\ iter[i].state # "done" /\ Current(i) # None
  /\ iter' = [iter EXCEPT ![i] = [state |-> "running",
                                  current |-> heap[Current(i)].next]]
  /\ due' = [due EXCEPT ![i] = Due(i) \ {Current(i)}]
  /\ seen' = [seen EXCEPT ![i] = @ \union {Current(i)}]
  /\ UNCHANGED <<fields, chain>>

Finish(i) ==
  /\ Idle /\ iter[i].state # "done" /\ Current(i) = None
  /\ iter' = [iter EXCEPT ![i] = [state |-> "done", current |-> None]]
  /\ due' = [due EXCEPT ![i] = Due(i)]
  /\ UNCHANGED <<fields, chain, seen>>

Next ==
  \/ \E end \in {"front", "back"}, elements \in Arguments : Call(end, elements)
  \/ \E n \in Fresh : PushOne(n) \/ UnshiftOne(n)
  \/ Pop \/ Shift \/ PopNothing \/ ShiftNothing
  \/ \E i \in Iterators : Yield(i) \/ Finish(i)

Spec == Init /\ [][Next]_vars
-----------------------------------------------------------------------------
\* Forwards from head and backwards from tail the pointers spell the same
\* list, its ends point nowhere, and length counts it.
Linked ==
  /\ size = Len(chain)
  /\ head = IF chain = <<>> THEN None ELSE chain[1]
  /\ tail = IF chain = <<>> THEN None ELSE chain[Len(chain)]
  /\ IsInjective(chain)
  /\ \A k \in DOMAIN chain :
       /\ heap[chain[k]].element # None
       /\ heap[chain[k]].next = IF k = Len(chain) THEN None ELSE chain[k + 1]
       /\ heap[chain[k]].previous = IF k = 1 THEN None ELSE chain[k - 1]

\* Whatever is pushed and removed while an iterator is under way: it yields
\* nothing twice, though it follows the pointers of nodes that have left the
\* list, and at its end it has yielded all that was in the list throughout.
YieldsEachOnce ==
  \A i \in Iterators : /\ iter[i].current \notin seen[i]
                       /\ iter[i].state = "done" => due[i] = {}

Items == [k \in DOMAIN chain |-> heap[chain[k]].element]

\* The list is a Deque; push() and unshift() add all their arguments at once,
\* in their order.
Abstract == INSTANCE Deque WITH
  items  <- IF loop.end = "back" THEN Items \o loop.rest ELSE loop.rest \o Items,
  length <- size + Len(loop.rest)

DequeSpec == Abstract!Spec
=============================================================================
