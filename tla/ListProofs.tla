----------------------------- MODULE ListProofs -----------------------------
(***************************************************************************)
(* Proofs about List, for any elements, nodes and iterators and argument   *)
(* lists of any length: its two chains of pointers agree, it implements a  *)
(* Deque, and its iterators yield each node once.                          *)
(***************************************************************************)
EXTENDS List, SequenceTheorems, TLAPS

(* A chain of distinct nodes after one of them was added or removed.  The  *)
(* removed node is the last or the first.                                  *)

(* An element that is new to a sequence may be added to its end.            *)
LEMMA AddLast ==
  ASSUME NEW S, NEW s \in Seq(S), NEW x \in S,
         IsInjective(s), \A k \in 1..Len(s) : s[k] # x
  PROVE  /\ Append(s, x) \in Seq(S) /\ IsInjective(Append(s, x))
         /\ Len(Append(s, x)) = Len(s) + 1
         /\ Append(s, x)[Len(s) + 1] = x
         /\ \A k \in 1..Len(s) : Append(s, x)[k] = s[k]
<1>1. /\ Append(s, x) \in Seq(S) /\ Len(s) \in Nat
      /\ DOMAIN Append(s, x) = 1..(Len(s) + 1) /\ DOMAIN s = 1..Len(s)
      /\ Len(Append(s, x)) = Len(s) + 1
      /\ Append(s, x)[Len(s) + 1] = x
      /\ \A k \in 1..Len(s) : Append(s, x)[k] = s[k]
  OBVIOUS
<1> QED BY <1>1 DEF IsInjective

(* One node more at the front. *)
LEMMA AddFirst ==
  ASSUME NEW S, NEW s \in Seq(S), NEW x \in S,
         IsInjective(s), \A k \in 1..Len(s) : s[k] # x
  PROVE  /\ <<x>> \o s \in Seq(S) /\ IsInjective(<<x>> \o s)
         /\ Len(<<x>> \o s) = Len(s) + 1
         /\ (<<x>> \o s)[1] = x
         /\ \A k \in 2..(Len(s) + 1) : (<<x>> \o s)[k] = s[k - 1]
<1> DEFINE t == <<x>> \o s
<1>1. /\ <<x>> \in Seq(S) /\ Len(<<x>>) = 1 /\ <<x>>[1] = x
      /\ Len(s) \in Nat /\ DOMAIN s = 1..Len(s)
  OBVIOUS
<1>2. t \in Seq(S) /\ Len(t) = Len(s) + 1 /\ DOMAIN t = 1..(Len(s) + 1)
  BY <1>1, ConcatProperties
<1>3. \A k \in 1..(Len(s) + 1) : t[k] = IF k <= 1 THEN <<x>>[k] ELSE s[k - 1]
  BY <1>1, ConcatProperties
<1>4. t[1] = x /\ \A k \in 2..(Len(s) + 1) : t[k] = s[k - 1]
  BY <1>1, <1>3
<1>5. IsInjective(t)
  <2> SUFFICES ASSUME NEW i \in 1..(Len(s) + 1), NEW j \in 1..(Len(s) + 1),
                      t[i] = t[j]
               PROVE  i = j
    BY <1>2 DEF IsInjective
  <2>1. CASE i = 1 \/ j = 1
    BY <1>1, <1>4, <2>1
  <2>2. CASE i # 1 /\ j # 1
    <3>1. i - 1 \in DOMAIN s /\ j - 1 \in DOMAIN s /\ s[i - 1] = s[j - 1]
      BY <1>1, <1>4, <2>2
    <3>2. i - 1 = j - 1
      BY <3>1 DEF IsInjective
    <3> QED BY <3>2
  <2> QED BY <2>1, <2>2
<1> QED BY <1>2, <1>4, <1>5

(* The last node less. *)
LEMMA DropLast ==
  ASSUME NEW S, NEW s \in Seq(S), s # <<>>, IsInjective(s)
  PROVE  LET t == SubSeq(s, 1, Len(s) - 1) IN
         /\ t \in Seq(S) /\ IsInjective(t) /\ Len(t) = Len(s) - 1
         /\ Len(s) >= 1
         /\ \A k \in 1..(Len(s) - 1) : t[k] = s[k]
<1> DEFINE t == SubSeq(s, 1, Len(s) - 1)
<1>1. Len(s) \in Nat /\ Len(s) >= 1 /\ DOMAIN s = 1..Len(s)
  OBVIOUS
<1>2. /\ t \in Seq(S) /\ Len(t) = Len(s) - 1 /\ DOMAIN t = 1..(Len(s) - 1)
      /\ \A k \in 1..(Len(s) - 1) : t[k] = s[k]
  <2>1. Len(s) - 1 \in Int /\ \A k \in 1..(Len(s) - 1) : s[k] \in S
    BY <1>1
  <2> QED BY <1>1, <2>1, SubSeqProperties
<1>3. IsInjective(t)
  BY <1>1, <1>2 DEF IsInjective
<1> QED BY <1>1, <1>2, <1>3

(* The first node less. *)
LEMMA DropFirst ==
  ASSUME NEW S, NEW s \in Seq(S), s # <<>>, IsInjective(s)
  PROVE  /\ Tail(s) \in Seq(S) /\ IsInjective(Tail(s))
         /\ Len(Tail(s)) = Len(s) - 1 /\ Len(s) >= 1
         /\ \A k \in 1..(Len(s) - 1) : Tail(s)[k] = s[k + 1]
<1>1. /\ Len(s) \in Nat /\ Len(s) >= 1 /\ DOMAIN s = 1..Len(s)
      /\ Tail(s) \in Seq(S) /\ Len(Tail(s)) = Len(s) - 1
      /\ DOMAIN Tail(s) = 1..(Len(s) - 1)
      /\ \A k \in 1..(Len(s) - 1) : Tail(s)[k] = s[k + 1]
  OBVIOUS
<1>2. IsInjective(Tail(s))
  <2> SUFFICES ASSUME NEW i \in 1..(Len(s) - 1), NEW j \in 1..(Len(s) - 1),
                      Tail(s)[i] = Tail(s)[j]
               PROVE  i = j
    BY <1>1 DEF IsInjective
  <2>1. i + 1 \in DOMAIN s /\ j + 1 \in DOMAIN s /\ s[i + 1] = s[j + 1]
    BY <1>1
  <2>2. i + 1 = j + 1
    BY <2>1 DEF IsInjective
  <2> QED BY <2>2
<1> QED BY <1>1, <1>2
-----------------------------------------------------------------------------
(* The inductive invariant: Linked needs that a new node is not already in *)
(* the chain, which it says itself of the elements of the chain's nodes.   *)

IInv == TypeOK /\ Linked

(* A new list satisfies the invariant. *)
LEMMA InitInv == Init => IInv
<1> SUFFICES ASSUME Init PROVE IInv
  OBVIOUS
<1>1. TypeOK
  BY ListAssumption DEF Init, TypeOK, Contents, Unmade
<1>2. Linked
  BY DEF Init, Linked, IsInjective
<1> QED BY <1>1, <1>2 DEF IInv

(* A node that is made is in no chain yet. *)
LEMMA FreshUnchained ==
  ASSUME IInv, NEW n \in Fresh
  PROVE  /\ n \in Nodes /\ n # None
         /\ \A k \in 1..Len(chain) : chain[k] # n
<1>1. n \in Nodes /\ heap[n].element = None
  BY DEF Fresh
<1>2. \A k \in 1..Len(chain) : heap[chain[k]].element # None
  BY DEF IInv, TypeOK, Linked
<1> QED BY <1>1, <1>2, ListAssumption

(* The chain in terms of the fields. *)
LEMMA ChainFacts ==
  ASSUME IInv
  PROVE  LET L == Len(chain) IN
         /\ L \in Nat /\ DOMAIN chain = 1..L /\ (chain = <<>> <=> L = 0)
         /\ \A k \in 1..L : chain[k] \in Nodes /\ chain[k] # None
         /\ L = 0 => head = None /\ tail = None
         /\ L # 0 => /\ head \in Nodes /\ head # None /\ head = chain[1]
                    /\ tail \in Nodes /\ tail # None /\ tail = chain[L]
         /\ \A k \in 1..L : chain[k] = head => k = 1
         /\ \A k \in 1..L : chain[k] = tail => k = L
         /\ \A k \in 1..L :
              /\ heap[chain[k]].element # None
              /\ heap[chain[k]].next = IF k = L THEN None ELSE chain[k + 1]
              /\ heap[chain[k]].previous = IF k = 1 THEN None ELSE chain[k - 1]
<1> DEFINE L == Len(chain)
<1>1. chain \in Seq(Nodes)
  BY DEF IInv, TypeOK
<1>2. L \in Nat /\ DOMAIN chain = 1..L /\ (chain = <<>> <=> L = 0)
  BY <1>1
<1>3. \A k \in 1..L : chain[k] \in Nodes /\ chain[k] # None
  BY <1>1, <1>2, ListAssumption
<1>4. L = 0 => head = None /\ tail = None
  BY <1>2 DEF IInv, Linked
<1>5. L # 0 => 1 \in 1..L /\ L \in 1..L /\ head = chain[1] /\ tail = chain[L]
  BY <1>2 DEF IInv, Linked
<1>6. L # 0 => head \in Nodes /\ head # None /\ tail \in Nodes /\ tail # None
  BY <1>3, <1>5
<1>7. \A j, k \in 1..L : chain[j] = chain[k] => j = k
  BY <1>2 DEF IInv, Linked, IsInjective
<1>8. /\ \A k \in 1..L : chain[k] = head => k = 1
      /\ \A k \in 1..L : chain[k] = tail => k = L
  <2> SUFFICES ASSUME NEW k \in 1..L
               PROVE  /\ chain[k] = head => k = 1
                      /\ chain[k] = tail => k = L
    OBVIOUS
  <2>1. L # 0
    BY <1>2
  <2> QED BY <1>5, <1>7, <2>1
<1>9. \A k \in 1..L :
        /\ heap[chain[k]].element # None
        /\ heap[chain[k]].next = IF k = L THEN None ELSE chain[k + 1]
        /\ heap[chain[k]].previous = IF k = 1 THEN None ELSE chain[k - 1]
  BY <1>2 DEF IInv, Linked
<1> QED BY <1>2, <1>3, <1>4, <1>5, <1>6, <1>8, <1>9

(* pushOne() links the new node to the old tail in both directions. *)
LEMMA PushOneEffect ==
  ASSUME IInv, NEW n \in Fresh, PushOne(n)
  PROVE  LET L == Len(chain) IN
         /\ chain' \in Seq(Nodes) /\ IsInjective(chain')
         /\ Len(chain') = L + 1 /\ chain'[L + 1] = n
         /\ \A k \in 1..L : chain'[k] = chain[k]
         /\ heap' \in [Nodes -> Contents]
         /\ heap'[n] = [element |-> Head(loop.rest), next |-> None,
                        previous |-> IF L = 0 THEN None ELSE chain[L]]
         /\ \A m \in Nodes \ {n} :
              /\ heap'[m].element = heap[m].element
              /\ heap'[m].previous = heap[m].previous
              /\ heap'[m].next = IF L # 0 /\ m = tail THEN n ELSE heap[m].next
<1> DEFINE L == Len(chain)
<1>1. /\ L \in Nat /\ DOMAIN chain = 1..L
      /\ \A k \in 1..L : chain[k] \in Nodes
      /\ L = 0 => head = None /\ tail = None
      /\ L # 0 => /\ tail \in Nodes /\ tail # None /\ tail = chain[L]
                 /\ head # None /\ head = chain[1]
      /\ \A k \in 1..L : chain[k] = tail => k = L
  BY ChainFacts DEF L
<1> HIDE DEF L
<1>2. /\ n \in Nodes /\ n # None
      /\ \A k \in 1..L : chain[k] # n
  BY FreshUnchained DEF L
<1>3. /\ chain' \in Seq(Nodes) /\ IsInjective(chain')
      /\ Len(chain') = L + 1 /\ chain'[L + 1] = n
      /\ \A k \in 1..L : chain'[k] = chain[k]
  <2>1. chain' = Append(chain, n) /\ chain \in Seq(Nodes) /\ IsInjective(chain)
    BY DEF PushOne, IInv, TypeOK, Linked
  <2> QED BY <1>2, <2>1, AddLast DEF L
<1>4. /\ Head(loop.rest) \in Elements /\ Head(loop.rest) # None
      /\ Tail(loop.rest) \in Seq(Elements)
  BY ListAssumption DEF PushOne, IInv, TypeOK
<1>5. L # 0 => tail # n
  BY <1>1, <1>2
<1>6. /\ heap' \in [Nodes -> Contents]
      /\ heap'[n] = [element |-> Head(loop.rest), next |-> None,
                     previous |-> IF L = 0 THEN None ELSE chain[L]]
      /\ \A m \in Nodes \ {n} :
           /\ heap'[m].element = heap[m].element
           /\ heap'[m].previous = heap[m].previous
           /\ heap'[m].next = IF L # 0 /\ m = tail THEN n ELSE heap[m].next
  <2>1. heap \in [Nodes -> Contents] /\ tail \in Nodes \union {None}
    BY DEF IInv, TypeOK
  <2>2. CASE L = 0
    <3>1. heap' = [heap EXCEPT ![n] = [element |-> Head(loop.rest),
                                       next |-> None, previous |-> None]]
      BY <1>1, <2>2 DEF PushOne, Unmade
    <3> QED BY <1>2, <1>4, <2>1, <2>2, <3>1 DEF Contents
  <2>3. CASE L # 0
    <3>1. heap' = [heap EXCEPT ![n] = [element |-> Head(loop.rest),
                                       next |-> None, previous |-> tail],
                               ![tail].next = n]
      BY <1>1, <2>3 DEF PushOne
    <3> QED BY <1>1, <1>2, <1>4, <1>5, <2>1, <2>3, <3>1 DEF Contents
  <2> QED BY <2>2, <2>3
<1> QED BY <1>3, <1>6 DEF L

(* So pushOne() keeps the chains in agreement. *)
LEMMA PushOneInv ==
  ASSUME IInv, NEW n \in Fresh, PushOne(n)
  PROVE  IInv'
<1> DEFINE L == Len(chain)
<1>1. /\ L \in Nat /\ DOMAIN chain = 1..L
      /\ \A k \in 1..L : chain[k] \in Nodes
      /\ L = 0 => head = None /\ tail = None
      /\ L # 0 => /\ tail \in Nodes /\ tail # None /\ tail = chain[L]
                 /\ head # None /\ head = chain[1]
      /\ \A k \in 1..L : chain[k] = tail => k = L
  BY ChainFacts DEF L
<1>2. /\ n \in Nodes /\ n # None
      /\ \A k \in 1..L : chain[k] # n
  BY FreshUnchained DEF L
<1>3. /\ chain' \in Seq(Nodes) /\ IsInjective(chain')
      /\ Len(chain') = L + 1 /\ chain'[L + 1] = n
      /\ \A k \in 1..L : chain'[k] = chain[k]
  BY PushOneEffect DEF L
<1>6. /\ heap' \in [Nodes -> Contents]
      /\ heap'[n] = [element |-> Head(loop.rest), next |-> None,
                     previous |-> IF L = 0 THEN None ELSE chain[L]]
      /\ \A m \in Nodes \ {n} :
           /\ heap'[m].element = heap[m].element
           /\ heap'[m].previous = heap[m].previous
           /\ heap'[m].next = IF L # 0 /\ m = tail THEN n ELSE heap[m].next
  BY PushOneEffect DEF L
<1> HIDE DEF L
<1>4. /\ Head(loop.rest) \in Elements /\ Head(loop.rest) # None
      /\ Tail(loop.rest) \in Seq(Elements)
  BY ListAssumption DEF PushOne, IInv, TypeOK
<1>5. L # 0 => tail # n
  BY <1>1, <1>2
<1>7. TypeOK'
  <2>1. loop' \in [end : {"front", "back"}, rest : Seq(Elements)]
    BY <1>4 DEF PushOne, IInv, TypeOK
  <2>2. tail' \in Nodes /\ head' \in Nodes \union {None} /\ size' \in Nat
    BY <1>2 DEF PushOne, IInv, TypeOK
  <2>3. returned' \in Elements \union {None} /\ UNCHANGED <<iter, due, seen>>
    BY DEF PushOne, IInv, TypeOK
  <2> QED BY <1>3, <1>6, <2>1, <2>2, <2>3 DEF IInv, TypeOK
<1>8. Linked'
  <2>1. chain' # <<>> /\ DOMAIN chain' = 1..(L + 1)
    BY <1>1, <1>3
  <2>2. size' = Len(chain') /\ tail' = chain'[Len(chain')]
    BY <1>3 DEF PushOne, IInv, Linked, L
  <2>3. head' = chain'[1]
    BY <1>1, <1>2, <1>3, <1>5 DEF PushOne
  <2>4. ASSUME NEW k \in 1..(L + 1)
        PROVE  /\ heap'[chain'[k]].element # None
               /\ heap'[chain'[k]].next = IF k = L + 1 THEN None ELSE chain'[k + 1]
               /\ heap'[chain'[k]].previous = IF k = 1 THEN None ELSE chain'[k - 1]
    <3>1. CASE k = L + 1
      BY <1>1, <1>3, <1>4, <1>6, <3>1
    <3>2. CASE k # L + 1
      <4>1. /\ k \in 1..L /\ chain'[k] = chain[k] /\ chain[k] \in Nodes \ {n}
            /\ k # 1 => chain'[k - 1] = chain[k - 1]
        BY <1>1, <1>2, <1>3, <3>2
      <4>2. /\ heap[chain[k]].element # None
            /\ heap[chain[k]].next = IF k = L THEN None ELSE chain[k + 1]
            /\ heap[chain[k]].previous = IF k = 1 THEN None ELSE chain[k - 1]
        BY <4>1, ChainFacts DEF L
      <4>3. CASE k = L
        BY <1>1, <1>3, <1>5, <1>6, <3>2, <4>1, <4>2, <4>3
      <4>4. CASE k # L
        BY <1>1, <1>3, <1>5, <1>6, <3>2, <4>1, <4>2, <4>4
      <4> QED BY <4>3, <4>4
    <3> QED BY <3>1, <3>2
  <2> QED BY <1>3, <2>1, <2>2, <2>3, <2>4 DEF Linked
<1> QED BY <1>7, <1>8 DEF IInv

(* unshiftOne() links it to the old head. *)
LEMMA UnshiftOneEffect ==
  ASSUME IInv, NEW n \in Fresh, UnshiftOne(n)
  PROVE  LET L == Len(chain)
             e == loop.rest[Len(loop.rest)] IN
         /\ chain' \in Seq(Nodes) /\ IsInjective(chain')
         /\ Len(chain') = L + 1 /\ chain'[1] = n
         /\ \A k \in 2..(L + 1) : chain'[k] = chain[k - 1]
         /\ e \in Elements /\ e # None /\ loop'.rest \in Seq(Elements)
         /\ heap' \in [Nodes -> Contents]
         /\ heap'[n] = [element |-> e, previous |-> None,
                        next |-> IF L = 0 THEN None ELSE chain[1]]
         /\ \A m \in Nodes \ {n} :
              /\ heap'[m].element = heap[m].element
              /\ heap'[m].next = heap[m].next
              /\ heap'[m].previous = IF L # 0 /\ m = head THEN n
                                                          ELSE heap[m].previous
<1> DEFINE L == Len(chain)
           e == loop.rest[Len(loop.rest)]
<1>1. /\ L \in Nat /\ DOMAIN chain = 1..L
      /\ \A k \in 1..L : chain[k] \in Nodes
      /\ L = 0 => head = None /\ tail = None
      /\ L # 0 => /\ head \in Nodes /\ head # None /\ head = chain[1]
                 /\ tail # None /\ tail = chain[L]
      /\ \A k \in 1..L : chain[k] = head => k = 1
  BY ChainFacts DEF L
<1>2. /\ n \in Nodes /\ n # None
      /\ \A k \in 1..L : chain[k] # n
  BY FreshUnchained DEF L
<1>3. /\ chain' \in Seq(Nodes) /\ IsInjective(chain')
      /\ Len(chain') = L + 1 /\ chain'[1] = n
      /\ \A k \in 2..(L + 1) : chain'[k] = chain[k - 1]
  <2>1. chain' = <<n>> \o chain /\ chain \in Seq(Nodes) /\ IsInjective(chain)
    BY DEF UnshiftOne, IInv, TypeOK, Linked
  <2> QED BY <1>2, <2>1, AddFirst DEF L
<1>4. e \in Elements /\ e # None /\ loop'.rest \in Seq(Elements)
  <2>1. loop.rest \in Seq(Elements) /\ loop.rest # <<>>
        /\ loop' = [loop EXCEPT !.rest = SubSeq(@, 1, Len(loop.rest) - 1)]
    BY DEF UnshiftOne, IInv, TypeOK
  <2>2. loop'.rest = SubSeq(loop.rest, 1, Len(loop.rest) - 1)
    BY <2>1 DEF IInv, TypeOK
  <2>3. Len(loop.rest) \in Nat \ {0} /\ e \in Elements
        /\ \A k \in 1..(Len(loop.rest) - 1) : loop.rest[k] \in Elements
    BY <2>1
  <2>4. SubSeq(loop.rest, 1, Len(loop.rest) - 1) \in Seq(Elements)
    BY <2>3, SubSeqProperties
  <2> QED BY <2>2, <2>3, <2>4, ListAssumption
<1> HIDE DEF L, e
<1>5. L # 0 => head # n
  BY <1>1, <1>2
<1>6. /\ heap' \in [Nodes -> Contents]
      /\ heap'[n] = [element |-> e, previous |-> None,
                     next |-> IF L = 0 THEN None ELSE chain[1]]
      /\ \A m \in Nodes \ {n} :
           /\ heap'[m].element = heap[m].element
           /\ heap'[m].next = heap[m].next
           /\ heap'[m].previous = IF L # 0 /\ m = head THEN n
                                                       ELSE heap[m].previous
  <2>1. heap \in [Nodes -> Contents] /\ head \in Nodes \union {None}
    BY DEF IInv, TypeOK
  <2>2. CASE L = 0
    <3>1. heap' = [heap EXCEPT ![n] = [element |-> e,
                                       next |-> None, previous |-> None]]
      BY <1>1, <2>2 DEF UnshiftOne, Unmade, e
    <3> QED BY <1>2, <1>4, <2>1, <2>2, <3>1 DEF Contents
  <2>3. CASE L # 0
    <3>1. heap' = [heap EXCEPT ![n] = [element |-> e,
                                       next |-> head, previous |-> None],
                               ![head].previous = n]
      BY <1>1, <2>3 DEF UnshiftOne, e
    <3> QED BY <1>1, <1>2, <1>4, <1>5, <2>1, <2>3, <3>1 DEF Contents
  <2> QED BY <2>2, <2>3
<1> QED BY <1>3, <1>4, <1>6 DEF L, e

(* So unshiftOne() keeps the chains in agreement. *)
LEMMA UnshiftOneInv ==
  ASSUME IInv, NEW n \in Fresh, UnshiftOne(n)
  PROVE  IInv'
<1> DEFINE L == Len(chain)
           e == loop.rest[Len(loop.rest)]
<1>1. /\ L \in Nat /\ DOMAIN chain = 1..L
      /\ \A k \in 1..L : chain[k] \in Nodes
      /\ L = 0 => head = None /\ tail = None
      /\ L # 0 => /\ head \in Nodes /\ head # None /\ head = chain[1]
                 /\ tail # None /\ tail = chain[L]
      /\ \A k \in 1..L : chain[k] = head => k = 1
  BY ChainFacts DEF L
<1>2. /\ n \in Nodes /\ n # None
      /\ \A k \in 1..L : chain[k] # n
  BY FreshUnchained DEF L
<1>3. /\ chain' \in Seq(Nodes) /\ IsInjective(chain')
      /\ Len(chain') = L + 1 /\ chain'[1] = n
      /\ \A k \in 2..(L + 1) : chain'[k] = chain[k - 1]
  BY UnshiftOneEffect DEF L
<1>6. /\ e \in Elements /\ e # None /\ loop'.rest \in Seq(Elements)
      /\ heap' \in [Nodes -> Contents]
      /\ heap'[n] = [element |-> e, previous |-> None,
                     next |-> IF L = 0 THEN None ELSE chain[1]]
      /\ \A m \in Nodes \ {n} :
           /\ heap'[m].element = heap[m].element
           /\ heap'[m].next = heap[m].next
           /\ heap'[m].previous = IF L # 0 /\ m = head THEN n
                                                       ELSE heap[m].previous
  BY UnshiftOneEffect DEF L, e
<1> HIDE DEF L, e
<1>4. e \in Elements /\ e # None /\ loop'.rest \in Seq(Elements)
  BY <1>6
<1>5. L # 0 => head # n
  BY <1>1, <1>2
<1>7. TypeOK'
  <2>1. loop' \in [end : {"front", "back"}, rest : Seq(Elements)]
    BY <1>4 DEF UnshiftOne, IInv, TypeOK
  <2>2. head' \in Nodes /\ tail' \in Nodes \union {None} /\ size' \in Nat
    BY <1>2 DEF UnshiftOne, IInv, TypeOK
  <2>3. returned' \in Elements \union {None} /\ UNCHANGED <<iter, due, seen>>
    BY DEF UnshiftOne, IInv, TypeOK
  <2> QED BY <1>3, <1>6, <2>1, <2>2, <2>3 DEF IInv, TypeOK
<1>8. Linked'
  <2>1. chain' # <<>> /\ DOMAIN chain' = 1..(L + 1)
    BY <1>1, <1>3
  <2>2. size' = Len(chain') /\ head' = chain'[1]
    BY <1>3 DEF UnshiftOne, IInv, Linked, L
  <2>3. tail' = chain'[L + 1]
    BY <1>1, <1>2, <1>3, <1>5 DEF UnshiftOne
  <2>4. ASSUME NEW k \in 1..(L + 1)
        PROVE  /\ heap'[chain'[k]].element # None
               /\ heap'[chain'[k]].next = IF k = L + 1 THEN None ELSE chain'[k + 1]
               /\ heap'[chain'[k]].previous = IF k = 1 THEN None ELSE chain'[k - 1]
    <3>1. CASE k = 1
      BY <1>1, <1>3, <1>4, <1>6, <3>1
    <3>2. CASE k # 1
      <4> DEFINE j == k - 1
      <4>1. /\ j \in 1..L /\ chain'[k] = chain[j] /\ chain[j] \in Nodes \ {n}
            /\ j # L => chain'[k + 1] = chain[j + 1]
        BY <1>1, <1>2, <1>3, <3>2
      <4>2. /\ heap[chain[j]].element # None
            /\ heap[chain[j]].next = IF j = L THEN None ELSE chain[j + 1]
            /\ heap[chain[j]].previous = IF j = 1 THEN None ELSE chain[j - 1]
        BY <4>1, ChainFacts DEF L
      <4>3. /\ k = j + 1
            /\ j # 1 => chain'[k - 1] = chain[j - 1]
        BY <1>1, <1>3, <3>2, <4>1
      <4> HIDE DEF j
      <4>4. CASE j = 1
        BY <1>1, <1>3, <1>6, <4>1, <4>2, <4>3, <4>4
      <4>5. CASE j # 1
        BY <1>1, <1>3, <1>6, <4>1, <4>2, <4>3, <4>5
      <4> QED BY <4>4, <4>5
    <3> QED BY <3>1, <3>2
  <2> QED BY <1>3, <2>1, <2>2, <2>3, <2>4 DEF Linked
<1> QED BY <1>7, <1>8 DEF IInv

(* pop() unlinks the last node; the rest of the chain keeps its pointers. *)
LEMMA PopEffect ==
  ASSUME IInv, Pop
  PROVE  LET L == Len(chain) IN
         /\ chain' \in Seq(Nodes) /\ IsInjective(chain') /\ Len(chain') = L - 1
         /\ \A k \in 1..(L - 1) : chain'[k] = chain[k]
         /\ tail' = IF L = 1 THEN None ELSE chain[L - 1]
         /\ tail' \in Nodes \union {None} /\ (tail' = None <=> L = 1)
         /\ heap' \in [Nodes -> Contents]
         /\ \A m \in Nodes :
              /\ heap'[m].element = heap[m].element
              /\ heap'[m].previous = heap[m].previous
              /\ heap'[m].next = IF m = tail' THEN None ELSE heap[m].next
<1> DEFINE L == Len(chain)
<1>1. /\ L \in Nat \ {0} /\ DOMAIN chain = 1..L /\ chain # <<>>
      /\ \A k \in 1..L : chain[k] \in Nodes /\ chain[k] # None
      /\ head = chain[1] /\ tail \in Nodes /\ tail = chain[L]
      /\ \A k \in 1..L : chain[k] = head => k = 1
      /\ \A k \in 1..L : chain[k] = tail => k = L
      /\ \A k \in 1..L :
           heap[chain[k]].previous = IF k = 1 THEN None ELSE chain[k - 1]
  BY ChainFacts DEF Pop, L
<1>2. /\ chain' \in Seq(Nodes) /\ IsInjective(chain') /\ Len(chain') = L - 1
      /\ \A k \in 1..(L - 1) : chain'[k] = chain[k]
  <2>1. chain' = SubSeq(chain, 1, Len(chain) - 1) /\ chain \in Seq(Nodes)
        /\ IsInjective(chain)
    BY DEF Pop, IInv, TypeOK, Linked
  <2> QED BY <1>1, <2>1, DropLast DEF L
<1> HIDE DEF L
<1>3. tail' = IF L = 1 THEN None ELSE chain[L - 1]
  <2>1. heap[chain[L]].previous = IF L = 1 THEN None ELSE chain[L - 1]
    BY <1>1
  <2> QED BY <1>1, <2>1 DEF Pop
<1>4. tail' \in Nodes \union {None} /\ (tail' = None <=> L = 1)
  BY <1>1, <1>3
<1>5. /\ heap' \in [Nodes -> Contents]
      /\ \A m \in Nodes :
           /\ heap'[m].element = heap[m].element
           /\ heap'[m].previous = heap[m].previous
           /\ heap'[m].next = IF m = tail' THEN None ELSE heap[m].next
  <2>1. heap \in [Nodes -> Contents] /\ None \notin Nodes
    BY ListAssumption DEF IInv, TypeOK
  <2>2. heap' = IF tail' # None THEN [heap EXCEPT ![tail'].next = None] ELSE heap
    BY DEF Pop
  <2> QED BY <1>4, <2>1, <2>2 DEF Contents
<1> QED BY <1>2, <1>3, <1>4, <1>5 DEF L

(* So pop() keeps the chains in agreement. *)
LEMMA PopInv ==
  ASSUME IInv, Pop
  PROVE  IInv'
<1> DEFINE L == Len(chain)
<1>1. /\ L \in Nat \ {0} /\ DOMAIN chain = 1..L /\ chain # <<>>
      /\ \A k \in 1..L : chain[k] \in Nodes /\ chain[k] # None
      /\ head = chain[1] /\ tail \in Nodes /\ tail = chain[L]
      /\ \A k \in 1..L : chain[k] = head => k = 1
      /\ \A k \in 1..L : chain[k] = tail => k = L
      /\ \A k \in 1..L :
           heap[chain[k]].previous = IF k = 1 THEN None ELSE chain[k - 1]
  BY ChainFacts DEF Pop, L
<1>2. /\ chain' \in Seq(Nodes) /\ IsInjective(chain') /\ Len(chain') = L - 1
      /\ \A k \in 1..(L - 1) : chain'[k] = chain[k]
  BY PopEffect DEF L
<1>3. /\ tail' = IF L = 1 THEN None ELSE chain[L - 1]
      /\ tail' \in Nodes \union {None} /\ (tail' = None <=> L = 1)
      /\ heap' \in [Nodes -> Contents]
      /\ \A m \in Nodes :
           /\ heap'[m].element = heap[m].element
           /\ heap'[m].previous = heap[m].previous
           /\ heap'[m].next = IF m = tail' THEN None ELSE heap[m].next
  BY PopEffect DEF L
<1> HIDE DEF L
<1>4. TypeOK'
  <2>1. head' \in Nodes \union {None} /\ size' \in Nat
    BY <1>1 DEF Pop, IInv, TypeOK, Linked, L
  <2>2. returned' \in Elements \union {None}
    BY <1>1 DEF Pop, IInv, TypeOK, Contents
  <2>3. due' \in [Iterators -> SUBSET Nodes] /\ UNCHANGED <<loop, iter, seen>>
    BY DEF Pop, Unlinked, IInv, TypeOK
  <2> QED BY <1>2, <1>3, <2>1, <2>2, <2>3 DEF IInv, TypeOK
<1>5. Linked'
  <2>1. (chain' = <<>> <=> L = 1) /\ DOMAIN chain' = 1..(L - 1)
    BY <1>1, <1>2
  <2>2. size' = Len(chain')
    BY <1>2 DEF Pop, IInv, Linked, L
  <2>3. tail' = IF L = 1 THEN None ELSE chain'[L - 1]
    BY <1>1, <1>2, <1>3
  <2>4. head' = IF L = 1 THEN None ELSE chain'[1]
    BY <1>1, <1>2, <1>3 DEF Pop
  <2>5. ASSUME NEW k \in 1..(L - 1)
        PROVE  /\ heap'[chain'[k]].element # None
               /\ heap'[chain'[k]].next = IF k = L - 1 THEN None ELSE chain'[k + 1]
               /\ heap'[chain'[k]].previous = IF k = 1 THEN None ELSE chain'[k - 1]
    <3>1. /\ k \in 1..L /\ chain'[k] = chain[k] /\ chain[k] \in Nodes
          /\ k # 1 => chain'[k - 1] = chain[k - 1]
          /\ k # L - 1 => chain'[k + 1] = chain[k + 1]
      BY <1>1, <1>2
    <3>2. /\ heap[chain[k]].element # None
          /\ heap[chain[k]].next = IF k = L THEN None ELSE chain[k + 1]
          /\ heap[chain[k]].previous = IF k = 1 THEN None ELSE chain[k - 1]
      BY <3>1, ChainFacts DEF L
    <3>3. chain[k] = tail' <=> k = L - 1
      <4>1. \A i, j \in 1..L : chain[i] = chain[j] => i = j
        BY <1>1 DEF IInv, Linked, IsInjective
      <4> QED BY <1>1, <1>3, <4>1
    <3> QED BY <1>1, <1>3, <3>1, <3>2, <3>3
  <2> QED BY <1>2, <2>1, <2>2, <2>3, <2>4, <2>5 DEF Linked
<1> QED BY <1>4, <1>5 DEF IInv

(* shift() unlinks the first. *)
LEMMA ShiftEffect ==
  ASSUME IInv, Shift
  PROVE  LET L == Len(chain) IN
         /\ chain' \in Seq(Nodes) /\ IsInjective(chain') /\ Len(chain') = L - 1
         /\ \A k \in 1..(L - 1) : chain'[k] = chain[k + 1]
         /\ head' = IF L = 1 THEN None ELSE chain[2]
         /\ head' \in Nodes \union {None} /\ (head' = None <=> L = 1)
         /\ heap' \in [Nodes -> Contents]
         /\ \A m \in Nodes :
              /\ heap'[m].element = heap[m].element
              /\ heap'[m].next = heap[m].next
              /\ heap'[m].previous = IF m = head' THEN None ELSE heap[m].previous
<1> DEFINE L == Len(chain)
<1>1. /\ L \in Nat \ {0} /\ DOMAIN chain = 1..L /\ chain # <<>>
      /\ \A k \in 1..L : chain[k] \in Nodes /\ chain[k] # None
      /\ head \in Nodes /\ head = chain[1] /\ tail = chain[L]
      /\ \A k \in 1..L :
           heap[chain[k]].next = IF k = L THEN None ELSE chain[k + 1]
  BY ChainFacts DEF Shift, L
<1>2. /\ chain' \in Seq(Nodes) /\ IsInjective(chain') /\ Len(chain') = L - 1
      /\ \A k \in 1..(L - 1) : chain'[k] = chain[k + 1]
  <2>1. chain' = Tail(chain) /\ chain \in Seq(Nodes) /\ IsInjective(chain)
    BY DEF Shift, IInv, TypeOK, Linked
  <2> QED BY <1>1, <2>1, DropFirst DEF L
<1> HIDE DEF L
<1>3. head' = IF L = 1 THEN None ELSE chain[2]
  <2>1. heap[chain[1]].next = IF 1 = L THEN None ELSE chain[1 + 1]
    BY <1>1
  <2> QED BY <1>1, <2>1 DEF Shift
<1>4. head' \in Nodes \union {None} /\ (head' = None <=> L = 1)
  BY <1>1, <1>3
<1>5. /\ heap' \in [Nodes -> Contents]
      /\ \A m \in Nodes :
           /\ heap'[m].element = heap[m].element
           /\ heap'[m].next = heap[m].next
           /\ heap'[m].previous = IF m = head' THEN None ELSE heap[m].previous
  <2>1. heap \in [Nodes -> Contents] /\ None \notin Nodes
    BY ListAssumption DEF IInv, TypeOK
  <2>2. heap' = IF head' # None THEN [heap EXCEPT ![head'].previous = None]
                                ELSE heap
    BY DEF Shift
  <2> QED BY <1>4, <2>1, <2>2 DEF Contents
<1> QED BY <1>2, <1>3, <1>4, <1>5 DEF L

(* So shift() keeps the chains in agreement. *)
LEMMA ShiftInv ==
  ASSUME IInv, Shift
  PROVE  IInv'
<1> DEFINE L == Len(chain)
<1>1. /\ L \in Nat \ {0} /\ DOMAIN chain = 1..L /\ chain # <<>>
      /\ \A k \in 1..L : chain[k] \in Nodes /\ chain[k] # None
      /\ head \in Nodes /\ head = chain[1] /\ tail = chain[L]
      /\ \A k \in 1..L :
           heap[chain[k]].next = IF k = L THEN None ELSE chain[k + 1]
  BY ChainFacts DEF Shift, L
<1>2. /\ chain' \in Seq(Nodes) /\ IsInjective(chain') /\ Len(chain') = L - 1
      /\ \A k \in 1..(L - 1) : chain'[k] = chain[k + 1]
  BY ShiftEffect DEF L
<1>3. /\ head' = IF L = 1 THEN None ELSE chain[2]
      /\ head' \in Nodes \union {None} /\ (head' = None <=> L = 1)
      /\ heap' \in [Nodes -> Contents]
      /\ \A m \in Nodes :
           /\ heap'[m].element = heap[m].element
           /\ heap'[m].next = heap[m].next
           /\ heap'[m].previous = IF m = head' THEN None ELSE heap[m].previous
  BY ShiftEffect DEF L
<1> HIDE DEF L
<1>4. TypeOK'
  <2>1. tail' \in Nodes \union {None} /\ size' \in Nat
    BY <1>1 DEF Shift, IInv, TypeOK, Linked, L
  <2>2. returned' \in Elements \union {None}
    BY <1>1 DEF Shift, IInv, TypeOK, Contents
  <2>3. due' \in [Iterators -> SUBSET Nodes] /\ UNCHANGED <<loop, iter, seen>>
    BY DEF Shift, Unlinked, IInv, TypeOK
  <2> QED BY <1>2, <1>3, <2>1, <2>2, <2>3 DEF IInv, TypeOK
<1>5. Linked'
  <2>1. (chain' = <<>> <=> L = 1) /\ DOMAIN chain' = 1..(L - 1)
    BY <1>1, <1>2
  <2>2. size' = Len(chain')
    BY <1>2 DEF Shift, IInv, Linked, L
  <2>3. head' = IF L = 1 THEN None ELSE chain'[1]
    BY <1>1, <1>2, <1>3
  <2>4. tail' = IF L = 1 THEN None ELSE chain'[L - 1]
    BY <1>1, <1>2, <1>3 DEF Shift
  <2>5. ASSUME NEW k \in 1..(L - 1)
        PROVE  /\ heap'[chain'[k]].element # None
               /\ heap'[chain'[k]].next = IF k = L - 1 THEN None ELSE chain'[k + 1]
               /\ heap'[chain'[k]].previous = IF k = 1 THEN None ELSE chain'[k - 1]
    <3> DEFINE j == k + 1
    <3>1. /\ j \in 1..L /\ chain'[k] = chain[j] /\ chain[j] \in Nodes /\ j # 1
          /\ k # 1 => chain'[k - 1] = chain[j - 1]
          /\ k # L - 1 => chain'[k + 1] = chain[j + 1]
          /\ (j = L <=> k = L - 1) /\ (j = 2 <=> k = 1)
      BY <1>1, <1>2
    <3> HIDE DEF j
    <3>2. /\ heap[chain[j]].element # None
          /\ heap[chain[j]].next = IF j = L THEN None ELSE chain[j + 1]
          /\ heap[chain[j]].previous = IF j = 1 THEN None ELSE chain[j - 1]
      BY <3>1, ChainFacts DEF L
    <3>3. chain[j] = head' <=> k = 1
      <4>1. \A i, l \in 1..L : chain[i] = chain[l] => i = l
        BY <1>1 DEF IInv, Linked, IsInjective
      <4> QED BY <1>1, <1>3, <3>1, <4>1
    <3> QED BY <1>1, <1>3, <3>1, <3>2, <3>3
  <2> QED BY <1>2, <2>1, <2>2, <2>3, <2>4, <2>5 DEF Linked
<1> QED BY <1>4, <1>5 DEF IInv

(* Every step keeps the invariant; calls and iterators change no pointer. *)
LEMMA NextInv == IInv /\ [Next]_vars => IInv'
<1> SUFFICES ASSUME IInv, [Next]_vars PROVE IInv'
  OBVIOUS
<1>1. ASSUME NEW end \in {"front", "back"}, NEW elements \in Arguments,
             Call(end, elements)
      PROVE  IInv'
  <2>1. loop' \in [end : {"front", "back"}, rest : Seq(Elements)]
    BY <1>1, ListAssumption DEF Call
  <2>2. UNCHANGED <<head, tail, size, heap, returned, iter, chain, due, seen>>
    BY <1>1 DEF Call, history
  <2> QED BY <2>1, <2>2 DEF IInv, TypeOK, Linked
<1>2. ASSUME NEW n \in Fresh, PushOne(n) \/ UnshiftOne(n)
      PROVE  IInv'
  BY <1>2, PushOneInv, UnshiftOneInv
<1>3. CASE Pop \/ Shift
  BY <1>3, PopInv, ShiftInv
<1>4. CASE PopNothing \/ ShiftNothing
  <2>1. returned' = None
    BY <1>4 DEF PopNothing, ShiftNothing
  <2>2. UNCHANGED <<head, tail, size, heap, loop, iter, chain, due, seen>>
    BY <1>4 DEF PopNothing, ShiftNothing, history
  <2> QED BY <2>1, <2>2 DEF IInv, TypeOK, Linked
<1>5. ASSUME NEW i \in Iterators, Yield(i) \/ Finish(i)
      PROVE  IInv'
  <2>1. Current(i) \in Nodes \union {None} /\ Due(i) \in SUBSET Nodes
    BY DEF Current, Due, Range, IInv, TypeOK
  <2>2. CASE Yield(i)
    <3>1. heap[Current(i)].next \in Nodes \union {None}
      BY <2>1, <2>2 DEF Yield, IInv, TypeOK, Contents
    <3>2. TypeOK'
      BY <2>1, <2>2, <3>1 DEF Yield, fields, IInv, TypeOK
    <3>3. Linked'
      BY <2>2 DEF Yield, fields, IInv, Linked
    <3> QED BY <3>2, <3>3 DEF IInv
  <2>3. CASE Finish(i)
    <3>1. TypeOK'
      BY <2>1, <2>3 DEF Finish, fields, IInv, TypeOK
    <3>2. Linked'
      BY <2>3 DEF Finish, fields, IInv, Linked
    <3> QED BY <3>1, <3>2 DEF IInv
  <2> QED BY <1>5, <2>2, <2>3
<1>6. CASE UNCHANGED vars
  BY <1>6 DEF vars, fields, history, IInv, TypeOK, Linked
<1> QED BY <1>1, <1>2, <1>3, <1>4, <1>5, <1>6 DEF Next

(* The invariant holds for ever. *)
LEMMA Invariant == Spec => []IInv
<1> QED BY InitInv, NextInv, PTL DEF Spec

(* The fields, the nodes, the generators and the history keep their types;  *)
(* length never goes below zero.                                            *)
THEOREM TypeCorrect == Spec => []TypeOK
<1>1. IInv => TypeOK
  BY DEF IInv
<1> QED BY <1>1, Invariant, PTL

(* Whatever calls are made in whatever order, head, tail, both chains of    *)
(* pointers and length describe one list.                                   *)
THEOREM ChainsAgree == Spec => []Linked
<1>1. IInv => Linked
  BY DEF IInv
<1> QED BY <1>1, Invariant, PTL
-----------------------------------------------------------------------------
(* The refinement: what each step does to the elements in the list. *)

(* The elements of a list, by their positions in the chain.                 *)
LEMMA ItemsFacts ==
  ASSUME IInv
  PROVE  /\ Items \in Seq(Elements) /\ Len(Items) = Len(chain)
         /\ \A k \in 1..Len(chain) : Items[k] = heap[chain[k]].element
<1>1. Len(chain) \in Nat /\ DOMAIN chain = 1..Len(chain)
  BY ChainFacts, Zenon
<1>2. ASSUME NEW k \in 1..Len(chain)
      PROVE  heap[chain[k]].element \in Elements
  <2>1. chain[k] \in Nodes /\ heap[chain[k]].element # None
    BY ChainFacts, Zenon
  <2>2. heap[chain[k]] \in Contents
    BY <2>1 DEF IInv, TypeOK
  <2> QED BY <2>1, <2>2 DEF Contents
<1> QED BY <1>1, <1>2 DEF Items

(* A sequence is what it has at each place. *)
LEMMA SeqAsFunction ==
  ASSUME NEW S, NEW s \in Seq(S)
  PROVE  s = [k \in 1..Len(s) |-> s[k]]
<1> QED OBVIOUS

(* pushOne() appends the first of the remaining arguments. *)
LEMMA PushedItems ==
  ASSUME IInv, NEW n \in Fresh, PushOne(n)
  PROVE  Items' = Append(Items, Head(loop.rest))
<1> DEFINE L == Len(chain)
           e == Head(loop.rest)
<1>1. L \in Nat /\ \A k \in 1..L : chain[k] \in Nodes /\ chain[k] # n
  BY ChainFacts, FreshUnchained DEF L
<1>2. /\ chain' \in Seq(Nodes) /\ Len(chain') = L + 1 /\ chain'[L + 1] = n
      /\ \A k \in 1..L : chain'[k] = chain[k]
      /\ heap'[n].element = e
      /\ \A m \in Nodes \ {n} : heap'[m].element = heap[m].element
  BY PushOneEffect DEF L
<1>3. /\ Items \in Seq(Elements) /\ Len(Items) = L
      /\ \A k \in 1..L : Items[k] = heap[chain[k]].element
  BY ItemsFacts DEF L
<1>4. e \in Elements
  BY DEF PushOne, IInv, TypeOK
<1> HIDE DEF L, e
<1>5. DOMAIN chain' = 1..(L + 1)
  BY <1>1, <1>2
<1>6. Items' = [k \in 1..(L + 1) |-> IF k = L + 1 THEN e ELSE Items[k]]
  BY <1>1, <1>2, <1>3, <1>5 DEF Items
<1>7. Append(Items, e) = [k \in 1..(L + 1) |-> IF k = L + 1 THEN e ELSE Items[k]]
  <2>1. /\ Append(Items, e) \in Seq(Elements) /\ Len(Append(Items, e)) = L + 1
        /\ \A k \in 1..L : Append(Items, e)[k] = Items[k]
        /\ Append(Items, e)[L + 1] = e
    BY <1>3, <1>4, AppendProperties
  <2>2. \A k \in 1..(L + 1) :
          Append(Items, e)[k] = IF k = L + 1 THEN e ELSE Items[k]
    BY <1>1, <2>1
  <2>3. Append(Items, e) = [k \in 1..(L + 1) |-> Append(Items, e)[k]]
    BY <2>1, SeqAsFunction
  <2> QED BY <2>2, <2>3
<1> QED BY <1>6, <1>7 DEF e

(* unshiftOne() prepends the last of the remaining arguments. *)
LEMMA UnshiftedItems ==
  ASSUME IInv, NEW n \in Fresh, UnshiftOne(n)
  PROVE  Items' = <<loop.rest[Len(loop.rest)]>> \o Items
<1> DEFINE L == Len(chain)
           e == loop.rest[Len(loop.rest)]
<1>1. L \in Nat /\ \A k \in 1..L : chain[k] \in Nodes /\ chain[k] # n
  BY ChainFacts, FreshUnchained DEF L
<1>2. /\ chain' \in Seq(Nodes) /\ Len(chain') = L + 1 /\ chain'[1] = n
      /\ \A k \in 2..(L + 1) : chain'[k] = chain[k - 1]
      /\ heap'[n].element = e /\ e \in Elements
      /\ \A m \in Nodes \ {n} : heap'[m].element = heap[m].element
  BY UnshiftOneEffect DEF L
<1>3. /\ Items \in Seq(Elements) /\ Len(Items) = L
      /\ \A k \in 1..L : Items[k] = heap[chain[k]].element
  BY ItemsFacts DEF L
<1> HIDE DEF L, e
<1>4. DOMAIN chain' = 1..(L + 1)
  BY <1>1, <1>2
<1>5. \A k \in 1..(L + 1) :
        heap'[chain'[k]].element = IF k = 1 THEN e ELSE Items[k - 1]
  <2> TAKE k \in 1..(L + 1)
  <2>1. CASE k = 1
    BY <1>1, <1>2, <2>1
  <2>2. CASE k # 1
    <3>1. k - 1 \in 1..L /\ k \in 2..(L + 1)
      BY <1>1, <2>2
    <3> QED BY <1>1, <1>2, <1>3, <2>2, <3>1
  <2> QED BY <2>1, <2>2
<1>6. Items' = [k \in 1..(L + 1) |-> IF k = 1 THEN e ELSE Items[k - 1]]
  BY <1>4, <1>5 DEF Items
<1>7. <<e>> \o Items = [k \in 1..(L + 1) |-> IF k = 1 THEN e ELSE Items[k - 1]]
  BY <1>1, <1>2, <1>3
<1> QED BY <1>6, <1>7 DEF e

(* pop() takes and returns the last element. *)
LEMMA PoppedItems ==
  ASSUME IInv, Pop
  PROVE  /\ Items # <<>> /\ returned' = Items[Len(Items)]
         /\ Items' = SubSeq(Items, 1, Len(Items) - 1)
<1> DEFINE L == Len(chain)
<1>1. L \in Nat \ {0} /\ tail = chain[L] /\ \A k \in 1..L : chain[k] \in Nodes
  BY ChainFacts DEF Pop, L
<1>2. /\ chain' \in Seq(Nodes) /\ Len(chain') = L - 1
      /\ \A k \in 1..(L - 1) : chain'[k] = chain[k]
      /\ \A m \in Nodes : heap'[m].element = heap[m].element
  BY PopEffect DEF L
<1>3. /\ Items \in Seq(Elements) /\ Len(Items) = L
      /\ \A k \in 1..L : Items[k] = heap[chain[k]].element
  BY ItemsFacts DEF L
<1> HIDE DEF L
<1>4. DOMAIN chain' = 1..(L - 1)
  BY <1>1, <1>2
<1>5. Items' = [k \in 1..(L - 1) |-> Items[k]]
  BY <1>1, <1>2, <1>3, <1>4 DEF Items
<1>6. Items # <<>> /\ returned' = Items[L]
  BY <1>1, <1>3 DEF Pop
<1>7. SubSeq(Items, 1, L - 1) = [k \in 1..(L - 1) |-> Items[k]]
  BY <1>1, <1>3
<1> QED BY <1>3, <1>5, <1>6, <1>7

(* shift() takes and returns the first element. *)
LEMMA ShiftedItems ==
  ASSUME IInv, Shift
  PROVE  Items # <<>> /\ returned' = Head(Items) /\ Items' = Tail(Items)
<1> DEFINE L == Len(chain)
<1>1. L \in Nat \ {0} /\ head = chain[1] /\ \A k \in 1..L : chain[k] \in Nodes
  BY ChainFacts DEF Shift, L
<1>2. /\ chain' \in Seq(Nodes) /\ Len(chain') = L - 1
      /\ \A k \in 1..(L - 1) : chain'[k] = chain[k + 1]
      /\ \A m \in Nodes : heap'[m].element = heap[m].element
  BY ShiftEffect DEF L
<1>3. /\ Items \in Seq(Elements) /\ Len(Items) = L
      /\ \A k \in 1..L : Items[k] = heap[chain[k]].element
  BY ItemsFacts DEF L
<1> HIDE DEF L
<1>4. DOMAIN chain' = 1..(L - 1)
  BY <1>1, <1>2
<1>5. Items' = [k \in 1..(L - 1) |-> Items[k + 1]]
  BY <1>1, <1>2, <1>3, <1>4 DEF Items
<1>6. Items # <<>> /\ returned' = Items[1]
  BY <1>1, <1>3 DEF Shift
<1>7. Tail(Items) = [k \in 1..(L - 1) |-> Items[k + 1]]
  <2>1. /\ Tail(Items) \in Seq(Elements) /\ Len(Tail(Items)) = L - 1
        /\ \A k \in 1..(L - 1) : Tail(Items)[k] = Items[k + 1]
    BY <1>1, <1>3, <1>6, HeadTailProperties
  <2> QED BY <1>1, <2>1, SeqAsFunction
<1> QED BY <1>3, <1>5, <1>6, <1>7

(* Steps that leave the chain and what its nodes contain alone. *)
LEMMA SameItems ==
  ASSUME UNCHANGED <<heap, chain>>
  PROVE  Items' = Items
<1> QED BY DEF Items

(* The list as its users see it: with what push() or unshift() still has to *)
(* link already in its place.                                               *)
All   == IF loop.end = "back" THEN Items \o loop.rest ELSE loop.rest \o Items
Count == size + Len(loop.rest)

(* Between calls that is the list itself, and length counts it. *)
LEMMA IdleAll ==
  ASSUME IInv, Idle
  PROVE  All = Items /\ Count = size /\ size = Len(Items)
<1>1. Items \in Seq(Elements) /\ Len(Items) = Len(chain)
  BY ItemsFacts
<1>2. size \in Nat /\ size = Len(chain) /\ loop.rest = <<>>
  BY DEF IInv, TypeOK, Linked, Idle
<1> QED BY <1>1, <1>2, ConcatEmptySeq DEF All, Count

(* What unshift() has still to link before and after one turn of its loop. *)
LEMMA SplitLast ==
  ASSUME NEW S, NEW r \in Seq(S), r # <<>>
  PROVE  LET s == SubSeq(r, 1, Len(r) - 1)
             e == r[Len(r)]
         IN  /\ s \in Seq(S) /\ e \in S /\ r = s \o <<e>>
             /\ Len(r) \in Nat /\ Len(s) = Len(r) - 1
<1> DEFINE n == Len(r)
           s == SubSeq(r, 1, n - 1)
           e == r[n]
           t == Append(s, e)
<1>1. n \in Nat \ {0} /\ e \in S /\ \A k \in 1..(n - 1) : r[k] \in S
  OBVIOUS
<1> HIDE DEF n
<1>2. 1 \in Int /\ n - 1 \in Int
  BY <1>1
<1>3. /\ s \in Seq(S) /\ Len(s) = IF 1 <= n - 1 THEN n - 1 - 1 + 1 ELSE 0
      /\ \A k \in 1..(n - 1 - 1 + 1) : s[k] = r[1 + k - 1]
  BY <1>1, <1>2, SubSeqProperties
<1> HIDE DEF s, e
<1>4. /\ s \in Seq(S) /\ Len(s) = n - 1
      /\ \A k \in 1..(n - 1) : s[k] = r[k]
  BY <1>1, <1>3
<1>5. /\ t \in Seq(S) /\ Len(t) = n - 1 + 1 /\ t[n - 1 + 1] = e
      /\ \A k \in 1..(n - 1) : t[k] = s[k]
  BY <1>1, <1>4, AppendProperties
<1>6. t = s \o <<e>>
  BY <1>1, <1>4, AppendIsConcat
<1> HIDE DEF t
<1>7. Len(t) = n /\ \A k \in 1..n : t[k] = r[k]
  BY <1>1, <1>4, <1>5 DEF e
<1>8. t = r
  BY <1>5, <1>7, SeqEqual DEF n
<1> QED BY <1>1, <1>4, <1>6, <1>8 DEF n, s, e

(* Linking one more argument changes nothing that a user can see.  *)
LEMMA PushOneStutters ==
  ASSUME IInv, NEW n \in Fresh, PushOne(n)
  PROVE  All' = All /\ Count' = Count /\ returned' = returned
<1> DEFINE r == loop.rest
<1>1. /\ r \in Seq(Elements) /\ r # <<>> /\ loop.end = "back"
      /\ loop'.end = "back" /\ loop'.rest = Tail(r)
      /\ size \in Nat /\ size' = size + 1 /\ returned' = returned
  BY DEF PushOne, IInv, TypeOK
<1>2. Items \in Seq(Elements)
  BY ItemsFacts
<1>3. Items' = Append(Items, Head(r))
  BY PushedItems
<1> HIDE DEF r
<1>4. /\ Head(r) \in Elements /\ Tail(r) \in Seq(Elements)
      /\ Len(r) \in Nat /\ Len(Tail(r)) = Len(r) - 1
      /\ r = <<Head(r)>> \o Tail(r)
  <2>1. /\ Head(r) \in Elements /\ Tail(r) \in Seq(Elements)
        /\ Len(r) \in Nat /\ Len(Tail(r)) = Len(r) - 1
    BY <1>1
  <2> QED BY <1>1, <2>1
<1>5. Items' \o Tail(r) = Items \o r
  <2>1. Items' = Items \o <<Head(r)>> /\ <<Head(r)>> \in Seq(Elements)
    BY <1>2, <1>3, <1>4, AppendIsConcat
  <2> QED BY <1>2, <1>4, <2>1, ConcatAssociative
<1>6. All' = All
  BY <1>1, <1>5 DEF All, r
<1>7. Count' = Count
  <2>1. Count = size + Len(r) /\ Count' = size' + Len(Tail(r))
    BY <1>1 DEF Count, r
  <2> QED BY <1>1, <1>4, <2>1
<1> QED BY <1>1, <1>6, <1>7

(* At the front as at the back. *)
LEMMA UnshiftOneStutters ==
  ASSUME IInv, NEW n \in Fresh, UnshiftOne(n)
  PROVE  All' = All /\ Count' = Count /\ returned' = returned
<1> DEFINE r == loop.rest
           s == SubSeq(r, 1, Len(r) - 1)
           e == r[Len(r)]
<1>1. /\ r \in Seq(Elements) /\ r # <<>> /\ loop.end = "front"
      /\ loop'.end = "front" /\ loop'.rest = s
      /\ size \in Nat /\ size' = size + 1 /\ returned' = returned
  BY DEF UnshiftOne, IInv, TypeOK
<1>2. Items \in Seq(Elements)
  BY ItemsFacts
<1>3. Items' = <<e>> \o Items
  BY UnshiftedItems
<1>4. /\ s \in Seq(Elements) /\ e \in Elements /\ r = s \o <<e>>
      /\ Len(r) \in Nat /\ Len(s) = Len(r) - 1
  BY <1>1, SplitLast
<1> HIDE DEF r, s, e
<1>5. s \o Items' = r \o Items
  <2>1. <<e>> \in Seq(Elements)
    BY <1>4
  <2> QED BY <1>2, <1>3, <1>4, <2>1, ConcatAssociative
<1>6. All' = All
  BY <1>1, <1>5 DEF All, r
<1>7. Count' = Count
  <2>1. Count = size + Len(r) /\ Count' = size' + Len(s)
    BY <1>1 DEF Count, r
  <2> QED BY <1>1, <1>4, <2>1
<1> QED BY <1>1, <1>6, <1>7

(* Every step is one of Deque or changes nothing in it. *)
LEMMA StepRefines ==
  ASSUME IInv, IInv', [Next]_vars
  PROVE  [Abstract!Next]_(Abstract!dequeVars)
<1> DEFINE Stutters == All' = All /\ Count' = Count /\ returned' = returned
<1>1. Stutters => UNCHANGED Abstract!dequeVars
  BY DEF Abstract!dequeVars, All, Count
<1>2. ASSUME NEW end \in {"front", "back"}, NEW elements \in Arguments,
             Call(end, elements)
      PROVE  Abstract!Next
  <2>1. /\ All = Items /\ Count = size /\ Items' = Items /\ size' = size
        /\ loop'.end = end /\ loop'.rest = elements /\ returned' = returned
    BY <1>2, IdleAll, SameItems DEF Call, history
  <2>2. Count' = Count + Len(elements)
    BY <2>1 DEF Count
  <2>3. CASE end = "back"
    <3>1. All' = All \o elements
      BY <2>1, <2>3 DEF All
    <3> QED BY <2>1, <2>2, <3>1 DEF Abstract!Next, Abstract!Push, All, Count
  <2>4. CASE end = "front"
    <3>1. All' = elements \o All
      BY <2>1, <2>4 DEF All
    <3> QED BY <2>1, <2>2, <3>1 DEF Abstract!Next, Abstract!Unshift, All, Count
  <2> QED BY <2>3, <2>4
<1>3. ASSUME NEW n \in Fresh, PushOne(n) \/ UnshiftOne(n)
      PROVE  Stutters
  BY <1>3, PushOneStutters, UnshiftOneStutters
<1>4. ASSUME Pop \/ Shift
      PROVE  Abstract!Next
  <2>1. Idle /\ loop' = loop /\ size' = size - 1
    BY <1>4 DEF Pop, Shift, Unlinked
  <2>2. All = Items /\ Count = size /\ All' = Items' /\ Count' = size'
    <3>1. loop.rest = <<>> /\ loop'.rest = <<>>
      BY <2>1 DEF Idle
    <3>2. Items \in Seq(Elements) /\ Items' \in Seq(Elements)
      <4>1. Items \in Seq(Elements)
        BY ItemsFacts
      <4>2. CASE Pop
        BY <4>1, <4>2, PoppedItems, SplitLast
      <4>3. CASE Shift
        BY <4>1, <4>3, ShiftedItems
      <4> QED BY <1>4, <4>1, <4>2, <4>3
    <3>3. size \in Nat /\ size' \in Nat
      BY DEF IInv, TypeOK
    <3>4. Count = size /\ Count' = size'
      <4>1. Count = size
        BY <2>1, IdleAll
      <4>2. Count' = size'
        <5>1. Count' = size' + Len(loop'.rest)
          BY DEF Count
        <5>2. Len(loop'.rest) = 0
          BY <3>1
        <5>3. size' \in Nat
          BY <3>3
        <5>4. \A x \in Nat : x + 0 = x
          OBVIOUS
        <5>5. size' + 0 = size'
          BY <5>3, <5>4, Zenon
        <5> QED BY <5>1, <5>2, <5>5, Zenon
      <4> QED BY <4>1, <4>2
    <3>5. All = Items
      BY <3>1, <3>2, ConcatEmptySeq DEF All
    <3>6. All' = Items'
      BY <3>1, <3>2, ConcatEmptySeq DEF All
    <3> QED BY <3>4, <3>5, <3>6
  <2>3. Count' = Count - 1
    BY <2>1, <2>2
  <2>4. CASE Pop
    <3>1. /\ All # <<>> /\ returned' = All[Len(All)]
          /\ All' = SubSeq(All, 1, Len(All) - 1)
      BY <2>2, <2>4, PoppedItems
    <3> QED BY <2>3, <3>1 DEF Abstract!Next, Abstract!Pop, All, Count
  <2>5. CASE Shift
    <3>1. All # <<>> /\ returned' = Head(All) /\ All' = Tail(All)
      BY <2>2, <2>5, ShiftedItems
    <3> QED BY <2>3, <3>1 DEF Abstract!Next, Abstract!Shift, All, Count
  <2> QED BY <1>4, <2>4, <2>5
<1>5. ASSUME PopNothing \/ ShiftNothing
      PROVE  Abstract!Next
  <2>1. Idle /\ chain = <<>> /\ returned' = None
    BY <1>5, ChainFacts DEF PopNothing, ShiftNothing
  <2>2. All = <<>>
    BY <2>1, IdleAll DEF Items
  <2>3. All' = All /\ Count' = Count
    BY <1>5, SameItems DEF PopNothing, ShiftNothing, history, All, Count
  <2> QED BY <2>1, <2>2, <2>3 DEF Abstract!Next, Abstract!Nothing, All, Count
<1>6. ASSUME NEW i \in Iterators, Yield(i) \/ Finish(i)
      PROVE  Stutters
  BY <1>6, SameItems DEF Yield, Finish, fields, All, Count
<1>7. ASSUME UNCHANGED vars
      PROVE  Stutters
  BY <1>7, SameItems DEF vars, fields, history, All, Count
<1> HIDE DEF Stutters
<1> QED BY <1>1, <1>2, <1>3, <1>4, <1>5, <1>6, <1>7 DEF Next

(* The pointers implement a sequence: push() and unshift() add their        *)
(* arguments in order, however many, and pop() and shift() return the last  *)
(* and the first.                                                           *)
THEOREM ImplementsDeque == Spec => DequeSpec
<1>1. Init => Abstract!Init
  <2> SUFFICES ASSUME Init PROVE Abstract!Init
    OBVIOUS
  <2>1. chain = <<>> /\ loop.rest = <<>> /\ loop.end = "back" /\ size = 0
    BY DEF Init
  <2>2. Items = <<>>
    BY <2>1 DEF Items
  <2> QED BY <2>1, <2>2 DEF Init, Abstract!Init
<1>2. IInv /\ IInv' /\ [Next]_vars => [Abstract!Next]_(Abstract!dequeVars)
  BY StepRefines
<1> QED BY <1>1, <1>2, Invariant, PTL DEF Spec, DequeSpec, Abstract!Spec
-----------------------------------------------------------------------------
(* Iterators.  A node that has left the list keeps its "next", so that the  *)
(* nodes form a forest in which the ways of the iterators lead to the       *)
(* chain, or past its end.  They never turn back: there is a rank that      *)
(* grows along the chain, front to back, and along every "next".            *)

Made == {n \in Nodes : heap[n].element # None}
In   == Range(chain)

InOrder(rank) == \A j, k \in 1..Len(chain) : j < k => rank[chain[j]] < rank[chain[k]]

\* Every "next" leads up, and what is made next goes below lo or above hi.
Ranked(rank, lo, hi) ==
  /\ rank \in [Nodes -> Int] /\ lo \in Int /\ hi \in Int /\ lo < hi
  /\ InOrder(rank)
  /\ \A n \in Made :
       /\ lo < rank[n] /\ rank[n] < hi
       /\ heap[n].next # None
            => heap[n].next \in Made /\ rank[n] < rank[heap[n].next]

\* entry[n] is where the way from n comes to the chain, None if it does not.
Enters(entry) ==
  /\ entry \in [Nodes -> Nodes \union {None}]
  /\ \A n \in Made :
       /\ entry[n] \in In \union {None}
       /\ n \in In => entry[n] = n
       /\ n \notin In /\ heap[n].next = None => entry[n] = None
       /\ n \notin In /\ heap[n].next # None => entry[n] = entry[heap[n].next]

\* What an iterator has yielded is behind it; what it still has to yield is
\* in the chain, where its way comes to the chain or later.
OnItsWay(rank, entry, i) ==
  LET c == iter[i].current IN
  /\ iter[i].state = "new" => seen[i] = {}
  /\ iter[i].state = "done" => c = None /\ due[i] = {}
  /\ seen[i] \subseteq Made
  /\ c # None => c \in Made /\ \A n \in seen[i] : rank[n] < rank[c]
  /\ iter[i].state = "running" => \A d \in due[i] :
       d \in In /\ c # None /\ entry[c] # None /\ rank[entry[c]] <= rank[d]

Ways ==
  \E rank \in [Nodes -> Int], entry \in [Nodes -> Nodes \union {None}],
     lo \in Int, hi \in Int :
    /\ Ranked(rank, lo, hi)
    /\ Enters(entry)
    /\ \A i \in Iterators : OnItsWay(rank, entry, i)

(* An empty list has no ways to follow.                                     *)
LEMMA InitWays == Init => Ways
<1> SUFFICES ASSUME Init PROVE Ways
  OBVIOUS
<1> DEFINE rank == [n \in Nodes |-> 0]
           entry == [n \in Nodes |-> None]
<1>1. Made = {} /\ In = {}
  BY DEF Init, Made, In, Range, Unmade
<1>2. Ranked(rank, 0, 1)
  BY <1>1 DEF Init, Ranked, InOrder
<1>3. Enters(entry)
  BY <1>1 DEF Enters
<1>4. \A i \in Iterators : OnItsWay(rank, entry, i)
  BY <1>1 DEF Init, OnItsWay
<1> QED BY <1>2, <1>3, <1>4 DEF Ways

(* The chain as a set with an order.                                        *)
LEMMA Follows ==
  ASSUME IInv, NEW rank \in [Nodes -> Int], InOrder(rank)
  PROVE  /\ In \subseteq Made
         /\ head = None => In = {}
         /\ head # None => head \in In /\ \A d \in In : rank[head] <= rank[d]
         /\ \A d, n \in In : rank[d] = rank[n] => d = n
         /\ \A n \in In :
              /\ heap[n].next = None
                   => n = tail /\ \A d \in In : rank[d] <= rank[n]
              /\ heap[n].next # None
                   => /\ heap[n].next \in In
                      /\ \A d \in In \ {n} : rank[n] <= rank[d]
                           => rank[heap[n].next] <= rank[d]
<1> DEFINE L == Len(chain)
<1>1. /\ L \in Nat /\ DOMAIN chain = 1..L /\ (chain = <<>> <=> L = 0)
      /\ \A k \in 1..L : chain[k] \in Nodes /\ chain[k] # None
      /\ L = 0 => head = None
      /\ L # 0 => head # None /\ head = chain[1] /\ tail = chain[L]
      /\ \A k \in 1..L :
           /\ heap[chain[k]].element # None
           /\ heap[chain[k]].next = IF k = L THEN None ELSE chain[k + 1]
  BY ChainFacts
<1>2. \A n : n \in In <=> \E k \in 1..L : n = chain[k]
  BY <1>1 DEF In, Range
<1>3. \A j, k \in 1..L : /\ j < k => rank[chain[j]] < rank[chain[k]]
                         /\ rank[chain[j]] \in Int
  BY <1>1 DEF InOrder
<1> HIDE DEF L
<1>4. In \subseteq Made
  BY <1>1, <1>2 DEF Made
<1>5. /\ head = None => In = {}
      /\ head # None => head \in In /\ \A d \in In : rank[head] <= rank[d]
  BY <1>1, <1>2, <1>3
<1>6. \A d, n \in In : rank[d] = rank[n] => d = n
  <2> SUFFICES ASSUME NEW j \in 1..L, NEW k \in 1..L,
                      rank[chain[j]] = rank[chain[k]]
               PROVE  j = k
    BY <1>2
  <2> QED BY <1>1, <1>3
<1>7. ASSUME NEW n \in In
      PROVE  /\ heap[n].next = None
                  => n = tail /\ \A d \in In : rank[d] <= rank[n]
             /\ heap[n].next # None
                  => /\ heap[n].next \in In
                     /\ \A d \in In \ {n} : rank[n] <= rank[d]
                          => rank[heap[n].next] <= rank[d]
  <2>1. PICK k \in 1..L : n = chain[k]
    BY <1>2
  <2>2. CASE k = L
    <3>1. heap[n].next = None /\ n = tail
      BY <1>1, <2>1, <2>2
    <3>2. ASSUME NEW d \in In
          PROVE  rank[d] <= rank[n]
      <4>1. PICK j \in 1..L : d = chain[j]
        BY <1>2
      <4>2. j = k \/ j < k
        BY <1>1, <2>2
      <4> QED BY <1>3, <2>1, <4>1, <4>2
    <3> QED BY <3>1, <3>2
  <2>3. CASE k # L
    <3>1. k + 1 \in 1..L /\ heap[n].next = chain[k + 1]
      BY <1>1, <2>1, <2>3
    <3>2. heap[n].next # None /\ heap[n].next \in In
      BY <1>1, <1>2, <3>1
    <3>3. ASSUME NEW d \in In \ {n}, rank[n] <= rank[d]
          PROVE  rank[chain[k + 1]] <= rank[d]
      <4>1. PICK j \in 1..L : d = chain[j]
        BY <1>2
      <4>2. ~(j < k) /\ j # k
        BY <1>3, <2>1, <3>3, <4>1
      <4>3. j = k + 1 \/ k + 1 < j
        BY <4>2
      <4> QED BY <1>3, <3>1, <4>1, <4>3
    <3> QED BY <3>1, <3>2, <3>3
  <2> QED BY <2>2, <2>3
<1> QED BY <1>4, <1>5, <1>6, <1>7

(* A new node goes above all others at the back, below them at the front.   *)
LEMMA AddedWays ==
  ASSUME IInv, Ways, NEW n \in Fresh, PushOne(n) \/ UnshiftOne(n)
  PROVE  Ways'
<1> DEFINE L == Len(chain)
<1>1. PICK rank \in [Nodes -> Int], entry \in [Nodes -> Nodes \union {None}],
           lo \in Int, hi \in Int :
         /\ Ranked(rank, lo, hi) /\ Enters(entry)
         /\ \A i \in Iterators : OnItsWay(rank, entry, i)
  BY DEF Ways
<1> DEFINE above == loop.end = "back"
<1>2. /\ n \in Nodes /\ n # None /\ n \notin Made
      /\ L \in Nat /\ \A k \in 1..L : chain[k] \in Made /\ chain[k] \in Nodes
      /\ DOMAIN chain = 1..L /\ (L # 0 => tail = chain[L])
  BY FreshUnchained, ChainFacts DEF Fresh, Made
<1>3. /\ iter' = iter /\ due' = due /\ seen' = seen
  BY DEF PushOne, UnshiftOne
<1>4. /\ DOMAIN chain' = 1..Len(chain') /\ Len(chain') = L + 1
      /\ \A m \in Nodes \ {n} : heap'[m].element = heap[m].element
      /\ heap'[n].element # None
      /\ \/ /\ above /\ chain'[L + 1] = n
            /\ \A k \in 1..L : chain'[k] = chain[k]
            /\ heap'[n].next = None
            /\ \A m \in Nodes \ {n} :
                 heap'[m].next = IF L # 0 /\ m = tail THEN n ELSE heap[m].next
         \/ /\ ~above /\ chain'[1] = n
            /\ \A k \in 2..(L + 1) : chain'[k] = chain[k - 1]
            /\ heap'[n].next = IF L = 0 THEN None ELSE chain[1]
            /\ \A m \in Nodes \ {n} : heap'[m].next = heap[m].next
  <2>1. CASE PushOne(n)
    <3>1. above /\ Head(loop.rest) # None
      BY <2>1, ListAssumption DEF PushOne, IInv, TypeOK
    <3>2. heap'[n] = [element |-> Head(loop.rest), next |-> None,
                      previous |-> IF L = 0 THEN None ELSE chain[L]]
      BY <2>1, PushOneEffect
    <3>3. heap'[n].element # None /\ heap'[n].next = None
      BY <3>1, <3>2
    <3> QED BY <1>2, <2>1, <3>1, <3>3, PushOneEffect
  <2>2. CASE UnshiftOne(n)
    <3>1. ~above
      BY <2>2 DEF UnshiftOne
    <3> QED BY <1>2, <2>2, <3>1, UnshiftOneEffect
  <2> QED BY <2>1, <2>2
<1> HIDE DEF L
<1>5. /\ Made' = Made \union {n}
      /\ In' = In \union {n} /\ n \notin In
  <2>1. Made' = Made \union {n}
    BY <1>2, <1>4 DEF Made
  <2>2. \A m : m \in In' <=> \E k \in 1..(L + 1) : m = chain'[k]
    BY <1>4 DEF In, Range
  <2>3. \A m : m \in In <=> \E k \in 1..L : m = chain[k]
    BY <1>2 DEF In, Range
  <2>4. \A m : m \in In' <=> m \in In \/ m = n
    <3>1. CASE above
      <4>1. \A k \in 1..(L + 1) : k \in 1..L \/ k = L + 1
        BY <1>2
      <4>2. L + 1 \in 1..(L + 1) /\ \A k \in 1..L : k \in 1..(L + 1)
        BY <1>2
      <4> QED BY <1>4, <2>2, <2>3, <3>1, <4>1, <4>2
    <3>2. CASE ~above
      <4>1. \A k \in 1..(L + 1) : \/ k = 1
                                  \/ k \in 2..(L + 1) /\ k - 1 \in 1..L
        BY <1>2
      <4>2. 1 \in 1..(L + 1)
            /\ \A k \in 1..L : k + 1 \in 2..(L + 1) /\ k + 1 \in 1..(L + 1)
                               /\ (k + 1) - 1 = k
        BY <1>2
      <4>3. ASSUME NEW m \in In PROVE m \in In'
        <5>1. PICK k \in 1..L : m = chain[k]
          BY <2>3
        <5>2. chain'[k + 1] = m
          BY <1>4, <3>2, <4>2, <5>1
        <5> QED BY <2>2, <4>2, <5>2
      <4> QED BY <1>4, <2>2, <2>3, <3>2, <4>1, <4>2, <4>3
    <3> QED BY <3>1, <3>2
  <2> QED BY <1>2, <2>1, <2>3, <2>4
<1>6. PICK newRank \in [Nodes -> Int], newEntry \in [Nodes -> Nodes \union {None}],
           newLo \in Int, newHi \in Int :
         /\ \A m \in Nodes \ {n} : newRank[m] = rank[m]
         /\ newEntry[n] = n /\ \A m \in Nodes \ {n} : newEntry[m] = entry[m]
         /\ newLo < newRank[n] /\ newRank[n] < newHi /\ newLo < newHi
         /\ newLo <= lo /\ hi <= newHi
         /\ \A m \in Made : /\ lo < rank[m] /\ rank[m] < hi
                            /\ above => rank[m] < newRank[n]
                            /\ ~above => newRank[n] < rank[m]
  <2>1. lo < hi /\ \A m \in Made : lo < rank[m] /\ rank[m] < hi
    BY <1>1 DEF Ranked
  <2> DEFINE r == IF above THEN hi ELSE lo
             newLo == IF above THEN lo ELSE lo - 1
             newHi == IF above THEN hi + 1 ELSE hi
  <2>2. /\ newLo \in Int /\ newHi \in Int /\ newLo < r /\ r < newHi /\ r \in Int
        /\ newLo <= lo /\ hi <= newHi
        /\ \A m \in Made : /\ above => rank[m] < r
                           /\ ~above => r < rank[m]
    BY <2>1
  <2> HIDE DEF r, newLo, newHi
  <2> DEFINE newRank == [rank EXCEPT ![n] = r]
             newEntry == [entry EXCEPT ![n] = n]
  <2>3. /\ newRank \in [Nodes -> Int]
        /\ newEntry \in [Nodes -> Nodes \union {None}]
        /\ newRank[n] = r /\ \A m \in Nodes \ {n} : newRank[m] = rank[m]
        /\ newEntry[n] = n /\ \A m \in Nodes \ {n} : newEntry[m] = entry[m]
    BY <1>2, <2>2
  <2> HIDE DEF above, newRank, newEntry
  <2> USE <2>2, <2>3
  <2> WITNESS newRank \in [Nodes -> Int],
              newEntry \in [Nodes -> Nodes \union {None}],
              newLo \in Int, newHi \in Int
  <2> QED BY <2>1, <2>2, <2>3
<1>7. Ranked(newRank, newLo, newHi)'
  <2>1. \A j, k \in 1..(L + 1) : j < k => newRank[chain'[j]] < newRank[chain'[k]]
    <3> SUFFICES ASSUME NEW j \in 1..(L + 1), NEW k \in 1..(L + 1), j < k
                 PROVE  newRank[chain'[j]] < newRank[chain'[k]]
      OBVIOUS
    <3>1. \A a, b \in 1..L : a < b => newRank[chain[a]] < newRank[chain[b]]
      BY <1>1, <1>2, <1>6 DEF Ranked, InOrder, L
    <3>2. CASE above
      <4>1. j \in 1..L /\ (k \in 1..L \/ k = L + 1)
        BY <1>2
      <4>2. chain'[j] = chain[j] /\ newRank[chain[j]] < newRank[n]
        BY <1>2, <1>4, <1>6, <3>2, <4>1
      <4>3. CASE k = L + 1
        BY <1>4, <3>2, <4>2, <4>3
      <4>4. CASE k \in 1..L
        BY <1>4, <3>1, <3>2, <4>1, <4>2, <4>4
      <4> QED BY <4>1, <4>3, <4>4
    <3>3. CASE ~above
      <4>1. /\ k \in 2..(L + 1) /\ k - 1 \in 1..L
            /\ \/ j = 1
               \/ j \in 2..(L + 1) /\ j - 1 \in 1..L /\ j - 1 < k - 1
        BY <1>2
      <4>2. chain'[k] = chain[k - 1] /\ chain[k - 1] \in Made
        BY <1>2, <1>4, <3>3, <4>1
      <4>3. CASE j = 1
        <5>1. newRank[n] < newRank[chain[k - 1]]
          BY <1>2, <1>6, <3>3, <4>1
        <5> QED BY <1>4, <3>3, <4>2, <4>3, <5>1
      <4>4. CASE j # 1
        <5>1. chain'[j] = chain[j - 1]
          BY <1>4, <3>3, <4>1, <4>4
        <5> QED BY <3>1, <4>1, <4>2, <4>4, <5>1
      <4> QED BY <4>3, <4>4
    <3> QED BY <3>2, <3>3
  <2>2. InOrder(newRank)'
    BY <1>4, <2>1 DEF InOrder
  <2>3. ASSUME NEW m \in Made'
        PROVE  /\ newLo < newRank[m] /\ newRank[m] < newHi
               /\ heap'[m].next # None
                    => /\ heap'[m].next \in Made'
                       /\ newRank[m] < newRank[heap'[m].next]
    <3>1. CASE m = n
      <4>1. heap'[n].next # None => ~above /\ heap'[n].next \in Made
        BY <1>2, <1>4
      <4> QED BY <1>2, <1>5, <1>6, <3>1, <4>1 DEF Made
    <3>2. CASE m # n
      <4>1. m \in Made /\ m \in Nodes /\ newRank[m] = rank[m]
        BY <1>5, <1>6, <3>2 DEF Made
      <4>2. \/ heap'[m].next = heap[m].next
            \/ above /\ heap'[m].next = n
        BY <1>4, <3>2, <4>1
      <4>3. heap[m].next # None => /\ heap[m].next \in Made
                                   /\ rank[m] < rank[heap[m].next]
        BY <1>1, <4>1 DEF Ranked
      <4>4. newLo < newRank[m] /\ newRank[m] < newHi
        BY <1>6, <4>1
      <4> QED BY <1>2, <1>5, <1>6, <4>1, <4>2, <4>3, <4>4 DEF Made
    <3> QED BY <3>1, <3>2
  <2> QED BY <1>6, <2>2, <2>3 DEF Ranked
<1>8. Enters(newEntry)'
  <2> SUFFICES ASSUME NEW m \in Made'
               PROVE  /\ newEntry[m] \in In' \union {None}
                      /\ m \in In' => newEntry[m] = m
                      /\ m \notin In' /\ heap'[m].next = None
                           => newEntry[m] = None
                      /\ m \notin In' /\ heap'[m].next # None
                           => newEntry[m] = newEntry[heap'[m].next]
    BY <1>6 DEF Enters
  <2>1. CASE m = n
    BY <1>5, <1>6, <2>1
  <2>2. CASE m # n
    <3>1. m \in Made /\ m \in Nodes /\ newEntry[m] = entry[m]
      BY <1>5, <1>6, <2>2 DEF Made
    <3>2. m \notin In' => m \notin In /\ heap'[m].next = heap[m].next
      <4>1. L # 0 => tail \in In
        <5>1. L # 0 => L \in DOMAIN chain
          BY <1>2
        <5> QED BY <1>2, <5>1 DEF In, Range
      <4> QED BY <1>4, <1>5, <2>2, <3>1, <4>1
    <3>3. heap[m].next # None => heap[m].next \in Made /\ heap[m].next # n
      BY <1>1, <1>2, <3>1 DEF Ranked
    <3>4. heap[m].next # None => newEntry[heap[m].next] = entry[heap[m].next]
      BY <1>6, <3>3 DEF Made
    <3> QED BY <1>1, <1>5, <2>2, <3>1, <3>2, <3>4 DEF Enters
  <2> QED BY <2>1, <2>2
<1>9. ASSUME NEW i \in Iterators
      PROVE  OnItsWay(newRank, newEntry, i)'
  <2>1. /\ \A m \in Made : newRank[m] = rank[m] /\ newEntry[m] = entry[m]
        /\ In \subseteq Made
    BY <1>1, <1>2, <1>6, Follows DEF Made, Ranked
  <2>2. OnItsWay(rank, entry, i)
    BY <1>1
  <2>3. \A c \in Made : newEntry[c] # None => newEntry[c] \in Made
    BY <1>1, <2>1 DEF Enters
  <2> QED BY <1>3, <1>5, <2>1, <2>2, <2>3 DEF OnItsWay
<1> QED BY <1>6, <1>7, <1>8, <1>9 DEF Ways

(* What pop() and shift() have in common: of the pointers that an iterator  *)
(* follows they change the one to the node that leaves, if there is one.    *)
LEMMA RemovedEffect ==
  ASSUME IInv, Pop \/ Shift
  PROVE  \E t \in In :
           /\ In' = In \ {t} /\ Made' = Made
           /\ UNCHANGED <<iter, seen>>
           /\ due' = [i \in Iterators |-> due[i] \ {t}]
           /\ DOMAIN chain' = 1..Len(chain')
           /\ \/ \A k \in 1..Len(chain') : chain'[k] = chain[k]
              \/ \A k \in 1..Len(chain') : chain'[k] = chain[k + 1]
           /\ Len(chain') = Len(chain) - 1
           /\ \A m \in Nodes :
                \/ heap'[m].next = heap[m].next
                \/ m \in In' /\ heap'[m].next = None
<1> DEFINE L == Len(chain)
<1>1. /\ L \in Nat /\ DOMAIN chain = 1..L /\ L # 0
      /\ \A k \in 1..L : chain[k] \in Nodes /\ chain[k] # None
      /\ head = chain[1] /\ tail = chain[L]
      /\ \A k \in 1..L : chain[k] = head => k = 1
      /\ \A k \in 1..L : chain[k] = tail => k = L
  BY ChainFacts DEF Pop, Shift
<1>2. \A m : m \in In <=> \E k \in 1..L : m = chain[k]
  BY <1>1 DEF In, Range
<1>3. UNCHANGED <<iter, seen>>
  BY DEF Pop, Shift, Unlinked
<1>4. CASE Pop
  <2>1. /\ DOMAIN chain' = 1..(L - 1) /\ Len(chain') = L - 1
        /\ \A k \in 1..(L - 1) : chain'[k] = chain[k]
        /\ tail' = IF L = 1 THEN None ELSE chain[L - 1]
        /\ \A m \in Nodes :
             /\ heap'[m].element = heap[m].element
             /\ heap'[m].next = IF m = tail' THEN None ELSE heap[m].next
    BY <1>4, PopEffect
  <2>2. due' = [i \in Iterators |-> due[i] \ {tail}]
    BY <1>4 DEF Pop, Unlinked
  <2> HIDE DEF L
  <2>3. \A m : m \in In' <=> \E k \in 1..(L - 1) : m = chain[k]
    BY <2>1 DEF In, Range
  <2>4. \A k \in 1..L : k \in 1..(L - 1) \/ k = L
    BY <1>1
  <2>5. L \in 1..L /\ \A k \in 1..(L - 1) : k \in 1..L /\ k # L
    BY <1>1
  <2>6. In' = In \ {tail} /\ tail \in In
    BY <1>1, <1>2, <2>3, <2>4, <2>5
  <2>7. Made' = Made
    BY <2>1 DEF Made
  <2>8. \A m \in Nodes : \/ heap'[m].next = heap[m].next
                         \/ m \in In' /\ heap'[m].next = None
    <3>1. L # 1 => tail' \in In'
      <4>1. L # 1 => L - 1 \in 1..(L - 1)
        BY <1>1
      <4> QED BY <2>1, <2>3, <4>1
    <3>2. L = 1 => tail' \notin Nodes
      BY <2>1, ListAssumption
    <3> QED BY <2>1, <3>1, <3>2
  <2> QED BY <1>3, <2>1, <2>2, <2>6, <2>7, <2>8 DEF L
<1>5. CASE Shift
  <2>1. /\ DOMAIN chain' = 1..(L - 1) /\ Len(chain') = L - 1
        /\ \A k \in 1..(L - 1) : chain'[k] = chain[k + 1]
        /\ \A m \in Nodes : /\ heap'[m].element = heap[m].element
                            /\ heap'[m].next = heap[m].next
    BY <1>5, ShiftEffect
  <2>2. due' = [i \in Iterators |-> due[i] \ {head}]
    BY <1>5 DEF Shift, Unlinked
  <2> HIDE DEF L
  <2>3. \A m : m \in In' <=> \E k \in 1..(L - 1) : m = chain[k + 1]
    BY <2>1 DEF In, Range
  <2>4. \A k \in 1..L : k # 1 => k - 1 \in 1..(L - 1) /\ (k - 1) + 1 = k
    BY <1>1
  <2>5. 1 \in 1..L /\ \A k \in 1..(L - 1) : k + 1 \in 1..L /\ k + 1 # 1
    BY <1>1
  <2>6. In' = In \ {head} /\ head \in In
    <3>1. \A m \in In : m \in In' \/ m = head
      <4> TAKE m \in In
      <4>1. PICK k \in 1..L : m = chain[k]
        BY <1>2
      <4>2. CASE k = 1
        BY <1>1, <4>1, <4>2
      <4>3. CASE k # 1
        <5> DEFINE j == k - 1
        <5>1. j \in 1..(L - 1) /\ m = chain[j + 1]
          BY <2>4, <4>1, <4>3
        <5> QED BY <2>3, <5>1
      <4> QED BY <4>2, <4>3
    <3>2. \A m \in In' : m \in In /\ m # head
      BY <1>1, <1>2, <2>3, <2>5
    <3> QED BY <1>1, <1>2, <2>5, <3>1, <3>2
  <2>7. Made' = Made
    BY <2>1 DEF Made
  <2> QED BY <1>3, <2>1, <2>2, <2>6, <2>7 DEF L
<1> QED BY <1>4, <1>5

(* A way that came to the chain at the node that leaves goes on from there. *)
LEMMA RemovedWays ==
  ASSUME IInv, Ways, Pop \/ Shift
  PROVE  Ways'
<1>1. PICK rank \in [Nodes -> Int], entry \in [Nodes -> Nodes \union {None}],
           lo \in Int, hi \in Int :
         /\ Ranked(rank, lo, hi) /\ Enters(entry)
         /\ \A i \in Iterators : OnItsWay(rank, entry, i)
  BY DEF Ways
<1>2. PICK t \in In :
           /\ In' = In \ {t} /\ Made' = Made
           /\ UNCHANGED <<iter, seen>>
           /\ due' = [i \in Iterators |-> due[i] \ {t}]
           /\ DOMAIN chain' = 1..Len(chain')
           /\ \/ \A k \in 1..Len(chain') : chain'[k] = chain[k]
              \/ \A k \in 1..Len(chain') : chain'[k] = chain[k + 1]
           /\ Len(chain') = Len(chain) - 1
           /\ \A m \in Nodes :
                \/ heap'[m].next = heap[m].next
                \/ m \in In' /\ heap'[m].next = None
  BY RemovedEffect
<1>3. PICK u : u = heap[t].next
  OBVIOUS
<1>4. /\ In \subseteq Made /\ Made \subseteq Nodes /\ None \notin Nodes
      /\ u \in (In \ {t}) \union {None}
      /\ heap'[t].next = u
      /\ \A d, n \in In : rank[d] = rank[n] => d = n
      /\ u = None => \A d \in In : rank[d] <= rank[t]
      /\ u # None => \A d \in In \ {t} : rank[t] <= rank[d] => rank[u] <= rank[d]
  <2>1. InOrder(rank)
    BY <1>1 DEF Ranked
  <2>2. Made \subseteq Nodes /\ None \notin Nodes
    BY ListAssumption DEF Made
  <2>3. In \subseteq Made
    BY <2>1, Follows
  <2>4. u # None => u \in In /\ u # t
    <3>1. u # None => u \in In
      BY <1>3, <2>1, Follows
    <3>2. u # None => rank[t] < rank[u] /\ rank[t] \in Int
      BY <1>1, <1>3, <2>2, <2>3 DEF Ranked
    <3> QED BY <3>1, <3>2
  <2>5. t \in Nodes /\ heap'[t].next = u
    BY <1>2, <1>3, <2>2, <2>3
  <2>6. /\ \A d, n \in In : rank[d] = rank[n] => d = n
        /\ u = None => \A d \in In : rank[d] <= rank[t]
        /\ u # None => \A d \in In \ {t} : rank[t] <= rank[d]
                                            => rank[u] <= rank[d]
    BY <1>3, <2>1, Follows
  <2> QED BY <2>2, <2>3, <2>4, <2>5, <2>6
<1>5. PICK newEntry \in [Nodes -> Nodes \union {None}] :
        \A x \in Nodes : /\ entry[x] = t => newEntry[x] = u
                         /\ entry[x] # t => newEntry[x] = entry[x]
  <2>1. u \in Nodes \union {None}
    BY <1>4
  <2> DEFINE newEntry == [x \in Nodes |-> IF entry[x] = t THEN u ELSE entry[x]]
  <2>2. /\ newEntry \in [Nodes -> Nodes \union {None}]
        /\ \A x \in Nodes : /\ entry[x] = t => newEntry[x] = u
                            /\ entry[x] # t => newEntry[x] = entry[x]
    BY <2>1
  <2> HIDE DEF newEntry
  <2> QED BY <2>2
<1>6. Ranked(rank, lo, hi)'
  <2>1. InOrder(rank)'
    <3> DEFINE L == Len(chain)
    <3>1. L \in Nat /\ DOMAIN chain = 1..L
      BY ChainFacts
    <3>2. \A j, k \in 1..L : j < k => rank[chain[j]] < rank[chain[k]]
      BY <1>1, <3>1 DEF Ranked, InOrder
    <3> HIDE DEF L
    <3>3. Len(chain') = L - 1
      BY <1>2 DEF L
    <3>4. ASSUME NEW j \in 1..(L - 1), NEW k \in 1..(L - 1), j < k
          PROVE  rank[chain'[j]] < rank[chain'[k]]
      <4>1. /\ j \in 1..L /\ k \in 1..L /\ j + 1 \in 1..L /\ k + 1 \in 1..L
            /\ j + 1 < k + 1
        BY <3>1, <3>4
      <4>2. \/ chain'[j] = chain[j] /\ chain'[k] = chain[k]
            \/ chain'[j] = chain[j + 1] /\ chain'[k] = chain[k + 1]
        BY <1>2 DEF L
      <4> QED BY <3>2, <3>4, <4>1, <4>2
    <3> QED BY <3>3, <3>4 DEF InOrder
  <2>2. \A m \in Made' : heap'[m].next # None => heap'[m].next = heap[m].next
    BY <1>2, <1>4
  <2> QED BY <1>1, <1>2, <2>1, <2>2 DEF Ranked
<1>7. Enters(newEntry)'
  <2> SUFFICES ASSUME NEW m \in Made
               PROVE  /\ newEntry[m] \in In' \union {None}
                      /\ m \in In' => newEntry[m] = m
                      /\ m \notin In' /\ heap'[m].next = None
                           => newEntry[m] = None
                      /\ m \notin In' /\ heap'[m].next # None
                           => newEntry[m] = newEntry[heap'[m].next]
    BY <1>2, <1>5 DEF Enters
  <2>1. /\ m \in Nodes /\ entry[m] \in In \union {None}
        /\ m \in In => entry[m] = m
        /\ m \notin In /\ heap[m].next = None => entry[m] = None
        /\ m \notin In /\ heap[m].next # None
             => entry[m] = entry[heap[m].next] /\ heap[m].next \in Nodes
    BY <1>1, <1>4 DEF Enters, Ranked
  <2>2. /\ entry[m] = t => newEntry[m] = u
        /\ entry[m] # t => newEntry[m] = entry[m]
    BY <1>5, <2>1
  <2>3. CASE m \in In'
    BY <1>2, <2>1, <2>2, <2>3
  <2>4. CASE m = t
    <3>1. newEntry[m] = u /\ m \notin In'
      BY <1>2, <2>1, <2>2, <2>4
    <3>2. u # None => newEntry[u] = u
      <4>1. u # None => u \in Nodes /\ entry[u] = u /\ u # t
        BY <1>1, <1>4 DEF Enters
      <4> QED BY <1>5, <4>1
    <3> QED BY <1>2, <1>4, <2>4, <3>1, <3>2
  <2>5. CASE m \notin In
    <3>1. heap'[m].next = heap[m].next
      BY <1>2, <2>1, <2>5
    <3>2. heap[m].next # None => newEntry[m] = newEntry[heap[m].next]
      <4>1. heap[m].next # None => heap[m].next \in Nodes
                                   /\ entry[m] = entry[heap[m].next]
        BY <2>1, <2>5
      <4> QED BY <1>5, <2>1, <4>1
    <3> QED BY <1>2, <1>4, <2>1, <2>2, <2>5, <3>1, <3>2
  <2> QED BY <1>2, <2>3, <2>4, <2>5
<1>8. ASSUME NEW i \in Iterators
      PROVE  OnItsWay(rank, newEntry, i)'
  <2>1. OnItsWay(rank, entry, i)
    BY <1>1
  <2>2. due'[i] = due[i] \ {t} /\ UNCHANGED <<iter, seen>>
    BY <1>2
  <2>3. ASSUME iter[i].state = "running", NEW d \in due[i] \ {t}
        PROVE  LET c == iter[i].current IN
               /\ d \in In' /\ c # None /\ newEntry[c] # None
               /\ rank[newEntry[c]] <= rank[d]
    <3> DEFINE c == iter[i].current
    <3>1. /\ d \in In /\ c # None /\ entry[c] # None
          /\ rank[entry[c]] <= rank[d] /\ c \in Made
      BY <2>1, <2>3 DEF OnItsWay
    <3> HIDE DEF c
    <3>2. c \in Nodes /\ d \in In'
      BY <1>2, <1>4, <2>3, <3>1
    <3>3. CASE entry[c] = t
      <4>1. rank[d] \in Int /\ rank[t] \in Int /\ rank[t] <= rank[d]
        BY <1>4, <3>1, <3>3
      <4>2. u # None
        BY <1>4, <2>3, <3>1, <4>1
      <4> QED BY <1>4, <1>5, <2>3, <3>1, <3>2, <3>3, <4>1, <4>2 DEF c
    <3>4. CASE entry[c] # t
      BY <1>5, <3>1, <3>2, <3>4 DEF c
    <3> QED BY <3>3, <3>4
  <2> QED BY <1>2, <2>1, <2>2, <2>3 DEF OnItsWay
<1> QED BY <1>5, <1>6, <1>7, <1>8 DEF Ways

(* A step of an iterator goes one node further on its way.                  *)
LEMMA IteratorWays ==
  ASSUME IInv, Ways, NEW i \in Iterators, Yield(i) \/ Finish(i)
  PROVE  Ways'
<1> DEFINE n == Current(i)
<1>1. PICK rank \in [Nodes -> Int], entry \in [Nodes -> Nodes \union {None}],
           lo \in Int, hi \in Int :
         /\ Ranked(rank, lo, hi) /\ Enters(entry)
         /\ \A j \in Iterators : OnItsWay(rank, entry, j)
  BY DEF Ways
<1>2. /\ UNCHANGED <<head, tail, heap, chain>>
      /\ In' = In /\ Made' = Made
      /\ iter \in [Iterators -> [state : {"new", "running", "done"},
                                 current : Nodes \union {None}]]
      /\ due \in [Iterators -> SUBSET Nodes]
      /\ seen \in [Iterators -> SUBSET Nodes]
  BY DEF Yield, Finish, fields, In, Made, IInv, TypeOK
<1>3. /\ \A j \in Iterators \ {i} : /\ iter'[j] = iter[j] /\ due'[j] = due[j]
                                    /\ seen'[j] = seen[j]
      /\ iter[i].state # "done"
  BY <1>2 DEF Yield, Finish
<1>4. Ranked(rank, lo, hi)' /\ Enters(entry)'
  BY <1>1, <1>2 DEF Ranked, InOrder, Enters
<1>5. InOrder(rank) /\ In \subseteq Made /\ Made \subseteq Nodes
      /\ None \notin Nodes
  BY <1>1, ListAssumption, Follows DEF Ranked, Made
<1>6. /\ n # None => n \in Made /\ \A s \in seen[i] : rank[s] < rank[n]
      /\ \A d \in Due(i) : /\ d \in In /\ n # None /\ entry[n] # None
                           /\ rank[entry[n]] <= rank[d]
      /\ seen[i] \subseteq Made
  <2>1. CASE iter[i].state = "new"
    <3>1. n = head /\ Due(i) = In /\ seen[i] = {}
      BY <1>1, <2>1 DEF Current, Due, In, OnItsWay
    <3>2. /\ head = None => In = {}
          /\ head # None => head \in In /\ \A d \in In : rank[head] <= rank[d]
      BY <1>5, Follows
    <3>3. head # None => entry[head] = head
      BY <1>1, <1>5, <3>2 DEF Enters
    <3> QED BY <1>5, <3>1, <3>2, <3>3
  <2>2. CASE iter[i].state = "running"
    <3>1. n = iter[i].current /\ Due(i) = due[i]
      BY <2>2 DEF Current, Due
    <3>2. OnItsWay(rank, entry, i)
      BY <1>1
    <3> QED BY <2>2, <3>1, <3>2 DEF OnItsWay
  <2> QED BY <1>2, <1>3, <2>1, <2>2
<1> HIDE DEF n
<1>7. OnItsWay(rank, entry, i)'
  <2>1. CASE Yield(i)
    <3>1. PICK c : c = heap[n].next
      OBVIOUS
    <3>2. /\ n # None /\ seen'[i] = seen[i] \union {n}
          /\ due'[i] = Due(i) \ {n}
          /\ iter'[i] = [state |-> "running", current |-> c]
      BY <1>2, <2>1, <3>1 DEF Yield, n
    <3>3. n \in Made /\ n \in Nodes
      BY <1>5, <1>6, <3>2
    <3>4. c # None => c \in Made /\ rank[n] < rank[c]
      BY <1>1, <3>1, <3>3 DEF Ranked
    <3>5. c # None => \A s \in seen'[i] : rank[s] < rank[c]
      <4>1. \A m \in Made : rank[m] \in Int
        BY <1>5
      <4> QED BY <1>6, <3>2, <3>3, <3>4, <4>1
    <3>6. ASSUME NEW d \in Due(i) \ {n}
          PROVE  d \in In /\ c # None /\ entry[c] # None
                 /\ rank[entry[c]] <= rank[d]
      <4>1. d \in In /\ entry[n] # None /\ rank[entry[n]] <= rank[d]
        BY <1>6
      <4>2. CASE n \in In
        <5>1. rank[n] <= rank[d]
          BY <1>1, <3>3, <4>1, <4>2 DEF Enters
        <5>2. c # None
          <6>1. SUFFICES ASSUME c = None PROVE FALSE
            OBVIOUS
          <6>2. rank[d] <= rank[n]
            BY <1>5, <3>1, <4>1, <4>2, <6>1, Follows
          <6>3. rank[d] \in Int /\ rank[n] \in Int
            BY <1>5, <4>1, <4>2
          <6>4. rank[d] = rank[n]
            BY <5>1, <6>2, <6>3
          <6> QED BY <1>5, <4>1, <4>2, <6>4, Follows
        <5>3. c \in In /\ rank[c] <= rank[d]
          BY <1>5, <3>1, <4>1, <4>2, <5>1, <5>2, Follows
        <5>4. entry[c] = c
          BY <1>1, <1>5, <5>3 DEF Enters
        <5> QED BY <4>1, <5>2, <5>3, <5>4
      <4>3. CASE n \notin In
        BY <1>1, <3>1, <3>3, <4>1, <4>3 DEF Enters
      <4> QED BY <4>2, <4>3
    <3>7. seen'[i] \subseteq Made
      BY <1>6, <3>2, <3>3
    <3> HIDE DEF n
    <3> QED BY <1>2, <3>2, <3>4, <3>5, <3>6, <3>7 DEF OnItsWay
  <2>2. CASE Finish(i)
    <3>1. /\ n = None /\ seen'[i] = seen[i] /\ due'[i] = Due(i)
          /\ iter'[i] = [state |-> "done", current |-> None]
      BY <1>2, <2>2 DEF Finish, n
    <3>2. Due(i) = {}
      BY <1>6, <3>1
    <3> QED BY <1>2, <1>6, <3>1, <3>2 DEF OnItsWay
  <2> QED BY <2>1, <2>2
<1>8. ASSUME NEW j \in Iterators \ {i}
      PROVE  OnItsWay(rank, entry, j)'
  <2>1. OnItsWay(rank, entry, j)
    BY <1>1
  <2> QED BY <1>2, <1>3, <2>1 DEF OnItsWay
<1> QED BY <1>4, <1>7, <1>8 DEF Ways

(* Every step keeps every iterator on its way.                              *)
LEMMA NextWays ==
  ASSUME IInv, Ways, [Next]_vars
  PROVE  Ways'
<1>1. CASE UNCHANGED <<head, tail, heap, chain, iter, due, seen>>
  <2>1. Made' = Made /\ In' = In
    BY <1>1 DEF Made, In
  <2>2. PICK rank \in [Nodes -> Int], entry \in [Nodes -> Nodes \union {None}],
             lo \in Int, hi \in Int :
           /\ Ranked(rank, lo, hi) /\ Enters(entry)
           /\ \A i \in Iterators : OnItsWay(rank, entry, i)
    BY DEF Ways
  <2>3. Ranked(rank, lo, hi)'
    BY <1>1, <2>1, <2>2 DEF Ranked, InOrder
  <2>4. Enters(entry)'
    BY <1>1, <2>1, <2>2 DEF Enters
  <2>5. \A i \in Iterators : OnItsWay(rank, entry, i)'
    BY <1>1, <2>1, <2>2 DEF OnItsWay
  <2> QED BY <2>3, <2>4, <2>5 DEF Ways
<1>2. ASSUME NEW end \in {"front", "back"}, NEW elements \in Arguments,
             Call(end, elements)
      PROVE  Ways'
  BY <1>1, <1>2 DEF Call, history
<1>3. ASSUME NEW n \in Fresh, PushOne(n) \/ UnshiftOne(n)
      PROVE  Ways'
  BY <1>3, AddedWays
<1>4. CASE Pop \/ Shift
  BY <1>4, RemovedWays
<1>5. CASE PopNothing \/ ShiftNothing
  BY <1>1, <1>5 DEF PopNothing, ShiftNothing, history
<1>6. ASSUME NEW i \in Iterators, Yield(i) \/ Finish(i)
      PROVE  Ways'
  BY <1>6, IteratorWays
<1>7. CASE UNCHANGED vars
  BY <1>1, <1>7 DEF vars, fields, history
<1> QED BY <1>2, <1>3, <1>4, <1>5, <1>6, <1>7 DEF Next

(* Whatever is pushed and removed while iterators are under way, none       *)
(* yields a node twice, and one that is done has yielded every node that    *)
(* was in the list all the time.                                            *)
THEOREM IteratorsYieldEachOnce == Spec => []YieldsEachOnce
<1>1. ASSUME IInv, Ways
      PROVE  YieldsEachOnce
  <2>1. PICK rank \in [Nodes -> Int], entry \in [Nodes -> Nodes \union {None}],
             lo \in Int, hi \in Int :
           \A i \in Iterators : OnItsWay(rank, entry, i)
    BY <1>1 DEF Ways
  <2> SUFFICES ASSUME NEW i \in Iterators
               PROVE  /\ iter[i].current \notin seen[i]
                      /\ iter[i].state = "done" => due[i] = {}
    BY DEF YieldsEachOnce
  <2>2. OnItsWay(rank, entry, i) /\ Made \subseteq Nodes /\ None \notin Nodes
    BY <2>1, ListAssumption DEF Made
  <2>3. ASSUME iter[i].current \in seen[i]
        PROVE  FALSE
    <3> DEFINE c == iter[i].current
    <3>1. c \in Nodes /\ c # None
      BY <2>2, <2>3 DEF OnItsWay
    <3>2. rank[c] < rank[c] /\ rank[c] \in Int
      BY <2>2, <2>3, <3>1 DEF OnItsWay
    <3> QED BY <3>2
  <2> QED BY <2>2, <2>3 DEF OnItsWay
<1>2. Init => IInv /\ Ways
  BY InitInv, InitWays
<1>3. (IInv /\ Ways) /\ [Next]_vars => (IInv /\ Ways)'
  BY NextInv, NextWays
<1>4. IInv /\ Ways => YieldsEachOnce
  BY <1>1
<1> QED BY <1>2, <1>3, <1>4, PTL DEF Spec
=============================================================================
