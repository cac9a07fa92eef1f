------------------------------ MODULE HashTable ------------------------------
(***************************************************************************)
(* BaseContainer::HashTable, behind HashMap and HashSet (Base.hpp): chains *)
(* per bucket, and through the same nodes a doubly linked list in the      *)
(* order of insertion.  A node is its key.  The load factor is in tenths.  *)
(***************************************************************************)
EXTENDS Integers, FiniteSets, Sequences, SequencesExt

CONSTANTS HashKeys, HashOf      \* positive integers, and the hash functor

None == 0
Unlinked == [k \in HashKeys |-> None]

\* HashTable(NewHashTableCapacity); the default constructor takes 10.
NewTable(capacity) ==
    [size |-> 0, factor |-> 7, capacity |-> capacity,
     bucket |-> [b \in 0..capacity - 1 |-> << >>],
     prev |-> Unlinked, next |-> Unlinked, head |-> None, tail |-> None, nodes |-> {}]
MovedFrom == NewTable(0)

Slot(h, k) == HashOf[k] % h.capacity

\* The nodes from n on, along the links of insertion.
RECURSIVE ListFrom(_, _)
ListFrom(h, n) == IF n = None THEN << >> ELSE <<n>> \o ListFrom(h, h.next[n])

Find(h, k) ==
    IF h.size = 0 \/ h.capacity = 0 THEN None
    ELSE IF \E i \in DOMAIN h.bucket[Slot(h, k)] : h.bucket[Slot(h, k)][i] = k THEN k ELSE None

\* Mutant: the nodes are pushed at the indexes of the old chains.
RehashOldSlots(h, capacity) ==
    LET empty == [h EXCEPT !.capacity = capacity, !.bucket = [b \in 0..capacity - 1 |-> << >>]]
    IN FoldLeft(LAMBDA acc, k : [acc EXCEPT !.bucket[Slot(h, k)] = <<k>> \o @],
                empty, ListFrom(h, h.head))

\* The new chains and every index are made before a node is relinked; then
\* the nodes are pushed at the heads of their chains in insertion order.
Rehash(h, capacity) ==
    LET empty == [h EXCEPT !.capacity = capacity, !.bucket = [b \in 0..capacity - 1 |-> << >>]]
    IN FoldLeft(LAMBDA acc, k : [acc EXCEPT !.bucket[Slot(acc, k)] = <<k>> \o @],
                empty, ListFrom(h, h.head))

\* Without the product that could overflow.
MaximumElementsFor(capacity, factor) ==
    (capacity \div 10) * factor + ((capacity % 10) * factor) \div 10

Doubled(capacity) == IF capacity = 0 THEN 10 ELSE capacity * 2

RECURSIVE GrowUntil(_, _, _)
GrowUntil(capacity, factor, size) ==
    IF size <= MaximumElementsFor(capacity, factor) THEN capacity
    ELSE GrowUntil(Doubled(capacity), factor, size)

\* Mutant: the table grows only when it is overfull already.
EnsureCapacityForSize(h) ==
    IF h.capacity # 0 /\ h.size <= MaximumElementsFor(h.capacity, h.factor) THEN h
    ELSE Rehash(h, Doubled(h.capacity))

RECURSIVE EnsureCapacityForOneMore(_)
EnsureCapacityForOneMore(h) ==
    IF h.capacity # 0 /\ h.size + 1 <= MaximumElementsFor(h.capacity, h.factor) THEN h
    ELSE EnsureCapacityForOneMore(Rehash(h, Doubled(h.capacity)))

Link(h, k) ==
    [h EXCEPT !.bucket[Slot(h, k)] = <<k>> \o @, !.prev[k] = h.tail,
              !.next = IF h.tail = None THEN @ ELSE [@ EXCEPT ![h.tail] = k],
              !.head = IF h.tail = None THEN k ELSE @, !.tail = k,
              !.size = @ + 1, !.nodes = @ \union {k}]

Push(h, k) == IF Find(h, k) # None THEN h ELSE Link(EnsureCapacityForOneMore(h), k)

\* The tables that Push leaves when an allocation or the hash functor fails: the
\* new node is freed, and the doublings made so far stay.
RECURSIVE GrownPartly(_)
GrownPartly(h) ==
    IF EnsureCapacityForOneMore(h) = h THEN {}
    ELSE {h} \union GrownPartly(Rehash(h, Doubled(h.capacity)))

PushThrows(h, k) == {h} \union (IF Find(h, k) = None THEN GrownPartly(h) ELSE {})

EraseNode(h, k) ==
    LET p == h.prev[k]
        n == h.next[k]
    IN [h EXCEPT !.bucket[Slot(h, k)] = SelectSeq(@, LAMBDA j : j # k),
                 !.head = IF p = None THEN n ELSE @, !.tail = IF n = None THEN p ELSE @,
                 !.next = [j \in HashKeys |-> IF j = k THEN None ELSE IF j = p THEN n ELSE @[j]],
                 !.prev = [j \in HashKeys |-> IF j = k THEN None ELSE IF j = n THEN p ELSE @[j]],
                 !.size = @ - 1, !.nodes = @ \ {k}]

Pop(h, k) == IF Find(h, k) = None THEN h ELSE EraseNode(h, k)

\* Mutant: only the heads of the chains are deleted.
ClearHeads(h) ==
    [h EXCEPT !.bucket = [b \in DOMAIN @ |-> << >>], !.size = 0, !.head = None, !.tail = None,
              !.prev = Unlinked, !.next = Unlinked,
              !.nodes = @ \ {Head(h.bucket[b]) : b \in {c \in DOMAIN h.bucket : h.bucket[c] # << >>}}]

\* Every node that hangs in a chain is deleted.
ClearNodes(h) ==
    [h EXCEPT !.bucket = [b \in DOMAIN @ |-> << >>], !.size = 0, !.head = None, !.tail = None,
              !.prev = Unlinked, !.next = Unlinked,
              !.nodes = @ \ UNION {ToSet(h.bucket[b]) : b \in DOMAIN h.bucket}]

\* A copy has the source's capacity and factor and links the elements in the
\* source's order of insertion; budget of them succeed.  The next one fails when its
\* node is allocated, or when it is hashed: then its node, unlinked, is not found by
\* ClearNodes.
Copy(h, budget, hashThrows) ==
    LET order == ListFrom(h, h.head)
        empty == [NewTable(h.capacity) EXCEPT !.factor = h.factor]
        some  == FoldLeft(Link, empty, SubSeq(order, 1, IF budget < Len(order) THEN budget
                                                         ELSE Len(order)))
        unlinked == IF hashThrows /\ budget < Len(order) THEN {order[budget + 1]} ELSE {}
    IN IF h.capacity = 0 THEN [done |-> TRUE, table |-> empty, unlinked |-> {}]
       ELSE IF budget < Len(order)
       THEN [done |-> FALSE, table |-> ClearNodes([some EXCEPT !.nodes = @ \union unlinked]),
             unlinked |-> unlinked]
       ELSE [done |-> TRUE, table |-> some, unlinked |-> {}]

\* operator=(HashTable&&): gone is what the target held, after ClearNodes.
MoveAssign(to, from) == [to |-> from, from |-> MovedFrom, gone |-> ClearNodes(to)]

ChangeLoadFactor(h, factor) ==
    LET start   == IF h.size # 0 /\ h.capacity = 0 THEN 10 ELSE h.capacity
        fitting == IF start = 0 THEN 0 ELSE GrowUntil(start, factor, h.size)
        fitted  == IF fitting # h.capacity THEN Rehash(h, fitting) ELSE h
    IN IF factor \notin 1..10 THEN h ELSE [fitted EXCEPT !.factor = factor]

(***************************************************************************)
(* What makes a table consistent: the chains, the two directions of the    *)
(* list, the counter and the nodes of the heap tell the same story.        *)
(***************************************************************************)
RECURSIVE ListBack(_, _)
ListBack(h, n) == IF n = None THEN << >> ELSE ListBack(h, h.prev[n]) \o <<n>>

Agrees(h) ==
    LET order == ListFrom(h, h.head)
    IN /\ ListBack(h, h.tail) = order
       /\ ToSet(order) = h.nodes
       /\ h.size = Len(order) /\ h.size = Cardinality(h.nodes)
       /\ DOMAIN h.bucket = 0..h.capacity - 1
       /\ \A k \in h.nodes : k \in ToSet(h.bucket[Slot(h, k)])
       /\ \A b \in DOMAIN h.bucket :
              ToSet(h.bucket[b]) \subseteq h.nodes /\ IsInjective(h.bucket[b])

WithinLoad(h) == h.size <= MaximumElementsFor(h.capacity, h.factor)
=============================================================================
