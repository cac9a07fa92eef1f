-------------------------------- MODULE List --------------------------------
(***************************************************************************)
(* ListContainer::List (Wan/Container/List.hpp): a ring of nodes around a  *)
(* sentinel.  owner is the identity of the sentinel, which an iterator     *)
(* carries along and which moves with the elements.  budget is the number  *)
(* of nodes that can be allocated before std::bad_alloc.                   *)
(***************************************************************************)
EXTENDS Integers, Sequences, FiniteSets

CONSTANT ListNodes      \* the addresses of nodes, positive integers

Head0 == 0
Places == ListNodes \union {Head0}

\* CreateHead: a sentinel linked to itself.
NewList(owner) ==
    [owner |-> owner, size |-> 0, nodes |-> {}, data |-> [n \in ListNodes |-> 0],
     next |-> [n \in Places |-> Head0], prev |-> [n \in Places |-> Head0]]

Iterator(l, n) == [node |-> n, owner |-> l.owner]
Begin(l) == Iterator(l, l.next[Head0])
End(l)   == Iterator(l, Head0)

\* The allocator's next address: any free one, they are all alike.
FreshNode(l) == CHOOSE n \in ListNodes \ l.nodes : \A m \in ListNodes \ l.nodes : n <= m

\* An iterator of another list is refused with invalid_argument.
Insert(l, it, x) ==
    LET n == FreshNode(l)
        p == l.prev[it.node]
    IN IF it.owner # l.owner THEN l
       ELSE [l EXCEPT !.nodes = @ \union {n}, !.data[n] = x, !.size = @ + 1,
                      !.next = [@ EXCEPT ![n] = it.node, ![p] = n],
                      !.prev = [@ EXCEPT ![n] = p, ![it.node] = n]]

PushBack(l, x)  == Insert(l, End(l), x)
PushFront(l, x) == Insert(l, Begin(l), x)

\* delete: the node's fields are gone.
Free(l, n) ==
    [l EXCEPT !.nodes = @ \ {n}, !.data[n] = 0, !.next[n] = Head0, !.prev[n] = Head0]

Erase(l, it) ==
    LET p == l.prev[it.node]
        q == l.next[it.node]
    IN IF it.owner # l.owner \/ it.node = Head0 THEN l
       ELSE Free([l EXCEPT !.next[p] = q, !.prev[q] = p, !.size = @ - 1], it.node)

PopBack(l) == IF l.size = 0 THEN l ELSE Erase(l, Iterator(l, l.prev[Head0]))

\* Unlinked by hand, not through Erase.
PopFront(l) ==
    LET first == l.next[Head0]
        second == l.next[first]
    IN IF l.size = 0 THEN l
       ELSE Free([l EXCEPT !.next[Head0] = second, !.prev[second] = Head0, !.size = @ - 1], first)

\* The nodes from n on, up to the sentinel, in one direction.
Along(link, n) ==
    LET path[m \in Places] == IF m = Head0 THEN << >> ELSE <<m>> \o path[link[m]]
    IN path[n]

Nodes(order) == {order[i] : i \in DOMAIN order}
Order(l) == Along(l.next, l.next[Head0])
Contents(l) == LET order == Order(l) IN [i \in DOMAIN order |-> l.data[order[i]]]

\* Every node that is reached forward is deleted.
Clear(l) ==
    LET gone == Nodes(Order(l))
        Unlinked(link) == [m \in Places |-> IF m \in gone \union {Head0} THEN Head0 ELSE link[m]]
    IN [l EXCEPT !.nodes = @ \ gone, !.size = 0,
                 !.data = [n \in ListNodes |-> IF n \in gone THEN 0 ELSE @[n]],
                 !.next = Unlinked(@), !.prev = Unlinked(@)]

\* Elements pushed one by one; those pushed before a failure stay.
Extend(l, elements, budget) ==
    LET n == IF budget < Len(elements) THEN budget ELSE Len(elements)
        pushed[k \in 0..n] == IF k = 0 THEN l ELSE PushBack(pushed[k - 1], elements[k])
    IN [ok |-> n = Len(elements), l |-> pushed[n]]

\* A list made from elements: a failure deletes what there is, and the sentinel.
Copy(elements, owner, budget) ==
    LET r == Extend(NewList(owner), elements, budget)
    IN IF r.ok THEN r ELSE [ok |-> FALSE, l |-> Clear(r.l)]

\* operator=(const List&): the copy's sentinel becomes the list's; gone is what
\* the temporary leaves after its destructor.
Assign(to, from, owner, budget) ==
    LET copy == Copy(Contents(from), owner, budget)
    IN IF copy.ok THEN [ok |-> TRUE, l |-> copy.l, gone |-> Clear(to)]
       ELSE [ok |-> FALSE, l |-> to, gone |-> copy.l]

\* The source gets a new sentinel, made before anything is given up.
MoveAssign(to, from, owner) ==
    [to |-> from, from |-> NewList(owner), gone |-> Clear(to)]

\* Mutant: the list assigned is appended.
AppendElements(l, elements, budget) == Extend(l, elements, budget)

\* operator=(initializer_list) clears before it pushes.
AssignElements(l, elements, budget) == Extend(Clear(l), elements, budget)

Resize(l, n, x, budget) ==
    LET popped[k \in 0..l.size - n] == IF k = 0 THEN l ELSE PopBack(popped[k - 1])
    IN IF n <= l.size THEN [ok |-> TRUE, l |-> popped[l.size - n]]
       ELSE Extend(l, [i \in 1..n - l.size |-> x], budget)

\* operator+= with itself copies first.
ExtendSelf(l, budget) ==
    IF budget < l.size THEN [ok |-> FALSE, l |-> l]
    ELSE Extend(l, Contents(l), budget - l.size)

\* The queue is a list that is pushed at the end and popped in front.
QueuePush(l, x) == PushBack(l, x)
QueuePop(l) == PopFront(l)

\* The ring read forward is the ring read backward, it is all the nodes there
\* are, and the counter counts them.
RingExact(l) ==
    LET forward  == Order(l)
        backward == Along(l.prev, l.prev[Head0])
    IN /\ forward = [i \in 1..Len(backward) |-> backward[Len(backward) + 1 - i]]
       /\ Nodes(forward) = l.nodes /\ Len(forward) = Cardinality(l.nodes)
       /\ l.size = Len(forward)
=============================================================================
