------------------------------- MODULE Vector -------------------------------
(***************************************************************************)
(* VectorContainer::Vector (Wan/Container/Vector.hpp): one block of raw    *)
(* memory in which a prefix of the places holds constructed elements.      *)
(* Elements are positive integers whose copy may throw: budget is how many *)
(* allocations, constructions and assignments succeed before one throws.   *)
(* lost counts the elements whose memory was freed before they were        *)
(* destroyed.                                                              *)
(***************************************************************************)
EXTENDS Integers, Sequences, FiniteSets

CONSTANTS FirstCapacity, MaxSize     \* 10, and max_size() of the allocator

Raw == 0
EmptyVector == [cells |-> << >>, size |-> 0, lost |-> 0]
Capacity(v) == Len(v.cells)
Contents(v) == SubSeq(v.cells, 1, v.size)
Lesser(a, b) == IF a < b THEN a ELSE b

Ok(v)     == [ok |-> TRUE, v |-> v]
Throws(v) == [ok |-> FALSE, v |-> v]

\* The first n elements of a row are constructed, that of place i as number Turn(i).
Construct(cells, row, Turn(_), n) ==
    [i \in DOMAIN cells |-> IF i \in DOMAIN row /\ Turn(i) <= n THEN row[i] ELSE cells[i]]
DestroyRange(cells, range) == [i \in DOMAIN cells |-> IF i \in range THEN Raw ELSE cells[i]]
Alive(cells) == Cardinality({i \in DOMAIN cells : cells[i] # Raw})

Release(v) == [EmptyVector EXCEPT !.lost = v.lost + Alive(DestroyRange(v.cells, 1..v.size))]

GrowthCapacity(v, required) ==
    LET grown == IF Capacity(v) = 0 THEN Lesser(FirstCapacity, MaxSize)
                 ELSE IF Capacity(v) > MaxSize \div 2 THEN MaxSize ELSE 2 * Capacity(v)
    IN IF grown < required THEN required ELSE grown

\* The elements are constructed in a new block, one after the other; when one
\* throws, what Doomed names of the first k is destroyed and the block freed.
Rebuild(v, required, row, Turn(_), Doomed(_), budget) ==
    LET block == [i \in 1..GrowthCapacity(v, required) |-> Raw]
        k == budget - 1
        abandoned == DestroyRange(Construct(block, row, Turn, k), Doomed(k))
    IN IF required > MaxSize \/ budget = 0 THEN Throws(v)
       ELSE IF k < Len(row) THEN Throws([v EXCEPT !.lost = @ + Alive(abandoned)])
       ELSE Ok([cells |-> Construct(block, row, Turn, k),
                size |-> Len(row), lost |-> Release(v).lost])

\* Mutant: a throw destroys as many places from the front.
ReallocateWithTailFront(v, tail, budget) ==
    LET t == Len(tail)
        Turn(i) == IF i > v.size THEN i - v.size ELSE i + t
        Doomed(k) == 1..k
    IN Rebuild(v, v.size + t, Contents(v) \o tail, Turn, Doomed, budget)

\* The tail first, while the elements it may refer to are still in place.
ReallocateWithTail(v, tail, budget) ==
    LET t == Len(tail)
        Turn(i) == IF i > v.size THEN i - v.size ELSE i + t
        Doomed(k) == (1..k - t) \union (v.size + 1..v.size + Lesser(k, t))
    IN Rebuild(v, v.size + t, Contents(v) \o tail, Turn, Doomed, budget)

ReallocateWithPrepend(v, x, budget) ==
    LET Turn(i) == i
        Doomed(k) == (2..k) \union (1..Lesser(k, 1))
    IN Rebuild(v, v.size + 1, <<x>> \o Contents(v), Turn, Doomed, budget)

EnsureCapacity(v, required, budget) ==
    LET Turn(i) == i
        Doomed(k) == 1..k
    IN IF required <= Capacity(v) THEN Ok(v)
       ELSE Rebuild(v, required, Contents(v), Turn, Doomed, budget)

\* Elements are constructed behind the last one; the size is set at the end.
Behind(v, elements, budget) ==
    LET n == Len(elements)
        k == Lesser(budget, n)
        built == [i \in DOMAIN v.cells |->
                     IF i - v.size \in 1..k THEN elements[i - v.size] ELSE v.cells[i]]
    IN IF k < n THEN Throws([v EXCEPT !.cells = DestroyRange(built, v.size + 1..v.size + k)])
       ELSE Ok([v EXCEPT !.cells = built, !.size = @ + n])

AppendConstructed(v, x, budget) ==
    IF v.size = MaxSize THEN Throws(v)
    ELSE IF v.size = Capacity(v) THEN ReallocateWithTail(v, <<x>>, budget)
    ELSE Behind(v, <<x>>, budget)

PushBack(v, x, budget) == AppendConstructed(v, x, budget)

\* An argument inside the vector's own storage is copied first.
PushBackOwn(v, i, budget) ==
    IF budget = 0 THEN Throws(v) ELSE PushBack(v, v.cells[i], budget - 1)

PopBack(v) ==
    IF v.size = 0 THEN v ELSE [v EXCEPT !.size = @ - 1, !.cells[v.size] = Raw]

\* In place the last element is constructed anew one place further, the others
\* are assigned back to front, then the new one; a throw destroys only the
\* extra element and leaves the assignments made.
PushFront(v, x, budget) ==
    LET n == v.size
        shifted == [i \in DOMAIN v.cells |-> IF i \notin n + 2 - Lesser(budget, n + 1)..n + 1
                                             THEN v.cells[i]
                                             ELSE IF i = 1 THEN x ELSE v.cells[i - 1]]
    IN IF n = MaxSize THEN Throws(v)
       ELSE IF n = Capacity(v) THEN ReallocateWithPrepend(v, x, budget)
       ELSE IF n = 0 THEN Behind(v, <<x>>, budget)
       ELSE IF budget < n + 1 THEN Throws([v EXCEPT !.cells = DestroyRange(shifted, {n + 1})])
       ELSE Ok([v EXCEPT !.cells = shifted, !.size = n + 1])

\* The elements behind place i move down one by one; a throw stops half-way.
\* Any other place changes nothing.
Erase(v, i, budget) ==
    LET shifted == [p \in DOMAIN v.cells |-> IF p \in i..i + Lesser(budget, v.size - i) - 1
                                             THEN v.cells[p + 1] ELSE v.cells[p]]
    IN IF i \notin 1..v.size THEN Ok(v)
       ELSE IF budget < v.size - i THEN Throws([v EXCEPT !.cells = shifted])
       ELSE Ok(PopBack([v EXCEPT !.cells = shifted]))

PopFront(v, budget) == Erase(v, 1, budget)

SizeAdjust(v, n, padding, budget) ==
    LET tail == [j \in 1..n - v.size |-> padding]
    IN IF n > MaxSize THEN Throws(v)
       ELSE IF n <= v.size
       THEN Ok([v EXCEPT !.cells = DestroyRange(@, n + 1..v.size), !.size = n])
       ELSE IF n > Capacity(v) THEN ReallocateWithTail(v, tail, budget)
       ELSE Behind(v, tail, budget)

\* Room for the source's capacity, then element by element.
Copy(src, budget) ==
    LET room == EnsureCapacity(EmptyVector, Capacity(src), budget)
        k == Lesser(budget - 1, src.size)
        some == Behind(room.v, SubSeq(src.cells, 1, k), k)
    IN IF ~room.ok \/ Capacity(src) = 0 THEN room
       ELSE IF k < src.size THEN Throws(Release(some.v)) ELSE some

\* What the target held goes with the temporary, or is released.
Assign(to, from, budget) ==
    LET copy == Copy(from, budget)
    IN IF copy.ok THEN Ok([copy.v EXCEPT !.lost = @ + Release(to).lost])
       ELSE Throws([to EXCEPT !.lost = @ + copy.v.lost])
MoveAssign(to, from) ==
    [to |-> [from EXCEPT !.lost = @ + Release(to).lost], from |-> EmptyVector]

\* operator+=; the vector itself is copied first.
Extend(v, other, budget) ==
    IF other.size = 0 THEN Ok(v)
    ELSE IF other.size > MaxSize - v.size THEN Throws(v)
    ELSE IF v.size + other.size > Capacity(v) THEN ReallocateWithTail(v, Contents(other), budget)
    ELSE Behind(v, Contents(other), budget)
ExtendSelf(v, budget) ==
    LET copy == Copy(v, budget)
    IN IF v.size = 0 THEN Ok(v)
       ELSE IF ~copy.ok THEN Throws([v EXCEPT !.lost = @ + copy.v.lost])
       ELSE Extend(v, copy.v, budget - 1 - v.size)

\* The elements are the first places, all the others are raw memory, and no
\* element was freed undestroyed.
StorageExact(v) ==
    /\ v.size <= Capacity(v) /\ Capacity(v) <= MaxSize
    /\ \A i \in DOMAIN v.cells : v.cells[i] # Raw <=> i <= v.size
    /\ v.lost = 0

-----------------------------------------------------------------------------
(***************************************************************************)
(* PriorityQueue and Stack (Queue.hpp, Stack.hpp), adapters of Vector.  The *)
(* heap has its greatest element in front; place i is the source's index   *)
(* i - 1.  The comparison is an ordering without state.                    *)
(***************************************************************************)
\* An element moves up to where it has no smaller parent: what each exchange
\* with a parent leaves below is done before the next.
AdjustUpwards(cells, child) ==
    LET x == cells[child]
        up[i \in 1..child] ==
            LET parent == i \div 2
            IN IF i = 1 \/ cells[parent] >= x THEN [cells EXCEPT ![i] = x]
               ELSE [up[parent] EXCEPT ![i] = cells[parent]]
    IN up[child]

\* And down to where it has no greater child; of two the greater moves up.
AdjustDownwards(cells, size) ==
    LET x == cells[1]
        GreaterChild(i) ==
            IF 2 * i + 1 <= size /\ cells[2 * i] < cells[2 * i + 1] THEN 2 * i + 1 ELSE 2 * i
        down[i \in 1..size] ==
            LET child == GreaterChild(i)
            IN IF 2 * i > size \/ x >= cells[child] THEN [cells EXCEPT ![i] = x]
               ELSE [down[child] EXCEPT ![i] = cells[child]]
    IN IF size = 0 THEN cells ELSE down[1]

HeapPush(v, x, budget) ==
    LET r == PushBack(v, x, budget)
    IN IF r.ok THEN [r EXCEPT !.v.cells = AdjustUpwards(@, r.v.size)] ELSE r

\* The last element is exchanged with the first, which is dropped.
HeapPop(v) ==
    LET rest == PopBack([v EXCEPT !.cells[1] = v.cells[v.size], !.cells[v.size] = v.cells[1]])
    IN IF v.size = 0 THEN v ELSE [rest EXCEPT !.cells = AdjustDownwards(@, rest.size)]

StackPush(v, x, budget) == PushBack(v, x, budget)
StackPop(v) == PopBack(v)

\* No element is smaller than one below it.
HeapOrdered(v) == \A i \in 2..v.size : v.cells[i \div 2] >= v.cells[i]
=============================================================================
