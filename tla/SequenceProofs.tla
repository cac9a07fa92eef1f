--------------------------- MODULE SequenceProofs ---------------------------
(***************************************************************************)
(* After every operation, one that threw in the middle included, the       *)
(* storage of every sequential container is exact, for every set of names  *)
(* and elements and every capacity.                                        *)
(***************************************************************************)
EXTENDS SequenceContainers, TLAPS, FiniteSetTheorems, SequenceTheorems, WellFoundedInduction

\* Memory of n places, the first k of which hold constructed elements.
Cells(c, n, k) ==
    /\ c \in [1..n -> Nat] /\ c \in Seq(Nat) /\ Len(c) = n
    /\ n \in Nat /\ k \in 0..n /\ \A i \in 1..n : c[i] # 0 <=> i <= k

VectorIs(v) ==
    /\ v = [cells |-> v.cells, size |-> v.size, lost |-> 0]
    /\ Cells(v.cells, Len(v.cells), v.size) /\ Len(v.cells) <= MaxSize

\* The numbers up to n are n.
LEMMA CountUpTo ==
    ASSUME NEW n \in Nat
    PROVE  IsFiniteSet(1..n) /\ Cardinality(1..n) = n
BY FS_Interval

LEMMA AtMost ==
    ASSUME NEW a \in Nat, NEW b \in Nat, NEW d \in Nat, a <= b, b <= d
    PROVE  a <= d
OBVIOUS

\* What is constructed in the memory of a vector is a sequence.
LEMMA CellsAre ==
    ASSUME NEW n \in Nat, NEW k \in 0..n, NEW c,
           c = [i \in DOMAIN c |-> c[i]], DOMAIN c = 1..n,
           \A i \in 1..n : c[i] \in Nat /\ (c[i] # 0 <=> i <= k)
    PROVE  Cells(c, n, k)
<1>1. c \in [1..n -> Nat] OBVIOUS
<1>2. c \in Seq(Nat) BY <1>1, SeqDef
<1>3. Len(c) = n BY <1>1, <1>2, LenProperties
<1> QED BY <1>1, <1>2, <1>3 DEF Cells

\* Nothing is alive in memory where no place holds an element.
LEMMA NoneAlive ==
    ASSUME NEW c, \A i \in DOMAIN c : c[i] = 0
    PROVE  Vec!Alive(c) = 0
<1>1. {i \in DOMAIN c : c[i] # Vec!Raw} = {} BY DEF Vec!Raw
<1> QED BY <1>1, FS_EmptySet DEF Vec!Alive, Vec!Cardinality

LEMMA VectorExact == ASSUME NEW v, VectorIs(v) PROVE Vec!StorageExact(v)
<1>1. DOMAIN v.cells = 1..Len(v.cells) BY LenProperties DEF VectorIs, Cells
<1> QED BY <1>1 DEF VectorIs, Cells, Vec!StorageExact, Vec!Capacity, Vec!Raw

LEMMA EmptyVectorIs == VectorIs(Vec!EmptyVector) /\ Len(Vec!EmptyVector.cells) = 0
<1>1. << >> \in Seq(Nat) /\ Len(<< >>) = 0 BY EmptySeq
<1>2. << >> \in [1..0 -> Nat] BY <1>1, LenProperties
<1>3. Cells(<< >>, 0, 0) BY <1>1, <1>2 DEF Cells
<1> QED BY <1>1, <1>3, SequenceAssumption DEF VectorIs, Vec!EmptyVector

\* The elements of a vector, and what a release leaves of it.
LEMMA ContentsAre ==
    ASSUME NEW v, VectorIs(v)
    PROVE  /\ Vec!Contents(v) \in Seq(Nat \ {0}) /\ Len(Vec!Contents(v)) = v.size
           /\ \A i \in 1..v.size : Vec!Contents(v)[i] = v.cells[i]
<1>1. v.size \in Nat /\ \A i \in 1..v.size : v.cells[i] \in Nat \ {0}
    BY DEF VectorIs, Cells
<1> QED BY <1>1, SubSeqProperties DEF Vec!Contents

LEMMA Released ==
    ASSUME NEW v, VectorIs(v)
    PROVE  Vec!Release(v) = Vec!EmptyVector
<1>1. DOMAIN v.cells = 1..Len(v.cells) BY LenProperties DEF VectorIs, Cells
<1>2. \A i \in DOMAIN v.cells : Vec!DestroyRange(v.cells, 1..v.size)[i] = 0
    BY <1>1 DEF VectorIs, Cells, Vec!DestroyRange, Vec!Raw
<1>3. Vec!Alive(Vec!DestroyRange(v.cells, 1..v.size)) = 0
    BY <1>2, NoneAlive DEF Vec!DestroyRange
<1>4. v.lost = 0 BY DEF VectorIs
<1> QED BY <1>3, <1>4 DEF Vec!Release, Vec!EmptyVector

\* Growth is to no less than what is required, and no more than may be.
LEMMA GrowthIs ==
    ASSUME NEW v, VectorIs(v), NEW required \in Nat, required <= MaxSize
    PROVE  Vec!GrowthCapacity(v, required) \in required..MaxSize
<1>1. FirstCapacity \in Nat /\ MaxSize \in Nat BY SequenceAssumption
<1>2. Len(v.cells) \in Nat /\ Len(v.cells) <= MaxSize BY DEF VectorIs, Cells
<1>3. ASSUME ~(Len(v.cells) > MaxSize \div 2) PROVE 2 * Len(v.cells) <= MaxSize
    BY <1>1, <1>2, <1>3
<1>4. CASE Len(v.cells) > MaxSize \div 2
    BY <1>1, <1>2, <1>4 DEF Vec!GrowthCapacity, Vec!Capacity, Vec!Lesser
<1>5. CASE ~(Len(v.cells) > MaxSize \div 2)
    BY <1>1, <1>2, <1>3, <1>5 DEF Vec!GrowthCapacity, Vec!Capacity, Vec!Lesser
<1> QED BY <1>4, <1>5

\* A vector rebuilt from a row: built is the new block, when all of the row can be
\* constructed, and left what a throw leaves of it.
Rebuilds(v, required, row, budget, built, left, r) ==
    /\ built = [i \in DOMAIN built |-> built[i]]
    /\ DOMAIN built = 1..Vec!GrowthCapacity(v, required)
    /\ ~(budget - 1 < Len(row))
          => \A i \in DOMAIN built : built[i] = IF i <= Len(row) THEN row[i] ELSE 0
    /\ budget - 1 \in 0..Len(row) - 1 => \A i \in DOMAIN left : left[i] = 0
    /\ r = IF required > MaxSize \/ budget = 0 THEN Vec!Throws(v)
           ELSE IF budget - 1 < Len(row)
           THEN Vec!Throws([v EXCEPT !.lost = @ + Vec!Alive(left)])
           ELSE Vec!Ok([cells |-> built, size |-> Len(row), lost |-> Vec!Release(v).lost])

\* What a step that makes the row of a vector leaves: the row, or the vector as it was.
AllOrNothing(v, r, row) ==
    /\ VectorIs(r.v) /\ r.ok \in BOOLEAN
    /\ ~r.ok => r.v = v
    /\ r.ok => /\ r.v.size = Len(row)
               /\ \A i \in 1..Len(row) : r.v.cells[i] = row[i]

\* Whether all of the row is constructed or only some of it, no element is lost.
LEMMA Rebuilt ==
    ASSUME NEW v, VectorIs(v), NEW required \in Nat, NEW budget \in Nat,
           NEW row \in Seq(Nat \ {0}), Len(row) <= required, NEW built, NEW left, NEW r,
           Rebuilds(v, required, row, budget, built, left, r)
    PROVE  AllOrNothing(v, r, row) /\ (r.ok => required <= Len(r.v.cells) /\ budget # 0)
<1> DEFINE cap == Vec!GrowthCapacity(v, required)
           n == Len(row)
<1>1. n \in Nat /\ MaxSize \in Nat BY LenProperties, SequenceAssumption
<1>2. \A i \in 1..n : row[i] \in Nat \ {0} BY ElementOfSeq
<1>3. CASE required > MaxSize \/ budget = 0
    <2>1. r = Vec!Throws(v) BY <1>3 DEF Rebuilds
    <2>2. r.v = v /\ r.ok = FALSE BY <2>1 DEF Vec!Throws
    <2> QED BY <2>2 DEF AllOrNothing
<1>4. CASE ~(required > MaxSize \/ budget = 0) /\ budget - 1 < n
    <2>1. \A i \in DOMAIN left : left[i] = 0 BY <1>1, <1>4 DEF Rebuilds
    <2>2. Vec!Alive(left) = 0 BY <2>1, NoneAlive
    <2>3. r = Vec!Throws([v EXCEPT !.lost = @ + 0]) BY <1>4, <2>2 DEF Rebuilds
    <2>4. r.v = v /\ r.ok = FALSE BY <2>3 DEF Vec!Throws, VectorIs
    <2> QED BY <2>4 DEF AllOrNothing
<1>5. CASE ~(required > MaxSize \/ budget = 0) /\ ~(budget - 1 < n)
    <2>1. cap \in required..MaxSize BY <1>1, <1>5, GrowthIs
    <2>2. DOMAIN built = 1..cap /\ built = [i \in DOMAIN built |-> built[i]] BY DEF Rebuilds
    <2>3. \A i \in DOMAIN built : built[i] = IF i <= n THEN row[i] ELSE 0
        BY <1>5 DEF Rebuilds
    <2>4. r = Vec!Ok([cells |-> built, size |-> n, lost |-> Vec!Release(v).lost])
        BY <1>5 DEF Rebuilds
    <2>5. r.v = [cells |-> built, size |-> n, lost |-> 0] /\ r.ok = TRUE
        BY <2>4, Released DEF Vec!Ok, Vec!EmptyVector
    <2>6. cap \in Nat /\ n \in 0..cap BY <1>1, <2>1
    <2> HIDE DEF cap, n
    <2>7. \A i \in 1..cap : built[i] \in Nat /\ (built[i] # 0 <=> i <= n)
        BY <1>2, <2>2, <2>3, <2>6
    <2>8. Cells(built, cap, n) BY <2>2, <2>6, <2>7, CellsAre
    <2>9. Len(built) = cap BY <2>8 DEF Cells
    <2>10. VectorIs(r.v) BY <2>1, <2>5, <2>8, <2>9 DEF VectorIs
    <2>11. \A i \in 1..n : r.v.cells[i] = row[i] BY <2>2, <2>3, <2>5, <2>6
    <2>12. r.v.size = n /\ r.ok = TRUE /\ required <= Len(r.v.cells) /\ budget # 0
        BY <1>5, <2>1, <2>5, <2>9
    <2> QED BY <2>10, <2>11, <2>12 DEF AllOrNothing, n
<1> QED BY <1>3, <1>4, <1>5

LEMMA RebuiltWithTail ==
    ASSUME NEW v, VectorIs(v), NEW tail \in Seq(Nat \ {0}), NEW budget \in Nat
    PROVE  AllOrNothing(v, Vec!ReallocateWithTail(v, tail, budget), Vec!Contents(v) \o tail)
<1> DEFINE t == Len(tail)
           n == v.size + t
           row == Vec!Contents(v) \o tail
           block == [i \in 1..Vec!GrowthCapacity(v, n) |-> Vec!Raw]
           Turn(i) == IF i > v.size THEN i - v.size ELSE i + t
           Doomed(k) == (1..k - t) \union (v.size + 1..v.size + Vec!Lesser(k, t))
           k == budget - 1
           built == Vec!Construct(block, row, Turn, k)
           left == Vec!DestroyRange(built, Doomed(k))
           r == Vec!ReallocateWithTail(v, tail, budget)
<1>1. t \in Nat /\ v.size \in Nat
    BY LenProperties DEF VectorIs, Cells
<1>2. row \in Seq(Nat \ {0}) /\ Len(row) = n /\ DOMAIN row = 1..n
    <2>1. Vec!Contents(v) \in Seq(Nat \ {0}) /\ Len(Vec!Contents(v)) = v.size BY ContentsAre
    <2> HIDE DEF row
    <2>2. row \in Seq(Nat \ {0}) /\ Len(row) = n BY <2>1, ConcatProperties DEF row
    <2> QED BY <2>2, LenProperties
<1>3. r = IF n > MaxSize \/ budget = 0 THEN Vec!Throws(v)
          ELSE IF k < Len(row) THEN Vec!Throws([v EXCEPT !.lost = @ + Vec!Alive(left)])
          ELSE Vec!Ok([cells |-> built, size |-> Len(row), lost |-> Vec!Release(v).lost])
    BY DEF Vec!ReallocateWithTail, Vec!Rebuild
<1>4. built = [i \in DOMAIN built |-> built[i]] /\ DOMAIN built = 1..Vec!GrowthCapacity(v, n)
    BY DEF Vec!Construct
<1>5. ~(k < n) => \A i \in DOMAIN built : built[i] = IF i <= n THEN row[i] ELSE 0
    BY <1>1, <1>2 DEF Vec!Construct, Vec!Raw
<1>6. k \in 0..n - 1 => \A i \in DOMAIN left : left[i] = 0
    <2>1. \A i \in DOMAIN left : left[i] = IF i \in Doomed(k) THEN 0
                                          ELSE IF i \in 1..n /\ Turn(i) <= k THEN row[i] ELSE 0
        BY <1>2 DEF Vec!Construct, Vec!DestroyRange, Vec!Raw
    <2>2. ASSUME NEW j \in Nat, k = j, j < n, NEW i \in 1..n, Turn(i) <= j PROVE i \in Doomed(j)
        <3> HIDE DEF k, row, left, built
        <3>1. CASE i > v.size
            BY <1>1, <2>2, <3>1 DEF Vec!Lesser
        <3>2. CASE ~(i > v.size)
            BY <1>1, <2>2, <3>2 DEF Vec!Lesser
        <3> QED BY <3>1, <3>2
    <2> HIDE DEF row, left, built, Turn, Doomed
    <2>3. k \in 0..n - 1 => k \in Nat /\ k < n BY <1>1
    <2> HIDE DEF k
    <2> QED BY <2>1, <2>2, <2>3
<1>7. n \in Nat BY <1>1
<1> HIDE DEF built, left, row, r, n
<1>8. Rebuilds(v, n, row, budget, built, left, r)
    BY <1>2, <1>3, <1>4, <1>5, <1>6 DEF Rebuilds
<1>9. AllOrNothing(v, r, row) BY <1>2, <1>7, <1>8, Rebuilt
<1> QED BY <1>9 DEF r, row

LEMMA RebuiltWithPrepend ==
    ASSUME NEW v, VectorIs(v), NEW x \in Nat \ {0}, NEW budget \in Nat
    PROVE  AllOrNothing(v, Vec!ReallocateWithPrepend(v, x, budget), <<x>> \o Vec!Contents(v))
<1> DEFINE n == v.size + 1
           row == <<x>> \o Vec!Contents(v)
           block == [i \in 1..Vec!GrowthCapacity(v, n) |-> Vec!Raw]
           Turn(i) == i
           Doomed(k) == (2..k) \union (1..Vec!Lesser(k, 1))
           k == budget - 1
           built == Vec!Construct(block, row, Turn, k)
           left == Vec!DestroyRange(built, Doomed(k))
           r == Vec!ReallocateWithPrepend(v, x, budget)
<1>1. v.size \in Nat BY DEF VectorIs, Cells
<1>2. row \in Seq(Nat \ {0}) /\ Len(row) = n /\ DOMAIN row = 1..n
    <2>1. Vec!Contents(v) \in Seq(Nat \ {0}) /\ Len(Vec!Contents(v)) = v.size BY ContentsAre
    <2>2. <<x>> \in Seq(Nat \ {0}) /\ Len(<<x>>) = 1 OBVIOUS
    <2> HIDE DEF row
    <2>3. row \in Seq(Nat \ {0}) /\ Len(row) = 1 + v.size BY <2>1, <2>2, ConcatProperties DEF row
    <2> QED BY <1>1, <2>3, LenProperties
<1>3. r = IF n > MaxSize \/ budget = 0 THEN Vec!Throws(v)
          ELSE IF k < Len(row) THEN Vec!Throws([v EXCEPT !.lost = @ + Vec!Alive(left)])
          ELSE Vec!Ok([cells |-> built, size |-> Len(row), lost |-> Vec!Release(v).lost])
    BY DEF Vec!ReallocateWithPrepend, Vec!Rebuild
<1>4. built = [i \in DOMAIN built |-> built[i]] /\ DOMAIN built = 1..Vec!GrowthCapacity(v, n)
    BY DEF Vec!Construct
<1>5. ~(k < n) => \A i \in DOMAIN built : built[i] = IF i <= n THEN row[i] ELSE 0
    BY <1>1, <1>2 DEF Vec!Construct, Vec!Raw
<1>6. k \in 0..n - 1 => \A i \in DOMAIN left : left[i] = 0
    BY <1>1, <1>2 DEF Vec!Construct, Vec!DestroyRange, Vec!Raw, Vec!Lesser
<1>7. n \in Nat BY <1>1
<1> HIDE DEF built, left, row, r, n
<1>8. Rebuilds(v, n, row, budget, built, left, r)
    BY <1>2, <1>3, <1>4, <1>5, <1>6 DEF Rebuilds
<1>9. AllOrNothing(v, r, row) BY <1>2, <1>7, <1>8, Rebuilt
<1> QED BY <1>9 DEF r, row

LEMMA CapacityEnsured ==
    ASSUME NEW v, VectorIs(v), NEW required \in Nat, NEW budget \in Nat
    PROVE  LET r == Vec!EnsureCapacity(v, required, budget)
           IN /\ AllOrNothing(v, r, Vec!Contents(v))
              /\ r.ok => required <= Len(r.v.cells) /\ (required > Len(v.cells) => budget # 0)
<1> DEFINE n == v.size
           row == Vec!Contents(v)
           block == [i \in 1..Vec!GrowthCapacity(v, required) |-> Vec!Raw]
           Turn(i) == i
           Doomed(k) == 1..k
           k == budget - 1
           built == Vec!Construct(block, row, Turn, k)
           left == Vec!DestroyRange(built, Doomed(k))
           r == Vec!EnsureCapacity(v, required, budget)
<1>1. n \in Nat /\ n <= Len(v.cells) /\ Len(v.cells) \in Nat BY DEF VectorIs, Cells
<1>2. row \in Seq(Nat \ {0}) /\ Len(row) = n BY ContentsAre
<1>3. DOMAIN row = 1..n BY <1>2, LenProperties
<1>4. \A i \in 1..n : row[i] = v.cells[i] BY ContentsAre
<1>5. CASE required <= Len(v.cells)
    <2> HIDE DEF row
    <2>1. r = Vec!Ok(v) BY <1>5 DEF Vec!EnsureCapacity, Vec!Capacity
    <2> HIDE DEF r
    <2>2. r.v = v /\ r.ok = TRUE BY <2>1 DEF Vec!Ok
    <2>3. AllOrNothing(v, r, row) BY <1>2, <1>4, <2>2 DEF AllOrNothing
    <2> QED BY <1>5, <2>2, <2>3 DEF r, row
<1>6. CASE ~(required <= Len(v.cells))
    <2>1. r = IF required > MaxSize \/ budget = 0 THEN Vec!Throws(v)
              ELSE IF k < Len(row) THEN Vec!Throws([v EXCEPT !.lost = @ + Vec!Alive(left)])
              ELSE Vec!Ok([cells |-> built, size |-> Len(row), lost |-> Vec!Release(v).lost])
        BY <1>6 DEF Vec!EnsureCapacity, Vec!Capacity, Vec!Rebuild
    <2>2. built = [i \in DOMAIN built |-> built[i]]
          /\ DOMAIN built = 1..Vec!GrowthCapacity(v, required)
        BY DEF Vec!Construct
    <2>3. ~(k < n) => \A i \in DOMAIN built : built[i] = IF i <= n THEN row[i] ELSE 0
        BY <1>1, <1>3 DEF Vec!Construct, Vec!Raw
    <2>4. k \in 0..n - 1 => \A i \in DOMAIN left : left[i] = 0
        BY <1>1, <1>3 DEF Vec!Construct, Vec!DestroyRange, Vec!Raw
    <2>5. Len(row) <= required BY <1>1, <1>2, <1>6
    <2> HIDE DEF built, left, row, r, n
    <2>6. Rebuilds(v, required, row, budget, built, left, r)
        BY <1>2, <2>1, <2>2, <2>3, <2>4 DEF Rebuilds
    <2>7. AllOrNothing(v, r, row) /\ (r.ok => required <= Len(r.v.cells) /\ budget # 0)
        BY <1>2, <2>5, <2>6, Rebuilt
    <2> QED BY <2>7 DEF r, row
<1> QED BY <1>1, <1>5, <1>6

\* The elements of a vector with others behind them.
LEMMA RowWith ==
    ASSUME NEW v, VectorIs(v), NEW elements \in Seq(Nat \ {0})
    PROVE  LET row == Vec!Contents(v) \o elements
           IN /\ row \in Seq(Nat \ {0}) /\ Len(row) = v.size + Len(elements)
              /\ \A i \in 1..v.size + Len(elements) :
                    row[i] = IF i <= v.size THEN v.cells[i] ELSE elements[i - v.size]
<1> DEFINE C == Vec!Contents(v)
<1>1. C \in Seq(Nat \ {0}) /\ Len(C) = v.size /\ \A i \in 1..v.size : C[i] = v.cells[i]
    BY ContentsAre
<1>2. v.size \in Nat /\ Len(elements) \in Nat BY LenProperties DEF VectorIs, Cells
<1> HIDE DEF C
<1>3. C \o elements \in Seq(Nat \ {0}) /\ Len(C \o elements) = v.size + Len(elements)
      /\ \A i \in 1..v.size + Len(elements) :
            (C \o elements)[i] = IF i <= v.size THEN C[i] ELSE elements[i - v.size]
    <2>1. C \o elements \in Seq(Nat \ {0}) /\ Len(C \o elements) = Len(C) + Len(elements)
          /\ \A i \in 1..Len(C) + Len(elements) :
                (C \o elements)[i] = IF i <= Len(C) THEN C[i] ELSE elements[i - Len(C)]
        BY <1>1, ConcatProperties
    <2>2. Len(C) = v.size BY <1>1
    <2> HIDE <1>1
    <2> QED BY <2>1, <2>2
<1>4. \A i \in 1..v.size + Len(elements) : i <= v.size => (C \o elements)[i] = v.cells[i]
    BY <1>1, <1>2, <1>3
<1> QED BY <1>3, <1>4 DEF C

\* Elements put behind the last one: all of them, or the vector as it was.
LEMMA PutBehind ==
    ASSUME NEW v, VectorIs(v), NEW elements \in Seq(Nat \ {0}), NEW budget \in Nat,
           v.size + Len(elements) <= Len(v.cells)
    PROVE  AllOrNothing(v, Vec!Behind(v, elements, budget), Vec!Contents(v) \o elements)
<1> DEFINE n == Len(elements)
           k == Vec!Lesser(budget, n)
           built == [i \in DOMAIN v.cells |-> IF i - v.size \in 1..k THEN elements[i - v.size]
                                              ELSE v.cells[i]]
           left == Vec!DestroyRange(built, v.size + 1..v.size + k)
           row == Vec!Contents(v) \o elements
           r == Vec!Behind(v, elements, budget)
           cap == Len(v.cells)
<1>1. /\ n \in Nat /\ cap \in Nat /\ v.size \in 0..cap /\ DOMAIN v.cells = 1..cap
      /\ \A i \in 1..cap : v.cells[i] \in Nat /\ (v.cells[i] # 0 <=> i <= v.size)
    BY LenProperties DEF VectorIs, Cells
<1>2. \A i \in 1..n : elements[i] \in Nat \ {0} BY ElementOfSeq
<1>3. row \in Seq(Nat \ {0}) /\ Len(row) = v.size + n
      /\ \A i \in 1..v.size + n : row[i] = IF i <= v.size THEN v.cells[i] ELSE elements[i - v.size]
    BY RowWith
<1>4. r = IF k < n THEN Vec!Throws([v EXCEPT !.cells = left])
          ELSE Vec!Ok([v EXCEPT !.cells = built, !.size = @ + n])
    BY DEF Vec!Behind
<1>5. v = [cells |-> v.cells, size |-> v.size, lost |-> 0] BY DEF VectorIs
<1>6. CASE k < n
    <2>1. left = v.cells
        <3>1. left = [i \in DOMAIN v.cells |-> left[i]]
            BY DEF Vec!DestroyRange
        <3>2. \A i \in DOMAIN v.cells : left[i] = IF i \in v.size + 1..v.size + k THEN 0 ELSE built[i]
            BY DEF Vec!DestroyRange, Vec!Raw
        <3>3. k \in Nat BY <1>1 DEF Vec!Lesser
        <3>4. \A i \in 1..cap : ~(i \in v.size + 1..v.size + k) => built[i] = v.cells[i]
            BY <1>1, <3>3
        <3>5. v.cells = [i \in DOMAIN v.cells |-> v.cells[i]] BY <1>1 DEF VectorIs, Cells
        <3> HIDE DEF left, built, k
        <3>6. \A i \in 1..cap : left[i] = v.cells[i] BY <1>1, <3>2, <3>3, <3>4
        <3> QED BY <1>1, <3>1, <3>5, <3>6
    <2>2. r = Vec!Throws([v EXCEPT !.cells = v.cells]) BY <1>4, <1>6, <2>1
    <2> HIDE DEF r
    <2>3. r.v = v /\ r.ok = FALSE BY <1>5, <2>2 DEF Vec!Throws
    <2>4. AllOrNothing(v, r, row) BY <2>3 DEF AllOrNothing
    <2> QED BY <2>4 DEF r
<1>7. CASE ~(k < n)
    <2>1. k = n BY <1>1, <1>7 DEF Vec!Lesser
    <2>2. \A i \in 1..cap : built[i] = IF i - v.size \in 1..n THEN elements[i - v.size]
                                       ELSE v.cells[i]
        BY <1>1, <2>1
    <2>3. built = [i \in DOMAIN built |-> built[i]] /\ DOMAIN built = 1..cap BY <1>1
    <2>4. r = Vec!Ok([v EXCEPT !.cells = built, !.size = @ + n]) BY <1>4, <1>7
    <2> HIDE DEF built, k, r
    <2>5. r.v = [cells |-> built, size |-> v.size + n, lost |-> 0] /\ r.ok = TRUE
        <3>1. r.v = [v EXCEPT !.cells = built, !.size = @ + n] /\ r.ok = TRUE BY <2>4 DEF Vec!Ok
        <3> HIDE DEF n
        <3>2. r.v.cells = built /\ r.v.size = v.size + n /\ r.v.lost = v.lost BY <1>5, <3>1
        <3>3. r.v = [cells |-> r.v.cells, size |-> r.v.size, lost |-> r.v.lost] BY <1>5, <3>1
        <3> QED BY <1>5, <3>1, <3>2, <3>3
    <2>6. v.size + n \in 0..cap BY <1>1
    <2>61. \A i \in 1..v.size + n : row[i] = IF i <= v.size THEN v.cells[i] ELSE elements[i - v.size]
        BY <1>3
    <2> HIDE DEF n, cap, row
    <2>7. \A i \in 1..cap : built[i] \in Nat /\ (built[i] # 0 <=> i <= v.size + n)
        <3> SUFFICES ASSUME NEW i \in 1..cap
                     PROVE  built[i] \in Nat /\ (built[i] # 0 <=> i <= v.size + n)
            OBVIOUS
        <3>1. CASE i - v.size \in 1..n
            <4>1. built[i] = elements[i - v.size] BY <2>2, <3>1
            <4> QED BY <1>1, <1>2, <3>1, <4>1
        <3>2. CASE i - v.size \notin 1..n
            <4>1. built[i] = v.cells[i] BY <2>2, <3>2
            <4> QED BY <1>1, <3>2, <4>1
        <3> QED BY <3>1, <3>2
    <2>8. Cells(built, cap, v.size + n) BY <1>1, <2>3, <2>6, <2>7, CellsAre
    <2>9. Len(built) = cap /\ cap <= MaxSize BY <2>8 DEF Cells, VectorIs, cap
    <2>10. VectorIs(r.v) BY <2>5, <2>8, <2>9 DEF VectorIs
    <2>11. \A i \in 1..v.size + n : built[i] = row[i]
        <3> SUFFICES ASSUME NEW i \in 1..v.size + n PROVE built[i] = row[i]
            OBVIOUS
        <3>1. i \in 1..cap BY <1>1, <2>6
        <3>2. CASE i <= v.size BY <1>1, <2>61, <2>2, <3>1, <3>2
        <3>3. CASE ~(i <= v.size) 
            <4>1. i - v.size \in 1..n /\ i \in 1..v.size + n BY <1>1, <3>3
            <4>2. built[i] = elements[i - v.size] BY <2>2, <3>1, <4>1
            <4>3. row[i] = elements[i - v.size] BY <2>61, <3>3
            <4> QED BY <4>2, <4>3
        <3> QED BY <3>2, <3>3
    <2>12. r.v.size = Len(row) /\ r.v.cells = built /\ r.ok = TRUE BY <1>3, <2>5
    <2>13. \A i \in 1..Len(row) : r.v.cells[i] = row[i] BY <1>3, <2>11, <2>12
    <2>14. AllOrNothing(v, r, row) BY <2>10, <2>12, <2>13 DEF AllOrNothing
    <2> QED BY <2>14 DEF r, row, n
<1> QED BY <1>6, <1>7

LEMMA PushedBack ==
    ASSUME NEW v, VectorIs(v), NEW x \in Nat \ {0}, NEW budget \in Nat
    PROVE  AllOrNothing(v, Vec!PushBack(v, x, budget), Vec!Contents(v) \o <<x>>)
<1> DEFINE r == Vec!PushBack(v, x, budget)
<1>1. <<x>> \in Seq(Nat \ {0}) /\ Len(<<x>>) = 1 OBVIOUS
<1>2. v.size \in Nat /\ Len(v.cells) \in Nat /\ v.size <= Len(v.cells) BY DEF VectorIs, Cells
<1>3. CASE v.size = MaxSize
    <2>1. r = Vec!Throws(v) BY <1>3 DEF Vec!PushBack, Vec!AppendConstructed
    <2> HIDE DEF r
    <2>2. r.v = v /\ r.ok = FALSE BY <2>1 DEF Vec!Throws
    <2>3. AllOrNothing(v, r, Vec!Contents(v) \o <<x>>) BY <2>2 DEF AllOrNothing
    <2> QED BY <2>3 DEF r
<1>4. CASE v.size # MaxSize /\ v.size = Len(v.cells)
    <2>1. r = Vec!ReallocateWithTail(v, <<x>>, budget)
        BY <1>4 DEF Vec!PushBack, Vec!AppendConstructed, Vec!Capacity
    <2> QED BY <1>1, <2>1, RebuiltWithTail
<1>5. CASE v.size # MaxSize /\ v.size # Len(v.cells)
    <2>1. r = Vec!Behind(v, <<x>>, budget)
        BY <1>5 DEF Vec!PushBack, Vec!AppendConstructed, Vec!Capacity
    <2>2. v.size + Len(<<x>>) <= Len(v.cells) BY <1>1, <1>2, <1>5
    <2>3. AllOrNothing(v, Vec!Behind(v, <<x>>, budget), Vec!Contents(v) \o <<x>>)
        BY <1>1, <2>2, PutBehind
    <2> QED BY <2>1, <2>3
<1> QED BY <1>3, <1>4, <1>5

LEMMA VectorHas ==
    ASSUME NEW v, VectorIs(v)
    PROVE  /\ v = [cells |-> v.cells, size |-> v.size, lost |-> 0]
           /\ Len(v.cells) \in Nat /\ Len(v.cells) <= MaxSize /\ v.size \in 0..Len(v.cells)
           /\ DOMAIN v.cells = 1..Len(v.cells) /\ v.cells = [i \in 1..Len(v.cells) |-> v.cells[i]]
           /\ \A i \in 1..Len(v.cells) : v.cells[i] \in Nat /\ (v.cells[i] # 0 <=> i <= v.size)
BY DEF VectorIs, Cells

\* The memory of a vector overwritten.
LEMMA Overwritten ==
    ASSUME NEW v, VectorIs(v), NEW k \in 0..Len(v.cells), NEW c,
           c = [i \in DOMAIN c |-> c[i]], DOMAIN c = 1..Len(v.cells),
           \A i \in 1..Len(v.cells) : c[i] \in Nat /\ (c[i] # 0 <=> i <= k)
    PROVE  VectorIs([cells |-> c, size |-> k, lost |-> 0])
<1>1. Len(v.cells) \in Nat /\ Len(v.cells) <= MaxSize BY VectorHas
<1>2. Cells(c, Len(v.cells), k) BY <1>1, CellsAre
<1>3. Len(c) = Len(v.cells) BY <1>2 DEF Cells
<1> QED BY <1>1, <1>2, <1>3 DEF VectorIs

LEMMA PoppedBackVector ==
    ASSUME NEW v, VectorIs(v)
    PROVE  VectorIs(Vec!PopBack(v)) /\ Len(Vec!PopBack(v).cells) = Len(v.cells)
           /\ Vec!PopBack(v).size = (IF v.size = 0 THEN 0 ELSE v.size - 1)
           /\ \A i \in 1..v.size - 1 : Vec!PopBack(v).cells[i] = v.cells[i]
<1> DEFINE c == [v.cells EXCEPT ![v.size] = 0]
           cap == Len(v.cells)
           n == v.size
           r == Vec!PopBack(v)
<1>1. v = [cells |-> v.cells, size |-> n, lost |-> 0] BY VectorHas
<1>2. /\ cap \in Nat /\ n \in 0..cap /\ DOMAIN v.cells = 1..cap
      /\ \A i \in 1..cap : v.cells[i] \in Nat /\ (v.cells[i] # 0 <=> i <= n)
    BY VectorHas
<1>3. r = IF n = 0 THEN v ELSE [v EXCEPT !.size = @ - 1, !.cells[v.size] = 0]
    BY DEF Vec!PopBack, Vec!Raw
<1>4. CASE n = 0
    <2>1. r = v BY <1>3, <1>4
    <2> QED BY <1>2, <1>4, <2>1
<1>5. CASE n # 0
    <2>1. r = [v EXCEPT !.size = @ - 1, !.cells[v.size] = 0] BY <1>3, <1>5
    <2> HIDE DEF r
    <2>2. r = [cells |-> c, size |-> n - 1, lost |-> 0]
        <3>1. r.cells = c /\ r.size = v.size - 1 /\ r.lost = v.lost BY <1>1, <2>1
        <3>2. r = [cells |-> r.cells, size |-> r.size, lost |-> r.lost] BY <1>1, <2>1
        <3> QED BY <1>1, <3>1, <3>2
    <2>3. c = [i \in DOMAIN c |-> c[i]] /\ DOMAIN c = 1..cap
          /\ \A i \in 1..cap : c[i] = IF i = n THEN 0 ELSE v.cells[i]
        BY <1>2
    <2> HIDE DEF c, cap, n
    <2>4. n \in 1..cap /\ n - 1 \in 0..cap BY <1>2, <1>5
    <2>5. \A i \in 1..cap : c[i] \in Nat /\ (c[i] # 0 <=> i <= n - 1)
        BY <1>2, <2>3, <2>4
    <2>6. VectorIs(r) BY <2>2, <2>3, <2>4, <2>5, Overwritten DEF cap
    <2>7. Len(c) = cap
        <3>1. DOMAIN c = 1..Len(c) /\ Len(c) \in Nat BY <2>2, <2>6, VectorHas
        <3> QED BY <1>2, <2>3, <3>1
    <2>8. \A i \in 1..n - 1 : c[i] = v.cells[i] BY <1>2, <2>3, <2>4
    <2> QED BY <1>5, <2>2, <2>6, <2>7, <2>8 DEF r, n, cap
<1> QED BY <1>4, <1>5

LEMMA PushedFront ==
    ASSUME NEW v, VectorIs(v), NEW x \in Nat \ {0}, NEW budget \in Nat
    PROVE  VectorIs(Vec!PushFront(v, x, budget).v)
<1> DEFINE n == v.size
           done == Vec!Lesser(budget, n + 1)
           shifted == [i \in DOMAIN v.cells |-> IF i \notin n + 2 - done..n + 1 THEN v.cells[i]
                                                ELSE IF i = 1 THEN x ELSE v.cells[i - 1]]
           left == Vec!DestroyRange(shifted, {n + 1})
           r == Vec!PushFront(v, x, budget)
<1>1. r = IF n = MaxSize THEN Vec!Throws(v)
          ELSE IF n = Len(v.cells) THEN Vec!ReallocateWithPrepend(v, x, budget)
          ELSE IF n = 0 THEN Vec!Behind(v, <<x>>, budget)
          ELSE IF budget < n + 1 THEN Vec!Throws([v EXCEPT !.cells = left])
          ELSE Vec!Ok([v EXCEPT !.cells = shifted, !.size = n + 1])
    BY DEF Vec!PushFront, Vec!Capacity
<1>2. /\ v = [cells |-> v.cells, size |-> n, lost |-> 0]
      /\ Len(v.cells) \in Nat /\ n \in 0..Len(v.cells) /\ DOMAIN v.cells = 1..Len(v.cells)
      /\ \A i \in 1..Len(v.cells) : v.cells[i] \in Nat /\ (v.cells[i] # 0 <=> i <= n)
    BY VectorHas
<1>3. CASE n = MaxSize
    <2>1. r = Vec!Throws(v) BY <1>1, <1>3
    <2> QED BY <2>1 DEF Vec!Throws
<1>4. CASE n # MaxSize /\ n = Len(v.cells)
    <2>1. r = Vec!ReallocateWithPrepend(v, x, budget) BY <1>1, <1>4
    <2> QED BY <2>1, RebuiltWithPrepend DEF AllOrNothing
<1>5. CASE n # MaxSize /\ n # Len(v.cells) /\ n = 0
    <2>1. r = Vec!Behind(v, <<x>>, budget) BY <1>1, <1>5
    <2>2. <<x>> \in Seq(Nat \ {0}) /\ Len(<<x>>) = 1 OBVIOUS
    <2>3. v.size + Len(<<x>>) <= Len(v.cells) BY <1>2, <1>5, <2>2
    <2> QED BY <2>1, <2>2, <2>3, PutBehind DEF AllOrNothing
<1>6. CASE n # MaxSize /\ n # Len(v.cells) /\ n # 0 /\ budget < n + 1
    <2>1. done \in 0..n BY <1>2, <1>6 DEF Vec!Lesser
    <2>2. left = [i \in DOMAIN left |-> left[i]] /\ DOMAIN left = 1..Len(v.cells)
        BY <1>2 DEF Vec!DestroyRange
    <2>3. \A i \in 1..Len(v.cells) : left[i] = IF i = n + 1 THEN 0
                                               ELSE IF i \notin n + 2 - done..n + 1 THEN v.cells[i]
                                               ELSE IF i = 1 THEN x ELSE v.cells[i - 1]
        BY <1>2 DEF Vec!DestroyRange, Vec!Raw
    <2>4. r = Vec!Throws([v EXCEPT !.cells = left]) BY <1>1, <1>6
    <2> HIDE DEF left, done, r
    <2>5. r.v = [cells |-> left, size |-> n, lost |-> 0] BY <1>2, <2>4 DEF Vec!Throws
    <2>6. \A i \in 1..Len(v.cells) : left[i] \in Nat /\ (left[i] # 0 <=> i <= n)
        <3> SUFFICES ASSUME NEW i \in 1..Len(v.cells)
                     PROVE  left[i] \in Nat /\ (left[i] # 0 <=> i <= n)
            OBVIOUS
        <3> HIDE DEF n
        <3>1. CASE i = n + 1 BY <1>2, <2>3, <3>1
        <3>2. CASE i \notin n + 2 - done..n + 1 BY <1>2, <2>1, <2>3, <3>2
        <3>3. CASE i # n + 1 /\ i \in n + 2 - done..n + 1
            <4>1. left[i] = v.cells[i - 1] /\ i - 1 \in 1..n
                BY <1>2, <2>1, <2>3, <3>3
            <4> QED BY <1>2, <2>1, <3>3, <4>1
        <3> QED BY <3>1, <3>2, <3>3
    <2>7. VectorIs(r.v) BY <1>2, <2>2, <2>5, <2>6, Overwritten
    <2> QED BY <2>7 DEF r
<1>7. CASE n # MaxSize /\ n # Len(v.cells) /\ n # 0 /\ ~(budget < n + 1)
    <2>1. done = n + 1 BY <1>2, <1>7 DEF Vec!Lesser
    <2>2. shifted = [i \in DOMAIN shifted |-> shifted[i]] /\ DOMAIN shifted = 1..Len(v.cells)
        BY <1>2
    <2>3. \A i \in 1..Len(v.cells) : shifted[i] = IF i \notin 1..n + 1 THEN v.cells[i]
                                                  ELSE IF i = 1 THEN x ELSE v.cells[i - 1]
        BY <1>2, <2>1
    <2>4. r = Vec!Ok([v EXCEPT !.cells = shifted, !.size = n + 1]) BY <1>1, <1>7
    <2> HIDE DEF shifted, done, r
    <2>5. r.v = [cells |-> shifted, size |-> n + 1, lost |-> 0]
        <3>1. r.v = [v EXCEPT !.cells = shifted, !.size = n + 1] BY <2>4 DEF Vec!Ok
        <3>2. r.v.cells = shifted /\ r.v.size = n + 1 /\ r.v.lost = v.lost BY <1>2, <3>1
        <3>3. r.v = [cells |-> r.v.cells, size |-> r.v.size, lost |-> r.v.lost] BY <1>2, <3>1
        <3> QED BY <1>2, <3>2, <3>3
    <2>6. \A i \in 1..Len(v.cells) : shifted[i] \in Nat /\ (shifted[i] # 0 <=> i <= n + 1)
        <3> SUFFICES ASSUME NEW i \in 1..Len(v.cells)
                     PROVE  shifted[i] \in Nat /\ (shifted[i] # 0 <=> i <= n + 1)
            OBVIOUS
        <3> HIDE DEF n
        <3>1. CASE i \notin 1..n + 1 BY <1>2, <2>3, <3>1
        <3>2. CASE i = 1 BY <1>2, <1>7, <2>3, <3>2
        <3>3. CASE i # 1 /\ i \in 1..n + 1
            <4>1. shifted[i] = v.cells[i - 1] /\ i - 1 \in 1..n BY <1>2, <2>3, <3>3
            <4> QED BY <1>2, <3>3, <4>1
        <3> QED BY <3>1, <3>2, <3>3
    <2>7. n + 1 \in 0..Len(v.cells) BY <1>2, <1>7
    <2>8. VectorIs(r.v) BY <2>2, <2>5, <2>6, <2>7, Overwritten
    <2> QED BY <2>8 DEF r
<1> QED BY <1>3, <1>4, <1>5, <1>6, <1>7

LEMMA ErasedFrom ==
    ASSUME NEW v, VectorIs(v), NEW i \in Nat, NEW budget \in Nat
    PROVE  VectorIs(Vec!Erase(v, i, budget).v)
<1> DEFINE k == Vec!Lesser(budget, v.size - i)
           shifted == [p \in DOMAIN v.cells |-> IF p \in i..i + k - 1 THEN v.cells[p + 1]
                                                ELSE v.cells[p]]
           s == [v EXCEPT !.cells = shifted]
           r == Vec!Erase(v, i, budget)
<1>1. r = IF i \notin 1..v.size THEN Vec!Ok(v)
          ELSE IF budget < v.size - i THEN Vec!Throws(s) ELSE Vec!Ok(Vec!PopBack(s))
    BY DEF Vec!Erase
<1>2. /\ v = [cells |-> v.cells, size |-> v.size, lost |-> 0]
      /\ Len(v.cells) \in Nat /\ v.size \in 0..Len(v.cells) /\ DOMAIN v.cells = 1..Len(v.cells)
      /\ \A p \in 1..Len(v.cells) : v.cells[p] \in Nat /\ (v.cells[p] # 0 <=> p <= v.size)
    BY VectorHas
<1>3. CASE i \notin 1..v.size
    <2>1. r = Vec!Ok(v) BY <1>1, <1>3
    <2> QED BY <2>1 DEF Vec!Ok
<1>4. CASE i \in 1..v.size
    <2>1. k \in 0..v.size - i BY <1>2, <1>4 DEF Vec!Lesser
    <2>2. shifted = [p \in DOMAIN shifted |-> shifted[p]] /\ DOMAIN shifted = 1..Len(v.cells)
        BY <1>2
    <2>3. \A p \in 1..Len(v.cells) : shifted[p] = IF p \in i..i + k - 1 THEN v.cells[p + 1]
                                                  ELSE v.cells[p]
        BY <1>2
    <2> HIDE DEF shifted, k
    <2>4. \A p \in 1..Len(v.cells) : shifted[p] \in Nat /\ (shifted[p] # 0 <=> p <= v.size)
        <3> SUFFICES ASSUME NEW p \in 1..Len(v.cells)
                     PROVE  shifted[p] \in Nat /\ (shifted[p] # 0 <=> p <= v.size)
            OBVIOUS
        <3>1. CASE p \in i..i + k - 1
            <4>1. shifted[p] = v.cells[p + 1] /\ p + 1 \in 1..v.size
                BY <1>2, <1>4, <2>1, <2>3, <3>1
            <4> QED BY <1>2, <1>4, <3>1, <4>1
        <3>2. CASE p \notin i..i + k - 1 BY <1>2, <2>3, <3>2
        <3> QED BY <3>1, <3>2
    <2>5. s = [cells |-> shifted, size |-> v.size, lost |-> 0] BY <1>2
    <2>6. VectorIs(s) BY <1>2, <2>2, <2>4, <2>5, Overwritten
    <2> HIDE DEF s
    <2>7. VectorIs(Vec!PopBack(s)) BY <2>6, PoppedBackVector
    <2> HIDE DEF r
    <2>8. r = Vec!Throws(s) \/ r = Vec!Ok(Vec!PopBack(s)) BY <1>1, <1>4
    <2>9. VectorIs(r.v) BY <2>6, <2>7, <2>8 DEF Vec!Throws, Vec!Ok
    <2> QED BY <2>9 DEF r
<1> QED BY <1>3, <1>4

LEMMA PushedBackOwn ==
    ASSUME NEW v, VectorIs(v), NEW i \in 1..v.size, NEW budget \in Nat
    PROVE  VectorIs(Vec!PushBackOwn(v, i, budget).v)
<1>1. v.cells[i] \in Nat \ {0} BY DEF VectorIs, Cells
<1>2. CASE budget = 0 BY <1>2 DEF Vec!PushBackOwn, Vec!Throws
<1>3. CASE budget # 0
    <2>1. Vec!PushBackOwn(v, i, budget) = Vec!PushBack(v, v.cells[i], budget - 1)
        BY <1>3 DEF Vec!PushBackOwn
    <2>2. budget - 1 \in Nat BY <1>3
    <2> QED BY <1>1, <2>1, <2>2, PushedBack DEF AllOrNothing
<1> QED BY <1>2, <1>3

LEMMA SizeAdjusted ==
    ASSUME NEW v, VectorIs(v), NEW n \in Nat, NEW padding \in Nat \ {0}, NEW budget \in Nat
    PROVE  VectorIs(Vec!SizeAdjust(v, n, padding, budget).v)
<1> DEFINE tail == [j \in 1..n - v.size |-> padding]
           kept == Vec!DestroyRange(v.cells, n + 1..v.size)
           cap == Len(v.cells)
           r == Vec!SizeAdjust(v, n, padding, budget)
<1>1. r = IF n > MaxSize THEN Vec!Throws(v)
          ELSE IF n <= v.size THEN Vec!Ok([v EXCEPT !.cells = kept, !.size = n])
          ELSE IF n > cap THEN Vec!ReallocateWithTail(v, tail, budget)
          ELSE Vec!Behind(v, tail, budget)
    BY DEF Vec!SizeAdjust, Vec!Capacity
<1>2. v = [cells |-> v.cells, size |-> v.size, lost |-> 0] BY VectorHas
<1>3. /\ cap \in Nat /\ v.size \in 0..cap /\ DOMAIN v.cells = 1..cap
      /\ \A i \in 1..cap : v.cells[i] \in Nat /\ (v.cells[i] # 0 <=> i <= v.size)
    BY VectorHas
<1>4. CASE n > MaxSize
    <2>1. r = Vec!Throws(v) BY <1>1, <1>4
    <2> QED BY <2>1 DEF Vec!Throws
<1>5. CASE ~(n > MaxSize) /\ n <= v.size
    <2>1. r = Vec!Ok([v EXCEPT !.cells = kept, !.size = n]) BY <1>1, <1>5
    <2>2. kept = [i \in DOMAIN kept |-> kept[i]] /\ DOMAIN kept = 1..cap
          /\ \A i \in 1..cap : kept[i] = IF i \in n + 1..v.size THEN 0 ELSE v.cells[i]
        BY <1>3 DEF Vec!DestroyRange, Vec!Raw
    <2> HIDE DEF kept, r
    <2>3. r.v = [cells |-> kept, size |-> n, lost |-> 0]
        <3>1. r.v = [v EXCEPT !.cells = kept, !.size = n] BY <2>1 DEF Vec!Ok
        <3>2. r.v.cells = kept /\ r.v.size = n /\ r.v.lost = v.lost BY <1>2, <3>1
        <3>3. r.v = [cells |-> r.v.cells, size |-> r.v.size, lost |-> r.v.lost] BY <1>2, <3>1
        <3> QED BY <1>2, <3>2, <3>3
    <2> HIDE DEF cap
    <2>4. n \in 0..cap BY <1>3, <1>5
    <2>5. \A i \in 1..cap : kept[i] \in Nat /\ (kept[i] # 0 <=> i <= n)
        BY <1>3, <1>5, <2>2
    <2>6. VectorIs(r.v) BY <2>2, <2>3, <2>4, <2>5, Overwritten DEF cap
    <2> QED BY <2>6 DEF r
<1>6. CASE ~(n > MaxSize) /\ ~(n <= v.size)
    <2>1. n - v.size \in Nat BY <1>3, <1>6
    <2>2. tail \in [1..n - v.size -> Nat \ {0}] OBVIOUS
    <2> HIDE DEF tail, cap
    <2>3. tail \in Seq(Nat \ {0}) BY <2>1, <2>2, SeqDef
    <2>4. Len(tail) = n - v.size BY <2>1, <2>2, <2>3, LenProperties
    <2>5. CASE n > cap
        <3>1. r = Vec!ReallocateWithTail(v, tail, budget) BY <1>1, <1>6, <2>5
        <3> HIDE DEF r
        <3>2. VectorIs(r.v) BY <2>3, <3>1, RebuiltWithTail DEF AllOrNothing
        <3> QED BY <3>2 DEF r
    <2>6. CASE ~(n > cap)
        <3>1. r = Vec!Behind(v, tail, budget) BY <1>1, <1>6, <2>6
        <3>2. v.size + Len(tail) <= Len(v.cells) BY <1>3, <2>4, <2>6 DEF cap
        <3> HIDE DEF r
        <3>3. VectorIs(r.v) BY <2>3, <3>1, <3>2, PutBehind DEF AllOrNothing
        <3> QED BY <3>3 DEF r
    <2> QED BY <2>5, <2>6
<1> QED BY <1>4, <1>5, <1>6

\* A vector with the same elements.
SameElements(v, w) == v.size = w.size /\ \A i \in 1..w.size : v.cells[i] = w.cells[i]

\* A copy is whole, or nothing of it is left.
LEMMA Copied ==
    ASSUME NEW src, VectorIs(src), NEW budget \in Nat
    PROVE  LET r == Vec!Copy(src, budget)
           IN /\ VectorIs(r.v) /\ r.ok \in BOOLEAN
              /\ r.ok => SameElements(r.v, src) /\ (src.size # 0 => budget - 1 >= src.size)
<1> DEFINE cap == Len(src.cells)
           room == Vec!EnsureCapacity(Vec!EmptyVector, cap, budget)
           k == Vec!Lesser(budget - 1, src.size)
           part == SubSeq(src.cells, 1, k)
           some == Vec!Behind(room.v, part, k)
           r == Vec!Copy(src, budget)
<1>1. r = IF ~room.ok \/ cap = 0 THEN room
          ELSE IF k < src.size THEN Vec!Throws(Vec!Release(some.v)) ELSE some
    BY DEF Vec!Copy, Vec!Capacity
<1>2. /\ cap \in Nat /\ src.size \in 0..cap
      /\ \A i \in 1..cap : src.cells[i] \in Nat /\ (src.cells[i] # 0 <=> i <= src.size)
    BY VectorHas
<1>3. VectorIs(Vec!EmptyVector) /\ Len(Vec!EmptyVector.cells) = 0 BY EmptyVectorIs
<1>4. Len(Vec!Contents(Vec!EmptyVector)) = 0 BY <1>3, ContentsAre DEF Vec!EmptyVector
<1>5. /\ VectorIs(room.v) /\ room.ok \in BOOLEAN
      /\ room.ok => /\ room.v.size = 0 /\ cap <= Len(room.v.cells)
                    /\ cap > 0 => budget # 0
    BY <1>2, <1>3, <1>4, CapacityEnsured DEF AllOrNothing
<1> HIDE DEF room
<1>6. CASE ~room.ok
    <2>1. r = room BY <1>1, <1>6
    <2> QED BY <1>5, <1>6, <2>1
<1>7. CASE room.ok /\ cap = 0
    <2>1. r = room BY <1>1, <1>7
    <2>2. src.size = 0 BY <1>2, <1>7
    <2>3. room.v.size = 0 BY <1>5, <1>7
    <2>4. SameElements(room.v, src) BY <2>2, <2>3 DEF SameElements
    <2> QED BY <1>5, <2>1, <2>2, <2>4
<1>8. CASE room.ok /\ cap # 0
    <2>1. budget # 0 /\ room.v.size = 0 /\ cap <= Len(room.v.cells) BY <1>2, <1>5, <1>8
    <2>2. k \in 0..src.size /\ (~(k < src.size) => k = src.size /\ budget - 1 >= src.size)
        BY <1>2, <2>1 DEF Vec!Lesser
    <2> HIDE DEF k
    <2>3. \A i \in 1..k : src.cells[i] \in Nat \ {0} BY <1>2, <2>2
    <2>4. part \in Seq(Nat \ {0}) /\ Len(part) = k /\ \A i \in 1..k : part[i] = src.cells[i]
        BY <2>2, <2>3, SubSeqProperties
    <2> HIDE DEF part
    <2>5. room.v.size + Len(part) <= Len(room.v.cells) BY <1>2, <1>5, <2>1, <2>2, <2>4, VectorHas
    <2> DEFINE row == Vec!Contents(room.v) \o part
    <2>6. AllOrNothing(room.v, some, row) BY <1>5, <2>2, <2>4, <2>5, PutBehind
    <2>7. some.ok = TRUE /\ some.v.size = k
        <3>2. Vec!Lesser(k, Len(part)) = Len(part) BY <2>2, <2>4 DEF Vec!Lesser
        <3>3. some.ok = TRUE BY <2>2, <2>4, <3>2 DEF Vec!Behind, Vec!Ok
        <3>4. Len(row) = k BY <1>5, <2>1, <2>2, <2>4, RowWith
        <3> HIDE DEF row, some
        <3> QED BY <2>6, <3>3, <3>4 DEF AllOrNothing
    <2>8. \A i \in 1..k : some.v.cells[i] = src.cells[i]
        <3>1. Len(row) = k /\ \A i \in 1..k : row[i] = part[i]
            <4>1. /\ Len(row) = room.v.size + Len(part)
                  /\ \A i \in 1..room.v.size + Len(part) :
                        row[i] = IF i <= room.v.size THEN room.v.cells[i] ELSE part[i - room.v.size]
                BY <1>5, <2>4, RowWith
            <4> HIDE DEF row
            <4>2. Len(row) = k /\ \A i \in 1..k : row[i] = part[i - 0] BY <2>1, <2>2, <2>4, <4>1
            <4>3. \A i \in 1..k : i - 0 = i BY <2>2
            <4> QED BY <4>2, <4>3
        <3> HIDE DEF row, some
        <3> QED BY <2>4, <2>6, <2>7, <3>1 DEF AllOrNothing
    <2>9. VectorIs(some.v) BY <2>6 DEF AllOrNothing
    <2> HIDE DEF some, r
    <2>10. CASE k < src.size
        <3>1. r = Vec!Throws(Vec!Release(some.v)) BY <1>1, <1>8, <2>10
        <3>2. r.v = Vec!EmptyVector /\ r.ok = FALSE BY <2>9, <3>1, Released DEF Vec!Throws
        <3> QED BY <1>3, <3>2 DEF r
    <2>11. CASE ~(k < src.size)
        <3>1. r = some BY <1>1, <1>8, <2>11
        <3>2. SameElements(some.v, src) BY <2>2, <2>7, <2>8, <2>11 DEF SameElements
        <3> QED BY <2>2, <2>7, <2>9, <2>11, <3>1, <3>2 DEF r
    <2> QED BY <2>10, <2>11
<1> QED BY <1>6, <1>7, <1>8

LEMMA AssignedVector ==
    ASSUME NEW to, VectorIs(to), NEW from, VectorIs(from), NEW budget \in Nat
    PROVE  LET r == Vec!Assign(to, from, budget)
           IN VectorIs(r.v) /\ (r.v = to \/ SameElements(r.v, from))
<1> DEFINE copy == Vec!Copy(from, budget)
           r == Vec!Assign(to, from, budget)
<1>1. r = IF copy.ok THEN Vec!Ok([copy.v EXCEPT !.lost = @ + Vec!Release(to).lost])
          ELSE Vec!Throws([to EXCEPT !.lost = @ + copy.v.lost])
    BY DEF Vec!Assign
<1>2. /\ VectorIs(copy.v) /\ copy.ok \in BOOLEAN
      /\ copy.ok => SameElements(copy.v, from)
    BY Copied
<1> HIDE DEF copy, r
<1>3. copy.v.lost = 0 /\ copy.v = [copy.v EXCEPT !.lost = 0 + 0] BY <1>2 DEF VectorIs
<1>4. Vec!Release(to).lost = 0 BY Released DEF Vec!EmptyVector
<1>5. to = [to EXCEPT !.lost = @ + 0] BY DEF VectorIs
<1>6. CASE copy.ok
    <2>1. r = Vec!Ok([copy.v EXCEPT !.lost = @ + 0]) BY <1>1, <1>4, <1>6
    <2>2. r = Vec!Ok(copy.v) BY <1>3, <2>1
    <2>3. r.v = copy.v BY <2>2 DEF Vec!Ok
    <2> QED BY <1>2, <1>6, <2>3 DEF r
<1>7. CASE ~copy.ok
    <2>1. r = Vec!Throws([to EXCEPT !.lost = @ + 0]) BY <1>1, <1>3, <1>7
    <2>2. r = Vec!Throws(to) BY <1>5, <2>1
    <2>3. r.v = to BY <2>2 DEF Vec!Throws
    <2> QED BY <2>3 DEF r
<1> QED BY <1>6, <1>7

LEMMA MovedVector ==
    ASSUME NEW to, VectorIs(to), NEW from, VectorIs(from)
    PROVE  Vec!MoveAssign(to, from) = [to |-> from, from |-> Vec!EmptyVector]
<1>1. Vec!Release(to).lost = 0 BY Released DEF Vec!EmptyVector
<1>2. from = [from EXCEPT !.lost = @ + 0] BY DEF VectorIs
<1>3. Vec!MoveAssign(to, from) = [to |-> [from EXCEPT !.lost = @ + 0], from |-> Vec!EmptyVector]
    BY <1>1 DEF Vec!MoveAssign
<1> QED BY <1>2, <1>3

LEMMA ExtendedVector ==
    ASSUME NEW v, VectorIs(v), NEW other, VectorIs(other), NEW budget \in Nat
    PROVE  VectorIs(Vec!Extend(v, other, budget).v)
<1> DEFINE r == Vec!Extend(v, other, budget)
           more == Vec!Contents(other)
<1>1. r = IF other.size = 0 THEN Vec!Ok(v)
          ELSE IF other.size > MaxSize - v.size THEN Vec!Throws(v)
          ELSE IF v.size + other.size > Len(v.cells)
          THEN Vec!ReallocateWithTail(v, more, budget) ELSE Vec!Behind(v, more, budget)
    BY DEF Vec!Extend, Vec!Capacity
<1>2. more \in Seq(Nat \ {0}) /\ Len(more) = other.size BY ContentsAre
<1>3. v.size \in Nat /\ Len(v.cells) \in Nat /\ other.size \in Nat BY DEF VectorIs, Cells
<1> HIDE DEF r, more
<1>4. CASE r = Vec!Ok(v) BY <1>4 DEF r, Vec!Ok
<1>5. CASE r = Vec!Throws(v) BY <1>5 DEF r, Vec!Throws
<1>6. CASE r = Vec!ReallocateWithTail(v, more, budget)
    <2>1. VectorIs(r.v) BY <1>2, <1>6, RebuiltWithTail DEF AllOrNothing
    <2> QED BY <2>1 DEF r
<1>7. CASE ~(v.size + other.size > Len(v.cells)) /\ r = Vec!Behind(v, more, budget)
    <2>1. v.size + Len(more) <= Len(v.cells) BY <1>2, <1>3, <1>7
    <2>2. VectorIs(r.v) BY <1>2, <1>7, <2>1, PutBehind DEF AllOrNothing
    <2> QED BY <2>2 DEF r
<1> QED BY <1>1, <1>4, <1>5, <1>6, <1>7

LEMMA ExtendedVectorSelf ==
    ASSUME NEW v, VectorIs(v), NEW budget \in Nat
    PROVE  VectorIs(Vec!ExtendSelf(v, budget).v)
<1> DEFINE copy == Vec!Copy(v, budget)
           r == Vec!ExtendSelf(v, budget)
<1>1. r = IF v.size = 0 THEN Vec!Ok(v)
          ELSE IF ~copy.ok THEN Vec!Throws([v EXCEPT !.lost = @ + copy.v.lost])
          ELSE Vec!Extend(v, copy.v, budget - 1 - v.size)
    BY DEF Vec!ExtendSelf
<1>2. /\ VectorIs(copy.v) /\ copy.ok \in BOOLEAN
      /\ copy.ok => (v.size # 0 => budget - 1 >= v.size)
    BY Copied
<1>3. v.size \in Nat BY DEF VectorIs, Cells
<1> HIDE DEF copy, r
<1>4. copy.v.lost = 0 BY <1>2 DEF VectorIs
<1>5. v = [v EXCEPT !.lost = @ + 0] BY DEF VectorIs
<1>6. CASE v.size = 0
    <2>1. r = Vec!Ok(v) BY <1>1, <1>6
    <2>2. r.v = v BY <2>1 DEF Vec!Ok
    <2> QED BY <2>2 DEF r
<1>7. CASE v.size # 0 /\ ~copy.ok
    <2>1. r = Vec!Throws([v EXCEPT !.lost = @ + 0]) BY <1>1, <1>4, <1>7
    <2>2. r = Vec!Throws(v) BY <1>5, <2>1
    <2>3. r.v = v BY <2>2 DEF Vec!Throws
    <2> QED BY <2>3 DEF r
<1>8. CASE v.size # 0 /\ copy.ok
    <2>1. r = Vec!Extend(v, copy.v, budget - 1 - v.size) BY <1>1, <1>8
    <2>2. budget - 1 - v.size \in Nat BY <1>2, <1>3, <1>8
    <2>3. VectorIs(r.v) BY <1>2, <2>1, <2>2, ExtendedVector
    <2> QED BY <2>3 DEF r
<1> QED BY <1>2, <1>6, <1>7, <1>8

Less == {ss \in Nat \X Nat : ss[1] < ss[2]}
LEMMA LessWF == IsWellFoundedOn(Less, Nat)
<1>1. Less = OpToRel(<, Nat)
  BY Zenon DEF Less, OpToRel
<1>2. IsWellFoundedOn(OpToRel(<, Nat), Nat)
  BY NatLessThanWellFounded, Zenon
<1> QED BY <1>1, <1>2, Zenon

\* A set of natural numbers with an element has a smallest one.
LEMMA Smallest == ASSUME NEW T, T \subseteq Nat, T # {} PROVE \E x \in T : \A y \in T : x <= y
<1>1. PICK x \in T : \A y \in T : ~ (<<y, x>> \in Less)
  BY LessWF, WFMin, Zenon
<1>2. ASSUME NEW y \in T PROVE x <= y
  <2>0. x \in Nat /\ y \in Nat OBVIOUS
  <2>1. ~(<<y, x>> \in Less)
    BY <1>1
  <2>2. ASSUME y < x PROVE <<y, x>> \in Less
    <3>1. <<y, x>> \in Nat \X Nat
      BY <2>0
    <3>2. <<y, x>>[1] < <<y, x>>[2]
      BY <2>2
    <3> QED BY <3>1, <3>2, Zenon DEF Less
  <2> QED BY <2>0, <2>1, <2>2
<1> QED BY <1>2

\* A set that holds 0 and the successor of each of its elements below n holds all up to n.
LEMMA UpTo ==
    ASSUME NEW n \in Nat, NEW T, 0 \in T, \A k \in 0..n - 1 : k \in T => k + 1 \in T
    PROVE  n \in T
<1> DEFINE U == {k \in 0..n : k \notin T}
<1> SUFFICES ASSUME n \notin T PROVE FALSE
    OBVIOUS
<1>1. n \in U /\ U \subseteq Nat OBVIOUS
<1>2. PICK k \in U : \A m \in U : k <= m BY <1>1, Smallest, Zenon
<1>3. k \in 0..n /\ k \notin T /\ k # 0 BY <1>2
<1>4. k - 1 \in 0..n - 1 /\ ~(k <= k - 1) BY <1>3
<1>5. k - 1 \in T
    <2>1. k - 1 \in 0..n BY <1>4
    <2>2. k - 1 \notin U BY <1>2, <1>4
    <2> QED BY <2>1, <2>2
<1>6. k - 1 + 1 \in T BY <1>4, <1>5
<1>7. k - 1 + 1 = k BY <1>3
<1> QED BY <1>3, <1>6, <1>7

\* What is reached by moving an element up, from where it has come to.
Rises(c, child, up) ==
    /\ Vec!AdjustUpwards(c, child) = up[child]
    /\ \A i \in 1..child : up[i] = IF i = 1 \/ c[i \div 2] >= c[child]
                                   THEN [c EXCEPT ![i] = c[child]]
                                   ELSE [up[i \div 2] EXCEPT ![i] = c[i \div 2]]

LEMMA RisesIs ==
    ASSUME NEW n \in Nat, NEW c \in [1..n -> Nat], NEW child \in 1..n
    PROVE  \E up : Rises(c, child, up)
<1> DEFINE x == c[child]
           Step(f, i) == IF i = 1 \/ c[i \div 2] >= x THEN [c EXCEPT ![i] = x]
                         ELSE [f[i \div 2] EXCEPT ![i] = c[i \div 2]]
           Some(m) == \E f : f = [i \in 1..m |-> Step(f, i)]
           T == {m \in 0..child : Some(m)}
           up == CHOOSE f : f = [i \in 1..child |-> Step(f, i)]
<1>1. 0 \in T
    <2> DEFINE f == [i \in 1..0 |-> c]
    <2>1. f = [i \in 1..0 |-> Step(f, i)] OBVIOUS
    <2>2. Some(0) BY <2>1
    <2> HIDE DEF Some
    <2> QED BY <2>2
<1>2. ASSUME NEW m \in 0..child - 1, m \in T PROVE m + 1 \in T
    <2>1. PICK f : f = [i \in 1..m |-> Step(f, i)] BY <1>2
    <2> DEFINE g == [i \in 1..m + 1 |-> Step(f, i)]
    <2>2. \A i \in 1..m : g[i] = f[i]
        <3> HIDE DEF Step
        <3> QED BY <2>1
    <2>3. \A i \in 1..m + 1 : i = 1 \/ i \div 2 \in 1..m OBVIOUS
    <2>4. \A i \in 1..m + 1 : Step(g, i) = Step(f, i)
        <3> HIDE DEF g
        <3> QED BY <2>2, <2>3
    <2>5. g = [i \in 1..m + 1 |-> Step(g, i)]
        <3> HIDE DEF Step
        <3> QED BY <2>4
    <2>6. Some(m + 1) BY <2>5
    <2> HIDE DEF Some
    <2> QED BY <2>6
<1>3. child \in T
    <2> HIDE DEF T
    <2> QED BY <1>1, <1>2, UpTo
<1>4. Some(child) BY <1>3
<1>5. up = [i \in 1..child |-> Step(up, i)] BY <1>4
<1>6. Vec!AdjustUpwards(c, child) = up[child] BY DEF Vec!AdjustUpwards
<1> HIDE DEF up
<1>7. \A i \in 1..child : up[i] = Step(up, i) BY <1>5
<1> QED BY <1>6, <1>7 DEF Rises

\* An element moved up leaves the heap ordered, with as many elements.
LEMMA Risen ==
    ASSUME NEW n \in Nat, NEW c \in [1..n -> Nat], NEW child \in 1..n,
           \A j \in 2..child - 1 : c[j \div 2] >= c[j]
    PROVE  LET s == Vec!AdjustUpwards(c, child)
           IN /\ s \in [1..n -> Nat]
              /\ \A j \in child + 1..n : s[j] = c[j]
              /\ \A j \in 1..child - 1 : s[j] >= c[j]
              /\ s[child] = c[child] \/ \E j \in 1..child - 1 : s[child] = c[j]
              /\ \A j \in 2..child : s[j \div 2] >= s[j]
<1> DEFINE x == c[child]
<1>1. PICK up : Rises(c, child, up) BY RisesIs
<1> DEFINE Right(i, s) ==
              /\ s \in [1..n -> Nat]
              /\ \A j \in i + 1..n : s[j] = c[j]
              /\ \A j \in 1..n : j # i => s[j] >= c[j]
              /\ i < child /\ x >= c[i] => s[i] >= c[i]
              /\ s[i] = x \/ \E j \in 1..i - 1 : s[i] = c[j]
              /\ \A j \in 2..i : s[j \div 2] >= s[j]
           Bad == {i \in 1..child : ~Right(i, up[i])}
<1>2. Bad = {}
    <2> SUFFICES ASSUME Bad # {} PROVE FALSE
        OBVIOUS
    <2>1. PICK i \in Bad : \A m \in Bad : i <= m
        <3>1. Bad \subseteq Nat OBVIOUS
        <3> HIDE DEF Bad
        <3> QED BY <3>1, Smallest, Zenon
    <2>2. i \in 1..child /\ i \in Nat /\ child <= n BY <2>1
    <2>6. ~Right(i, up[i]) BY <2>1
    <2> HIDE DEF Right
    <2>3. \A m \in 1..child : m < i => Right(m, up[m])
        <3> QED BY <2>1
    <2>4. CASE i = 1 \/ c[i \div 2] >= x
        <3>1. up[i] = [c EXCEPT ![i] = x] BY <1>1, <2>2, <2>4 DEF Rises
        <3> DEFINE s == up[i]
        <3>2. s \in [1..n -> Nat] /\ \A j \in 1..n : s[j] = IF j = i THEN x ELSE c[j]
            BY <2>2, <3>1
        <3> HIDE DEF s
        <3>3. \A j \in 2..i : s[j \div 2] >= s[j]
            <4> SUFFICES ASSUME NEW j \in 2..i PROVE s[j \div 2] >= s[j]
                OBVIOUS
            <4>1. j \div 2 \in 1..n /\ j \div 2 < j /\ j \in 1..n /\ j \div 2 < i BY <2>2
            <4>2. s[j \div 2] = c[j \div 2] BY <2>2, <3>2, <4>1
            <4>3. CASE j = i
                <5>1. s[j] = x BY <3>2, <4>1, <4>3
                <5>2. c[j \div 2] >= x BY <2>4, <4>3
                <5> HIDE DEF x
                <5> QED BY <4>2, <5>1, <5>2
            <4>4. CASE j # i
                <5>1. j \in 2..child - 1 BY <2>2, <4>1, <4>4
                <5>2. s[j] = c[j] /\ c[j \div 2] >= c[j] BY <3>2, <4>1, <4>4, <5>1
                <5> QED BY <4>2, <5>2
            <4> QED BY <4>3, <4>4
        <3>4. \A j \in 1..n : j # i => s[j] >= c[j] BY <3>2
        <3>5. \A j \in i + 1..n : s[j] = c[j] BY <2>2, <3>2
        <3>6. s[i] = x BY <2>2, <3>2
        <3>7. Right(i, s) BY <3>2, <3>3, <3>4, <3>5, <3>6 DEF Right
        <3> QED BY <2>6, <3>7 DEF s
    <2>5. CASE ~(i = 1 \/ c[i \div 2] >= x)
        <3> DEFINE p == i \div 2
                   t == up[p]
                   s == up[i]
        <3>1. s = [t EXCEPT ![i] = c[p]] BY <1>1, <2>2, <2>5 DEF Rises
        <3>2. p \in 1..n /\ p \in 1..child /\ p < i /\ p < child BY <2>2, <2>5
        <3>3. Right(p, t) BY <2>3, <3>2
        <3>4. x > c[p] /\ x \in Nat /\ c[p] \in Nat BY <2>5, <3>2
        <3>5. /\ t \in [1..n -> Nat] /\ t[p] >= c[p]
              /\ \A j \in p + 1..n : t[j] = c[j]
              /\ \A j \in 1..n : j # p => t[j] >= c[j]
              /\ \A j \in 2..p : t[j \div 2] >= t[j]
            BY <3>2, <3>3, <3>4 DEF Right
        <3> HIDE DEF p, t, s
        <3>6. s \in [1..n -> Nat] /\ \A j \in 1..n : s[j] = IF j = i THEN c[p] ELSE t[j]
            BY <2>2, <3>1, <3>4, <3>5
        <3>7. \A j \in 1..n : t[j] >= c[j] BY <3>5
        <3>8. \A j \in 2..i : s[j \div 2] >= s[j]
            <4> SUFFICES ASSUME NEW j \in 2..i PROVE s[j \div 2] >= s[j]
                OBVIOUS
            <4>1. j \div 2 \in 1..n /\ j \div 2 < j /\ j \in 1..n /\ j \div 2 < i BY <2>2
            <4>2. s[j \div 2] = t[j \div 2] BY <3>6, <4>1
            <4>3. CASE j = i BY <2>2, <3>5, <3>6, <4>1, <4>2, <4>3 DEF p
            <4>4. CASE j # i /\ j <= p
                <5>1. s[j] = t[j] BY <3>6, <4>1, <4>4
                <5>2. j \in 2..p BY <3>2, <4>4
                <5>3. t[j \div 2] >= t[j] BY <3>5, <5>2
                <5> QED BY <4>2, <5>1, <5>3
            <4>5. CASE j # i /\ ~(j <= p)
                <5>0. j \in p + 1..n BY <3>2, <4>1, <4>5
                <5>1. s[j] = c[j] BY <5>0, <3>2, <3>5, <3>6, <4>1, <4>5
                <5>4. j \in 2..child - 1 BY <2>2, <4>1, <4>5
                <5>2. c[j \div 2] >= c[j] BY <5>4
                <5>3. t[j \div 2] >= c[j \div 2] BY <3>7, <4>1
                <5>5. /\ s[j] \in Nat /\ c[j \div 2] \in Nat /\ t[j \div 2] \in Nat
                      /\ s[j \div 2] = t[j \div 2]
                    BY <3>5, <3>6, <4>1, <4>2
                <5> QED BY <5>1, <5>2, <5>3, <5>5
            <4> QED BY <4>3, <4>4, <4>5
        <3>9. \A j \in 1..n : j # i => s[j] >= c[j] BY <3>6, <3>7
        <3>10. \A j \in i + 1..n : s[j] = c[j] BY <2>2, <3>2, <3>5, <3>6
        <3>11. s[i] = c[p] /\ p \in 1..i - 1 BY <2>2, <3>2, <3>6
        <3>12. i < child => s[i] >= c[i]
            <4>1. i < child => c[i \div 2] >= c[i] BY <2>2, <2>5
            <4> QED BY <3>11, <4>1 DEF p
        <3>13. Right(i, s) BY <3>6, <3>8, <3>9, <3>10, <3>11, <3>12 DEF Right
        <3> QED BY <2>6, <3>13 DEF s
    <2> QED BY <2>4, <2>5
<1>3. Right(child, up[child])
    <2> HIDE DEF Right
    <2> QED BY <1>2
<1>4. Vec!AdjustUpwards(c, child) = up[child] BY <1>1 DEF Rises
<1> QED BY <1>3, <1>4

Greater(c, size, i) == IF 2 * i + 1 <= size /\ c[2 * i] < c[2 * i + 1] THEN 2 * i + 1 ELSE 2 * i
Sinks(c, size, down) ==
    /\ Vec!AdjustDownwards(c, size) = down[1]
    /\ \A i \in 1..size : down[i] =
          IF 2 * i > size \/ c[1] >= c[Greater(c, size, i)] THEN [c EXCEPT ![i] = c[1]]
          ELSE [down[Greater(c, size, i)] EXCEPT ![i] = c[Greater(c, size, i)]]

LEMMA SinksIs ==
    ASSUME NEW n \in Nat, NEW c \in [1..n -> Nat], NEW size \in 1..n
    PROVE  \E down : Sinks(c, size, down)
<1> DEFINE x == c[1]
           G(i) == IF 2 * i + 1 <= size /\ c[2 * i] < c[2 * i + 1] THEN 2 * i + 1 ELSE 2 * i
           Step(f, i) == IF 2 * i > size \/ x >= c[G(i)] THEN [c EXCEPT ![i] = x]
                         ELSE [f[G(i)] EXCEPT ![i] = c[G(i)]]
           Some(m) == \E f : f = [i \in size - m + 1..size |-> Step(f, i)]
           T == {m \in 0..size : Some(m)}
           down == CHOOSE f : f = [i \in 1..size |-> Step(f, i)]
<1>1. 0 \in T
    <2> DEFINE f == [i \in size - 0 + 1..size |-> c]
    <2>1. f = [i \in size - 0 + 1..size |-> Step(f, i)]
        <3>1. size - 0 + 1..size = {} OBVIOUS
        <3> HIDE DEF Step
        <3> QED BY <3>1
    <2>2. Some(0) BY <2>1
    <2> HIDE DEF Some
    <2> QED BY <2>2
<1>2. ASSUME NEW m \in 0..size - 1, m \in T PROVE m + 1 \in T
    <2>1. PICK f : f = [i \in size - m + 1..size |-> Step(f, i)] BY <1>2
    <2> DEFINE g == [i \in size - (m + 1) + 1..size |-> Step(f, i)]
    <2>2. \A i \in size - m + 1..size : g[i] = f[i]
        <3>1. \A i \in size - m + 1..size : i \in size - (m + 1) + 1..size OBVIOUS
        <3> HIDE DEF Step
        <3> QED BY <2>1, <3>1
    <2>3. \A i \in size - (m + 1) + 1..size : 2 * i > size \/ G(i) \in size - m + 1..size
        OBVIOUS
    <2>4. \A i \in size - (m + 1) + 1..size : Step(g, i) = Step(f, i)
        <3> HIDE DEF g, G
        <3> QED BY <2>2, <2>3, Zenon
    <2>5. g = [i \in size - (m + 1) + 1..size |-> Step(g, i)]
        <3> HIDE DEF Step
        <3> QED BY <2>4
    <2>6. Some(m + 1) BY <2>5, Zenon
    <2> HIDE DEF Some
    <2> QED BY <2>6
<1>3. size \in T
    <2> HIDE DEF T
    <2> QED BY <1>1, <1>2, UpTo
<1>4. \E f : f = [i \in 1..size |-> Step(f, i)]
    <2> HIDE DEF Some
    <2>1. Some(size) BY <1>3
    <2> USE DEF Some
    <2>2. size - size + 1 = 1 OBVIOUS
    <2> HIDE DEF Step
    <2> QED BY <2>1, <2>2
<1>5. down = [i \in 1..size |-> Step(down, i)] BY <1>4, Zenon
<1>6. Vec!AdjustDownwards(c, size) = down[1] BY SMTT(30) DEF Vec!AdjustDownwards
<1> HIDE DEF down
<1>7. \A i \in 1..size : down[i] = Step(down, i) BY <1>5, Zenon
<1> QED BY <1>6, <1>7 DEF Sinks, Greater

\* The first element moved down leaves the heap ordered, with as many elements.
LEMMA Sunk ==
    ASSUME NEW n \in Nat, NEW c \in [1..n -> Nat], NEW size \in 0..n,
           \A j \in 1..n : c[j] # 0 <=> j <= size,
           \A j \in 4..size : c[j \div 2] >= c[j]
    PROVE  LET s == Vec!AdjustDownwards(c, size)
           IN /\ s \in [1..n -> Nat]
              /\ \A j \in 1..n : s[j] # 0 <=> j <= size
              /\ \A j \in 2..size : s[j \div 2] >= s[j]
<1>1. CASE size = 0
    BY <1>1 DEF Vec!AdjustDownwards
<1>2. CASE size # 0
    <2> DEFINE x == c[1]
    <2>1. size \in 1..n /\ size \in Nat BY <1>2
    <2>2. PICK down : Sinks(c, size, down) BY <2>1, SinksIs
    <2> DEFINE Right(i, s) ==
                  /\ s \in [1..n -> Nat]
                  /\ \A j \in 1..i - 1 : s[j] = c[j]
                  /\ \A j \in size + 1..n : s[j] = c[j]
                  /\ \A j \in 1..n : j # i => s[j] <= c[j]
                  /\ i > 1 /\ x <= c[i] => s[i] <= c[i]
                  /\ \A j \in 1..size : s[j] # 0
                  /\ \A j \in 2..size : j \div 2 >= i => s[j \div 2] >= s[j]
               Bad == {k \in 0..size - 1 : ~Right(size - k, down[size - k])}
    <2>3. Bad = {}
        <3> SUFFICES ASSUME Bad # {} PROVE FALSE
            OBVIOUS
        <3>1. PICK k \in Bad : \A m \in Bad : k <= m
            <4>1. Bad \subseteq Nat OBVIOUS
            <4> HIDE DEF Bad
            <4> QED BY <4>1, Smallest, Zenon
        <3> DEFINE i == size - k
        <3>2. i \in 1..size /\ i \in Nat /\ k \in 0..size - 1 BY <2>1, <3>1
        <3>3. ~Right(i, down[i]) BY <3>1
        <3> HIDE DEF Right
        <3>4. \A m \in 1..size : m > i => Right(m, down[m])
            <4> SUFFICES ASSUME NEW m \in 1..size, m > i PROVE Right(m, down[m])
                OBVIOUS
            <4>1. size - m \in 0..size - 1 /\ ~(k <= size - m) /\ size - (size - m) = m
                BY <2>1, <3>2
            <4>2. size - m \notin Bad BY <3>1, <4>1
            <4> QED BY <4>1, <4>2
        <3> HIDE DEF i
        <3>5. x \in Nat \ {0} /\ c[i] \in Nat BY <2>1, <3>2
        <3>6. CASE 2 * i > size \/ x >= c[Greater(c, size, i)]
            <4>1. down[i] = [c EXCEPT ![i] = x] BY <2>2, <3>2, <3>6 DEF Sinks
            <4> DEFINE s == down[i]
            <4>2. s \in [1..n -> Nat] /\ \A j \in 1..n : s[j] = IF j = i THEN x ELSE c[j]
                BY <2>1, <3>2, <3>5, <4>1
            <4> HIDE DEF s
            <4>3. \A j \in 2..size : j \div 2 >= i => s[j \div 2] >= s[j]
                <5> SUFFICES ASSUME NEW j \in 2..size, j \div 2 >= i PROVE s[j \div 2] >= s[j]
                    OBVIOUS
                <5>1. j \div 2 \in 1..n /\ j \div 2 < j /\ j \in 1..n /\ j # i BY <2>1, <3>2
                <5>2. s[j] = c[j] BY <4>2, <5>1
                <5>3. CASE j \div 2 = i
                    <6>1. j \in {2 * i, 2 * i + 1} /\ 2 * i <= size BY <3>2, <5>3
                    <6>2. x >= c[Greater(c, size, i)] BY <3>2, <3>6, <6>1
                    <6>3. c[2 * i] \in Nat /\ (2 * i + 1 <= size => c[2 * i + 1] \in Nat)
                        BY <2>1, <3>2, <6>1
                    <6>4. x >= c[j]
                        <7> DEFINE l == c[2 * i]
                                   r == c[2 * i + 1]
                        <7> HIDE DEF x
                        <7>1. x \in Nat /\ l \in Nat BY <3>5, <6>3
                        <7>2. CASE 2 * i + 1 <= size /\ l < r
                            <8>1. x >= r BY <6>2, <7>2 DEF Greater
                            <8>2. r \in Nat BY <6>3, <7>2
                            <8>3. j = 2 * i \/ j = 2 * i + 1 BY <6>1
                            <8>4. c[j] = l \/ c[j] = r BY <8>3
                            <8> HIDE DEF l, r
                            <8> QED BY <7>1, <7>2, <8>1, <8>2, <8>4
                        <7>3. CASE ~(2 * i + 1 <= size /\ l < r)
                            <8>1. x >= l BY <6>2, <7>3 DEF Greater
                            <8>2. CASE j = 2 * i
                                <9>1. c[j] = l BY <8>2
                                <9> QED BY <8>1, <9>1
                            <8>3. CASE j = 2 * i + 1
                                <9>1. c[j] = r /\ 2 * i + 1 <= size BY <8>3
                                <9>2. r \in Nat BY <6>3, <9>1
                                <9> HIDE DEF l, r
                                <9> QED BY <7>1, <7>3, <8>1, <9>1, <9>2
                            <8> QED BY <6>1, <8>2, <8>3
                        <7> QED BY <7>2, <7>3
                    <6> QED BY <4>2, <5>1, <5>2, <5>3, <6>4
                <5>4. CASE j \div 2 # i
                    <6>1. s[j \div 2] = c[j \div 2] BY <4>2, <5>1, <5>4
                    <6>2. j \in 4..size BY <3>2, <5>1, <5>4
                    <6> QED BY <5>2, <6>1, <6>2
                <5> QED BY <5>3, <5>4
            <4>4. /\ \A j \in 1..i - 1 : s[j] = c[j]
                  /\ \A j \in size + 1..n : s[j] = c[j]
                  /\ \A j \in 1..n : j # i => s[j] <= c[j]
                  /\ s[i] = x
                <5> HIDE DEF x
                <5>1. \A j \in 1..n : c[j] \in Nat OBVIOUS
                <5>2. \A j \in 1..i - 1 : j \in 1..n /\ j # i BY <2>1, <3>2
                <5>3. \A j \in size + 1..n : j \in 1..n /\ j # i BY <2>1, <3>2
                <5>4. i \in 1..n BY <2>1, <3>2
                <5>5. \A j \in 1..n : j # i => s[j] <= c[j] BY <4>2, <5>1
                <5> QED BY <4>2, <5>2, <5>3, <5>4, <5>5
            <4>5. \A j \in 1..size : s[j] # 0
                <5>1. \A j \in 1..size : j \in 1..n /\ c[j] # 0 BY <2>1
                <5> HIDE DEF x
                <5> QED BY <3>5, <4>2, <5>1
            <4>6. Right(i, s) BY <4>2, <4>3, <4>4, <4>5 DEF Right
            <4> QED BY <3>3, <4>6 DEF s
        <3>7. CASE ~(2 * i > size \/ x >= c[Greater(c, size, i)])
            <4> DEFINE p == Greater(c, size, i)
                       t == down[p]
                       s == down[i]
            <4>1. s = [t EXCEPT ![i] = c[p]] BY <2>2, <3>2, <3>7 DEF Sinks
            <4>2. /\ p \in {2 * i, 2 * i + 1} /\ p \in 1..size /\ p > i /\ p > 1
                  /\ c[2 * i] <= c[p] /\ (2 * i + 1 <= size => c[2 * i + 1] <= c[p])
                <5>1. 2 * i \in 1..n /\ (2 * i + 1 <= size => 2 * i + 1 \in 1..n) BY <2>1, <3>2, <3>7
                <5>2. c[2 * i] \in Nat /\ (2 * i + 1 <= size => c[2 * i + 1] \in Nat) BY <5>1
                <5> QED BY <3>2, <3>7, <5>1, <5>2 DEF Greater
            <4>3. p \in 1..n /\ p \in Nat BY <2>1, <4>2
            <4>4. Right(p, t) BY <3>4, <4>2
            <4>5. x < c[p] /\ c[p] \in Nat /\ c[p] # 0 BY <3>5, <3>7, <4>2, <4>3
            <4> HIDE DEF p, t, s
            <4>6. /\ t \in [1..n -> Nat] /\ t[p] <= c[p]
                  /\ \A j \in 1..p - 1 : t[j] = c[j]
                  /\ \A j \in size + 1..n : t[j] = c[j]
                  /\ \A j \in 1..n : j # p => t[j] <= c[j]
                  /\ \A j \in 1..size : t[j] # 0
                  /\ \A j \in 2..size : j \div 2 >= p => t[j \div 2] >= t[j]
                <5>1. x <= c[p] BY <3>5, <4>5
                <5> HIDE DEF x
                <5> QED BY <4>2, <4>4, <5>1 DEF Right
            <4>7. s \in [1..n -> Nat] /\ \A j \in 1..n : s[j] = IF j = i THEN c[p] ELSE t[j]
                BY <2>1, <3>2, <4>1, <4>5, <4>6
            <4>8. \A j \in 1..n : t[j] <= c[j] BY <4>6
            <4>9. \A j \in 2..size : j \div 2 >= i => s[j \div 2] >= s[j]
                <5> SUFFICES ASSUME NEW j \in 2..size, j \div 2 >= i PROVE s[j \div 2] >= s[j]
                    OBVIOUS
                <5>1. j \div 2 \in 1..n /\ j \div 2 < j /\ j \in 1..n /\ j # i BY <2>1, <3>2
                <5>2. s[j] = t[j] /\ t[j] <= c[j] /\ t[j] \in Nat /\ c[j] \in Nat
                    BY <4>6, <4>7, <4>8, <5>1
                <5>3. CASE j \div 2 = i
                    <6>1. j \in {2 * i, 2 * i + 1} BY <3>2, <5>3
                    <6>2. c[j] <= c[p]
                        <7>1. CASE j = 2 * i BY <4>2, <7>1
                        <7>2. CASE j = 2 * i + 1
                            <8>1. 2 * i + 1 <= size BY <7>2
                            <8>2. c[2 * i + 1] <= c[p] BY <4>2, <8>1
                            <8> QED BY <7>2, <8>2
                        <7> QED BY <6>1, <7>1, <7>2
                    <6>3. s[j \div 2] = c[p] BY <4>7, <5>1, <5>3
                    <6>4. t[j] <= c[p] BY <4>5, <5>2, <6>2, AtMost, Zenon
                    <6> QED BY <5>2, <6>3, <6>4
                <5>4. CASE j \div 2 # i /\ j \div 2 >= p
                    <6>1. s[j \div 2] = t[j \div 2] BY <4>7, <5>1, <5>4
                    <6>2. t[j \div 2] >= t[j] BY <4>6, <5>4
                    <6> QED BY <5>2, <6>1, <6>2
                <5>5. CASE j \div 2 # i /\ ~(j \div 2 >= p)
                    <6>1. s[j \div 2] = t[j \div 2] BY <4>7, <5>1, <5>5
                    <6>2. j \div 2 \in 1..p - 1 BY <4>3, <5>1, <5>5
                    <6>3. t[j \div 2] = c[j \div 2] BY <4>6, <6>2
                    <6>4. j \in 4..size BY <3>2, <5>1, <5>5
                    <6>5. c[j \div 2] >= c[j] BY <6>4
                    <6>6. c[j \div 2] \in Nat BY <5>1
                    <6> QED BY <5>2, <6>1, <6>3, <6>5, <6>6
                <5> QED BY <5>3, <5>4, <5>5
            <4>10. \A j \in 1..i - 1 : s[j] = c[j]
                <5>1. \A j \in 1..i - 1 : j \in 1..p - 1 /\ j \in 1..n /\ j # i BY <2>1, <3>2, <4>2
                <5> QED BY <4>6, <4>7, <5>1
            <4>11. \A j \in size + 1..n : s[j] = c[j] BY <2>1, <3>2, <4>6, <4>7
            <4>12. \A j \in 1..n : j # i => s[j] <= c[j] BY <4>7, <4>8
            <4>13. \A j \in 1..size : s[j] # 0
                <5>1. \A j \in 1..size : j \in 1..n BY <2>1
                <5>2. \A j \in 1..size : s[j] = c[p] \/ s[j] = t[j] BY <4>7, <5>1
                <5> QED BY <4>5, <4>6, <5>2
            <4>14. i > 1 => s[i] <= c[i]
                <5> SUFFICES ASSUME i > 1 PROVE s[i] <= c[i]
                    OBVIOUS
                <5>1. p \in 4..size /\ p \div 2 = i BY <3>2, <4>2
                <5>2. c[i] >= c[p] BY <5>1
                <5>4. i \in 1..n BY <2>1, <3>2
                <5>3. s[i] = c[p] BY <4>7, <5>4
                <5> QED BY <3>5, <4>5, <5>2, <5>3
            <4>15. Right(i, s) BY <4>7, <4>9, <4>10, <4>11, <4>12, <4>13, <4>14 DEF Right
            <4> QED BY <3>3, <4>15 DEF s
        <3> QED BY <3>6, <3>7
    <2>4. Right(1, down[1])
        <3>1. size - 1 \in 0..size - 1 /\ size - (size - 1) = 1 BY <2>1
        <3> HIDE DEF Right
        <3> QED BY <2>3, <3>1
    <2>5. Vec!AdjustDownwards(c, size) = down[1] BY <2>2 DEF Sinks
    <2> DEFINE s == down[1]
    <2>6. /\ s \in [1..n -> Nat]
          /\ \A j \in size + 1..n : s[j] = c[j]
          /\ \A j \in 1..size : s[j] # 0
          /\ \A j \in 2..size : j \div 2 >= 1 => s[j \div 2] >= s[j]
        BY <2>4
    <2> HIDE DEF s
    <2>7. \A j \in 1..n : s[j] # 0 <=> j <= size BY <2>1, <2>6
    <2>8. \A j \in 2..size : s[j \div 2] >= s[j]
        <3>1. \A j \in 2..size : j \div 2 >= 1 BY <2>1
        <3> QED BY <2>6, <3>1
    <2> QED BY <2>5, <2>6, <2>7, <2>8 DEF s
<1> QED BY <1>1, <1>2

HeapIs(v) == VectorIs(v) /\ Vec!HeapOrdered(v)

\* The cells of a vector rearranged.
LEMMA Rearranged ==
    ASSUME NEW v, VectorIs(v), NEW c \in [1..Len(v.cells) -> Nat],
           \A j \in 1..Len(v.cells) : c[j] # 0 <=> j <= v.size,
           \A j \in 2..v.size : c[j \div 2] >= c[j]
    PROVE  HeapIs([v EXCEPT !.cells = c])
<1> DEFINE w == [v EXCEPT !.cells = c]
<1>1. v = [cells |-> v.cells, size |-> v.size, lost |-> 0] /\ v.size \in 0..Len(v.cells)
    BY VectorHas
<1>2. w = [cells |-> c, size |-> v.size, lost |-> 0] BY <1>1
<1>3. VectorIs(w) BY <1>1, <1>2, Overwritten
<1>4. w.cells = c /\ w.size = v.size BY <1>2
<1> HIDE DEF w
<1>5. HeapIs(w) BY <1>3, <1>4 DEF HeapIs, Vec!HeapOrdered
<1> QED BY <1>5 DEF w

LEMMA HeapPushed ==
    ASSUME NEW v, HeapIs(v), NEW x \in Nat \ {0}, NEW budget \in Nat
    PROVE  HeapIs(Vec!HeapPush(v, x, budget).v)
<1> DEFINE r == Vec!PushBack(v, x, budget)
           row == Vec!Contents(v) \o <<x>>
           h == Vec!HeapPush(v, x, budget)
<1>1. VectorIs(v) /\ \A i \in 2..v.size : v.cells[i \div 2] >= v.cells[i]
    BY DEF HeapIs, Vec!HeapOrdered
<1>2. AllOrNothing(v, r, row) BY <1>1, PushedBack
<1>3. h = IF r.ok THEN [r EXCEPT !.v.cells = Vec!AdjustUpwards(@, r.v.size)] ELSE r
    BY DEF Vec!HeapPush
<1>4. <<x>> \in Seq(Nat \ {0}) /\ Len(<<x>>) = 1 OBVIOUS
<1>5. /\ Len(row) = v.size + 1 /\ v.size \in Nat
      /\ \A i \in 1..v.size : row[i] = v.cells[i]
    <2>1. v.size \in Nat BY <1>1 DEF VectorIs, Cells
    <2>2. Len(row) = v.size + 1
          /\ \A i \in 1..v.size + 1 : row[i] = IF i <= v.size THEN v.cells[i] ELSE <<x>>[i - v.size]
        BY <1>1, <1>4, RowWith
    <2> HIDE DEF row
    <2> QED BY <2>1, <2>2
<1>6. r = [ok |-> r.ok, v |-> r.v]
    <2>1. r.ok \in BOOLEAN BY <1>2 DEF AllOrNothing
    <2> QED BY DEF Vec!PushBack, Vec!AppendConstructed, Vec!ReallocateWithTail, Vec!Rebuild,
                  Vec!Behind, Vec!Ok, Vec!Throws
<1> HIDE DEF r, row, h
<1>7. CASE ~r.ok
    <2>1. h.v = v BY <1>2, <1>3, <1>7 DEF AllOrNothing
    <2> QED BY <2>1 DEF h
<1>8. CASE r.ok
    <2> DEFINE w == r.v
               n == Len(w.cells)
               child == w.size
               s == Vec!AdjustUpwards(w.cells, child)
    <2>1. VectorIs(w) /\ child = v.size + 1 /\ \A i \in 1..v.size : w.cells[i] = v.cells[i]
        <3>1. VectorIs(w) /\ w.size = Len(row) /\ \A i \in 1..Len(row) : w.cells[i] = row[i]
            BY <1>2, <1>8 DEF AllOrNothing
        <3> HIDE DEF w
        <3> QED BY <1>5, <3>1
    <2>2. /\ n \in Nat /\ child \in 1..n /\ w.cells \in [1..n -> Nat]
          /\ \A i \in 1..n : w.cells[i] # 0 <=> i <= child
        BY <1>5, <2>1 DEF VectorIs, Cells
    <2>3. \A j \in 2..child - 1 : w.cells[j \div 2] >= w.cells[j]
        <3> SUFFICES ASSUME NEW j \in 2..child - 1 PROVE w.cells[j \div 2] >= w.cells[j]
            OBVIOUS
        <3>1. j \in 2..v.size /\ j \in 1..v.size /\ j \div 2 \in 1..v.size BY <1>5, <2>1
        <3> QED BY <1>1, <2>1, <3>1
    <2>4. h.v = [w EXCEPT !.cells = s]
        <3>1. h = [r EXCEPT !.v.cells = Vec!AdjustUpwards(@, r.v.size)] BY <1>3, <1>8
        <3> QED BY <1>6, <3>1
    <2> HIDE DEF w, n, child
    <2>5. /\ s \in [1..n -> Nat]
          /\ \A j \in child + 1..n : s[j] = w.cells[j]
          /\ \A j \in 1..child - 1 : s[j] >= w.cells[j]
          /\ s[child] = w.cells[child] \/ \E j \in 1..child - 1 : s[child] = w.cells[j]
          /\ \A j \in 2..child : s[j \div 2] >= s[j]
        BY <2>2, <2>3, Risen
    <2> HIDE DEF s
    <2>6. \A j \in 1..n : s[j] # 0 <=> j <= child
        <3> SUFFICES ASSUME NEW j \in 1..n PROVE s[j] # 0 <=> j <= child
            OBVIOUS
        <3>1. CASE j > child
            <4>1. s[j] = w.cells[j] /\ w.cells[j] = 0 BY <2>2, <2>5, <3>1
            <4> QED BY <2>2, <3>1, <4>1
        <3>2. CASE j = child BY <2>2, <2>5, <3>2
        <3>3. CASE j < child
            <4>1. s[j] >= w.cells[j] /\ w.cells[j] # 0 BY <2>2, <2>5, <3>3
            <4>2. s[j] \in Nat /\ w.cells[j] \in Nat /\ j <= child BY <2>2, <2>5, <3>3
            <4>3. s[j] # 0 BY <4>1, <4>2
            <4> QED BY <4>2, <4>3
        <3> QED BY <2>2, <3>1, <3>2, <3>3
    <2>7. HeapIs([w EXCEPT !.cells = s]) BY <2>1, <2>5, <2>6, Rearranged DEF n, child
    <2> QED BY <2>4, <2>7 DEF h
<1> QED BY <1>7, <1>8

LEMMA HeapPopped ==
    ASSUME NEW v, HeapIs(v)
    PROVE  HeapIs(Vec!HeapPop(v))
<1> DEFINE n == Len(v.cells)
           k == v.size
           c == [v.cells EXCEPT ![1] = v.cells[v.size], ![v.size] = v.cells[1]]
           w == [v EXCEPT !.cells[1] = v.cells[v.size], !.cells[v.size] = v.cells[1]]
           rest == Vec!PopBack(w)
           s == Vec!AdjustDownwards(rest.cells, rest.size)
<1>1. VectorIs(v) /\ \A i \in 2..v.size : v.cells[i \div 2] >= v.cells[i]
    BY DEF HeapIs, Vec!HeapOrdered
<1>2. v = [cells |-> v.cells, size |-> k, lost |-> 0] BY <1>1, VectorHas
<1>3. /\ n \in Nat /\ k \in 0..n /\ DOMAIN v.cells = 1..n
      /\ \A i \in 1..n : v.cells[i] \in Nat /\ (v.cells[i] # 0 <=> i <= k)
    BY <1>1, VectorHas
<1>4. Vec!HeapPop(v) = IF k = 0 THEN v ELSE [rest EXCEPT !.cells = s]
    BY DEF Vec!HeapPop
<1>5. CASE k = 0
    <2>1. Vec!HeapPop(v) = v BY <1>4, <1>5
    <2> QED BY <2>1
<1>6. CASE k # 0
    <2>1. w = [cells |-> c, size |-> k, lost |-> 0]
        <3>1. w.cells = c /\ w.size = v.size /\ w.lost = v.lost BY <1>2, <1>3, <1>6
        <3>2. w = [cells |-> w.cells, size |-> w.size, lost |-> w.lost]
            <4> DEFINE a == v.cells[v.size]
                       b == v.cells[1]
            <4>1. w = [v EXCEPT !.cells[1] = a, !.cells[v.size] = b] OBVIOUS
            <4> HIDE DEF w, a, b
            <4>2. DOMAIN w = DOMAIN v /\ w = [f \in DOMAIN w |-> w[f]] BY <1>2, <4>1
            <4>3. DOMAIN v = {"cells", "size", "lost"} BY <1>2
            <4> QED BY <4>2, <4>3
        <3> QED BY <1>2, <3>1, <3>2
    <2>2. c = [i \in DOMAIN c |-> c[i]] /\ DOMAIN c = 1..n
          /\ \A i \in 1..n : c[i] = IF i = k THEN v.cells[1] ELSE IF i = 1 THEN v.cells[k]
                                    ELSE v.cells[i]
        BY <1>3, <1>6
    <2> HIDE DEF c, w, n
    <2>3. 1 \in 1..n /\ k \in 1..n BY <1>3, <1>6
    <2>4. \A i \in 1..n : c[i] \in Nat /\ (c[i] # 0 <=> i <= k)
        BY <1>3, <2>2, <2>3
    <2>5. VectorIs(w) BY <1>1, <1>3, <2>1, <2>2, <2>4, Overwritten DEF n
    <2>6. w.cells = c /\ w.size = k /\ Len(w.cells) = n
        <3>1. w.cells = c /\ w.size = k BY <2>1
        <3>2. DOMAIN c = 1..Len(c) /\ Len(c) \in Nat BY <2>5, <3>1, VectorHas
        <3> QED BY <1>3, <2>2, <3>1, <3>2
    <2>7. /\ VectorIs(rest) /\ Len(rest.cells) = n /\ rest.size = k - 1
          /\ \A i \in 1..k - 1 : rest.cells[i] = c[i]
        BY <1>6, <2>5, <2>6, PoppedBackVector
    <2> HIDE DEF rest
    <2>8. /\ rest.cells \in [1..n -> Nat] /\ rest.size \in 0..n
          /\ \A j \in 1..n : rest.cells[j] # 0 <=> j <= rest.size
        BY <2>7 DEF VectorIs, Cells
    <2>9. \A j \in 4..rest.size : rest.cells[j \div 2] >= rest.cells[j]
        <3> SUFFICES ASSUME NEW j \in 4..rest.size PROVE rest.cells[j \div 2] >= rest.cells[j]
            OBVIOUS
        <3>1. /\ j \in 1..k - 1 /\ j \div 2 \in 2..k - 1 /\ j \in 2..k - 1 /\ j \in 2..k
              /\ j \div 2 \in 1..k - 1 /\ k \in Nat
            BY <1>3, <2>7
        <3>2. rest.cells[j] = c[j] /\ rest.cells[j \div 2] = c[j \div 2] BY <2>7, <3>1
        <3>3. j \in 1..n /\ j # k /\ j # 1 /\ j \div 2 \in 1..n /\ j \div 2 # k /\ j \div 2 # 1
            BY <1>3, <3>1
        <3>4. c[j] = v.cells[j] /\ c[j \div 2] = v.cells[j \div 2] BY <2>2, <3>3
        <3> QED BY <1>1, <3>1, <3>2, <3>4
    <2>10. /\ s \in [1..n -> Nat]
           /\ \A j \in 1..n : s[j] # 0 <=> j <= rest.size
           /\ \A j \in 2..rest.size : s[j \div 2] >= s[j]
        BY <1>3, <2>8, <2>9, Sunk
    <2> HIDE DEF s
    <2>11. HeapIs([rest EXCEPT !.cells = s]) BY <2>7, <2>10, Rearranged
    <2> QED BY <1>4, <1>6, <2>11
<1> QED BY <1>5, <1>6

\* A vector with the elements of a heap is one.
LEMMA HeapCopied ==
    ASSUME NEW v, HeapIs(v), NEW w, VectorIs(w), SameElements(w, v)
    PROVE  HeapIs(w)
<1>1. v.size \in Nat BY DEF HeapIs, VectorIs, Cells
<1>2. \A i \in 2..w.size : i \in 1..v.size /\ i \div 2 \in 1..v.size /\ i \in 2..v.size
    BY <1>1 DEF SameElements
<1> QED BY <1>2 DEF HeapIs, SameElements, Vec!HeapOrdered

Bytes(m) == [1..m -> Nat \union {Str!Junk}]

\* A buffer of capacity bytes and one, whose first n are written, and one behind them.
BufferIs(s) ==
    /\ s = [null |-> FALSE, size |-> s.size, capacity |-> s.capacity, bytes |-> s.bytes]
    /\ s.capacity \in Nat /\ s.size \in 0..s.capacity
    /\ s.bytes \in Bytes(s.capacity + 1)
    /\ Len(s.bytes) = s.capacity + 1
    /\ s.bytes[s.size + 1] = Str!End0 /\ \A i \in 1..s.size : s.bytes[i] \in Nat
StringIs(s) == s = Str!MovedFrom \/ BufferIs(s)

LEMMA BufferExact == ASSUME NEW s, StringIs(s) PROVE Str!Terminated(s)
<1>1. CASE s = Str!MovedFrom BY <1>1 DEF Str!Terminated, Str!MovedFrom
<1>2. CASE BufferIs(s)
    <2>1. s.null = FALSE BY <1>2 DEF BufferIs
    <2>2. \A i \in 1..s.size : s.bytes[i] # Str!Junk BY <1>2 DEF BufferIs, Str!Junk
    <2>3. s.size <= s.capacity BY <1>2 DEF BufferIs
    <2> QED BY <1>2, <2>1, <2>2, <2>3 DEF Str!Terminated, BufferIs
<1> QED BY <1>1, <1>2 DEF StringIs

LEMMA BufferWith ==
    ASSUME NEW n \in Nat, NEW capacity \in Nat, n <= capacity,
           NEW b \in [1..capacity + 1 -> Nat \union {Str!Junk}],
           b[n + 1] = Str!End0, \A i \in 1..n : b[i] \in Nat
    PROVE  BufferIs([null |-> FALSE, size |-> n, capacity |-> capacity, bytes |-> b])
<1>1. capacity + 1 \in Nat OBVIOUS
<1>2. b \in Seq(Nat \union {Str!Junk}) BY <1>1, SeqDef
<1>3. Len(b) = capacity + 1 BY <1>1, <1>2, LenProperties
<1> QED BY <1>3 DEF BufferIs, Bytes

LEMMA BufferMade ==
    ASSUME NEW text \in Seq(Nat), NEW capacity \in Nat, Len(text) <= capacity
    PROVE  BufferIs(Str!Buffer(text, capacity))
<1> DEFINE n == Len(text)
           b == [i \in 1..capacity + 1 |-> IF i <= n THEN text[i]
                                           ELSE IF i = n + 1 THEN Str!End0 ELSE Str!Junk]
<1>1. n \in Nat /\ \A i \in 1..n : text[i] \in Nat BY LenProperties, ElementOfSeq
<1>2. Str!Buffer(text, capacity) = [null |-> FALSE, size |-> n, capacity |-> capacity, bytes |-> b]
    BY DEF Str!Buffer
<1> HIDE DEF n
<1>3. b \in [1..capacity + 1 -> Nat \union {Str!Junk}] BY <1>1 DEF Str!End0
<1>4. b[n + 1] = Str!End0 /\ \A i \in 1..n : b[i] \in Nat BY <1>1 DEF n
<1> HIDE DEF b
<1> QED BY <1>1, <1>2, <1>3, <1>4, BufferWith DEF n

LEMMA NewStringIs == ASSUME NEW text \in Seq(Nat) PROVE StringIs(Str!NewString(text))
<1>1. Len(text) \in Nat BY LenProperties
<1> QED BY <1>1, BufferMade DEF Str!NewString, StringIs

\* The text of a string.
LEMMA TextIs ==
    ASSUME NEW s, StringIs(s)
    PROVE  /\ s.size \in Nat /\ s.capacity \in Nat /\ s.size <= s.capacity
           /\ \A i \in 1..s.size : s.bytes[i] \in Nat
           /\ Str!Text(s) \in Seq(Nat) /\ Len(Str!Text(s)) = s.size
<1>1. /\ s.size \in Nat /\ s.capacity \in Nat /\ s.size <= s.capacity
      /\ \A i \in 1..s.size : s.bytes[i] \in Nat
    BY DEF StringIs, BufferIs, Str!MovedFrom
<1> QED BY <1>1, SubSeqProperties DEF Str!Text

\* A buffer whose bytes are replaced.
LEMMA BytesReplaced ==
    ASSUME NEW s, BufferIs(s), NEW b
    PROVE  [s EXCEPT !.bytes = b]
              = [null |-> FALSE, size |-> s.size, capacity |-> s.capacity, bytes |-> b]
<1>1. s = [null |-> FALSE, size |-> s.size, capacity |-> s.capacity, bytes |-> s.bytes]
    BY DEF BufferIs
<1> DEFINE w == [s EXCEPT !.bytes = b]
<1>2. w.null = s.null /\ w.size = s.size /\ w.capacity = s.capacity /\ w.bytes = b BY <1>1
<1>3. w = [null |-> w.null, size |-> w.size, capacity |-> w.capacity, bytes |-> w.bytes]
    <2>1. w = [s EXCEPT !.bytes = b] OBVIOUS
    <2> HIDE DEF w
    <2>2. DOMAIN w = DOMAIN s /\ w = [f \in DOMAIN w |-> w[f]] BY <1>1, <2>1
    <2>3. DOMAIN s = {"null", "size", "capacity", "bytes"} BY <1>1
    <2> QED BY <2>2, <2>3
<1>4. s.null = FALSE BY <1>1
<1> HIDE DEF w
<1>5. w = [null |-> FALSE, size |-> s.size, capacity |-> s.capacity, bytes |-> b]
    BY <1>2, <1>3, <1>4
<1> QED BY <1>5 DEF w

\* Bytes written to a buffer's memory, and the terminator behind them.
LEMMA TerminatedIs ==
    ASSUME NEW s, BufferIs(s), NEW n \in Nat, n <= s.capacity,
           NEW b \in Bytes(s.capacity + 1), \A i \in 1..n : b[i] \in Nat
    PROVE  BufferIs(Str!Terminate([s EXCEPT !.bytes = b], n))
<1> DEFINE c == [i \in DOMAIN b |-> IF i <= n THEN b[i]
                                    ELSE IF i = n + 1 THEN Str!End0 ELSE Str!Junk]
           capacity == s.capacity
<1>1. s = [null |-> FALSE, size |-> s.size, capacity |-> capacity, bytes |-> s.bytes]
      /\ capacity \in Nat
    BY DEF BufferIs
<1>0. b \in [1..capacity + 1 -> Nat \union {Str!Junk}] BY DEF Bytes
<1>2. Str!Terminate([s EXCEPT !.bytes = b], n)
         = [null |-> FALSE, size |-> n, capacity |-> capacity, bytes |-> c]
    <2> DEFINE w == [s EXCEPT !.bytes = b]
    <2>1. w = [null |-> FALSE, size |-> s.size, capacity |-> capacity, bytes |-> b]
        BY BytesReplaced
    <2> HIDE DEF w, c, capacity
    <2>2. Str!Terminate(w, n) = [w EXCEPT !.size = n, !.bytes = c]
        <3>1. w.bytes = b BY <2>1
        <3>2. Str!Terminate(w, n) = [w EXCEPT !.size = n,
                  !.bytes = [i \in DOMAIN w.bytes |-> IF i <= n THEN w.bytes[i]
                                            ELSE IF i = n + 1 THEN Str!End0 ELSE Str!Junk]]
            BY Zenon DEF Str!Terminate
        <3> QED BY <3>1, <3>2, Zenon DEF c
    <2>3. Str!Terminate(w, n) = [null |-> FALSE, size |-> n, capacity |-> capacity, bytes |-> c]
        BY <2>1, <2>2
    <2> QED BY <2>3 DEF w
<1> HIDE DEF capacity
<1>3. b \in [1..capacity + 1 -> Nat \union {Str!Junk}] /\ n <= capacity BY <1>0 DEF capacity
<1>4. c \in [1..capacity + 1 -> Nat \union {Str!Junk}] BY <1>1, <1>3 DEF Str!End0
<1>5. c[n + 1] = Str!End0 BY <1>1, <1>3
<1>6. \A i \in 1..n : c[i] \in Nat BY <1>1, <1>3
<1> HIDE DEF c
<1> QED BY <1>1, <1>2, <1>3, <1>4, <1>5, <1>6, BufferWith

\* An allocation that succeeds keeps the text, in a buffer that is large enough.
Allocates(s, capacity, r) ==
    /\ BufferIs(r.s) /\ r.s.size = s.size
    /\ capacity <= r.s.capacity /\ s.capacity <= r.s.capacity
    /\ \A i \in 1..s.size : r.s.bytes[i] = s.bytes[i]

LEMMA Allocated ==
    ASSUME NEW s, StringIs(s), NEW capacity \in Nat, NEW room \in BOOLEAN
    PROVE  LET r == Str!AllocateResources(s, capacity, room)
           IN (r.ok = FALSE /\ r.s = s) \/ (r.ok = TRUE /\ Allocates(s, capacity, r))
<1> DEFINE old == IF s.null THEN <<Str!End0>> ELSE SubSeq(s.bytes, 1, s.size + 1)
           new == Str!Write([i \in 1..capacity + 1 |-> Str!Junk], 0, old)
           b == [new EXCEPT ![s.size + 1] = Str!End0]
           r == Str!AllocateResources(s, capacity, room)
<1>1. r = IF capacity > MaxSize THEN Str!Throws(s)
          ELSE IF capacity <= s.capacity /\ ~s.null THEN Str!Ok(s)
          ELSE IF ~room THEN Str!Throws(s)
          ELSE Str!Ok([null |-> FALSE, size |-> s.size, capacity |-> capacity, bytes |-> b])
    BY DEF Str!AllocateResources
<1>2. /\ s.size \in Nat /\ s.capacity \in Nat /\ s.size <= s.capacity
      /\ \A i \in 1..s.size : s.bytes[i] \in Nat
    BY TextIs
<1>3. s.null \in BOOLEAN /\ (s.null => s.size = 0 /\ s.capacity = 0) /\ (~s.null => BufferIs(s))
    <2>1. CASE s = Str!MovedFrom BY <2>1 DEF Str!MovedFrom
    <2>2. CASE BufferIs(s)
        <3>1. s.null = FALSE BY <2>2 DEF BufferIs
        <3> QED BY <2>2, <3>1
    <2> QED BY <2>1, <2>2 DEF StringIs
<1>4. old \in Seq(Nat) /\ Len(old) = s.size + 1 /\ \A i \in 1..s.size : old[i] = s.bytes[i]
    <2>1. CASE s.null
        <3>1. old = <<0>> BY <2>1 DEF Str!End0
        <3> QED BY <1>3, <2>1, <3>1
    <2>2. CASE ~s.null
        <3>1. \A i \in 1..s.size + 1 : s.bytes[i] \in Nat
            BY <1>2, <1>3, <2>2 DEF BufferIs, Str!End0
        <3>2. old = SubSeq(s.bytes, 1, s.size + 1) BY <2>2
        <3> HIDE DEF old
        <3> QED BY <1>2, <3>1, <3>2, SubSeqProperties
    <2> QED BY <1>3, <2>1, <2>2
<1> HIDE DEF old
<1>5. DOMAIN old = 1..s.size + 1 /\ \A i \in 1..s.size + 1 : old[i] \in Nat
    BY <1>4, LenProperties, ElementOfSeq
<1>6. new = [i \in 1..capacity + 1 |-> IF i \in 1..s.size + 1 THEN old[i] ELSE Str!Junk]
    <2>1. \A i \in 1..capacity + 1 : i - 0 = i OBVIOUS
    <2> QED BY <1>5, <2>1 DEF Str!Write
<1>7. CASE r = Str!Throws(s)
    <2> HIDE DEF r
    <2>1. r.ok = FALSE /\ r.s = s BY <1>7 DEF Str!Throws
    <2> QED BY <2>1 DEF r
<1>8. CASE capacity <= s.capacity /\ ~s.null /\ r = Str!Ok(s)
    <2> HIDE DEF r
    <2>1. r.ok = TRUE /\ r.s = s BY <1>8 DEF Str!Ok
    <2>2. Allocates(s, capacity, r) BY <1>2, <1>3, <1>8, <2>1 DEF Allocates
    <2> QED BY <2>1, <2>2 DEF r
<1>9. CASE ~(capacity <= s.capacity /\ ~s.null)
           /\ r = Str!Ok([null |-> FALSE, size |-> s.size, capacity |-> capacity, bytes |-> b])
    <2> HIDE DEF r, new
    <2>1. r.ok = TRUE
          /\ r.s = [null |-> FALSE, size |-> s.size, capacity |-> capacity, bytes |-> b]
        BY <1>9 DEF Str!Ok
    <2>2. s.size <= capacity /\ s.capacity <= capacity BY <1>2, <1>3, <1>9
    <2>3. /\ b \in [1..capacity + 1 -> Nat \union {Str!Junk}]
          /\ b[s.size + 1] = Str!End0 /\ \A i \in 1..s.size : b[i] = old[i]
        BY <1>2, <1>5, <1>6, <2>2 DEF Str!End0
    <2> HIDE DEF b
    <2>4. \A i \in 1..s.size : b[i] \in Nat BY <1>2, <1>5, <2>3
    <2>5. BufferIs(r.s) BY <1>2, <2>1, <2>2, <2>3, <2>4, BufferWith
    <2>6. \A i \in 1..s.size : b[i] = s.bytes[i] BY <1>4, <2>3
    <2>7. r.s.size = s.size /\ r.s.capacity = capacity /\ r.s.bytes = b BY <2>1
    <2>8. Allocates(s, capacity, r) BY <2>2, <2>5, <2>6, <2>7 DEF Allocates
    <2> QED BY <2>1, <2>8 DEF r
<1> QED BY <1>1, <1>7, <1>8, <1>9

\* The bytes of text written over others, from index at on.
Writes(m, bytes, at, text, b) ==
    /\ b \in Bytes(m)
    /\ \A i \in 1..m : b[i] = IF i - at \in 1..Len(text) THEN text[i - at] ELSE bytes[i]

LEMMA WrittenIs ==
    ASSUME NEW m \in Nat, NEW bytes \in Bytes(m), NEW at \in Nat, NEW text \in Seq(Nat)
    PROVE  Writes(m, bytes, at, text, Str!Write(bytes, at, text))
<1>1. DOMAIN text = 1..Len(text) /\ \A i \in 1..Len(text) : text[i] \in Nat
    BY LenProperties, ElementOfSeq
<1> QED BY <1>1 DEF Str!Write, Bytes, Writes

\* The text grown to n bytes in a buffer that is made large enough first.
Grows(s, n, capacity, r, b, g) ==
    /\ n \in Nat /\ n <= capacity
    /\ Allocates(s, capacity, r)
          => b \in Bytes(r.s.capacity + 1) /\ \A i \in 1..n : b[i] \in Nat
    /\ g = IF n > MaxSize \/ ~r.ok THEN Str!Throws(s)
           ELSE Str!Ok(Str!Terminate([r.s EXCEPT !.bytes = b], n))

LEMMA GrownIs ==
    ASSUME NEW s, StringIs(s), NEW n, NEW capacity \in Nat, NEW room \in BOOLEAN, NEW b, NEW g,
           Grows(s, n, capacity, Str!AllocateResources(s, capacity, room), b, g)
    PROVE  StringIs(g.s) /\ g.ok \in BOOLEAN
<1>0. PICK r : r = Str!AllocateResources(s, capacity, room) OBVIOUS
<1>1. (r.ok = FALSE /\ r.s = s) \/ (r.ok = TRUE /\ Allocates(s, capacity, r))
    BY <1>0, Allocated
<1>4. Grows(s, n, capacity, r, b, g) BY <1>0
<1>5. g = Str!Throws(s)
      \/ (r.ok = TRUE /\ g = Str!Ok(Str!Terminate([r.s EXCEPT !.bytes = b], n)))
    BY <1>1, <1>4 DEF Grows
<1>2. CASE g = Str!Throws(s)
    <2>1. g.s = s /\ g.ok = FALSE BY <1>2 DEF Str!Throws
    <2> QED BY <2>1
<1>3. CASE r.ok = TRUE /\ Allocates(s, capacity, r)
           /\ g = Str!Ok(Str!Terminate([r.s EXCEPT !.bytes = b], n))
    <2>1. BufferIs(r.s) /\ n \in Nat /\ n <= r.s.capacity /\ b \in Bytes(r.s.capacity + 1)
          /\ \A i \in 1..n : b[i] \in Nat
        <3>1. BufferIs(r.s) /\ capacity <= r.s.capacity BY <1>3 DEF Allocates
        <3>2. r.s.capacity \in Nat BY <3>1 DEF BufferIs
        <3> QED BY <1>3, <1>4, <3>1, <3>2 DEF Grows
    <2>2. BufferIs(Str!Terminate([r.s EXCEPT !.bytes = b], n))
        BY <2>1, TerminatedIs, Zenon
    <2>3. g.s = Str!Terminate([r.s EXCEPT !.bytes = b], n) /\ g.ok = TRUE BY <1>3 DEF Str!Ok
    <2> QED BY <2>2, <2>3 DEF StringIs
<1> QED BY <1>1, <1>2, <1>3, <1>5

\* What an allocation keeps is text.
LEMMA AllocatedBytes ==
    ASSUME NEW s, StringIs(s), NEW capacity, NEW r, Allocates(s, capacity, r)
    PROVE  /\ r.s.capacity \in Nat /\ s.size <= r.s.capacity
           /\ r.s.bytes \in Bytes(r.s.capacity + 1)
           /\ \A i \in 1..s.size : r.s.bytes[i] \in Nat
           /\ r.s.bytes[s.size + 1] = 0
<1>1. BufferIs(r.s) /\ r.s.size = s.size BY DEF Allocates
<1> QED BY <1>1 DEF BufferIs, Bytes, Str!End0

LEMMA StringPushed ==
    ASSUME NEW s, StringIs(s), NEW c \in Nat, NEW room \in BOOLEAN
    PROVE  StringIs(Str!PushBack(s, c, room).s) /\ Str!PushBack(s, c, room).ok \in BOOLEAN
<1> DEFINE n == s.size + 1
           doubled == IF s.capacity = 0 THEN 2
                      ELSE IF s.capacity > MaxSize \div 2 THEN MaxSize ELSE 2 * s.capacity
           capacity == IF n <= s.capacity THEN s.capacity ELSE IF doubled < n THEN n ELSE doubled
           r == Str!AllocateResources(s, capacity, room)
           b == Str!Write(r.s.bytes, s.size, <<c>>)
           g == Str!PushBack(s, c, room)
<1>1. s.size \in Nat /\ s.capacity \in Nat /\ MaxSize \in Nat BY TextIs, SequenceAssumption
<1>2. n \in Nat /\ capacity \in Nat /\ n <= capacity
    <2>1. doubled \in Nat BY <1>1
    <2> HIDE DEF doubled
    <2> QED BY <1>1, <2>1
<1>3. g = IF n > MaxSize \/ ~r.ok THEN Str!Throws(s)
          ELSE Str!Ok(Str!Terminate([r.s EXCEPT !.bytes = b], n))
    BY DEF Str!PushBack, Str!Grown
<1> HIDE DEF r, g, capacity
<1>4. ASSUME Allocates(s, capacity, r)
      PROVE  b \in Bytes(r.s.capacity + 1) /\ \A i \in 1..n : b[i] \in Nat
    <2>1. <<c>> \in Seq(Nat) /\ Len(<<c>>) = 1 /\ <<c>>[1] = c OBVIOUS
    <2>2. /\ r.s.capacity \in Nat /\ s.size <= r.s.capacity
          /\ r.s.bytes \in Bytes(r.s.capacity + 1)
          /\ \A i \in 1..s.size : r.s.bytes[i] \in Nat
        BY <1>4, AllocatedBytes
    <2>5. r.s.capacity + 1 \in Nat BY <2>2
    <2>3. /\ b \in Bytes(r.s.capacity + 1)
          /\ \A i \in 1..r.s.capacity + 1 :
                b[i] = IF i - s.size \in 1..1 THEN <<c>>[i - s.size] ELSE r.s.bytes[i]
        <3> DEFINE m == r.s.capacity + 1
        <3>1. m \in Nat /\ r.s.bytes \in Bytes(m) BY <2>2, <2>5
        <3> HIDE DEF m
        <3>2. Writes(m, r.s.bytes, s.size, <<c>>, b) BY <1>1, <2>1, <3>1, WrittenIs
        <3> HIDE DEF b
        <3> QED BY <2>1, <3>2 DEF m, Writes
    <2> HIDE DEF b
    <2>4. \A i \in 1..n : b[i] \in Nat
        <3> SUFFICES ASSUME NEW i \in 1..n PROVE b[i] \in Nat
            OBVIOUS
        <3>1. i \in 1..r.s.capacity + 1 BY <1>1, <2>2
        <3>2. CASE i = n
            <4>1. i - s.size = 1 BY <1>1, <3>2
            <4> QED BY <2>1, <2>3, <3>1, <4>1
        <3>3. CASE i # n
            <4>1. i \in 1..s.size /\ i - s.size \notin 1..1 BY <1>1, <3>3
            <4> QED BY <2>2, <2>3, <3>1, <4>1
        <3> QED BY <3>2, <3>3
    <2> QED BY <2>3, <2>4
<1> HIDE DEF n, b
<1>5. Grows(s, n, capacity, r, b, g) BY <1>2, <1>3, <1>4 DEF Grows
<1>6. StringIs(g.s) /\ g.ok \in BOOLEAN BY <1>2, <1>5, GrownIs DEF r
<1> QED BY <1>6 DEF g

LEMMA StringExtended ==
    ASSUME NEW s, StringIs(s), NEW text \in Seq(Nat), NEW room \in BOOLEAN
    PROVE  StringIs(Str!Extend(s, text, room).s) /\ Str!Extend(s, text, room).ok \in BOOLEAN
<1> DEFINE n == s.size + Len(text)
           r == Str!AllocateResources(s, n, room)
           b == Str!Write(r.s.bytes, s.size, text)
           g == Str!Extend(s, text, room)
<1>1. s.size \in Nat /\ Len(text) \in Nat /\ \A i \in 1..Len(text) : text[i] \in Nat
    BY TextIs, LenProperties, ElementOfSeq
<1>2. CASE text = << >>
    <2>1. g = Str!Ok(s) BY <1>2 DEF Str!Extend
    <2> HIDE DEF g
    <2>2. g.s = s /\ g.ok = TRUE BY <2>1 DEF Str!Ok
    <2> QED BY <2>2 DEF g
<1>3. CASE text # << >>
    <2>1. g = IF n > MaxSize \/ ~r.ok THEN Str!Throws(s)
              ELSE Str!Ok(Str!Terminate([r.s EXCEPT !.bytes = b], n))
        BY <1>3 DEF Str!Extend, Str!Grown
    <2>2. n \in Nat /\ n <= n BY <1>1
    <2> HIDE DEF r, g
    <2>3. ASSUME Allocates(s, n, r)
          PROVE  b \in Bytes(r.s.capacity + 1) /\ \A i \in 1..n : b[i] \in Nat
        <3>1. /\ r.s.capacity \in Nat /\ s.size <= r.s.capacity
              /\ r.s.bytes \in Bytes(r.s.capacity + 1)
              /\ \A i \in 1..s.size : r.s.bytes[i] \in Nat
            BY <2>3, AllocatedBytes
        <3>5. r.s.capacity + 1 \in Nat BY <3>1
        <3>2. /\ b \in Bytes(r.s.capacity + 1)
              /\ \A i \in 1..r.s.capacity + 1 : b[i] = IF i - s.size \in 1..Len(text)
                                                       THEN text[i - s.size] ELSE r.s.bytes[i]
            <4> DEFINE m == r.s.capacity + 1
            <4>1. m \in Nat /\ r.s.bytes \in Bytes(m) BY <3>1, <3>5
            <4> HIDE DEF m
            <4>2. Writes(m, r.s.bytes, s.size, text, b) BY <1>1, <4>1, WrittenIs
            <4> HIDE DEF b
            <4> QED BY <4>2 DEF m, Writes
        <3>3. n <= r.s.capacity BY <2>3 DEF Allocates
        <3> HIDE DEF b
        <3>4. \A i \in 1..n : b[i] \in Nat
            <4> SUFFICES ASSUME NEW i \in 1..n PROVE b[i] \in Nat
                OBVIOUS
            <4>1. i \in 1..r.s.capacity + 1 BY <1>1, <3>1, <3>3
            <4>2. CASE i > s.size
                <5>1. i - s.size \in 1..Len(text) BY <1>1, <4>2
                <5> QED BY <1>1, <3>2, <4>1, <5>1
            <4>3. CASE ~(i > s.size)
                <5>1. i \in 1..s.size /\ i - s.size \notin 1..Len(text) BY <1>1, <4>3
                <5> QED BY <3>1, <3>2, <4>1, <5>1
            <4> QED BY <4>2, <4>3
        <3> QED BY <3>2, <3>4
    <2> HIDE DEF n, b
    <2>4. Grows(s, n, n, r, b, g) BY <2>1, <2>2, <2>3 DEF Grows
    <2>5. StringIs(g.s) /\ g.ok \in BOOLEAN BY <2>2, <2>4, GrownIs DEF r
    <2> QED BY <2>5 DEF g
<1> QED BY <1>2, <1>3

LEMMA StringExtendedSelf ==
    ASSUME NEW s, StringIs(s), NEW room \in BOOLEAN
    PROVE  StringIs(Str!ExtendSelf(s, room).s)
<1> DEFINE n == 2 * s.size
           r == Str!AllocateResources(s, n, room)
           text == SubSeq(r.s.bytes, 1, s.size)
           b == Str!Write(r.s.bytes, s.size, text)
           g == Str!ExtendSelf(s, room)
<1>1. s.size \in Nat BY TextIs
<1>2. CASE s.size = 0
    <2>1. g = Str!Ok(s) BY <1>2 DEF Str!ExtendSelf
    <2> HIDE DEF g
    <2>2. g.s = s BY <2>1 DEF Str!Ok
    <2> QED BY <2>2 DEF g
<1>3. CASE s.size # 0
    <2>1. g = IF n > MaxSize \/ ~r.ok THEN Str!Throws(s)
              ELSE Str!Ok(Str!Terminate([r.s EXCEPT !.bytes = b], n))
        BY <1>3 DEF Str!ExtendSelf, Str!Grown
    <2>2. n \in Nat /\ n <= n BY <1>1
    <2> HIDE DEF r, g
    <2>3. ASSUME Allocates(s, n, r)
          PROVE  b \in Bytes(r.s.capacity + 1) /\ \A i \in 1..n : b[i] \in Nat
        <3> DEFINE m == r.s.capacity + 1
        <3>1. /\ m \in Nat /\ s.size < m /\ r.s.bytes \in Bytes(m)
              /\ \A i \in 1..s.size : r.s.bytes[i] \in Nat
            BY <1>1, <2>3, AllocatedBytes
        <3>2. n < m
            <4>1. n <= r.s.capacity /\ r.s.capacity \in Nat BY <2>3, AllocatedBytes DEF Allocates
            <4> QED BY <2>2, <4>1
        <3>3. text \in Seq(Nat) /\ Len(text) = s.size /\ \A i \in 1..s.size : text[i] \in Nat
            <4>1. text \in Seq(Nat) /\ Len(text) = s.size
                BY <1>1, <3>1, SubSeqProperties
            <4> HIDE DEF text
            <4> QED BY <4>1, ElementOfSeq
        <3> HIDE DEF m, text
        <3>4. Writes(m, r.s.bytes, s.size, text, b) BY <1>1, <3>1, <3>3, WrittenIs
        <3> HIDE DEF b
        <3>5. \A i \in 1..n : b[i] \in Nat
            <4> SUFFICES ASSUME NEW i \in 1..n PROVE b[i] \in Nat
                OBVIOUS
            <4>1. i \in 1..m BY <1>1, <3>1, <3>2
            <4>2. CASE i > s.size
                <5>1. i - s.size \in 1..Len(text) BY <1>1, <3>3, <4>2
                <5> QED BY <3>3, <3>4, <4>1, <5>1 DEF Writes
            <4>3. CASE ~(i > s.size)
                <5>1. i \in 1..s.size /\ i - s.size \notin 1..Len(text) BY <1>1, <3>3, <4>3
                <5> QED BY <3>1, <3>4, <4>1, <5>1 DEF Writes
            <4> QED BY <4>2, <4>3
        <3> QED BY <3>4, <3>5 DEF m, Writes
    <2> HIDE DEF n, b
    <2>4. Grows(s, n, n, r, b, g) BY <2>1, <2>2, <2>3 DEF Grows
    <2>5. StringIs(g.s) /\ g.ok \in BOOLEAN BY <2>2, <2>4, GrownIs DEF r
    <2> QED BY <2>5 DEF g
<1> QED BY <1>2, <1>3

LEMMA StringInserted ==
    ASSUME NEW s, StringIs(s), NEW text \in Seq(Nat), NEW at \in Nat, NEW room \in BOOLEAN
    PROVE  StringIs(Str!InsertSubString(s, text, at, room).s)
<1> DEFINE k == Len(text)
           n == s.size + k
           r == Str!AllocateResources(s, n, room)
           tail == SubSeq(r.s.bytes, at + 1, s.size + 1)
           c == Str!Write(r.s.bytes, at + k, tail)
           b == Str!Write(c, at, text)
           g == Str!InsertSubString(s, text, at, room)
<1>1. s.size \in Nat /\ k \in Nat /\ \A i \in 1..k : text[i] \in Nat
    BY TextIs, LenProperties, ElementOfSeq
<1>2. CASE at > s.size
    <2>1. g = Str!Throws(s) BY <1>2 DEF Str!InsertSubString
    <2> HIDE DEF g
    <2>2. g.s = s BY <2>1 DEF Str!Throws
    <2> QED BY <2>2 DEF g
<1>3. CASE ~(at > s.size)
    <2>1. g = IF n > MaxSize \/ ~r.ok THEN Str!Throws(s)
              ELSE Str!Ok(Str!Terminate([r.s EXCEPT !.bytes = b], n))
        BY <1>3 DEF Str!InsertSubString, Str!Grown
    <2>2. n \in Nat /\ n <= n /\ at + k \in Nat BY <1>1
    <2> HIDE DEF r, g
    <2>3. ASSUME Allocates(s, n, r)
          PROVE  b \in Bytes(r.s.capacity + 1) /\ \A i \in 1..n : b[i] \in Nat
        <3> DEFINE m == r.s.capacity + 1
        <3>1. /\ m \in Nat /\ s.size < m /\ r.s.bytes \in Bytes(m)
              /\ \A i \in 1..s.size + 1 : r.s.bytes[i] \in Nat
            <4>1. /\ r.s.capacity \in Nat /\ s.size <= r.s.capacity
                  /\ r.s.bytes \in Bytes(r.s.capacity + 1)
                  /\ \A i \in 1..s.size : r.s.bytes[i] \in Nat
                  /\ r.s.bytes[s.size + 1] = 0
                BY <2>3, AllocatedBytes
            <4> QED BY <1>1, <4>1
        <3>2. n < m
            <4>1. n <= r.s.capacity /\ r.s.capacity \in Nat BY <2>3, AllocatedBytes DEF Allocates
            <4> QED BY <2>2, <4>1
        <3>3. tail \in Seq(Nat) /\ Len(tail) = s.size + 1 - at
              /\ \A i \in 1..s.size + 1 - at : tail[i] \in Nat
            <4>1. \A i \in at + 1..s.size + 1 : r.s.bytes[i] \in Nat BY <1>1, <3>1
            <4>2. tail \in Seq(Nat)
                  /\ Len(tail) = IF at + 1 <= s.size + 1 THEN s.size + 1 - (at + 1) + 1 ELSE 0
                BY <1>1, <4>1, SubSeqProperties
            <4>3. Len(tail) = s.size + 1 - at BY <1>1, <1>3, <4>2
            <4> HIDE DEF tail
            <4> QED BY <4>2, <4>3, ElementOfSeq
        <3> HIDE DEF m, tail, k
        <3>4. Writes(m, r.s.bytes, at + k, tail, c) BY <2>2, <3>1, <3>3, WrittenIs
        <3> HIDE DEF c
        <3>5. c \in Bytes(m) BY <3>4 DEF Writes
        <3>6. Writes(m, c, at, text, b) BY <3>1, <3>5, WrittenIs
        <3> HIDE DEF b
        <3>7. \A i \in 1..n : b[i] \in Nat
            <4> SUFFICES ASSUME NEW i \in 1..n PROVE b[i] \in Nat
                OBVIOUS
            <4>1. i \in 1..m BY <2>2, <3>1, <3>2
            <4>2. CASE i - at \in 1..k
                <5>1. b[i] = text[i - at] BY <3>6, <4>1, <4>2 DEF Writes, k
                <5> QED BY <1>1, <4>2, <5>1
            <4>3. CASE i - at \notin 1..k /\ i > at
                <5>1. b[i] = c[i] BY <3>6, <4>1, <4>3 DEF Writes, k
                <5>2. i - (at + k) \in 1..s.size + 1 - at BY <1>1, <1>3, <4>3
                <5>3. c[i] = tail[i - (at + k)] BY <3>3, <3>4, <4>1, <5>2 DEF Writes
                <5> QED BY <3>3, <5>1, <5>2, <5>3
            <4>4. CASE ~(i > at)
                <5>1. i - at \notin 1..k /\ i \in 1..s.size + 1
                      /\ i - (at + k) \notin 1..s.size + 1 - at
                    BY <1>1, <1>3, <4>4
                <5>2. b[i] = c[i] BY <3>6, <4>1, <5>1 DEF Writes, k
                <5>3. c[i] = r.s.bytes[i] BY <3>3, <3>4, <4>1, <5>1 DEF Writes
                <5> QED BY <3>1, <5>1, <5>2, <5>3
            <4> QED BY <4>2, <4>3, <4>4
        <3> QED BY <3>6, <3>7 DEF m, Writes
    <2> HIDE DEF n, b
    <2>4. Grows(s, n, n, r, b, g) BY <2>1, <2>2, <2>3 DEF Grows
    <2>5. StringIs(g.s) /\ g.ok \in BOOLEAN BY <2>2, <2>4, GrownIs DEF r
    <2> QED BY <2>5 DEF g
<1> QED BY <1>2, <1>3

LEMMA StringPrepended ==
    ASSUME NEW s, StringIs(s), NEW text \in Seq(Nat), NEW room \in BOOLEAN
    PROVE  StringIs(Str!Prepend(s, text, room).s)
<1>1. CASE text = << >> BY <1>1 DEF Str!Prepend, Str!Ok
<1>2. CASE text # << >>
    <2>1. Str!Prepend(s, text, room) = Str!InsertSubString(s, text, 0, room)
        BY <1>2 DEF Str!Prepend
    <2> QED BY <2>1, StringInserted
<1> QED BY <1>1, <1>2

LEMMA StringResized ==
    ASSUME NEW s, StringIs(s), NEW n \in Nat, NEW c \in Nat, NEW room \in BOOLEAN
    PROVE  StringIs(Str!Resize(s, n, c, room).s)
<1> DEFINE text == [i \in 1..n - s.size |-> c]
           r == Str!AllocateResources(s, n, room)
           b == Str!Write(r.s.bytes, s.size, text)
           g == Str!Resize(s, n, c, room)
<1>1. s.size \in Nat BY TextIs
<1>2. g = IF n > s.size \/ s.null
          THEN IF n > MaxSize \/ ~r.ok THEN Str!Throws(s)
               ELSE Str!Ok(Str!Terminate([r.s EXCEPT !.bytes = b], n))
          ELSE Str!Ok(Str!Terminate(s, n))
    BY DEF Str!Resize, Str!Grown
<1>3. CASE n > s.size \/ s.null
    <2>1. g = IF n > MaxSize \/ ~r.ok THEN Str!Throws(s)
              ELSE Str!Ok(Str!Terminate([r.s EXCEPT !.bytes = b], n))
        BY <1>2, <1>3
    <2>2. n <= n OBVIOUS
    <2> HIDE DEF r, g
    <2>3. ASSUME Allocates(s, n, r)
          PROVE  b \in Bytes(r.s.capacity + 1) /\ \A i \in 1..n : b[i] \in Nat
        <3> DEFINE m == r.s.capacity + 1
        <3>1. /\ m \in Nat /\ s.size < m /\ r.s.bytes \in Bytes(m)
              /\ \A i \in 1..s.size : r.s.bytes[i] \in Nat
            BY <1>1, <2>3, AllocatedBytes
        <3>2. n < m
            <4>1. n <= r.s.capacity /\ r.s.capacity \in Nat BY <2>3, AllocatedBytes DEF Allocates
            <4> QED BY <4>1
        <3>3. text \in Seq(Nat) /\ (n > s.size => Len(text) = n - s.size)
              /\ \A i \in 1..Len(text) : text[i] \in Nat
            <4>1. CASE n > s.size
                <5>1. n - s.size \in Nat /\ text \in [1..n - s.size -> Nat] BY <1>1, <4>1
                <5>2. text \in Seq(Nat) BY <5>1, SeqDef
                <5>3. Len(text) = n - s.size BY <5>1, <5>2, LenProperties
                <5> HIDE DEF text
                <5> QED BY <5>2, <5>3, ElementOfSeq
            <4>2. CASE ~(n > s.size)
                <5>1. text = << >> BY <1>1, <4>2
                <5> HIDE DEF text
                <5>2. << >> \in Seq(Nat) /\ Len(<< >>) = 0 BY EmptySeq
                <5> QED BY <4>2, <5>1, <5>2
            <4> QED BY <4>1, <4>2
        <3> HIDE DEF m, text
        <3>4. Writes(m, r.s.bytes, s.size, text, b) BY <1>1, <3>1, <3>3, WrittenIs
        <3> HIDE DEF b
        <3>5. \A i \in 1..n : b[i] \in Nat
            <4> SUFFICES ASSUME NEW i \in 1..n PROVE b[i] \in Nat
                OBVIOUS
            <4>1. i \in 1..m BY <3>1, <3>2
            <4>2. CASE i > s.size
                <5>1. i - s.size \in 1..Len(text) BY <1>1, <3>3, <4>2
                <5> QED BY <3>3, <3>4, <4>1, <5>1 DEF Writes
            <4>3. CASE ~(i > s.size)
                <5>1. i \in 1..s.size /\ i - s.size \notin 1..Len(text) BY <1>1, <3>3, <4>3
                <5> QED BY <3>1, <3>4, <4>1, <5>1 DEF Writes
            <4> QED BY <4>2, <4>3
        <3> QED BY <3>4, <3>5 DEF m, Writes
    <2> HIDE DEF b
    <2>4. Grows(s, n, n, r, b, g) BY <2>1, <2>2, <2>3 DEF Grows
    <2>5. StringIs(g.s) /\ g.ok \in BOOLEAN BY <2>2, <2>4, GrownIs DEF r
    <2> QED BY <2>5 DEF g
<1>4. CASE ~(n > s.size \/ s.null)
    <2>1. g = Str!Ok(Str!Terminate(s, n)) BY <1>2, <1>4
    <2>2. BufferIs(s) BY <1>4 DEF StringIs, Str!MovedFrom
    <2>3. s.bytes \in Bytes(s.capacity + 1) /\ n <= s.capacity
          /\ \A i \in 1..n : s.bytes[i] \in Nat
        BY <1>1, <1>4, <2>2 DEF BufferIs
    <2>4. [s EXCEPT !.bytes = s.bytes] = s BY <2>2 DEF BufferIs
    <2>5. BufferIs(Str!Terminate([s EXCEPT !.bytes = s.bytes], n))
        BY <2>2, <2>3, TerminatedIs, Zenon
    <2>6. BufferIs(Str!Terminate(s, n)) BY <2>4, <2>5
    <2> HIDE DEF g
    <2>7. g.s = Str!Terminate(s, n) BY <2>1 DEF Str!Ok
    <2> QED BY <2>6, <2>7 DEF g, StringIs
<1> QED BY <1>3, <1>4

LEMMA StringReserved ==
    ASSUME NEW s, StringIs(s), NEW capacity \in Nat, NEW room \in BOOLEAN
    PROVE  StringIs(Str!Reserve(s, capacity, room).s)
<1>0. PICK r : r = Str!AllocateResources(s, capacity, room) OBVIOUS
<1>1. (r.ok = FALSE /\ r.s = s) \/ (r.ok = TRUE /\ Allocates(s, capacity, r))
    BY <1>0, Allocated
<1>2. StringIs(r.s) BY <1>1 DEF Allocates, StringIs
<1> QED BY <1>0, <1>2 DEF Str!Reserve

LEMMA StringAssigned ==
    ASSUME NEW to, StringIs(to), NEW from, StringIs(from), NEW room \in BOOLEAN
    PROVE  StringIs(Str!Assign(to, from, room).s)
<1> DEFINE text == IF from.null THEN << >> ELSE Str!Text(from)
           r == Str!Assign(to, from, room)
<1>1. from.capacity \in Nat /\ text \in Seq(Nat) /\ Len(text) <= from.capacity
    <2>1. << >> \in Seq(Nat) /\ Len(<< >>) = 0 BY EmptySeq
    <2>2. /\ from.size \in Nat /\ from.capacity \in Nat /\ from.size <= from.capacity
          /\ Str!Text(from) \in Seq(Nat) /\ Len(Str!Text(from)) = from.size
        BY TextIs
    <2> QED BY <2>1, <2>2
<1>2. r = IF ~room THEN Str!Throws(to) ELSE Str!Ok(Str!Buffer(text, from.capacity))
    BY DEF Str!Assign
<1> HIDE DEF r, text
<1>3. BufferIs(Str!Buffer(text, from.capacity)) BY <1>1, BufferMade
<1>4. r.s = to \/ r.s = Str!Buffer(text, from.capacity) BY <1>2 DEF Str!Throws, Str!Ok
<1>5. StringIs(r.s) BY <1>3, <1>4 DEF StringIs
<1> QED BY <1>5 DEF r

LEMMA TextAssigned ==
    ASSUME NEW to, StringIs(to), NEW text \in Seq(Nat), NEW room \in BOOLEAN
    PROVE  StringIs(Str!AssignText(to, text, room).s)
<1> DEFINE r == Str!AssignText(to, text, room)
<1>1. r = Str!Throws(to) \/ r = Str!Ok(Str!NewString(text)) BY DEF Str!AssignText
<1> HIDE DEF r
<1>2. r.s = to \/ r.s = Str!NewString(text) BY <1>1 DEF Str!Throws, Str!Ok
<1>3. StringIs(r.s) BY <1>2, NewStringIs
<1> QED BY <1>3 DEF r

LEMMA StringMoved ==
    ASSUME NEW to, NEW from, StringIs(from)
    PROVE  LET m == Str!MoveAssign(to, from) IN StringIs(m.to) /\ StringIs(m.from)
<1>1. Str!MoveAssign(to, from).to = from /\ Str!MoveAssign(to, from).from = Str!MovedFrom
    BY DEF Str!MoveAssign
<1> QED BY <1>1 DEF StringIs

LEMMA PartOfText ==
    ASSUME NEW s, StringIs(s), NEW first \in Nat, NEW last \in Nat, last <= s.size
    PROVE  SubSeq(s.bytes, first + 1, last) \in Seq(Nat)
<1>1. s.size \in Nat /\ \A i \in 1..s.size : s.bytes[i] \in Nat BY TextIs
<1>2. \A i \in first + 1..last : s.bytes[i] \in Nat BY <1>1
<1> QED BY <1>2, SubSeqProperties

LEMMA SubStringIs ==
    ASSUME NEW s, StringIs(s), NEW first \in Nat, NEW last \in Nat, NEW room \in BOOLEAN
    PROVE  StringIs(Str!SubString(s, first, last, room).s)
<1> DEFINE r == Str!SubString(s, first, last, room)
           text == SubSeq(s.bytes, first + 1, last)
<1>0. StringIs(Str!NewString(<< >>)) BY NewStringIs, EmptySeq
<1>1. CASE first > s.size \/ last > s.size \/ first > last
    <2>1. r = Str!Throws(Str!NewString(<< >>)) BY <1>1 DEF Str!SubString
    <2> HIDE DEF r
    <2>2. r.s = Str!NewString(<< >>) BY <2>1 DEF Str!Throws
    <2> QED BY <1>0, <2>2 DEF r
<1>2. CASE ~(first > s.size \/ last > s.size \/ first > last)
    <2>1. r = Str!Extend(Str!NewString(<< >>), text, room) BY <1>2 DEF Str!SubString
    <2>2. text \in Seq(Nat)
        <3>1. last <= s.size BY <1>2, TextIs
        <3> QED BY <3>1, PartOfText
    <2> HIDE DEF r, text
    <2>3. StringIs(r.s) BY <1>0, <2>1, <2>2, StringExtended
    <2> QED BY <2>3 DEF r
<1> QED BY <1>1, <1>2

\* Characters pushed one by one, up to the first that throws.
Pushes(word, room, pushed) ==
    /\ pushed[0] = Str!Ok(Str!NewString(<< >>))
    /\ \A k \in 1..Len(word) : pushed[k] = IF pushed[k - 1].ok
                                           THEN Str!PushBack(pushed[k - 1].s, word[k], room)
                                           ELSE pushed[k - 1]

LEMMA CharactersPushed ==
    ASSUME NEW word \in Seq(Nat), NEW room \in BOOLEAN, NEW pushed, Pushes(word, room, pushed)
    PROVE  StringIs(pushed[Len(word)].s)
<1> DEFINE Is(k) == StringIs(pushed[k].s) /\ pushed[k].ok \in BOOLEAN
           T == {k \in 0..Len(word) : Is(k)}
<1>0. Len(word) \in Nat /\ \A i \in 1..Len(word) : word[i] \in Nat BY LenProperties, ElementOfSeq
<1>1. 0 \in T
    <2>1. pushed[0].s = Str!NewString(<< >>) /\ pushed[0].ok = TRUE BY DEF Pushes, Str!Ok
    <2>2. StringIs(Str!NewString(<< >>)) BY NewStringIs, EmptySeq
    <2>3. Is(0) BY <2>1, <2>2
    <2> HIDE DEF Is
    <2> QED BY <1>0, <2>3
<1>2. ASSUME NEW k \in 0..Len(word) - 1, k \in T PROVE k + 1 \in T
    <2>1. k + 1 \in 1..Len(word) /\ k + 1 - 1 = k BY <1>0
    <2>2. pushed[k + 1] = IF pushed[k].ok THEN Str!PushBack(pushed[k].s, word[k + 1], room)
                          ELSE pushed[k]
        BY <2>1 DEF Pushes
    <2>3. StringIs(pushed[k].s) /\ pushed[k].ok \in BOOLEAN /\ word[k + 1] \in Nat
        BY <1>0, <1>2, <2>1
    <2>4. Is(k + 1) BY <2>2, <2>3, StringPushed
    <2> HIDE DEF Is
    <2> QED BY <2>1, <2>4
<1>3. Len(word) \in T
    <2> HIDE DEF T
    <2> QED BY <1>0, <1>1, <1>2, UpTo
<1> QED BY <1>3

LEMMA PushesOnce ==
    ASSUME NEW word \in Seq(Nat), NEW room \in BOOLEAN
    PROVE  LET pushed[k \in 0..Len(word)] ==
                   IF k = 0 THEN Str!Ok(Str!NewString(<< >>))
                   ELSE IF pushed[k - 1].ok THEN Str!PushBack(pushed[k - 1].s, word[k], room)
                   ELSE pushed[k - 1]
           IN Pushes(word, room, pushed)
<1> DEFINE Step(f, k) == IF k = 0 THEN Str!Ok(Str!NewString(<< >>))
                         ELSE IF f[k - 1].ok THEN Str!PushBack(f[k - 1].s, word[k], room)
                         ELSE f[k - 1]
           Some(m) == \E f : f = [k \in 0..m |-> Step(f, k)]
           T == {m \in 0..Len(word) : Some(m)}
           pushed == CHOOSE f : f = [k \in 0..Len(word) |-> Step(f, k)]
<1>0. Len(word) \in Nat BY LenProperties
<1>1. 0 \in T
    <2> DEFINE f == [k \in 0..0 |-> Str!Ok(Str!NewString(<< >>))]
    <2>1. f = [k \in 0..0 |-> Step(f, k)] OBVIOUS
    <2>2. Some(0) BY <2>1
    <2> HIDE DEF Some
    <2> QED BY <1>0, <2>2
<1>2. ASSUME NEW m \in 0..Len(word) - 1, m \in T PROVE m + 1 \in T
    <2>1. PICK f : f = [k \in 0..m |-> Step(f, k)] BY <1>2
    <2> DEFINE g == [k \in 0..m + 1 |-> Step(f, k)]
    <2>2. \A k \in 0..m : g[k] = f[k]
        <3> HIDE DEF Step
        <3> QED BY <2>1, SMTT(20)
    <2>3. \A k \in 0..m + 1 : k = 0 \/ k - 1 \in 0..m OBVIOUS
    <2>4. \A k \in 0..m + 1 : Step(g, k) = Step(f, k)
        <3> HIDE DEF g
        <3> QED BY <2>2, <2>3
    <2>5. g = [k \in 0..m + 1 |-> Step(g, k)]
        <3> HIDE DEF Step
        <3> QED BY <2>4
    <2>6. Some(m + 1) BY <2>5
    <2> HIDE DEF Some
    <2> QED BY <1>0, <2>6
<1>3. Len(word) \in T
    <2> HIDE DEF T
    <2> QED BY <1>0, <1>1, <1>2, UpTo
<1>4. Some(Len(word)) BY <1>3
<1>5. pushed = [k \in 0..Len(word) |-> Step(pushed, k)] BY <1>4, Zenon
<1>6. ASSUME NEW p, p = [k \in 0..Len(word) |-> Step(p, k)] PROVE Pushes(word, room, p)
    <2>1. \A k \in 0..Len(word) : p[k] = Step(p, k) BY <1>6
    <2>2. p[0] = Step(p, 0) BY <1>0, <2>1
    <2>3. p[0] = Str!Ok(Str!NewString(<< >>)) BY <2>2
    <2>4. ASSUME NEW k \in 1..Len(word)
          PROVE  p[k] = IF p[k - 1].ok THEN Str!PushBack(p[k - 1].s, word[k], room) ELSE p[k - 1]
        <3>1. k \in 0..Len(word) /\ k # 0 BY <1>0
        <3>2. p[k] = Step(p, k) BY <2>1, <3>1
        <3> QED BY <3>1, <3>2
    <2> QED BY <2>3, <2>4 DEF Pushes
<1>7. Pushes(word, room, pushed)
    <2> HIDE DEF pushed, Step
    <2> QED BY <1>5, <1>6
<1> QED BY <1>7

LEMMA ReverseSubStringIs ==
    ASSUME NEW s, StringIs(s), NEW first \in Nat, NEW last \in Nat, NEW room \in BOOLEAN
    PROVE  StringIs(Str!ReverseSubString(s, first, last, room).s)
<1> DEFINE r == Str!ReverseSubString(s, first, last, room)
           word == [i \in 1..last - first |-> s.bytes[last + 1 - i]]
           pushed[k \in 0..Len(word)] ==
               IF k = 0 THEN Str!Ok(Str!NewString(<< >>))
               ELSE IF pushed[k - 1].ok THEN Str!PushBack(pushed[k - 1].s, word[k], room)
               ELSE pushed[k - 1]
<1>0. StringIs(Str!NewString(<< >>)) BY NewStringIs, EmptySeq
<1>1. CASE first > s.size \/ last > s.size \/ first > last \/ s.size = 0
    <2>1. r = Str!Throws(Str!NewString(<< >>)) BY <1>1 DEF Str!ReverseSubString
    <2> HIDE DEF r
    <2>2. r.s = Str!NewString(<< >>) BY <2>1 DEF Str!Throws
    <2> QED BY <1>0, <2>2 DEF r
<1>2. CASE ~(first > s.size \/ last > s.size \/ first > last \/ s.size = 0)
    <2>1. r = pushed[Len(word)] BY <1>2 DEF Str!ReverseSubString
    <2>2. s.size \in Nat /\ last <= s.size /\ first <= last /\ \A i \in 1..s.size : s.bytes[i] \in Nat
        BY <1>2, TextIs
    <2>3. word \in Seq(Nat)
        <3>1. \A i \in 1..last - first : last + 1 - i \in 1..s.size BY <2>2
        <3>2. word \in [1..last - first -> Nat] BY <2>2, <3>1
        <3>3. last - first \in Nat BY <2>2
        <3>4. \A m \in Nat : [1..m -> Nat] \subseteq Seq(Nat) BY SeqDef
        <3> HIDE DEF word
        <3> QED BY <3>2, <3>3, <3>4
    <2> HIDE DEF word
    <2>4. Pushes(word, room, pushed) BY <2>3, PushesOnce
    <2> HIDE DEF pushed, r
    <2>5. StringIs(r.s) BY <2>1, <2>3, <2>4, CharactersPushed
    <2> QED BY <2>5 DEF r
<1> QED BY <1>1, <1>2

\* Letters of the other case are letters.
LEMMA CasedIs ==
    ASSUME NEW s, StringIs(s), NEW cased, \A i \in 1..s.size : cased[i] \in Nat,
           cased = [i \in DOMAIN s.bytes |-> IF i <= s.size THEN cased[i] ELSE s.bytes[i]]
    PROVE  StringIs([s EXCEPT !.bytes = cased])
<1>1. CASE s = Str!MovedFrom
    <2>1. DOMAIN s.bytes = {} /\ s.bytes = << >> BY <1>1 DEF Str!MovedFrom
    <2>2. cased = << >> BY <2>1
    <2>3. [s EXCEPT !.bytes = cased] = s BY <1>1, <2>2 DEF Str!MovedFrom
    <2> QED BY <2>3
<1>2. CASE BufferIs(s)
    <2>1. PICK w : w = [s EXCEPT !.bytes = cased] OBVIOUS
    <2>2. w = [null |-> FALSE, size |-> s.size, capacity |-> s.capacity, bytes |-> cased]
        BY <1>2, <2>1, BytesReplaced
    <2>3. /\ s.capacity \in Nat /\ s.size \in Nat /\ s.size <= s.capacity
          /\ s.bytes \in [1..s.capacity + 1 -> Nat \union {Str!Junk}]
          /\ s.bytes[s.size + 1] = Str!End0
        BY <1>2 DEF BufferIs, Bytes
    <2>5. DOMAIN cased = 1..s.capacity + 1
          /\ \A i \in 1..s.capacity + 1 : i > s.size => cased[i] = s.bytes[i]
        <3>1. DOMAIN s.bytes = 1..s.capacity + 1 BY <2>3
        <3>2. \A i \in 1..s.capacity + 1 :
                 cased[i] = IF i <= s.size THEN cased[i] ELSE s.bytes[i]
            BY <3>1
        <3> QED BY <2>3, <3>1, <3>2
    <2>6. cased \in [1..s.capacity + 1 -> Nat \union {Str!Junk}]
        <3>1. ASSUME NEW i \in 1..s.capacity + 1 PROVE cased[i] \in Nat \union {Str!Junk}
            <4>1. CASE i > s.size
                <5>1. cased[i] = s.bytes[i] BY <2>5, <4>1
                <5> QED BY <2>3, <5>1
            <4>2. CASE ~(i > s.size)
                <5>1. i \in 1..s.size BY <2>3, <4>2
                <5> QED BY <5>1
            <4> QED BY <4>1, <4>2
        <3>2. cased = [i \in 1..s.capacity + 1 |-> cased[i]] BY <2>5
        <3> QED BY <3>1, <3>2
    <2>7. cased[s.size + 1] = Str!End0 BY <2>3, <2>5
    <2>8. BufferIs(w) BY <2>2, <2>3, <2>6, <2>7, BufferWith
    <2> QED BY <2>1, <2>8 DEF StringIs
<1> QED BY <1>1, <1>2 DEF StringIs

LEMMA Uppercased == ASSUME NEW s, StringIs(s) PROVE StringIs(Str!Uppercase(s))
<1> DEFINE Letter(c) == IF c % 2 = 1 THEN c + 1 ELSE c
           cased == [i \in DOMAIN s.bytes |-> IF i <= s.size THEN Letter(s.bytes[i])
                                              ELSE s.bytes[i]]
<1>1. s.size \in Nat /\ \A i \in 1..s.size : s.bytes[i] \in Nat BY TextIs
<1>2. 1..s.size \subseteq DOMAIN s.bytes
    <2>1. CASE s = Str!MovedFrom BY <2>1 DEF Str!MovedFrom
    <2>2. CASE BufferIs(s) BY <2>2 DEF BufferIs, Bytes
    <2> QED BY <2>1, <2>2 DEF StringIs
<1>3. \A i \in 1..s.size : cased[i] = Letter(s.bytes[i])
    <2> HIDE DEF Letter
    <2> QED BY <1>1, <1>2
<1>4. \A i \in 1..s.size : cased[i] \in Nat
    <2> HIDE DEF cased
    <2> QED BY <1>1, <1>3
<1>5. cased = [i \in DOMAIN s.bytes |-> IF i <= s.size THEN cased[i] ELSE s.bytes[i]]
    <2> HIDE DEF Letter
    <2> QED OBVIOUS
<1>6. Str!Uppercase(s) = [s EXCEPT !.bytes = cased]
    BY DEF Str!Uppercase, Str!Cased
<1> HIDE DEF cased
<1> QED BY <1>4, <1>5, <1>6, CasedIs

LEMMA Lowercased == ASSUME NEW s, StringIs(s) PROVE StringIs(Str!Lowercase(s))
<1> DEFINE Letter(c) == IF c > 0 /\ c % 2 = 0 THEN c - 1 ELSE c
           cased == [i \in DOMAIN s.bytes |-> IF i <= s.size THEN Letter(s.bytes[i])
                                              ELSE s.bytes[i]]
<1>1. s.size \in Nat /\ \A i \in 1..s.size : s.bytes[i] \in Nat BY TextIs
<1>2. 1..s.size \subseteq DOMAIN s.bytes
    <2>1. CASE s = Str!MovedFrom BY <2>1 DEF Str!MovedFrom
    <2>2. CASE BufferIs(s) BY <2>2 DEF BufferIs, Bytes
    <2> QED BY <2>1, <2>2 DEF StringIs
<1>3. \A i \in 1..s.size : cased[i] = Letter(s.bytes[i])
    <2> HIDE DEF Letter
    <2> QED BY <1>1, <1>2
<1>4. \A i \in 1..s.size : cased[i] \in Nat
    <2> HIDE DEF cased
    <2> QED BY <1>1, <1>3
<1>5. cased = [i \in DOMAIN s.bytes |-> IF i <= s.size THEN cased[i] ELSE s.bytes[i]]
    <2> HIDE DEF Letter
    <2> QED OBVIOUS
<1>6. Str!Lowercase(s) = [s EXCEPT !.bytes = cased]
    BY DEF Str!Lowercase, Str!Cased
<1> HIDE DEF cased
<1> QED BY <1>4, <1>5, <1>6, CasedIs

\* r lists the places of a ring of n nodes in the direction of link, from the
\* sentinel to the sentinel; the nodes that are free link to the sentinel.
Row(link, r, n) ==
    /\ n \in Nat /\ r[0] = 0 /\ r[n + 1] = 0
    /\ \A i \in 1..n : r[i] \in ListNodes
    /\ \A i, j \in 1..n : r[i] = r[j] => i = j
    /\ \A i \in 0..n : link[r[i]] = r[i + 1]
    /\ \A m \in ListNodes : (\A i \in 1..n : r[i] # m) => link[m] = 0

\* The places of a row from the one at index i on.
Rest(r, n, i) == [k \in 1..n + 1 - i |-> r[i + k - 1]]

LEMMA RestIs ==
    ASSUME NEW link, NEW r, NEW n, Row(link, r, n), NEW i \in 1..n
    PROVE  <<r[i]>> \o Rest(r, n, i + 1) = Rest(r, n, i)
<1> DEFINE s == Rest(r, n, i + 1)
           t == Rest(r, n, i)
<1>1. n \in Nat /\ \A j \in 1..n : r[j] \in ListNodes BY DEF Row
<1>2. s \in Seq(ListNodes) /\ Len(s) = n - i /\ \A k \in 1..n - i : s[k] = r[i + k]
    <2>1. n - i \in Nat /\ n + 1 - (i + 1) = n - i BY <1>1
    <2>2. \A k \in 1..n - i : i + 1 + k - 1 = i + k /\ i + k \in 1..n BY <1>1
    <2>3. s = [k \in 1..n - i |-> r[i + k]] BY <2>1, <2>2 DEF Rest
    <2>4. s \in [1..n - i -> ListNodes] BY <1>1, <2>2, <2>3
    <2>5. s \in Seq(ListNodes) BY <2>1, <2>4, SeqDef
    <2> HIDE DEF s
    <2> QED BY <2>1, <2>3, <2>4, <2>5, LenProperties
<1>3. t \in Seq(ListNodes) /\ Len(t) = n + 1 - i /\ \A k \in 1..n + 1 - i : t[k] = r[i + k - 1]
    <2>1. n + 1 - i \in Nat BY <1>1
    <2>2. \A k \in 1..n + 1 - i : i + k - 1 \in 1..n BY <1>1
    <2>3. t = [k \in 1..n + 1 - i |-> r[i + k - 1]] BY DEF Rest
    <2>4. t \in [1..n + 1 - i -> ListNodes] BY <1>1, <2>2, <2>3
    <2>5. t \in Seq(ListNodes) BY <2>1, <2>4, SeqDef
    <2> HIDE DEF t
    <2> QED BY <2>1, <2>3, <2>4, <2>5, LenProperties
<1> HIDE DEF s, t
<1>4. <<r[i]>> \in Seq(ListNodes) /\ Len(<<r[i]>>) = 1 /\ <<r[i]>>[1] = r[i] BY <1>1
<1> DEFINE u == <<r[i]>> \o s
<1>5. u \in Seq(ListNodes) /\ Len(u) = 1 + (n - i)
      /\ \A k \in 1..1 + (n - i) : u[k] = IF k <= 1 THEN <<r[i]>>[k] ELSE s[k - 1]
    BY <1>2, <1>4, ConcatProperties
<1> HIDE DEF u
<1>6. Len(u) = Len(t) BY <1>1, <1>3, <1>5
<1>7. ASSUME NEW k \in 1..Len(u) PROVE u[k] = t[k]
    <2>1. k \in 1..1 + (n - i) /\ k \in 1..n + 1 - i BY <1>1, <1>5, <1>7
    <2>2. CASE k = 1
        <3>1. i + k - 1 = i BY <2>2
        <3> QED BY <1>3, <1>4, <1>5, <2>1, <2>2, <3>1
    <2>3. CASE k # 1
        <3>1. k - 1 \in 1..n - i /\ i + (k - 1) = i + k - 1 /\ ~(k <= 1) BY <1>1, <2>1, <2>3
        <3>2. u[k] = s[k - 1] BY <1>5, <2>1, <3>1
        <3>3. s[k - 1] = r[i + (k - 1)] BY <1>2, <3>1
        <3> QED BY <1>3, <2>1, <3>1, <3>2, <3>3
    <2> QED BY <2>2, <2>3
<1>8. u = t BY <1>3, <1>5, <1>6, <1>7, SeqEqual
<1> QED BY <1>8 DEF u, s, t

\* What follows a place: the paths there are, and the only one there is.
Follows(link, path) ==
    path = [m \in Ring!Places |-> IF m = Ring!Head0 THEN << >> ELSE <<m>> \o path[link[m]]]

LEMMA PathExists ==
    ASSUME NEW link, NEW r, NEW n, Row(link, r, n)
    PROVE  \E path : Follows(link, path)
<1> DEFINE At(m) == CHOOSE i \in 1..n : r[i] = m
           path == [m \in Ring!Places |-> IF m = Ring!Head0 THEN << >>
                                          ELSE IF \E i \in 1..n : r[i] = m THEN Rest(r, n, At(m))
                                          ELSE <<m>>]
<1>1. /\ n \in Nat /\ r[0] = 0 /\ r[n + 1] = 0
      /\ \A i \in 1..n : r[i] \in ListNodes
      /\ \A i, j \in 1..n : r[i] = r[j] => i = j
      /\ \A i \in 0..n : link[r[i]] = r[i + 1]
      /\ \A m \in ListNodes : (\A i \in 1..n : r[i] # m) => link[m] = 0
    BY DEF Row
<1>2. 0 \notin ListNodes BY SequenceAssumption
<1>3. \A i \in 1..n : At(r[i]) = i BY <1>1
<1>4. path[0] = << >> BY DEF Ring!Places, Ring!Head0
<1>5. \A i \in 1..n : path[r[i]] = Rest(r, n, i)
    <2> HIDE DEF At
    <2> QED BY <1>1, <1>2, <1>3 DEF Ring!Places, Ring!Head0
<1>6. \A m \in ListNodes : (\A i \in 1..n : r[i] # m) => path[m] = <<m>>
    <2> HIDE DEF At
    <2> QED BY <1>2 DEF Ring!Places, Ring!Head0
<1>7. DOMAIN path = Ring!Places OBVIOUS
<1>14. path = [m \in Ring!Places |-> path[m]] OBVIOUS
<1> HIDE DEF path, At
<1>8. Rest(r, n, n + 1) = << >>
    <2>1. 1..n + 1 - (n + 1) = {} BY <1>1
    <2> QED BY <2>1 DEF Rest
<1>9. \A i \in 1..n : path[r[i]] = <<r[i]>> \o path[link[r[i]]]
    <2> SUFFICES ASSUME NEW i \in 1..n PROVE path[r[i]] = <<r[i]>> \o path[link[r[i]]]
        OBVIOUS
    <2>1. i \in 0..n BY <1>1
    <2>2. link[r[i]] = r[i + 1] BY <1>1, <2>1
    <2>3. path[r[i + 1]] = Rest(r, n, i + 1)
        <3>1. CASE i = n
            BY <1>1, <1>4, <1>8, <3>1
        <3>2. CASE i # n
            <4>1. i + 1 \in 1..n BY <1>1, <3>2
            <4> QED BY <1>5, <4>1
        <3> QED BY <3>1, <3>2
    <2>4. <<r[i]>> \o Rest(r, n, i + 1) = Rest(r, n, i) BY RestIs
    <2> QED BY <1>5, <2>2, <2>3, <2>4
<1>10. ASSUME NEW m \in Ring!Places
       PROVE  path[m] = IF m = Ring!Head0 THEN << >> ELSE <<m>> \o path[link[m]]
    <2>1. CASE m = 0 BY <1>4, <2>1 DEF Ring!Head0
    <2>2. CASE m # 0 /\ \E i \in 1..n : r[i] = m
        <3>1. PICK i \in 1..n : r[i] = m BY <2>2
        <3>2. path[m] = <<m>> \o path[link[m]] BY <1>9, <3>1
        <3> QED BY <2>2, <3>2 DEF Ring!Head0
    <2>3. CASE m # 0 /\ \A i \in 1..n : r[i] # m
        <3>1. m \in ListNodes BY <2>3 DEF Ring!Places, Ring!Head0
        <3>2. link[m] = 0 /\ path[m] = <<m>> BY <1>1, <1>6, <2>3, <3>1
        <3>3. <<m>> \o << >> = <<m>>
            <4>1. <<m>> \in Seq(ListNodes) BY <3>1
            <4> QED BY <4>1, ConcatEmptySeq
        <3> QED BY <1>4, <2>3, <3>2, <3>3 DEF Ring!Head0
    <2> QED BY <2>1, <2>2, <2>3
<1>11. Follows(link, path) BY <1>10, <1>14 DEF Follows
<1> QED BY <1>11

LEMMA PathIs ==
    ASSUME NEW link, NEW r, NEW n, Row(link, r, n), NEW path, Follows(link, path)
    PROVE  path[r[1]] = Rest(r, n, 1)
<1> DEFINE Is(k) == path[r[n + 1 - k]] = Rest(r, n, n + 1 - k)
           T == {k \in 0..n : Is(k)}
<1>1. /\ n \in Nat /\ r[n + 1] = 0
      /\ \A i \in 1..n : r[i] \in ListNodes
      /\ \A i \in 0..n : link[r[i]] = r[i + 1]
    BY DEF Row
<1>2. 0 \notin ListNodes BY SequenceAssumption
<1>3. \A m \in Ring!Places :
         path[m] = IF m = Ring!Head0 THEN << >> ELSE <<m>> \o path[link[m]]
    BY DEF Follows
<1>4. 0 \in T
    <2>1. n + 1 - 0 = n + 1 BY <1>1
    <2>2. path[0] = << >> BY <1>3 DEF Ring!Places, Ring!Head0
    <2>3. Rest(r, n, n + 1) = << >>
        <3>1. 1..n + 1 - (n + 1) = {} BY <1>1
        <3> QED BY <3>1 DEF Rest
    <2>4. Is(0) BY <1>1, <2>1, <2>2, <2>3
    <2> HIDE DEF Is
    <2> QED BY <1>1, <2>4
<1>5. ASSUME NEW k \in 0..n - 1, k \in T PROVE k + 1 \in T
    <2>1. PICK i : i = n - k OBVIOUS
    <2>2. i \in 1..n /\ i \in 0..n /\ n + 1 - (k + 1) = i /\ n + 1 - k = i + 1 BY <1>1, <2>1
    <2>3. path[r[i + 1]] = Rest(r, n, i + 1) BY <1>5, <2>2
    <2>4. r[i] \in Ring!Places /\ r[i] # 0 /\ link[r[i]] = r[i + 1]
        BY <1>1, <1>2, <2>2 DEF Ring!Places
    <2>5. path[r[i]] = <<r[i]>> \o Rest(r, n, i + 1) BY <1>3, <2>3, <2>4 DEF Ring!Head0
    <2>6. path[r[i]] = Rest(r, n, i) BY <2>2, <2>5, RestIs
    <2>7. Is(k + 1) BY <2>2, <2>6
    <2>8. k + 1 \in 0..n BY <1>1
    <2> HIDE DEF Is
    <2> QED BY <2>7, <2>8
<1>6. n \in T
    <2> HIDE DEF T
    <2> QED BY <1>1, <1>4, <1>5, UpTo
<1>7. Is(n) /\ n + 1 - n = 1 BY <1>1, <1>6
<1> QED BY <1>7

\* Read along its links, a ring gives its nodes in their order.
LEMMA AlongRow ==
    ASSUME NEW link, NEW r, NEW n, Row(link, r, n)
    PROVE  Ring!Along(link, link[0]) = [k \in 1..n |-> r[k]]
<1> DEFINE path == CHOOSE f : f = [m \in Ring!Places |->
                        IF m = Ring!Head0 THEN << >> ELSE <<m>> \o f[link[m]]]
<1>1. Ring!Along(link, link[0]) = path[link[0]] BY DEF Ring!Along
<1>2. \E f : f = [m \in Ring!Places |-> IF m = Ring!Head0 THEN << >> ELSE <<m>> \o f[link[m]]]
    BY PathExists, Zenon DEF Follows
<1>3. Follows(link, path) BY <1>2, Zenon DEF Follows
<1>4. n \in Nat /\ link[r[0]] = r[0 + 1] /\ r[0] = 0 BY DEF Row
<1>5. link[0] = r[1] BY <1>4
<1> HIDE DEF path
<1>6. path[r[1]] = Rest(r, n, 1) BY <1>3, PathIs
<1>7. Rest(r, n, 1) = [k \in 1..n |-> r[k]]
    <2>1. n + 1 - 1 = n /\ \A k \in 1..n : 1 + k - 1 = k BY <1>4
    <2> QED BY <2>1 DEF Rest
<1> QED BY <1>1, <1>5, <1>6, <1>7

\* Both directions of a ring whose nodes r lists, and its elements.
Linked(l, r) ==
    /\ r \in [0..l.size + 1 -> Ring!Places] /\ r[0] = 0 /\ r[l.size + 1] = 0
    /\ \A i \in 1..l.size : r[i] \in ListNodes
    /\ \A i, j \in 1..l.size : r[i] = r[j] => i = j
    /\ \A i \in 0..l.size : l.next[r[i]] = r[i + 1] /\ l.prev[r[i + 1]] = r[i]
    /\ l.nodes = {r[i] : i \in 1..l.size}
    /\ \A m \in ListNodes \ l.nodes : l.next[m] = 0 /\ l.prev[m] = 0
Ringed(l) ==
    /\ l = [owner |-> l.owner, size |-> l.size, nodes |-> l.nodes, data |-> l.data,
            next |-> l.next, prev |-> l.prev]
    /\ l.size \in Nat /\ l.data \in [ListNodes -> Nat]
    /\ l.next \in [Ring!Places -> Ring!Places] /\ l.prev \in [Ring!Places -> Ring!Places]
RingIs(l) == Ringed(l) /\ \E r : Linked(l, r)

LEMMA Forward ==
    ASSUME NEW l, Ringed(l), NEW r, Linked(l, r)
    PROVE  Row(l.next, r, l.size)
<1> QED BY DEF Ringed, Linked, Row

LEMMA Backward ==
    ASSUME NEW l, Ringed(l), NEW r, Linked(l, r)
    PROVE  Row(l.prev, [i \in 0..l.size + 1 |-> r[l.size + 1 - i]], l.size)
<1> DEFINE n == l.size
           b == [i \in 0..n + 1 |-> r[n + 1 - i]]
<1>1. /\ n \in Nat /\ r[0] = 0 /\ r[n + 1] = 0
      /\ \A i \in 1..n : r[i] \in ListNodes
      /\ \A i, j \in 1..n : r[i] = r[j] => i = j
      /\ \A i \in 0..n : l.prev[r[i + 1]] = r[i]
      /\ l.nodes = {r[i] : i \in 1..n}
      /\ \A m \in ListNodes \ l.nodes : l.prev[m] = 0
    BY DEF Ringed, Linked
<1> HIDE DEF n
<1>2. \A i \in 0..n + 1 : b[i] = r[n + 1 - i] OBVIOUS
<1> HIDE DEF b
<1>3. b[0] = 0 /\ b[n + 1] = 0
    <2>1. n + 1 - 0 = n + 1 /\ n + 1 - (n + 1) = 0 /\ 0 \in 0..n + 1 /\ n + 1 \in 0..n + 1 BY <1>1
    <2> QED BY <1>1, <1>2, <2>1
<1>4. \A i \in 1..n : n + 1 - i \in 1..n /\ b[i] = r[n + 1 - i] BY <1>1, <1>2
<1>5. \A i \in 1..n : b[i] \in ListNodes BY <1>1, <1>4
<1>6. \A i, j \in 1..n : b[i] = b[j] => i = j
    <2> SUFFICES ASSUME NEW i \in 1..n, NEW j \in 1..n, b[i] = b[j] PROVE i = j
        OBVIOUS
    <2>1. n + 1 - i = n + 1 - j BY <1>1, <1>4
    <2> QED BY <1>1, <2>1
<1>7. \A i \in 0..n : l.prev[b[i]] = b[i + 1]
    <2> SUFFICES ASSUME NEW i \in 0..n PROVE l.prev[b[i]] = b[i + 1]
        OBVIOUS
    <2>1. PICK j : j = n - i OBVIOUS
    <2>2. j \in 0..n /\ n + 1 - i = j + 1 /\ n + 1 - (i + 1) = j /\ i \in 0..n + 1
          /\ i + 1 \in 0..n + 1
        BY <1>1, <2>1
    <2> QED BY <1>1, <1>2, <2>2
<1>8. \A m \in ListNodes : (\A i \in 1..n : b[i] # m) => l.prev[m] = 0
    <2> SUFFICES ASSUME NEW m \in ListNodes, \A i \in 1..n : b[i] # m PROVE l.prev[m] = 0
        OBVIOUS
    <2>1. ASSUME NEW i \in 1..n PROVE r[i] # m
        <3>1. n + 1 - i \in 1..n /\ n + 1 - (n + 1 - i) = i BY <1>1
        <3>2. b[n + 1 - i] = r[i] BY <1>4, <3>1
        <3> QED BY <3>1, <3>2
    <2>2. m \notin l.nodes BY <1>1, <2>1
    <2> QED BY <1>1, <2>2
<1>9. Row(l.prev, b, n) BY <1>1, <1>3, <1>5, <1>6, <1>7, <1>8 DEF Row
<1> QED BY <1>9 DEF b, n

\* The order is r's, and there are as many nodes as the list counts.
LEMMA OrderIs ==
    ASSUME NEW l, Ringed(l), NEW r, Linked(l, r)
    PROVE  /\ Ring!Order(l) = [k \in 1..l.size |-> r[k]]
           /\ Ring!Order(l) \in Seq(ListNodes) /\ Len(Ring!Order(l)) = l.size
           /\ DOMAIN Ring!Order(l) = 1..l.size
           /\ IsFiniteSet(l.nodes) /\ Cardinality(l.nodes) = l.size
<1>1. Ring!Order(l) = [k \in 1..l.size |-> r[k]] BY Forward, AlongRow DEF Ring!Order, Ring!Head0
<1>2. /\ l.size \in Nat /\ \A i \in 1..l.size : r[i] \in ListNodes
      /\ \A i, j \in 1..l.size : r[i] = r[j] => i = j
      /\ l.nodes = {r[i] : i \in 1..l.size}
    BY DEF Ringed, Linked
<1> DEFINE order == [k \in 1..l.size |-> r[k]]
<1>3. order \in [1..l.size -> ListNodes] BY <1>2
<1>4. order \in Seq(ListNodes) BY <1>2, <1>3, SeqDef
<1>5. Len(order) = l.size /\ DOMAIN order = 1..l.size
    <2>1. DOMAIN order = 1..l.size OBVIOUS
    <2> HIDE DEF order
    <2>2. Len(order) \in Nat /\ DOMAIN order = 1..Len(order) BY <1>4, LenProperties
    <2> QED BY <1>2, <2>1, <2>2
<1>6. order \in Bijection(1..l.size, l.nodes)
    <2>1. order \in [1..l.size -> l.nodes] BY <1>2
    <2>2. \A a, b \in 1..l.size : order[a] = order[b] => a = b BY <1>2
    <2>3. \A t \in l.nodes : \E s \in 1..l.size : order[s] = t BY <1>2
    <2> HIDE DEF order
    <2> QED BY <2>1, <2>2, <2>3 DEF Bijection, Injection, Surjection, IsInjective
<1>7. ExistsBijection(1..l.size, l.nodes) BY <1>6 DEF ExistsBijection
<1>8. IsFiniteSet(1..l.size) /\ Cardinality(1..l.size) = l.size
    <2>1. l.size \in Nat BY <1>2
    <2> QED BY <2>1, CountUpTo, Zenon
<1>9. IsFiniteSet(l.nodes) /\ Cardinality(l.nodes) = l.size BY <1>7, <1>8, FS_Bijection
<1> HIDE DEF order
<1>10. Ring!Order(l) = order BY <1>1 DEF order
<1> QED BY <1>1, <1>4, <1>5, <1>9, <1>10

LEMMA RingExactHolds == ASSUME NEW l, RingIs(l) PROVE Ring!RingExact(l)
<1>1. PICK r : Linked(l, r) BY DEF RingIs
<1>2. Ringed(l) BY DEF RingIs
<1> DEFINE forward == Ring!Order(l)
           n == l.size
           b == [i \in 0..n + 1 |-> r[n + 1 - i]]
           backward == Ring!Along(l.prev, l.prev[Ring!Head0])
<1>3. /\ forward = [k \in 1..n |-> r[k]] /\ Len(forward) = n /\ DOMAIN forward = 1..n
      /\ Cardinality(l.nodes) = n
    BY <1>1, <1>2, OrderIs
<1>4. backward = [k \in 1..n |-> b[k]]
    <2>1. Row(l.prev, b, n) BY <1>1, <1>2, Backward
    <2> HIDE DEF b, n
    <2> QED BY <2>1, AlongRow DEF Ring!Head0
<1>5. n \in Nat /\ l.nodes = {r[i] : i \in 1..n} BY <1>1, <1>2 DEF Ringed, Linked
<1> HIDE DEF forward, n, backward
<1>6. \A k \in 1..n : b[k] = r[n + 1 - k] BY <1>5
<1> HIDE DEF b
<1>7. backward = [k \in 1..n |-> r[n + 1 - k]] BY <1>4, <1>6
<1>8. Len(backward) = n
    <2>1. \A k \in 1..n : n + 1 - k \in 1..n BY <1>5
    <2>2. backward \in [1..n -> l.nodes] BY <1>5, <1>7, <2>1
    <2>3. backward \in Seq(l.nodes) BY <1>5, <2>2, SeqDef
    <2>4. Len(backward) \in Nat /\ DOMAIN backward = 1..Len(backward) BY <2>3, LenProperties
    <2>5. DOMAIN backward = 1..n BY <1>7
    <2> QED BY <1>5, <2>4, <2>5
<1>9. forward = [i \in 1..Len(backward) |-> backward[Len(backward) + 1 - i]]
    <2>2. \A i \in 1..n : n + 1 - i \in 1..n /\ n + 1 - (n + 1 - i) = i BY <1>5
    <2>3. \A i \in 1..n : backward[n + 1 - i] = r[i] BY <1>7, <2>2
    <2> QED BY <1>3, <1>8, <2>3
<1>10. Ring!Nodes(forward) = l.nodes BY <1>3, <1>5 DEF Ring!Nodes
<1>12. LET back == Ring!Along(l.prev, l.prev[Ring!Head0])
       IN /\ Ring!Order(l) = [i \in 1..Len(back) |-> back[Len(back) + 1 - i]]
          /\ Ring!Nodes(Ring!Order(l)) = l.nodes
          /\ Len(Ring!Order(l)) = Cardinality(l.nodes) /\ l.size = Len(Ring!Order(l))
    BY <1>3, <1>9, <1>10 DEF forward, backward, n
<1>13. Ring!Cardinality(l.nodes) = Cardinality(l.nodes) BY DEF Ring!Cardinality, Cardinality
<1> QED BY <1>12, <1>13, Zenon DEF Ring!RingExact

\* The elements in their order.
LEMMA RingContents ==
    ASSUME NEW l, RingIs(l)
    PROVE  Ring!Contents(l) \in Seq(Nat) /\ Len(Ring!Contents(l)) = l.size
<1>1. PICK r : Linked(l, r) BY DEF RingIs
<1>2. Ringed(l) BY DEF RingIs
<1>3. /\ Ring!Order(l) \in Seq(ListNodes) /\ Len(Ring!Order(l)) = l.size
      /\ DOMAIN Ring!Order(l) = 1..l.size
    BY <1>1, <1>2, OrderIs
<1>4. l.size \in Nat /\ l.data \in [ListNodes -> Nat] BY <1>2 DEF Ringed
<1>5. \A i \in 1..l.size : Ring!Order(l)[i] \in ListNodes BY <1>3, ElementOfSeq
<1> DEFINE c == [i \in 1..l.size |-> l.data[Ring!Order(l)[i]]]
<1>6. Ring!Contents(l) = c BY <1>3 DEF Ring!Contents
<1>7. c \in [1..l.size -> Nat] BY <1>4, <1>5
<1> HIDE DEF c
<1>8. c \in Seq(Nat) BY <1>4, <1>7, SeqDef
<1>9. Len(c) \in Nat /\ DOMAIN c = 1..Len(c) /\ DOMAIN c = 1..l.size BY <1>7, <1>8, LenProperties
<1> QED BY <1>4, <1>6, <1>8, <1>9

\* A node linked in before the one at index j.
LEMMA LinkedIn ==
    ASSUME NEW l, Ringed(l), NEW r, Linked(l, r), NEW j \in 1..l.size + 1,
           NEW n \in ListNodes \ l.nodes, NEW x \in Nat
    PROVE  RingIs([owner |-> l.owner, size |-> l.size + 1, nodes |-> l.nodes \union {n},
                   data |-> [l.data EXCEPT ![n] = x],
                   next |-> [l.next EXCEPT ![n] = r[j], ![r[j - 1]] = n],
                   prev |-> [l.prev EXCEPT ![n] = r[j - 1], ![r[j]] = n]])
<1> DEFINE m == l.size
           q == [i \in 0..m + 2 |-> IF i < j THEN r[i] ELSE IF i = j THEN n ELSE r[i - 1]]
           next == [l.next EXCEPT ![n] = r[j], ![r[j - 1]] = n]
           prev == [l.prev EXCEPT ![n] = r[j - 1], ![r[j]] = n]
           data == [l.data EXCEPT ![n] = x]
           w == [owner |-> l.owner, size |-> m + 1, nodes |-> l.nodes \union {n},
                 data |-> data, next |-> next, prev |-> prev]
<1>1. /\ m \in Nat /\ r[0] = 0 /\ r[m + 1] = 0
      /\ \A i \in 0..m + 1 : r[i] \in Ring!Places
      /\ \A i \in 1..m : r[i] \in ListNodes
      /\ \A i, k \in 1..m : r[i] = r[k] => i = k
      /\ \A i \in 0..m : l.next[r[i]] = r[i + 1] /\ l.prev[r[i + 1]] = r[i]
      /\ l.nodes = {r[i] : i \in 1..m}
      /\ \A u \in ListNodes \ l.nodes : l.next[u] = 0 /\ l.prev[u] = 0
      /\ l.data \in [ListNodes -> Nat]
      /\ l.next \in [Ring!Places -> Ring!Places] /\ l.prev \in [Ring!Places -> Ring!Places]
    BY DEF Ringed, Linked
<1>2. /\ 0 \notin ListNodes /\ ListNodes \subseteq Ring!Places /\ 0 \in Ring!Places
      /\ j \in Nat /\ 1 <= j /\ j <= m + 1 /\ n \in ListNodes /\ n \notin l.nodes
    BY <1>1, SequenceAssumption DEF Ring!Places, Ring!Head0
<1> HIDE DEF m
<1>3. \A i \in 0..m + 1 : r[i] # n BY <1>1, <1>2
<1>4. \A i, k \in 0..m : r[i] = r[k] => i = k
    <2> SUFFICES ASSUME NEW i \in 0..m, NEW k \in 0..m, r[i] = r[k] PROVE i = k
        OBVIOUS
    <2>1. (i = 0 \/ i \in 1..m) /\ (k = 0 \/ k \in 1..m) BY <1>1
    <2> QED BY <1>1, <1>2, <2>1
<1>5. \A i, k \in 1..m + 1 : r[i] = r[k] => i = k
    <2> SUFFICES ASSUME NEW i \in 1..m + 1, NEW k \in 1..m + 1, r[i] = r[k] PROVE i = k
        OBVIOUS
    <2>1. (i = m + 1 \/ i \in 1..m) /\ (k = m + 1 \/ k \in 1..m) BY <1>1
    <2> QED BY <1>1, <1>2, <2>1
<1>6. j - 1 \in 0..m /\ j \in 1..m + 1 /\ j \in 0..m + 1 /\ j - 1 \in 0..m + 1 /\ j - 1 + 1 = j
    BY <1>1, <1>2
<1>7. next \in [Ring!Places -> Ring!Places] /\ prev \in [Ring!Places -> Ring!Places]
    BY <1>1, <1>2, <1>6
<1>8. next[n] = r[j] /\ next[r[j - 1]] = n
      /\ \A i \in 0..m : i # j - 1 => next[r[i]] = r[i + 1]
    <2>1. next[r[j - 1]] = n BY <1>1, <1>6
    <2>2. next[n] = r[j] BY <1>1, <1>2, <1>3, <1>6
    <2>3. ASSUME NEW i \in 0..m, i # j - 1 PROVE next[r[i]] = r[i + 1]
        <3>1. r[i] # r[j - 1] /\ r[i] # n /\ r[i] \in Ring!Places
            BY <1>1, <1>3, <1>4, <1>6, <2>3
        <3> QED BY <1>1, <3>1
    <2> QED BY <2>1, <2>2, <2>3
<1>9. prev[n] = r[j - 1] /\ prev[r[j]] = n
      /\ \A i \in 0..m : i # j - 1 => prev[r[i + 1]] = r[i]
    <2>1. prev[r[j]] = n BY <1>1, <1>6
    <2>2. prev[n] = r[j - 1] BY <1>1, <1>2, <1>3, <1>6
    <2>3. ASSUME NEW i \in 0..m, i # j - 1 PROVE prev[r[i + 1]] = r[i]
        <3>1. i + 1 \in 1..m + 1 /\ i + 1 # j /\ i + 1 \in 0..m + 1 BY <1>1, <1>6, <2>3
        <3>2. r[i + 1] # r[j] /\ r[i + 1] # n /\ r[i + 1] \in Ring!Places
            BY <1>1, <1>3, <1>5, <1>6, <3>1
        <3> QED BY <1>1, <3>2
    <2> QED BY <2>1, <2>2, <2>3
<1>10. \A u \in ListNodes \ (l.nodes \union {n}) : next[u] = 0 /\ prev[u] = 0
    <2> SUFFICES ASSUME NEW u \in ListNodes \ (l.nodes \union {n}) PROVE next[u] = 0 /\ prev[u] = 0
        OBVIOUS
    <2>1. \A i \in 0..m + 1 : r[i] # u
        <3>1. \A i \in 0..m + 1 : i = 0 \/ i = m + 1 \/ i \in 1..m BY <1>1
        <3> QED BY <1>1, <1>2, <3>1
    <2>2. u # n /\ u # r[j] /\ u # r[j - 1] /\ u \in Ring!Places BY <1>2, <1>6, <2>1
    <2> QED BY <1>1, <2>2
<1> HIDE DEF next, prev
<1>11. \A i \in 0..m + 2 : q[i] = IF i < j THEN r[i] ELSE IF i = j THEN n ELSE r[i - 1]
    OBVIOUS
<1>12. q \in [0..m + 2 -> Ring!Places]
    <2>1. ASSUME NEW i \in 0..m + 2
          PROVE  (IF i < j THEN r[i] ELSE IF i = j THEN n ELSE r[i - 1]) \in Ring!Places
        <3>1. CASE i < j
            <4>1. i \in 0..m + 1 BY <1>1, <1>2, <3>1
            <4> QED BY <1>1, <3>1, <4>1
        <3>2. CASE i = j BY <1>2, <3>2
        <3>3. CASE i > j
            <4>1. i - 1 \in 0..m + 1 BY <1>1, <1>2, <3>3
            <4> QED BY <1>1, <3>3, <4>1
        <3> QED BY <1>2, <3>1, <3>2, <3>3
    <2> QED BY <2>1
<1> HIDE DEF q
<1>13. q[0] = 0 /\ q[m + 2] = 0
    <2>1. 0 \in 0..m + 2 /\ m + 2 \in 0..m + 2 /\ 0 < j /\ ~(m + 2 < j) /\ m + 2 # j
          /\ m + 2 - 1 = m + 1
        BY <1>1, <1>2
    <2> QED BY <1>1, <1>11, <2>1
<1>14. \A i \in 1..m + 1 : q[i] \in l.nodes \union {n}
    <2> SUFFICES ASSUME NEW i \in 1..m + 1 PROVE q[i] \in l.nodes \union {n}
        OBVIOUS
    <2>0. i \in 0..m + 2 BY <1>1
    <2>1. CASE i < j
        <3>1. i \in 1..m /\ q[i] = r[i] BY <1>1, <1>2, <1>11, <2>0, <2>1
        <3> QED BY <1>1, <3>1
    <2>2. CASE i = j BY <1>2, <1>11, <2>0, <2>2
    <2>3. CASE i > j
        <3>1. i - 1 \in 1..m /\ q[i] = r[i - 1] BY <1>1, <1>2, <1>11, <2>0, <2>3
        <3> QED BY <1>1, <3>1
    <2> QED BY <1>2, <2>1, <2>2, <2>3
<1>15. l.nodes \union {n} \subseteq {q[i] : i \in 1..m + 1}
    <2> SUFFICES ASSUME NEW u \in l.nodes \union {n} PROVE \E i \in 1..m + 1 : q[i] = u
        OBVIOUS
    <2>1. CASE u = n
        <3>1. j \in 1..m + 1 /\ j \in 0..m + 2 BY <1>1, <1>2
        <3>2. q[j] = n BY <1>2, <1>11, <3>1
        <3> QED BY <2>1, <3>1, <3>2
    <2>2. CASE u # n
        <3>1. PICK i \in 1..m : r[i] = u BY <1>1, <2>2
        <3>2. CASE i < j
            <4>1. i \in 1..m + 1 /\ i \in 0..m + 2 BY <1>1
            <4>2. q[i] = r[i] BY <1>11, <3>2, <4>1
            <4> QED BY <3>1, <4>1, <4>2
        <3>3. CASE ~(i < j)
            <4>1. i + 1 \in 1..m + 1 /\ i + 1 \in 0..m + 2 /\ ~(i + 1 < j) /\ i + 1 # j
                  /\ i + 1 - 1 = i
                BY <1>1, <1>2, <3>3
            <4>2. q[i + 1] = r[i] BY <1>11, <4>1
            <4> QED BY <3>1, <4>1, <4>2
        <3> QED BY <3>2, <3>3
    <2> QED BY <2>1, <2>2
<1>16. \A i, k \in 1..m + 1 : i < k => q[i] # q[k]
    <2> SUFFICES ASSUME NEW i \in 1..m + 1, NEW k \in 1..m + 1, i < k PROVE q[i] # q[k]
        OBVIOUS
    <2>0. i \in 0..m + 2 /\ k \in 0..m + 2 BY <1>1
    <2>1. q[i] = (IF i < j THEN r[i] ELSE IF i = j THEN n ELSE r[i - 1])
          /\ q[k] = (IF k < j THEN r[k] ELSE IF k = j THEN n ELSE r[k - 1])
        BY <1>11, <2>0
    <2>4. \A u \in 1..m : r[u] # n BY <1>1, <1>3
    <2>2. CASE k <= j
        <3>1. i \in 1..m /\ q[i] = r[i] BY <1>1, <1>2, <2>1, <2>2
        <3>2. CASE k = j BY <2>1, <2>4, <3>1, <3>2
        <3>3. CASE k # j
            <4>1. k \in 1..m /\ q[k] = r[k] BY <1>1, <1>2, <2>1, <2>2, <3>3
            <4> QED BY <1>1, <3>1, <4>1
        <3> QED BY <3>2, <3>3
    <2>3. CASE k > j
        <3>1. k - 1 \in 1..m /\ q[k] = r[k - 1] BY <1>1, <1>2, <2>1, <2>3
        <3>2. CASE i = j BY <2>1, <2>4, <3>1, <3>2
        <3>3. CASE i < j
            <4>1. i \in 1..m /\ q[i] = r[i] /\ i # k - 1 BY <1>1, <1>2, <2>1, <2>3, <3>3
            <4> QED BY <1>1, <3>1, <4>1
        <3>4. CASE i > j
            <4>1. i - 1 \in 1..m /\ q[i] = r[i - 1] /\ i - 1 # k - 1
                BY <1>1, <1>2, <2>1, <2>3, <3>4
            <4> QED BY <1>1, <3>1, <4>1
        <3> QED BY <1>2, <3>2, <3>3, <3>4
    <2> QED BY <1>2, <2>2, <2>3
<1>26. \A i, k \in 1..m + 1 : q[i] = q[k] => i = k
    <2> SUFFICES ASSUME NEW i \in 1..m + 1, NEW k \in 1..m + 1, q[i] = q[k] PROVE i = k
        OBVIOUS
    <2>1. ~(i < k) /\ ~(k < i) BY <1>16
    <2> QED BY <1>1, <2>1
<1>17. \A i \in 0..m + 1 : next[q[i]] = q[i + 1] /\ prev[q[i + 1]] = q[i]
    <2> SUFFICES ASSUME NEW i \in 0..m + 1
                 PROVE  next[q[i]] = q[i + 1] /\ prev[q[i + 1]] = q[i]
        OBVIOUS
    <2>0. i \in 0..m + 2 /\ i + 1 \in 0..m + 2 BY <1>1
    <2>1. q[i] = (IF i < j THEN r[i] ELSE IF i = j THEN n ELSE r[i - 1])
          /\ q[i + 1] = (IF i + 1 < j THEN r[i + 1] ELSE IF i + 1 = j THEN n ELSE r[i + 1 - 1])
        BY <1>11, <2>0
    <2>2. CASE i + 1 < j
        <3>1. i \in 0..m /\ i # j - 1 BY <1>1, <1>2, <2>2
        <3>2. q[i] = r[i] /\ q[i + 1] = r[i + 1] BY <1>2, <2>1, <2>2
        <3> QED BY <1>8, <1>9, <3>1, <3>2
    <2>3. CASE i + 1 = j
        <3>1. i = j - 1 BY <1>2, <2>3
        <3>2. q[i] = r[j - 1] /\ q[i + 1] = n BY <1>2, <2>1, <2>3, <3>1
        <3> QED BY <1>8, <1>9, <3>2
    <2>4. CASE i = j
        <3>1. q[i] = n /\ q[i + 1] = r[j] BY <1>2, <2>1, <2>4
        <3> QED BY <1>8, <1>9, <3>1
    <2>5. CASE i > j
        <3>1. i - 1 \in 0..m /\ i - 1 # j - 1 /\ i - 1 + 1 = i /\ i + 1 - 1 = i
            BY <1>1, <1>2, <2>5
        <3>2. q[i] = r[i - 1] /\ q[i + 1] = r[i] BY <1>2, <2>1, <2>5, <3>1
        <3> QED BY <1>8, <1>9, <3>1, <3>2
    <2> QED BY <1>2, <2>2, <2>3, <2>4, <2>5
<1>18. /\ w.owner = l.owner /\ w.size = m + 1 /\ w.nodes = l.nodes \union {n}
       /\ w.data = data /\ w.next = next /\ w.prev = prev
       /\ w = [owner |-> w.owner, size |-> w.size, nodes |-> w.nodes, data |-> w.data,
               next |-> w.next, prev |-> w.prev]
    OBVIOUS
<1>19. data \in [ListNodes -> Nat] BY <1>1, <1>2
<1> HIDE DEF w, data
<1>20. Ringed(w) BY <1>1, <1>7, <1>18, <1>19 DEF Ringed
<1>21. l.nodes \union {n} \subseteq ListNodes BY <1>1, <1>2
<1>22. m + 1 + 1 = m + 2 BY <1>1
<1>23. l.nodes \union {n} = {q[i] : i \in 1..m + 1} BY <1>14, <1>15
<1>24. Linked(w, q) BY <1>10, <1>12, <1>13, <1>14, <1>26, <1>17, <1>18, <1>21, <1>22, <1>23 DEF Linked
<1>25. RingIs(w) BY <1>20, <1>24 DEF RingIs
<1> QED BY <1>25 DEF w, m, data, next, prev

\* The node at index j linked out.
LEMMA LinkedOut ==
    ASSUME NEW l, Ringed(l), NEW r, Linked(l, r), NEW j \in 1..l.size
    PROVE  RingIs([owner |-> l.owner, size |-> l.size - 1, nodes |-> l.nodes \ {r[j]},
                   data |-> [l.data EXCEPT ![r[j]] = 0],
                   next |-> [l.next EXCEPT ![r[j - 1]] = r[j + 1], ![r[j]] = 0],
                   prev |-> [l.prev EXCEPT ![r[j + 1]] = r[j - 1], ![r[j]] = 0]])
<1> DEFINE m == l.size
           n == r[j]
           q == [i \in 0..m |-> IF i < j THEN r[i] ELSE r[i + 1]]
           next == [l.next EXCEPT ![r[j - 1]] = r[j + 1], ![n] = 0]
           prev == [l.prev EXCEPT ![r[j + 1]] = r[j - 1], ![n] = 0]
           data == [l.data EXCEPT ![n] = 0]
           w == [owner |-> l.owner, size |-> m - 1, nodes |-> l.nodes \ {n},
                 data |-> data, next |-> next, prev |-> prev]
<1>1. /\ m \in Nat /\ r[0] = 0 /\ r[m + 1] = 0
      /\ \A i \in 0..m + 1 : r[i] \in Ring!Places
      /\ \A i \in 1..m : r[i] \in ListNodes
      /\ \A i, k \in 1..m : r[i] = r[k] => i = k
      /\ \A i \in 0..m : l.next[r[i]] = r[i + 1] /\ l.prev[r[i + 1]] = r[i]
      /\ l.nodes = {r[i] : i \in 1..m}
      /\ \A u \in ListNodes \ l.nodes : l.next[u] = 0 /\ l.prev[u] = 0
      /\ l.data \in [ListNodes -> Nat]
      /\ l.next \in [Ring!Places -> Ring!Places] /\ l.prev \in [Ring!Places -> Ring!Places]
    BY DEF Ringed, Linked
<1>2. /\ 0 \notin ListNodes /\ ListNodes \subseteq Ring!Places /\ 0 \in Ring!Places
      /\ j \in Nat /\ 1 <= j /\ j <= m /\ n \in ListNodes /\ n = r[j]
    BY <1>1, SequenceAssumption DEF Ring!Places, Ring!Head0
<1> HIDE DEF m, n
<1>4. \A i, k \in 0..m : r[i] = r[k] => i = k
    <2> SUFFICES ASSUME NEW i \in 0..m, NEW k \in 0..m, r[i] = r[k] PROVE i = k
        OBVIOUS
    <2>1. (i = 0 \/ i \in 1..m) /\ (k = 0 \/ k \in 1..m) BY <1>1
    <2> QED BY <1>1, <1>2, <2>1
<1>5. \A i, k \in 1..m + 1 : r[i] = r[k] => i = k
    <2> SUFFICES ASSUME NEW i \in 1..m + 1, NEW k \in 1..m + 1, r[i] = r[k] PROVE i = k
        OBVIOUS
    <2>1. (i = m + 1 \/ i \in 1..m) /\ (k = m + 1 \/ k \in 1..m) BY <1>1
    <2> QED BY <1>1, <1>2, <2>1
<1>6. /\ j - 1 \in 0..m /\ j + 1 \in 1..m + 1 /\ j \in 0..m /\ j \in 1..m + 1
      /\ j - 1 \in 0..m + 1 /\ j + 1 \in 0..m + 1 /\ j - 1 # j /\ j + 1 # j
    BY <1>1, <1>2
<1>3. r[j - 1] # n /\ r[j + 1] # n BY <1>2, <1>4, <1>5, <1>6
<1>7. next \in [Ring!Places -> Ring!Places] /\ prev \in [Ring!Places -> Ring!Places]
    BY <1>1, <1>2, <1>6
<1>8. next[r[j - 1]] = r[j + 1] /\ \A i \in 0..m : i # j - 1 /\ i # j => next[r[i]] = r[i + 1]
    <2>1. next[r[j - 1]] = r[j + 1] BY <1>1, <1>2, <1>3, <1>6
    <2>3. ASSUME NEW i \in 0..m, i # j - 1, i # j PROVE next[r[i]] = r[i + 1]
        <3>1. r[i] # r[j - 1] /\ r[i] # n /\ r[i] \in Ring!Places
            BY <1>1, <1>2, <1>4, <1>6, <2>3
        <3> QED BY <1>1, <3>1
    <2> QED BY <2>1, <2>3
<1>9. prev[r[j + 1]] = r[j - 1] /\ \A i \in 0..m : i # j - 1 /\ i # j => prev[r[i + 1]] = r[i]
    <2>1. prev[r[j + 1]] = r[j - 1] BY <1>1, <1>2, <1>3, <1>6
    <2>3. ASSUME NEW i \in 0..m, i # j - 1, i # j PROVE prev[r[i + 1]] = r[i]
        <3>1. i + 1 \in 1..m + 1 /\ i + 1 # j /\ i + 1 # j + 1 /\ i + 1 \in 0..m + 1
            BY <1>1, <1>2, <2>3
        <3>2. r[i + 1] # r[j + 1] /\ r[i + 1] # n /\ r[i + 1] \in Ring!Places
            BY <1>1, <1>2, <1>5, <1>6, <3>1
        <3> QED BY <1>1, <3>2
    <2> QED BY <2>1, <2>3
<1>10. \A u \in ListNodes \ (l.nodes \ {n}) : next[u] = 0 /\ prev[u] = 0
    <2> SUFFICES ASSUME NEW u \in ListNodes \ (l.nodes \ {n}) PROVE next[u] = 0 /\ prev[u] = 0
        OBVIOUS
    <2>0. u \in Ring!Places BY <1>2
    <2>1. CASE u = n BY <1>1, <2>0, <2>1
    <2>2. CASE u # n
        <3>0. u \notin l.nodes BY <2>2
        <3>1. \A i \in 0..m + 1 : r[i] # u
            <4>1. \A i \in 0..m + 1 : i = 0 \/ i = m + 1 \/ i \in 1..m BY <1>1
            <4> QED BY <1>1, <1>2, <3>0, <4>1
        <3>2. u # r[j + 1] /\ u # r[j - 1] BY <1>6, <3>1
        <3> QED BY <1>1, <2>0, <2>2, <3>0, <3>2
    <2> QED BY <2>1, <2>2
<1> HIDE DEF next, prev
<1>11. \A i \in 0..m : q[i] = IF i < j THEN r[i] ELSE r[i + 1]
    OBVIOUS
<1>12. q \in [0..m -> Ring!Places]
    <2>1. \A i \in 0..m : i \in 0..m + 1 /\ i + 1 \in 0..m + 1 BY <1>1
    <2> QED BY <1>1, <2>1
<1> HIDE DEF q
<1>13. q[0] = 0 /\ q[m] = 0
    <2>1. 0 \in 0..m /\ m \in 0..m /\ 0 < j /\ ~(m < j) BY <1>1, <1>2
    <2> QED BY <1>1, <1>11, <2>1
<1>14. \A i \in 1..m - 1 : q[i] \in l.nodes \ {n}
    <2> SUFFICES ASSUME NEW i \in 1..m - 1 PROVE q[i] \in l.nodes \ {n}
        OBVIOUS
    <2>0. i \in 0..m BY <1>1
    <2>1. CASE i < j
        <3>1. i \in 1..m /\ q[i] = r[i] /\ i # j /\ j \in 1..m BY <1>1, <1>2, <1>11, <2>0, <2>1
        <3> QED BY <1>1, <1>2, <3>1
    <2>2. CASE ~(i < j)
        <3>1. i + 1 \in 1..m /\ q[i] = r[i + 1] /\ i + 1 # j /\ j \in 1..m
            BY <1>1, <1>2, <1>11, <2>0, <2>2
        <3> QED BY <1>1, <1>2, <3>1
    <2> QED BY <2>1, <2>2
<1>15. l.nodes \ {n} \subseteq {q[i] : i \in 1..m - 1}
    <2> SUFFICES ASSUME NEW u \in l.nodes \ {n} PROVE \E i \in 1..m - 1 : q[i] = u
        OBVIOUS
    <2>1. PICK i \in 1..m : r[i] = u BY <1>1
    <2>2. i # j BY <1>2, <2>1
    <2>3. CASE i < j
        <3>1. i \in 1..m - 1 /\ i \in 0..m BY <1>1, <1>2, <2>3
        <3>2. q[i] = r[i] BY <1>11, <2>3, <3>1
        <3> QED BY <2>1, <3>1, <3>2
    <2>4. CASE i > j
        <3>1. i - 1 \in 1..m - 1 /\ i - 1 \in 0..m /\ ~(i - 1 < j) /\ i - 1 + 1 = i
            BY <1>1, <1>2, <2>4
        <3>2. q[i - 1] = r[i] BY <1>11, <3>1
        <3> QED BY <2>1, <3>1, <3>2
    <2> QED BY <1>2, <2>2, <2>3, <2>4
<1>16. \A i, k \in 1..m - 1 : q[i] = q[k] => i = k
    <2> SUFFICES ASSUME NEW i \in 1..m - 1, NEW k \in 1..m - 1, q[i] = q[k] PROVE i = k
        OBVIOUS
    <2>0. i \in 0..m /\ k \in 0..m BY <1>1
    <2>1. PICK a : a = IF i < j THEN i ELSE i + 1 OBVIOUS
    <2>2. PICK b : b = IF k < j THEN k ELSE k + 1 OBVIOUS
    <2>3. a \in 1..m /\ b \in 1..m BY <1>1, <1>2, <2>1, <2>2
    <2>4. q[i] = r[a] /\ q[k] = r[b] BY <1>11, <2>0, <2>1, <2>2
    <2>6. r[a] = r[b] BY <2>4
    <2>7. \A u, v \in 1..m : r[u] = r[v] => u = v BY <1>1
    <2>5. a = b BY <2>3, <2>6, <2>7
    <2> QED BY <1>2, <2>1, <2>2, <2>5
<1>17. \A i \in 0..m - 1 : next[q[i]] = q[i + 1] /\ prev[q[i + 1]] = q[i]
    <2> SUFFICES ASSUME NEW i \in 0..m - 1
                 PROVE  next[q[i]] = q[i + 1] /\ prev[q[i + 1]] = q[i]
        OBVIOUS
    <2>0. i \in 0..m /\ i + 1 \in 0..m BY <1>1
    <2>1. q[i] = (IF i < j THEN r[i] ELSE r[i + 1])
          /\ q[i + 1] = (IF i + 1 < j THEN r[i + 1] ELSE r[i + 1 + 1])
        BY <1>11, <2>0
    <2>2. CASE i + 1 < j
        <3>1. i # j - 1 /\ i # j BY <1>1, <1>2, <2>2
        <3>2. q[i] = r[i] /\ q[i + 1] = r[i + 1] BY <1>2, <2>1, <2>2
        <3> QED BY <1>8, <1>9, <2>0, <3>1, <3>2
    <2>3. CASE i + 1 = j
        <3>1. i = j - 1 BY <1>2, <2>3
        <3>2. q[i] = r[j - 1] /\ q[i + 1] = r[j + 1] BY <1>2, <2>1, <2>3, <3>1
        <3> QED BY <1>8, <1>9, <3>2
    <2>5. CASE i >= j
        <3>1. i + 1 \in 0..m /\ i + 1 # j - 1 /\ i + 1 # j BY <1>1, <1>2, <2>5
        <3>2. q[i] = r[i + 1] /\ q[i + 1] = r[i + 1 + 1] BY <1>2, <2>1, <2>5, <3>1
        <3> QED BY <1>8, <1>9, <3>1, <3>2
    <2> QED BY <1>2, <2>2, <2>3, <2>5
<1>18. /\ w.owner = l.owner /\ w.size = m - 1 /\ w.nodes = l.nodes \ {n}
       /\ w.data = data /\ w.next = next /\ w.prev = prev
       /\ w = [owner |-> w.owner, size |-> w.size, nodes |-> w.nodes, data |-> w.data,
               next |-> w.next, prev |-> w.prev]
    OBVIOUS
<1>19. data \in [ListNodes -> Nat] BY <1>1, <1>2
<1> HIDE DEF w, data
<1>25. m - 1 \in Nat BY <1>1, <1>2
<1>20. Ringed(w) BY <1>1, <1>7, <1>18, <1>19, <1>25 DEF Ringed
<1>21. l.nodes \ {n} \subseteq ListNodes BY <1>1, <1>2
<1>22. m - 1 + 1 = m BY <1>1
<1>23. l.nodes \ {n} = {q[i] : i \in 1..m - 1} BY <1>14, <1>15
<1>24. Linked(w, q)
    <2>1. w.size + 1 = m BY <1>18, <1>22
    <2>2. q \in [0..w.size + 1 -> Ring!Places] /\ q[0] = 0 /\ q[w.size + 1] = 0
        BY <1>12, <1>13, <2>1
    <2>3. (\A i \in 1..w.size : q[i] \in ListNodes)
          /\ \A i, k \in 1..w.size : q[i] = q[k] => i = k
        BY <1>14, <1>16, <1>18, <1>21
    <2>4. \A i \in 0..w.size : w.next[q[i]] = q[i + 1] /\ w.prev[q[i + 1]] = q[i]
        BY <1>17, <1>18
    <2>5. w.nodes = {q[i] : i \in 1..w.size} BY <1>18, <1>23
    <2>6. \A u \in ListNodes \ w.nodes : w.next[u] = 0 /\ w.prev[u] = 0 BY <1>10, <1>18
    <2> QED BY <2>2, <2>3, <2>4, <2>5, <2>6 DEF Linked
<1>26. RingIs(w) BY <1>20, <1>24 DEF RingIs
<1> QED BY <1>26 DEF w, m, n, data, next, prev

\* A ring of a sentinel and so many nodes.
RingOf(l, owner, size) == RingIs(l) /\ l.owner = owner /\ l.size = size

LEMMA NewListIs == ASSUME NEW owner PROVE RingOf(Ring!NewList(owner), owner, 0)
<1> DEFINE l == Ring!NewList(owner)
           r == [i \in 0..1 |-> 0]
           data == [n \in ListNodes |-> 0]
           link == [n \in Ring!Places |-> 0]
<1>1. l = [owner |-> owner, size |-> 0, nodes |-> {}, data |-> data, next |-> link, prev |-> link]
    BY DEF Ring!NewList, Ring!Head0
<1>2. /\ data \in [ListNodes -> Nat] /\ link \in [Ring!Places -> Ring!Places]
      /\ \A m \in Ring!Places : link[m] = 0
    BY DEF Ring!Places, Ring!Head0
<1>3. 0 \in Ring!Places /\ ListNodes \subseteq Ring!Places BY DEF Ring!Places, Ring!Head0
<1>4. /\ l.owner = owner /\ l.size = 0 /\ l.nodes = {} /\ l.data = data
      /\ l.next = link /\ l.prev = link
    BY <1>1
<1>5. l = [owner |-> l.owner, size |-> l.size, nodes |-> l.nodes, data |-> l.data,
           next |-> l.next, prev |-> l.prev]
    BY <1>1, <1>4
<1> HIDE DEF l, data, link
<1>6. Ringed(l) BY <1>2, <1>4, <1>5 DEF Ringed
<1>7. r \in [0..0 + 1 -> Ring!Places] /\ \A i \in 0..1 : r[i] = 0 BY <1>3
<1> HIDE DEF r
<1>8. Linked(l, r)
    <2>1. 1..0 = {} OBVIOUS
    <2>2. {r[i] : i \in 1..0} = {} BY <2>1
    <2>3. link[r[0]] = r[0 + 1] /\ link[r[0 + 1]] = r[0] BY <1>2, <1>3, <1>7
    <2>4. \A i \in 0..0 : link[r[i]] = r[i + 1] /\ link[r[i + 1]] = r[i] BY <2>3
    <2>5. \A m \in ListNodes : link[m] = 0 BY <1>2, <1>3
    <2> QED BY <1>4, <1>7, <2>1, <2>2, <2>4, <2>5 DEF Linked
<1> QED BY <1>4, <1>6, <1>8 DEF RingOf, RingIs, l

LEMMA FreshNodeIs ==
    ASSUME NEW l, RingIs(l), l.nodes # ListNodes
    PROVE  Ring!FreshNode(l) \in ListNodes \ l.nodes
<1> DEFINE T == ListNodes \ l.nodes
<1>1. l.nodes \subseteq ListNodes BY DEF RingIs, Linked
<1>2. T # {} /\ T \subseteq Nat BY <1>1, SequenceAssumption
<1> HIDE DEF T
<1>3. \E x \in T : \A y \in T : x <= y BY <1>2, Smallest
<1>4. (CHOOSE x \in T : \A y \in T : x <= y) \in T BY <1>3
<1> QED BY <1>4 DEF T, Ring!FreshNode

\* The places of a ring are those that r lists.
LEMMA PlaceOf ==
    ASSUME NEW l, Ringed(l), NEW r, Linked(l, r), NEW p \in l.nodes \union {0}
    PROVE  \E j \in 1..l.size + 1 : r[j] = p
<1>1. l.size \in Nat /\ r[l.size + 1] = 0 /\ l.nodes = {r[i] : i \in 1..l.size}
    BY DEF Ringed, Linked
<1>2. CASE p = 0
    <2>1. l.size + 1 \in 1..l.size + 1 BY <1>1
    <2> QED BY <1>1, <1>2, <2>1
<1>3. CASE p \in l.nodes
    <2>1. PICK i \in 1..l.size : r[i] = p BY <1>1, <1>3
    <2>2. i \in 1..l.size + 1 BY <1>1
    <2> QED BY <2>1, <2>2
<1> QED BY <1>2, <1>3

LEMMA InsertedIs ==
    ASSUME NEW l, RingIs(l), l.nodes # ListNodes, NEW p \in l.nodes \union {0}, NEW x \in Nat
    PROVE  RingOf(Ring!Insert(l, [node |-> p, owner |-> l.owner], x), l.owner, l.size + 1)
<1>1. PICK r : Linked(l, r) BY DEF RingIs
<1>2. Ringed(l) BY DEF RingIs
<1>3. PICK j \in 1..l.size + 1 : r[j] = p BY <1>1, <1>2, PlaceOf
<1>4. PICK n \in ListNodes \ l.nodes : n = Ring!FreshNode(l) BY FreshNodeIs
<1>5. l.prev[p] = r[j - 1]
    <2>1. l.size \in Nat /\ \A i \in 0..l.size : l.prev[r[i + 1]] = r[i]
        BY <1>1, <1>2 DEF Ringed, Linked
    <2>2. j - 1 \in 0..l.size /\ j - 1 + 1 = j BY <2>1
    <2> QED BY <1>3, <2>1, <2>2
<1> DEFINE w == Ring!Insert(l, [node |-> p, owner |-> l.owner], x)
           data == [l.data EXCEPT ![n] = x]
           next == [l.next EXCEPT ![n] = r[j], ![r[j - 1]] = n]
           prev == [l.prev EXCEPT ![n] = r[j - 1], ![r[j]] = n]
           nodes == l.nodes \union {n}
           size == l.size + 1
           it == [node |-> p, owner |-> l.owner]
<1>6. it.node = p /\ it.owner = l.owner OBVIOUS
<1> HIDE DEF it
<1>7. w = [l EXCEPT !.nodes = @ \union {n}, !.data[n] = x, !.size = @ + 1,
                    !.next = [@ EXCEPT ![n] = p, ![l.prev[p]] = n],
                    !.prev = [@ EXCEPT ![n] = l.prev[p], ![p] = n]]
    BY <1>4, <1>6 DEF Ring!Insert, it
<1>8. w = [l EXCEPT !.nodes = nodes, !.data = data, !.size = size, !.next = next, !.prev = prev]
    BY <1>3, <1>5, <1>7
<1>9. l = [owner |-> l.owner, size |-> l.size, nodes |-> l.nodes, data |-> l.data,
           next |-> l.next, prev |-> l.prev]
    BY <1>2 DEF Ringed
<1>10. RingIs([owner |-> l.owner, size |-> size, nodes |-> nodes, data |-> data,
               next |-> next, prev |-> prev])
    BY <1>1, <1>2, LinkedIn
<1> HIDE DEF w, data, next, prev, nodes, size
<1>11. w = [owner |-> l.owner, size |-> size, nodes |-> nodes, data |-> data,
            next |-> next, prev |-> prev]
    BY <1>8, <1>9
<1>12. w.owner = l.owner /\ w.size = size BY <1>11
<1>13. RingOf(w, l.owner, size) BY <1>10, <1>11, <1>12 DEF RingOf
<1> QED BY <1>13 DEF w, size

\* An iterator of another list changes nothing.
LEMMA OthersIterator ==
    ASSUME NEW l, NEW it, it.owner # l.owner, NEW x
    PROVE  Ring!Insert(l, it, x) = l /\ Ring!Erase(l, it) = l
<1> QED BY DEF Ring!Insert, Ring!Erase

LEMMA FreedIs ==
    ASSUME NEW l, Ringed(l), NEW r, Linked(l, r), NEW j \in 1..l.size
    PROVE  LET w == Ring!Free([l EXCEPT !.next[r[j - 1]] = r[j + 1], !.prev[r[j + 1]] = r[j - 1],
                                        !.size = @ - 1], r[j])
           IN RingOf(w, l.owner, l.size - 1)
<1> DEFINE u == [l EXCEPT !.next[r[j - 1]] = r[j + 1], !.prev[r[j + 1]] = r[j - 1], !.size = @ - 1]
           w == Ring!Free(u, r[j])
           data == [l.data EXCEPT ![r[j]] = 0]
           next1 == [l.next EXCEPT ![r[j - 1]] = r[j + 1]]
           prev1 == [l.prev EXCEPT ![r[j + 1]] = r[j - 1]]
           next == [l.next EXCEPT ![r[j - 1]] = r[j + 1], ![r[j]] = 0]
           prev == [l.prev EXCEPT ![r[j + 1]] = r[j - 1], ![r[j]] = 0]
           nodes == l.nodes \ {r[j]}
           size == l.size - 1
<1>1. l = [owner |-> l.owner, size |-> l.size, nodes |-> l.nodes, data |-> l.data,
           next |-> l.next, prev |-> l.prev]
    BY DEF Ringed
<1>2. RingIs([owner |-> l.owner, size |-> size, nodes |-> nodes, data |-> data,
              next |-> next, prev |-> prev])
    BY LinkedOut
<1>3. u = [l EXCEPT !.next = next1, !.prev = prev1, !.size = size] OBVIOUS
<1>4. w = [u EXCEPT !.nodes = @ \ {r[j]}, !.data[r[j]] = 0, !.next[r[j]] = 0, !.prev[r[j]] = 0]
    BY DEF Ring!Free, Ring!Head0
<1>5. next = [next1 EXCEPT ![r[j]] = 0] /\ prev = [prev1 EXCEPT ![r[j]] = 0] OBVIOUS
<1>6. data = [l.data EXCEPT ![r[j]] = 0] /\ nodes = l.nodes \ {r[j]} OBVIOUS
<1> HIDE DEF u, w, data, next, prev, next1, prev1, nodes, size
<1>7. u = [owner |-> l.owner, size |-> size, nodes |-> l.nodes, data |-> l.data,
           next |-> next1, prev |-> prev1]
    BY <1>1, <1>3
<1>8. w = [owner |-> l.owner, size |-> size, nodes |-> nodes, data |-> data,
           next |-> next, prev |-> prev]
    BY <1>4, <1>5, <1>6, <1>7
<1>9. w.owner = l.owner /\ w.size = size BY <1>8
<1>10. RingOf(w, l.owner, size) BY <1>2, <1>8, <1>9 DEF RingOf
<1> QED BY <1>10 DEF w, size, u

LEMMA ErasedIs ==
    ASSUME NEW l, RingIs(l), NEW p \in l.nodes
    PROVE  RingOf(Ring!Erase(l, [node |-> p, owner |-> l.owner]), l.owner, l.size - 1)
<1>1. PICK r : Linked(l, r) BY DEF RingIs
<1>2. Ringed(l) BY DEF RingIs
<1>3. PICK j \in 1..l.size : r[j] = p BY <1>1 DEF Linked
<1>4. l.prev[p] = r[j - 1] /\ l.next[p] = r[j + 1]
    <2>1. l.size \in Nat /\ \A i \in 0..l.size : l.next[r[i]] = r[i + 1] /\ l.prev[r[i + 1]] = r[i]
        BY <1>1, <1>2 DEF Ringed, Linked
    <2>2. j - 1 \in 0..l.size /\ j - 1 + 1 = j /\ j \in 0..l.size BY <2>1
    <2> QED BY <1>3, <2>1, <2>2
<1>5. p # Ring!Head0 BY <1>1, <1>3, SequenceAssumption DEF Linked, Ring!Head0
<1> DEFINE it == [node |-> p, owner |-> l.owner]
<1>6. it.node = p /\ it.owner = l.owner OBVIOUS
<1> HIDE DEF it
<1>7. Ring!Erase(l, it) = Ring!Free([l EXCEPT !.next[l.prev[p]] = l.next[p],
                                              !.prev[l.next[p]] = l.prev[p], !.size = @ - 1], p)
    BY <1>5, <1>6 DEF Ring!Erase
<1>8. Ring!Erase(l, it) = Ring!Free([l EXCEPT !.next[r[j - 1]] = r[j + 1],
                                              !.prev[r[j + 1]] = r[j - 1], !.size = @ - 1], r[j])
    BY <1>3, <1>4, <1>7
<1>9. RingOf(Ring!Erase(l, it), l.owner, l.size - 1) BY <1>1, <1>2, <1>8, FreedIs
<1> QED BY <1>9 DEF it

LEMMA PoppedBackRing ==
    ASSUME NEW l, RingIs(l)
    PROVE  RingOf(Ring!PopBack(l), l.owner, IF l.size = 0 THEN 0 ELSE l.size - 1)
<1>1. PICK r : Linked(l, r) BY DEF RingIs
<1>2. l.size \in Nat /\ l.nodes = {r[i] : i \in 1..l.size}
      /\ \A i \in 0..l.size : l.prev[r[i + 1]] = r[i]
    BY <1>1 DEF RingIs, Ringed, Linked
<1>3. CASE l.size = 0 BY <1>3 DEF Ring!PopBack, RingOf
<1>4. CASE l.size # 0
    <2>1. l.size \in 0..l.size /\ l.size \in 1..l.size BY <1>2, <1>4
    <2>2. r[l.size + 1] = 0 BY <1>1 DEF Linked
    <2>3. l.prev[0] = r[l.size] BY <1>2, <2>1, <2>2
    <2>4. l.prev[0] \in l.nodes BY <1>2, <2>1, <2>3
    <2>5. Ring!PopBack(l) = Ring!Erase(l, [node |-> l.prev[0], owner |-> l.owner])
        BY <1>4 DEF Ring!PopBack, Ring!Iterator, Ring!Head0
    <2> QED BY <1>4, <2>4, <2>5, ErasedIs
<1> QED BY <1>3, <1>4

LEMMA PoppedFrontRing ==
    ASSUME NEW l, RingIs(l)
    PROVE  RingOf(Ring!PopFront(l), l.owner, IF l.size = 0 THEN 0 ELSE l.size - 1)
<1>1. PICK r : Linked(l, r) BY DEF RingIs
<1>2. /\ Ringed(l) /\ l.size \in Nat /\ r[0] = 0
      /\ \A i \in 0..l.size : l.next[r[i]] = r[i + 1]
    BY <1>1 DEF RingIs, Ringed, Linked
<1>3. CASE l.size = 0 BY <1>3 DEF Ring!PopFront, RingOf
<1>4. CASE l.size # 0
    <2>1. 0 \in 0..l.size /\ 1 \in 0..l.size /\ 1 \in 1..l.size BY <1>2, <1>4
    <2>2. l.next[0] = r[0 + 1] /\ l.next[r[1]] = r[1 + 1] BY <1>2, <2>1
    <2>3. l.next[0] = r[1] /\ l.next[l.next[0]] = r[1 + 1] /\ r[1 - 1] = 0 BY <1>2, <2>2
    <2>4. Ring!PopFront(l) = Ring!Free([l EXCEPT !.next[0] = l.next[l.next[0]],
                                                 !.prev[l.next[l.next[0]]] = 0, !.size = @ - 1],
                                       l.next[0])
        BY <1>4 DEF Ring!PopFront, Ring!Head0
    <2>5. Ring!PopFront(l) = Ring!Free([l EXCEPT !.next[r[1 - 1]] = r[1 + 1],
                                                 !.prev[r[1 + 1]] = r[1 - 1], !.size = @ - 1],
                                       r[1])
        BY <2>3, <2>4
    <2> QED BY <1>1, <1>2, <1>4, <2>1, <2>5, FreedIs
<1> QED BY <1>3, <1>4

\* Every node is reached and deleted.
LEMMA ClearedIs ==
    ASSUME NEW l, RingIs(l)
    PROVE  RingOf(Ring!Clear(l), l.owner, 0)
<1>1. PICK r : Linked(l, r) BY DEF RingIs
<1>2. Ringed(l) BY DEF RingIs
<1> DEFINE gone == Ring!Nodes(Ring!Order(l))
           next == [m \in Ring!Places |-> IF m \in gone \union {Ring!Head0} THEN Ring!Head0
                                          ELSE l.next[m]]
           prev == [m \in Ring!Places |-> IF m \in gone \union {Ring!Head0} THEN Ring!Head0
                                          ELSE l.prev[m]]
           data == [n \in ListNodes |-> IF n \in gone THEN 0 ELSE l.data[n]]
           w == Ring!Clear(l)
<1>3. gone = l.nodes
    <2>1. Ring!Order(l) = [k \in 1..l.size |-> r[k]] BY <1>1, <1>2, OrderIs
    <2>2. l.nodes = {r[i] : i \in 1..l.size} BY <1>1 DEF Linked
    <2> QED BY <2>1, <2>2 DEF Ring!Nodes
<1>4. w = [l EXCEPT !.nodes = @ \ gone, !.size = 0, !.data = data, !.next = next, !.prev = prev]
    BY DEF Ring!Clear
<1>5. l = [owner |-> l.owner, size |-> l.size, nodes |-> l.nodes, data |-> l.data,
           next |-> l.next, prev |-> l.prev]
    BY <1>2 DEF Ringed
<1> HIDE DEF gone
<1>6. next = [n \in Ring!Places |-> 0] /\ prev = [n \in Ring!Places |-> 0]
    <2>1. \A m \in ListNodes \ l.nodes : l.next[m] = 0 /\ l.prev[m] = 0 BY <1>1 DEF Linked
    <2> QED BY <1>3, <2>1 DEF Ring!Places, Ring!Head0
<1>7. data \in [ListNodes -> Nat] BY <1>2, <1>3 DEF Ringed
<1>8. l.nodes \ gone = {} BY <1>3
<1> HIDE DEF w, data, next, prev
<1> DEFINE link == [n \in Ring!Places |-> 0]
           s == [i \in 0..1 |-> 0]
<1>9. w = [owner |-> l.owner, size |-> 0, nodes |-> {}, data |-> data, next |-> link, prev |-> link]
    BY <1>4, <1>5, <1>6, <1>8
<1>10. 0 \in Ring!Places /\ ListNodes \subseteq Ring!Places BY DEF Ring!Places, Ring!Head0
<1>11. link \in [Ring!Places -> Ring!Places] /\ \A m \in Ring!Places : link[m] = 0 BY <1>10
<1> HIDE DEF link
<1>12. /\ w.owner = l.owner /\ w.size = 0 /\ w.nodes = {} /\ w.data = data
       /\ w.next = link /\ w.prev = link
    BY <1>9
<1>13. Ringed(w) BY <1>7, <1>9, <1>11, <1>12 DEF Ringed
<1>14. s \in [0..0 + 1 -> Ring!Places] /\ \A i \in 0..1 : s[i] = 0 BY <1>10
<1> HIDE DEF s
<1>15. Linked(w, s)
    <2>1. 1..0 = {} OBVIOUS
    <2>2. {s[i] : i \in 1..0} = {} BY <2>1
    <2>3. link[s[0]] = s[0 + 1] /\ link[s[0 + 1]] = s[0] BY <1>10, <1>11, <1>14
    <2>4. \A i \in 0..0 : link[s[i]] = s[i + 1] /\ link[s[i + 1]] = s[i] BY <2>3
    <2>5. \A m \in ListNodes : link[m] = 0 BY <1>10, <1>11
    <2> QED BY <1>12, <1>14, <2>1, <2>2, <2>4, <2>5 DEF Linked
<1> QED BY <1>12, <1>13, <1>15 DEF RingOf, RingIs, w

\* As many nodes are free as the list does not count.
LEMMA NodesLeft ==
    ASSUME NEW l, RingIs(l)
    PROVE  /\ Cardinality(ListNodes) \in Nat /\ l.size \in Nat
           /\ Cardinality(ListNodes \ l.nodes) = Cardinality(ListNodes) - l.size
           /\ l.size < Cardinality(ListNodes) => l.nodes # ListNodes
<1>1. PICK r : Linked(l, r) BY DEF RingIs
<1>2. Ringed(l) /\ l.nodes \subseteq ListNodes BY <1>1 DEF RingIs, Linked
<1>3. Cardinality(l.nodes) = l.size /\ l.size \in Nat BY <1>1, <1>2, OrderIs DEF Ringed
<1>4. IsFiniteSet(ListNodes) BY SequenceAssumption
<1>5. Cardinality(ListNodes) \in Nat BY <1>4, FS_CardinalityType
<1>6. Cardinality(ListNodes \ l.nodes) = Cardinality(ListNodes) - Cardinality(ListNodes \cap l.nodes)
    BY <1>4, FS_Difference
<1>7. ListNodes \cap l.nodes = l.nodes BY <1>2
<1> QED BY <1>3, <1>5, <1>6, <1>7

LEMMA PushedBackRing ==
    ASSUME NEW l, RingIs(l), l.nodes # ListNodes, NEW x \in Nat
    PROVE  RingOf(Ring!PushBack(l, x), l.owner, l.size + 1)
<1>1. Ring!PushBack(l, x) = Ring!Insert(l, [node |-> 0, owner |-> l.owner], x)
    BY DEF Ring!PushBack, Ring!End, Ring!Iterator, Ring!Head0
<1>2. 0 \in l.nodes \union {0} OBVIOUS
<1> QED BY <1>1, <1>2, InsertedIs

LEMMA PushedFrontRing ==
    ASSUME NEW l, RingIs(l), l.nodes # ListNodes, NEW x \in Nat
    PROVE  RingOf(Ring!PushFront(l, x), l.owner, l.size + 1)
<1>1. PICK r : Linked(l, r) BY DEF RingIs
<1>2. /\ l.size \in Nat /\ r[0] = 0 /\ r[l.size + 1] = 0
      /\ l.nodes = {r[i] : i \in 1..l.size}
      /\ \A i \in 0..l.size : l.next[r[i]] = r[i + 1]
    BY <1>1 DEF RingIs, Ringed, Linked
<1>3. l.next[0] = r[1]
    <2>1. 0 \in 0..l.size BY <1>2
    <2>2. l.next[r[0]] = r[0 + 1] BY <1>2, <2>1
    <2> QED BY <1>2, <2>2
<1>4. l.next[0] \in l.nodes \union {0}
    <2>1. CASE l.size = 0 BY <1>2, <1>3, <2>1
    <2>2. CASE l.size # 0
        <3>1. 1 \in 1..l.size BY <1>2, <2>2
        <3> QED BY <1>2, <1>3, <3>1
    <2> QED BY <2>1, <2>2
<1>5. Ring!PushFront(l, x) = Ring!Insert(l, [node |-> l.next[0], owner |-> l.owner], x)
    BY DEF Ring!PushFront, Ring!Begin, Ring!Iterator, Ring!Head0
<1> QED BY <1>4, <1>5, InsertedIs

\* Elements pushed behind those of a list, one by one.
PushesBack(l, elements, n, pushed) ==
    /\ pushed[0] = l
    /\ \A k \in 1..n : pushed[k] = Ring!PushBack(pushed[k - 1], elements[k])

LEMMA ElementsPushed ==
    ASSUME NEW l, RingIs(l), NEW elements, NEW n \in Nat, \A k \in 1..n : elements[k] \in Nat,
           l.size + n <= Cardinality(ListNodes), NEW pushed, PushesBack(l, elements, n, pushed)
    PROVE  RingOf(pushed[n], l.owner, l.size + n)
<1> DEFINE Is(k) == RingOf(pushed[k], l.owner, l.size + k)
           T == {k \in 0..n : Is(k)}
<1>0. l.size \in Nat /\ Cardinality(ListNodes) \in Nat BY NodesLeft
<1>1. 0 \in T
    <2>1. pushed[0] = l /\ l.size + 0 = l.size BY <1>0 DEF PushesBack
    <2>2. Is(0) BY <2>1 DEF RingOf
    <2> HIDE DEF Is
    <2> QED BY <2>2
<1>2. ASSUME NEW k \in 0..n - 1, k \in T PROVE k + 1 \in T
    <2>1. k + 1 \in 1..n /\ k + 1 - 1 = k /\ k + 1 \in 0..n OBVIOUS
    <2>2. pushed[k + 1] = Ring!PushBack(pushed[k], elements[k + 1]) BY <2>1 DEF PushesBack
    <2>3. RingIs(pushed[k]) /\ pushed[k].owner = l.owner /\ pushed[k].size = l.size + k
        BY <1>2 DEF RingOf
    <2>4. pushed[k].nodes # ListNodes
        <3>1. l.size + k < Cardinality(ListNodes) BY <1>0, <2>1
        <3> QED BY <2>3, <3>1, NodesLeft
    <2>5. RingOf(pushed[k + 1], pushed[k].owner, pushed[k].size + 1)
        BY <2>1, <2>2, <2>3, <2>4, PushedBackRing
    <2>6. pushed[k].size + 1 = l.size + (k + 1) BY <1>0, <2>3
    <2>7. Is(k + 1) BY <2>3, <2>5, <2>6
    <2> HIDE DEF Is
    <2> QED BY <2>1, <2>7
<1>3. n \in T
    <2> HIDE DEF T
    <2> QED BY <1>1, <1>2, UpTo
<1> QED BY <1>3

LEMMA PushesBackOnce ==
    ASSUME NEW l, NEW elements, NEW n \in Nat
    PROVE  LET pushed[k \in 0..n] == IF k = 0 THEN l ELSE Ring!PushBack(pushed[k - 1], elements[k])
           IN PushesBack(l, elements, n, pushed)
<1> DEFINE Step(f, k) == IF k = 0 THEN l ELSE Ring!PushBack(f[k - 1], elements[k])
           Some(m) == \E f : f = [k \in 0..m |-> Step(f, k)]
           T == {m \in 0..n : Some(m)}
           pushed == CHOOSE f : f = [k \in 0..n |-> Step(f, k)]
<1>1. 0 \in T
    <2> DEFINE f == [k \in 0..0 |-> l]
    <2>1. f = [k \in 0..0 |-> Step(f, k)] OBVIOUS
    <2>2. Some(0) BY <2>1
    <2> HIDE DEF Some
    <2> QED BY <2>2
<1>2. ASSUME NEW m \in 0..n - 1, m \in T PROVE m + 1 \in T
    <2>1. PICK f : f = [k \in 0..m |-> Step(f, k)] BY <1>2
    <2> DEFINE g == [k \in 0..m + 1 |-> Step(f, k)]
    <2>2. \A k \in 0..m : g[k] = f[k]
        <3> HIDE DEF Step
        <3> QED BY <2>1
    <2>3. \A k \in 0..m + 1 : k = 0 \/ k - 1 \in 0..m OBVIOUS
    <2>4. \A k \in 0..m + 1 : Step(g, k) = Step(f, k)
        <3> HIDE DEF g
        <3> QED BY <2>2, <2>3
    <2>5. g = [k \in 0..m + 1 |-> Step(g, k)]
        <3> HIDE DEF Step
        <3> QED BY <2>4
    <2>6. Some(m + 1) BY <2>5
    <2> HIDE DEF Some
    <2> QED BY <2>6
<1>3. n \in T
    <2> HIDE DEF T
    <2> QED BY <1>1, <1>2, UpTo
<1>4. Some(n) BY <1>3
<1>5. pushed = [k \in 0..n |-> Step(pushed, k)] BY <1>4
<1>6. ASSUME NEW p, p = [k \in 0..n |-> Step(p, k)] PROVE PushesBack(l, elements, n, p)
    <2>1. \A k \in 0..n : p[k] = Step(p, k) BY <1>6
    <2>2. p[0] = Step(p, 0) BY <2>1
    <2>3. p[0] = l BY <2>2
    <2>4. ASSUME NEW k \in 1..n PROVE p[k] = Ring!PushBack(p[k - 1], elements[k])
        <3>1. k \in 0..n /\ k # 0 OBVIOUS
        <3>2. p[k] = Step(p, k) BY <2>1, <3>1
        <3> QED BY <3>1, <3>2
    <2> QED BY <2>3, <2>4 DEF PushesBack
<1>7. PushesBack(l, elements, n, pushed)
    <2> HIDE DEF pushed, Step
    <2> QED BY <1>5, <1>6
<1> QED BY <1>7

\* Those for which there are nodes are pushed.
LEMMA ExtendedRing ==
    ASSUME NEW l, RingIs(l), NEW elements \in Seq(Nat), NEW budget \in Nat,
           l.size + budget <= Cardinality(ListNodes)
    PROVE  LET r == Ring!Extend(l, elements, budget)
           IN RingIs(r.l) /\ r.l.owner = l.owner /\ r.ok \in BOOLEAN
<1> DEFINE r == Ring!Extend(l, elements, budget)
           n == IF budget < Len(elements) THEN budget ELSE Len(elements)
           pushed[k \in 0..n] == IF k = 0 THEN l ELSE Ring!PushBack(pushed[k - 1], elements[k])
<1>1. Len(elements) \in Nat /\ \A k \in 1..Len(elements) : elements[k] \in Nat
    BY LenProperties, ElementOfSeq
<1>2. l.size \in Nat /\ Cardinality(ListNodes) \in Nat BY NodesLeft
<1>3. n \in Nat /\ n <= budget /\ n <= Len(elements) BY <1>1
<1>4. r = [ok |-> n = Len(elements), l |-> pushed[n]] BY DEF Ring!Extend
<1> HIDE DEF n
<1>5. PushesBack(l, elements, n, pushed) BY <1>3, PushesBackOnce
<1> HIDE DEF pushed, r
<1>6. l.size + n <= Cardinality(ListNodes) /\ \A k \in 1..n : elements[k] \in Nat
    BY <1>1, <1>2, <1>3
<1>7. RingOf(pushed[n], l.owner, l.size + n) BY <1>3, <1>5, <1>6, ElementsPushed
<1>8. r.l = pushed[n] /\ r.ok \in BOOLEAN BY <1>4
<1> QED BY <1>7, <1>8 DEF RingOf, r

LEMMA CopiedRing ==
    ASSUME NEW elements \in Seq(Nat), NEW owner, NEW budget \in Nat,
           budget <= Cardinality(ListNodes)
    PROVE  LET r == Ring!Copy(elements, owner, budget)
           IN RingIs(r.l) /\ r.l.owner = owner
<1> DEFINE e == Ring!Extend(Ring!NewList(owner), elements, budget)
           r == Ring!Copy(elements, owner, budget)
<1>1. RingIs(Ring!NewList(owner)) /\ Ring!NewList(owner).owner = owner
      /\ Ring!NewList(owner).size = 0
    BY NewListIs DEF RingOf
<1>2. 0 + budget <= Cardinality(ListNodes) OBVIOUS
<1>3. RingIs(e.l) /\ e.l.owner = owner BY <1>1, <1>2, ExtendedRing
<1>4. r = IF e.ok THEN e ELSE [ok |-> FALSE, l |-> Ring!Clear(e.l)] BY DEF Ring!Copy
<1> HIDE DEF e, r
<1>5. r.l = e.l \/ r.l = Ring!Clear(e.l) BY <1>4
<1>6. RingOf(Ring!Clear(e.l), owner, 0) BY <1>3, ClearedIs
<1> QED BY <1>3, <1>5, <1>6 DEF RingOf, r

LEMMA AssignedRing ==
    ASSUME NEW to, RingIs(to), NEW from, RingIs(from), NEW owner, NEW budget \in Nat,
           budget <= Cardinality(ListNodes)
    PROVE  LET r == Ring!Assign(to, from, owner, budget)
           IN RingIs(r.l) /\ (r.l.owner = owner \/ r.l = to)
<1> DEFINE copy == Ring!Copy(Ring!Contents(from), owner, budget)
           r == Ring!Assign(to, from, owner, budget)
<1>1. Ring!Contents(from) \in Seq(Nat) BY RingContents
<1>2. RingIs(copy.l) /\ copy.l.owner = owner BY <1>1, CopiedRing
<1>3. r = IF copy.ok THEN [ok |-> TRUE, l |-> copy.l, gone |-> Ring!Clear(to)]
          ELSE [ok |-> FALSE, l |-> to, gone |-> copy.l]
    BY DEF Ring!Assign
<1> HIDE DEF copy, r
<1>4. r.l = copy.l \/ r.l = to BY <1>3
<1> QED BY <1>2, <1>4 DEF r

LEMMA ElementsAssigned ==
    ASSUME NEW l, RingIs(l), NEW elements \in Seq(Nat), NEW budget \in Nat,
           budget <= Cardinality(ListNodes)
    PROVE  LET r == Ring!AssignElements(l, elements, budget)
           IN RingIs(r.l) /\ r.l.owner = l.owner
<1>1. RingIs(Ring!Clear(l)) /\ Ring!Clear(l).owner = l.owner /\ Ring!Clear(l).size = 0
    BY ClearedIs DEF RingOf
<1>2. 0 + budget <= Cardinality(ListNodes) OBVIOUS
<1> QED BY <1>1, <1>2, ExtendedRing DEF Ring!AssignElements

LEMMA ExtendedRingSelf ==
    ASSUME NEW l, RingIs(l), NEW budget \in Nat, l.size + budget <= Cardinality(ListNodes)
    PROVE  LET r == Ring!ExtendSelf(l, budget)
           IN RingIs(r.l) /\ r.l.owner = l.owner
<1>1. CASE budget < l.size BY <1>1 DEF Ring!ExtendSelf
<1>2. CASE ~(budget < l.size)
    <2>1. l.size \in Nat /\ Cardinality(ListNodes) \in Nat /\ Ring!Contents(l) \in Seq(Nat)
        BY NodesLeft, RingContents
    <2>2. budget - l.size \in Nat /\ l.size + (budget - l.size) <= Cardinality(ListNodes)
        BY <1>2, <2>1
    <2>3. Ring!ExtendSelf(l, budget) = Ring!Extend(l, Ring!Contents(l), budget - l.size)
        BY <1>2 DEF Ring!ExtendSelf
    <2> QED BY <2>1, <2>2, <2>3, ExtendedRing
<1> QED BY <1>1, <1>2

PopsBack(l, n, popped) ==
    popped[0] = l /\ \A k \in 1..n : popped[k] = Ring!PopBack(popped[k - 1])

LEMMA PopsBackOnce ==
    ASSUME NEW l, NEW n \in Nat
    PROVE  LET popped[k \in 0..n] == IF k = 0 THEN l ELSE Ring!PopBack(popped[k - 1])
           IN PopsBack(l, n, popped)
<1> DEFINE Step(f, k) == IF k = 0 THEN l ELSE Ring!PopBack(f[k - 1])
           Some(m) == \E f : f = [k \in 0..m |-> Step(f, k)]
           T == {m \in 0..n : Some(m)}
           popped == CHOOSE f : f = [k \in 0..n |-> Step(f, k)]
<1>1. 0 \in T
    <2> DEFINE f == [k \in 0..0 |-> l]
    <2>1. f = [k \in 0..0 |-> Step(f, k)] OBVIOUS
    <2>2. Some(0) BY <2>1
    <2> HIDE DEF Some
    <2> QED BY <2>2
<1>2. ASSUME NEW m \in 0..n - 1, m \in T PROVE m + 1 \in T
    <2>1. PICK f : f = [k \in 0..m |-> Step(f, k)] BY <1>2
    <2> DEFINE g == [k \in 0..m + 1 |-> Step(f, k)]
    <2>2. \A k \in 0..m : g[k] = f[k]
        <3> HIDE DEF Step
        <3> QED BY <2>1
    <2>3. \A k \in 0..m + 1 : k = 0 \/ k - 1 \in 0..m OBVIOUS
    <2>4. \A k \in 0..m + 1 : Step(g, k) = Step(f, k)
        <3> HIDE DEF g
        <3> QED BY <2>2, <2>3
    <2>5. g = [k \in 0..m + 1 |-> Step(g, k)]
        <3> HIDE DEF Step
        <3> QED BY <2>4
    <2>6. Some(m + 1) BY <2>5
    <2> HIDE DEF Some
    <2> QED BY <2>6
<1>3. n \in T
    <2> HIDE DEF T
    <2> QED BY <1>1, <1>2, UpTo
<1>4. Some(n) BY <1>3
<1>5. popped = [k \in 0..n |-> Step(popped, k)] BY <1>4
<1>6. ASSUME NEW p, p = [k \in 0..n |-> Step(p, k)] PROVE PopsBack(l, n, p)
    <2>1. \A k \in 0..n : p[k] = Step(p, k) BY <1>6
    <2>2. p[0] = Step(p, 0) BY <2>1
    <2>3. p[0] = l BY <2>2
    <2>4. ASSUME NEW k \in 1..n PROVE p[k] = Ring!PopBack(p[k - 1])
        <3>1. k \in 0..n /\ k # 0 OBVIOUS
        <3>2. p[k] = Step(p, k) BY <2>1, <3>1
        <3> QED BY <3>1, <3>2
    <2> QED BY <2>3, <2>4 DEF PopsBack
<1>7. PopsBack(l, n, popped)
    <2> HIDE DEF popped, Step
    <2> QED BY <1>5, <1>6
<1> QED BY <1>7

LEMMA ElementsPopped ==
    ASSUME NEW l, RingIs(l), NEW n \in Nat, NEW popped, PopsBack(l, n, popped)
    PROVE  RingIs(popped[n]) /\ popped[n].owner = l.owner
<1> DEFINE Is(k) == RingIs(popped[k]) /\ popped[k].owner = l.owner
           T == {k \in 0..n : Is(k)}
<1>1. 0 \in T
    <2>1. Is(0) BY DEF PopsBack
    <2> HIDE DEF Is
    <2> QED BY <2>1
<1>2. ASSUME NEW k \in 0..n - 1, k \in T PROVE k + 1 \in T
    <2>1. k + 1 \in 1..n /\ k + 1 - 1 = k /\ k + 1 \in 0..n OBVIOUS
    <2>2. popped[k + 1] = Ring!PopBack(popped[k]) BY <2>1 DEF PopsBack
    <2>3. RingIs(popped[k]) /\ popped[k].owner = l.owner BY <1>2
    <2>4. Is(k + 1) BY <2>2, <2>3, PoppedBackRing DEF RingOf
    <2> HIDE DEF Is
    <2> QED BY <2>1, <2>4
<1>3. n \in T
    <2> HIDE DEF T
    <2> QED BY <1>1, <1>2, UpTo
<1> QED BY <1>3

LEMMA ResizedRing ==
    ASSUME NEW l, RingIs(l), NEW n \in Nat, NEW x \in Nat, NEW budget \in Nat,
           l.size + budget <= Cardinality(ListNodes)
    PROVE  LET r == Ring!Resize(l, n, x, budget)
           IN RingIs(r.l) /\ r.l.owner = l.owner
<1> DEFINE popped[k \in 0..l.size - n] == IF k = 0 THEN l ELSE Ring!PopBack(popped[k - 1])
           more == [i \in 1..n - l.size |-> x]
           r == Ring!Resize(l, n, x, budget)
<1>1. l.size \in Nat BY NodesLeft
<1>2. r = IF n <= l.size THEN [ok |-> TRUE, l |-> popped[l.size - n]]
          ELSE Ring!Extend(l, more, budget)
    BY DEF Ring!Resize
<1>3. CASE n <= l.size
    <2>1. l.size - n \in Nat BY <1>1, <1>3
    <2>2. PopsBack(l, l.size - n, popped) BY <2>1, PopsBackOnce
    <2> HIDE DEF popped, r
    <2>3. r.l = popped[l.size - n] BY <1>2, <1>3
    <2>4. RingIs(popped[l.size - n]) /\ popped[l.size - n].owner = l.owner
        BY <2>1, <2>2, ElementsPopped
    <2> QED BY <2>3, <2>4 DEF r
<1>4. CASE ~(n <= l.size)
    <2>1. n - l.size \in Nat /\ more \in [1..n - l.size -> Nat] BY <1>1, <1>4
    <2>2. more \in Seq(Nat) BY <2>1, SeqDef
    <2> HIDE DEF more, r
    <2>3. r = Ring!Extend(l, more, budget) BY <1>2, <1>4
    <2>4. RingIs(r.l) /\ r.l.owner = l.owner BY <2>2, <2>3, ExtendedRing
    <2> QED BY <2>4 DEF r
<1> QED BY <1>3, <1>4

\* What holds an object of each type.
Held(c) ==
    /\ kind \in {"vector", "stack"} => VectorIs(c)
    /\ kind = "heap" => HeapIs(c)
    /\ kind \in Rings => RingIs(c)
    /\ kind = "string" => StringIs(c)

\* No two lists have the same sentinel, so an iterator that a list does not
\* refuse is of that list.
OwnersDiffer == \A x, y \in Names : x # y => obj[x].owner # obj[y].owner

IInv ==
    /\ kind \in SequenceKinds /\ obj = [x \in Names |-> obj[x]]
    /\ \A x \in Names : Held(obj[x])
    /\ kind \in Rings => OwnersDiffer

\* One object or two get other contents.
LEMMA Replaced ==
    ASSUME IInv, NEW x \in Names, NEW c, kind' = kind, obj' = [obj EXCEPT ![x] = c], Held(c),
           kind \in Rings => \A y \in Names : y # x => c.owner # obj[y].owner
    PROVE  IInv'
<1>2. obj = [y \in Names |-> obj[y]] BY DEF IInv
<1>3. obj' = [y \in Names |-> IF y = x THEN c ELSE obj[y]] BY <1>2
<1>4. \A y \in Names : obj'[y] = IF y = x THEN c ELSE obj[y] BY <1>3
<1>5. \A y \in Names : Held(obj'[y]) BY <1>4 DEF IInv
<1>6. (\A y \in Names : Held(obj[y]))' BY <1>5 DEF Held
<1>7. kind \in Rings => OwnersDiffer' BY <1>4 DEF IInv, OwnersDiffer
<1>8. obj' = [y \in Names |-> obj'[y]] BY <1>3
<1> QED BY <1>6, <1>7, <1>8 DEF IInv

LEMMA BothReplaced ==
    ASSUME IInv, NEW x \in Names, NEW y \in Names, x # y, NEW a, NEW b, kind' = kind,
           obj' = [obj EXCEPT ![x] = a, ![y] = b], Held(a), Held(b),
           kind \in Rings => /\ a.owner # b.owner
                            /\ \A z \in Names \ {x, y} : /\ a.owner # obj[z].owner
                                                         /\ b.owner # obj[z].owner
    PROVE  IInv'
<1>2. obj = [z \in Names |-> obj[z]] BY DEF IInv
<1>3. obj' = [z \in Names |-> IF z = y THEN b ELSE IF z = x THEN a ELSE obj[z]] BY <1>2
<1>4. \A z \in Names : obj'[z] = IF z = y THEN b ELSE IF z = x THEN a ELSE obj[z] BY <1>3
<1>5. \A z \in Names : Held(obj'[z]) BY <1>4 DEF IInv
<1>6. (\A z \in Names : Held(obj[z]))' BY <1>5 DEF Held
<1>7. kind \in Rings => OwnersDiffer' BY <1>4 DEF IInv, OwnersDiffer
<1>8. obj' = [z \in Names |-> obj'[z]] BY <1>3
<1> QED BY <1>6, <1>7, <1>8 DEF IInv

LEMMA Kept ==
    ASSUME IInv, NEW x \in Names, NEW c, Becomes(x, c), Held(c),
           kind \in Rings => c.owner = obj[x].owner
    PROVE  IInv'
<1>1. kind' = kind /\ obj' = [obj EXCEPT ![x] = c] BY DEF Becomes
<1>2. kind \in Rings => \A y \in Names : y # x => c.owner # obj[y].owner
    BY DEF IInv, OwnersDiffer
<1> QED BY <1>1, <1>2, Replaced

LEMMA VectorKept ==
    ASSUME IInv, NEW x \in Names, NEW c, Becomes(x, c), kind \in {"vector", "stack"}, VectorIs(c)
    PROVE  IInv'
<1>1. Held(c) /\ kind \notin Rings BY DEF Held, Rings
<1> QED BY <1>1, Kept

LEMMA HeapKept ==
    ASSUME IInv, NEW x \in Names, NEW c, Becomes(x, c), kind = "heap", HeapIs(c)
    PROVE  IInv'
<1>1. Held(c) /\ kind \notin Rings BY DEF Held, Rings
<1> QED BY <1>1, Kept

LEMMA RingKept ==
    ASSUME IInv, NEW x \in Names, NEW c, Becomes(x, c), kind \in Rings, RingIs(c),
           c.owner = obj[x].owner
    PROVE  IInv'
<1>1. Held(c) BY DEF Held, Rings
<1> QED BY <1>1, Kept

LEMMA StringKept ==
    ASSUME IInv, NEW x \in Names, NEW c, Becomes(x, c), kind = "string", StringIs(c)
    PROVE  IInv'
<1>1. Held(c) /\ kind \notin Rings BY DEF Held, Rings
<1> QED BY <1>1, Kept

LEMMA Holds ==
    ASSUME IInv, NEW x \in Names
    PROVE  /\ kind \in {"vector", "stack"} => VectorIs(obj[x])
           /\ kind = "heap" => HeapIs(obj[x])
           /\ kind \in Rings => RingIs(obj[x])
           /\ kind = "string" => StringIs(obj[x])
BY DEF IInv, Held

LEMMA BudgetIs ==
    ASSUME IInv, NEW x \in Names, NEW n \in Budgets(x)
    PROVE  /\ n \in Nat
           /\ kind \in Rings => /\ obj[x].size + n <= Cardinality(ListNodes)
                                /\ n <= Cardinality(ListNodes)
                                /\ n > 0 => obj[x].nodes # ListNodes
<1>1. CASE kind \in Rings
    <2>1. RingIs(obj[x]) BY <1>1, Holds
    <2>2. n \in 0..Cardinality(ListNodes \ obj[x].nodes) BY <1>1 DEF Budgets
    <2>3. /\ Cardinality(ListNodes) \in Nat /\ obj[x].size \in Nat
          /\ Cardinality(ListNodes \ obj[x].nodes) = Cardinality(ListNodes) - obj[x].size
          /\ obj[x].size < Cardinality(ListNodes) => obj[x].nodes # ListNodes
        BY <2>1, NodesLeft
    <2> QED BY <2>2, <2>3
<1>2. CASE kind \notin Rings
    <2>1. n \in 0..1 \/ n \in 0..2 * MaxSize + 1 BY <1>2 DEF Budgets
    <2> QED BY <1>2, <2>1, SequenceAssumption
<1> QED BY <1>1, <1>2

\* There are more sentinels than names.
LEMMA NewOwnerIs == \A x \in Names : obj[x].owner # NewOwner
<1> DEFINE T == {obj[x].owner : x \in Names}
           f == [x \in Names |-> obj[x].owner]
<1>1. f \in Surjection(Names, T) BY DEF Surjection
<1>2. IsFiniteSet(Names) /\ IsFiniteSet(Owners) /\ Cardinality(Owners) > Cardinality(Names)
    BY SequenceAssumption
<1>3. IsFiniteSet(T) /\ Cardinality(T) <= Cardinality(Names) BY <1>1, <1>2, FS_Surjection
<1>4. Cardinality(T) \in Nat /\ Cardinality(Names) \in Nat /\ Cardinality(Owners) \in Nat
    BY <1>2, <1>3, FS_CardinalityType
<1>5. \E o \in Owners : o \notin T
    <2> HIDE DEF T
    <2> SUFFICES ASSUME Owners \subseteq T PROVE FALSE
        OBVIOUS
    <2>1. Cardinality(Owners) <= Cardinality(T) BY <1>3, FS_Subset
    <2> QED BY <1>2, <1>3, <1>4, <2>1
<1>6. \E o \in Owners : \A x \in Names : obj[x].owner # o BY <1>5
<1> QED BY <1>6 DEF NewOwner

\* Different lists can be given different sentinels.
LEMMA OwnersExist == \E f \in [Names -> Owners] : IsInjective(f)
<1>1. IsFiniteSet(Names) /\ IsFiniteSet(Owners) /\ Cardinality(Owners) > Cardinality(Names)
    BY SequenceAssumption
<1>2. /\ Cardinality(Names) \in Nat /\ ExistsBijection(1..Cardinality(Names), Names)
      /\ Cardinality(Owners) \in Nat /\ ExistsBijection(1..Cardinality(Owners), Owners)
    BY <1>1, FS_CardinalityType
<1>3. PICK g : g \in Bijection(1..Cardinality(Names), Names) BY <1>2 DEF ExistsBijection
<1>4. PICK h : h \in Bijection(1..Cardinality(Owners), Owners) BY <1>2 DEF ExistsBijection
<1>5. \A x \in Names : \E i \in 1..Cardinality(Names) : g[i] = x
    BY <1>3 DEF Bijection, Surjection
<1>6. h \in [1..Cardinality(Owners) -> Owners]
      /\ \A a, b \in 1..Cardinality(Owners) : h[a] = h[b] => a = b
    BY <1>4 DEF Bijection, Injection, IsInjective
<1> DEFINE At(x) == CHOOSE i \in 1..Cardinality(Names) : g[i] = x
           f == [x \in Names |-> h[At(x)]]
<1>7. \A x \in Names : At(x) \in 1..Cardinality(Names) /\ g[At(x)] = x BY <1>5
<1> HIDE DEF At
<1>12. \A i \in 1..Cardinality(Names) : i \in 1..Cardinality(Owners) BY <1>1, <1>2
<1>8. \A x \in Names : At(x) \in 1..Cardinality(Owners) BY <1>7, <1>12
<1>9. f \in [Names -> Owners] BY <1>6, <1>8
<1>10. \A a, b \in Names : f[a] = f[b] => a = b
    <2> SUFFICES ASSUME NEW a \in Names, NEW b \in Names, f[a] = f[b] PROVE a = b
        OBVIOUS
    <2>1. At(a) = At(b) BY <1>6, <1>8
    <2> QED BY <1>7, <2>1
<1>11. IsInjective(f)
    <2>1. DOMAIN f = Names OBVIOUS
    <2> HIDE DEF f
    <2> QED BY <1>10, <2>1 DEF IsInjective
<1> QED BY <1>9, <1>11

LEMMA EmptyHeapIs == HeapIs(Vec!EmptyVector)
<1>1. Vec!EmptyVector.size = 0 BY DEF Vec!EmptyVector
<1>2. 2..0 = {} OBVIOUS
<1> QED BY <1>1, <1>2, EmptyVectorIs DEF HeapIs, Vec!HeapOrdered

LEMMA InitIs == SequenceInit => IInv
<1> SUFFICES ASSUME SequenceInit PROVE IInv
    OBVIOUS
<1>0. kind \in SequenceKinds BY DEF SequenceInit
<1>1. CASE kind \in Blocks /\ obj = [x \in Names |-> Vec!EmptyVector]
    <2>1. kind \notin Rings /\ kind # "string" BY <1>1 DEF Blocks, Rings
    <2>2. \A x \in Names : Held(obj[x]) BY <1>1, <2>1, EmptyVectorIs, EmptyHeapIs DEF Held
    <2> QED BY <1>0, <1>1, <2>1, <2>2 DEF IInv
<1>2. CASE kind \in Rings /\ obj = [x \in Names |->
               Ring!NewList((CHOOSE f \in [Names -> Owners] : IsInjective(f))[x])]
    <2>1. PICK owner \in [Names -> Owners] :
             IsInjective(owner) /\ obj = [x \in Names |-> Ring!NewList(owner[x])]
        BY <1>2, OwnersExist
    <2>2. \A x \in Names : RingIs(obj[x]) /\ obj[x].owner = owner[x]
        BY <2>1, NewListIs DEF RingOf
    <2>3. kind \notin {"vector", "stack"} /\ kind # "heap" /\ kind # "string"
        BY <1>2 DEF Rings
    <2>4. \A x \in Names : Held(obj[x]) BY <2>2, <2>3 DEF Held
    <2>5. OwnersDiffer BY <2>1, <2>2 DEF OwnersDiffer, IsInjective
    <2> QED BY <1>0, <2>1, <2>4, <2>5 DEF IInv
<1>3. CASE kind = "string" /\ obj = [x \in Names |-> Str!NewString(<< >>)]
    <2>1. StringIs(Str!NewString(<< >>)) BY NewStringIs, EmptySeq
    <2>2. kind \notin Rings BY <1>3 DEF Rings
    <2>3. \A x \in Names : Held(obj[x]) BY <1>3, <2>1, <2>2 DEF Held
    <2> QED BY <1>0, <1>3, <2>2, <2>3 DEF IInv
<1> QED BY <1>1, <1>2, <1>3 DEF SequenceInit

LEMMA InvImpliesExact == IInv => StorageExact
<1> SUFFICES ASSUME IInv, NEW x \in Names
             PROVE  /\ kind \in Blocks => Vec!StorageExact(obj[x])
                    /\ kind = "heap" => Vec!HeapOrdered(obj[x])
                    /\ kind \in Rings => Ring!RingExact(obj[x])
                    /\ kind = "string" => Str!Terminated(obj[x])
    BY DEF StorageExact
<1>1. kind \in Blocks => VectorIs(obj[x]) BY Holds DEF Blocks, HeapIs
<1>2. kind \in Blocks => Vec!StorageExact(obj[x]) BY <1>1, VectorExact
<1>3. kind = "heap" => Vec!HeapOrdered(obj[x]) BY Holds DEF HeapIs
<1>4. kind \in Rings => Ring!RingExact(obj[x]) BY Holds, RingExactHolds
<1>5. kind = "string" => Str!Terminated(obj[x]) BY Holds, BufferExact
<1> QED BY <1>2, <1>3, <1>4, <1>5

\* The elements and texts given.
LEMMA GivenIs ==
    /\ \A e \in Elements : e \in Nat \ {0} /\ e \in Nat
    /\ \A t \in Literals : t \in Seq(Nat)
    /\ MaxSize \in Nat
<1>1. Elements \subseteq Nat BY SequenceAssumption
<1>2. ASSUME NEW t \in Literals PROVE t \in Seq(Nat)
    <2>1. t \in Seq(Elements) BY SequenceAssumption
    <2> QED BY <1>1, <2>1, SeqMonotonic
<1> QED BY <1>2, SequenceAssumption

\* Whether there is room is a condition.
LEMMA Flag == \A n : (n > 0) \in BOOLEAN
OBVIOUS

LEMMA AppendedKeeps ==
    ASSUME IInv, NEW x \in Names, NEW n \in Budgets(x), NEW e \in Elements, Appended(x, e, n)
    PROVE  IInv'
<1> DEFINE c == obj[x]
<1>0. n \in Nat /\ e \in Nat \ {0} /\ e \in Nat BY BudgetIs, GivenIs
<1>1. CASE kind = "vector" /\ Becomes(x, Vec!PushBack(c, e, n).v)
    <2>1. VectorIs(c) BY <1>1, Holds
    <2>2. VectorIs(Vec!PushBack(c, e, n).v) BY <1>0, <2>1, PushedBack DEF AllOrNothing
    <2> QED BY <1>1, <2>2, VectorKept
<1>2. CASE kind = "stack" /\ Becomes(x, Vec!StackPush(c, e, n).v)
    <2>1. VectorIs(c) BY <1>2, Holds
    <2>2. VectorIs(Vec!StackPush(c, e, n).v)
        BY <1>0, <2>1, PushedBack DEF AllOrNothing, Vec!StackPush
    <2> QED BY <1>2, <2>2, VectorKept
<1>3. CASE kind = "heap" /\ Becomes(x, Vec!HeapPush(c, e, n).v)
    <2>1. HeapIs(c) BY <1>3, Holds
    <2>2. HeapIs(Vec!HeapPush(c, e, n).v) BY <1>0, <2>1, HeapPushed
    <2> QED BY <1>3, <2>2, HeapKept
<1>4. CASE kind \in Rings /\ n > 0 /\ Becomes(x, Ring!PushBack(c, e))
    <2>1. RingIs(c) BY <1>4, Holds
    <2>2. c.nodes # ListNodes BY <1>4, BudgetIs
    <2>3. RingIs(Ring!PushBack(c, e)) /\ Ring!PushBack(c, e).owner = c.owner
        BY <1>0, <2>1, <2>2, PushedBackRing DEF RingOf
    <2> QED BY <1>4, <2>3, RingKept
<1>5. CASE kind = "string" /\ Becomes(x, Str!PushBack(c, e, n > 0).s)
    <2>1. StringIs(c) BY <1>5, Holds
    <2>2. StringIs(Str!PushBack(c, e, n > 0).s) BY <1>0, <2>1, Flag, StringPushed, Zenon
    <2> QED BY <1>5, <2>2, StringKept
<1> QED BY <1>1, <1>2, <1>3, <1>4, <1>5 DEF Appended, Ring!QueuePush, Rings

LEMMA AppendedOwnKeeps ==
    ASSUME IInv, NEW x \in Names, NEW n \in Budgets(x), NEW i \in 1..MaxSize, AppendedOwn(x, i, n)
    PROVE  IInv'
<1>1. VectorIs(obj[x]) BY Holds DEF AppendedOwn
<1>2. n \in Nat /\ i \in 1..obj[x].size
    <2>1. obj[x].size \in 0..Len(obj[x].cells) BY <1>1, VectorHas
    <2> QED BY <2>1, BudgetIs DEF AppendedOwn
<1>3. VectorIs(Vec!PushBackOwn(obj[x], i, n).v) BY <1>1, <1>2, PushedBackOwn
<1> QED BY <1>3, VectorKept DEF AppendedOwn

LEMMA PrependedKeeps ==
    ASSUME IInv, NEW x \in Names, NEW n \in Budgets(x), NEW e \in Elements, Prepended(x, e, n)
    PROVE  IInv'
<1> DEFINE c == obj[x]
<1>0. n \in Nat /\ e \in Nat \ {0} /\ e \in Nat BY BudgetIs, GivenIs
<1>1. CASE kind = "vector" /\ Becomes(x, Vec!PushFront(c, e, n).v)
    <2>1. VectorIs(c) BY <1>1, Holds
    <2>2. VectorIs(Vec!PushFront(c, e, n).v) BY <1>0, <2>1, PushedFront
    <2> QED BY <1>1, <2>2, VectorKept
<1>2. CASE kind = "list" /\ n > 0 /\ Becomes(x, Ring!PushFront(c, e))
    <2>1. RingIs(c) /\ kind \in Rings BY <1>2, Holds DEF Rings
    <2>2. c.nodes # ListNodes BY <1>2, <2>1, BudgetIs
    <2>3. RingIs(Ring!PushFront(c, e)) /\ Ring!PushFront(c, e).owner = c.owner
        BY <1>0, <2>1, <2>2, PushedFrontRing DEF RingOf
    <2> QED BY <1>2, <2>1, <2>3, RingKept
<1>3. CASE kind = "string" /\ Becomes(x, Str!Prepend(c, <<e>>, n > 0).s)
    <2>1. StringIs(c) /\ <<e>> \in Seq(Nat) BY <1>0, <1>3, Holds
    <2>2. StringIs(Str!Prepend(c, <<e>>, n > 0).s) BY <2>1, Flag, StringPrepended, Zenon
    <2> QED BY <1>3, <2>2, StringKept
<1> QED BY <1>1, <1>2, <1>3 DEF Prepended

\* An iterator that the list does not refuse is one of its own.
LEMMA IteratorIs ==
    ASSUME IInv, kind \in Rings, NEW x \in Names, NEW y \in Names,
           NEW p \in obj[y].nodes \union {Ring!Head0}
    PROVE  \/ x # y /\ obj[y].owner # obj[x].owner
           \/ /\ x = y /\ p \in obj[x].nodes \union {0}
              /\ Ring!Iterator(obj[y], p) = [node |-> p, owner |-> obj[x].owner]
BY DEF IInv, OwnersDiffer, Ring!Iterator, Ring!Head0

LEMMA ListInsertedKeeps ==
    ASSUME IInv, NEW x \in Names, NEW y \in Names, NEW p, NEW e \in Elements,
           ListInserted(x, y, p, e)
    PROVE  IInv'
<1> DEFINE it == Ring!Iterator(obj[y], p)
           c == Ring!Insert(obj[x], it, e)
<1>1. kind \in Rings /\ p \in obj[y].nodes \union {Ring!Head0} /\ obj[x].nodes # ListNodes
      /\ Becomes(x, c)
    BY DEF ListInserted, Rings
<1>2. RingIs(obj[x]) /\ e \in Nat BY <1>1, Holds, GivenIs
<1>3. RingIs(c) /\ c.owner = obj[x].owner
    <2>1. CASE x # y /\ obj[y].owner # obj[x].owner
        <3>1. it.owner # obj[x].owner BY <2>1 DEF Ring!Iterator
        <3> HIDE DEF it
        <3>2. c = obj[x] BY <3>1, OthersIterator
        <3> QED BY <1>2, <3>2
    <2>2. CASE p \in obj[x].nodes \union {0}
               /\ Ring!Iterator(obj[y], p) = [node |-> p, owner |-> obj[x].owner]
        <3>1. c = Ring!Insert(obj[x], [node |-> p, owner |-> obj[x].owner], e) BY <2>2
        <3> HIDE DEF c
        <3> QED BY <1>1, <1>2, <2>2, <3>1, InsertedIs DEF RingOf
    <2> QED BY <1>1, <2>1, <2>2, IteratorIs
<1> QED BY <1>1, <1>3, RingKept

LEMMA ListErasedKeeps ==
    ASSUME IInv, NEW x \in Names, NEW y \in Names, NEW p, ListErased(x, y, p)
    PROVE  IInv'
<1> DEFINE it == Ring!Iterator(obj[y], p)
           c == Ring!Erase(obj[x], it)
<1>1. kind \in Rings /\ p \in obj[y].nodes \union {Ring!Head0} /\ Becomes(x, c)
    BY DEF ListErased, Rings
<1>2. RingIs(obj[x]) BY <1>1, Holds
<1>3. RingIs(c) /\ c.owner = obj[x].owner
    <2>1. CASE x # y /\ obj[y].owner # obj[x].owner
        <3>1. it.owner # obj[x].owner BY <2>1 DEF Ring!Iterator
        <3> HIDE DEF it
        <3>2. c = obj[x] BY <3>1, OthersIterator
        <3> QED BY <1>2, <3>2
    <2>2. CASE p \in obj[x].nodes
               /\ Ring!Iterator(obj[y], p) = [node |-> p, owner |-> obj[x].owner]
        <3>1. c = Ring!Erase(obj[x], [node |-> p, owner |-> obj[x].owner]) BY <2>2
        <3> HIDE DEF c
        <3> QED BY <1>2, <2>2, <3>1, ErasedIs DEF RingOf
    <2>3. CASE p = 0 /\ Ring!Iterator(obj[y], p) = [node |-> p, owner |-> obj[x].owner]
        <3>1. it.node = Ring!Head0 BY <2>3 DEF Ring!Head0
        <3> HIDE DEF it
        <3>2. c = obj[x] BY <3>1 DEF Ring!Erase
        <3> QED BY <1>2, <3>2
    <2> QED BY <1>1, <2>1, <2>2, <2>3, IteratorIs
<1> QED BY <1>1, <1>3, RingKept

LEMMA TextInsertedKeeps ==
    ASSUME IInv, NEW x \in Names, NEW n \in Budgets(x), NEW t \in Literals,
           NEW at \in 0..MaxSize + 1, TextInserted(x, t, at, n)
    PROVE  IInv'
<1>1. n \in Nat /\ t \in Seq(Nat) /\ at \in Nat BY BudgetIs, GivenIs
<1>2. StringIs(obj[x]) /\ kind = "string" BY Holds DEF TextInserted
<1>3. StringIs(Str!InsertSubString(obj[x], t, at, n > 0).s) BY <1>1, <1>2, Flag, StringInserted, Zenon
<1> QED BY <1>2, <1>3, StringKept DEF TextInserted

LEMMA ErasedKeeps ==
    ASSUME IInv, NEW x \in Names, NEW n \in Budgets(x), NEW i \in 1..MaxSize, Erased(x, i, n)
    PROVE  IInv'
<1>1. n \in Nat /\ i \in Nat BY BudgetIs
<1>2. VectorIs(obj[x]) /\ kind = "vector" BY Holds DEF Erased
<1>3. VectorIs(Vec!Erase(obj[x], i, n).v) BY <1>1, <1>2, ErasedFrom
<1> QED BY <1>2, <1>3, VectorKept DEF Erased

LEMMA PoppedBackKeeps == ASSUME IInv, NEW x \in Names, PoppedBack(x) PROVE IInv'
<1> DEFINE c == obj[x]
<1>1. CASE kind \in {"vector", "stack"} /\ Becomes(x, Vec!PopBack(c))
    <2>1. VectorIs(c) BY <1>1, Holds
    <2>2. VectorIs(Vec!PopBack(c)) BY <2>1, PoppedBackVector
    <2> QED BY <1>1, <2>2, VectorKept
<1>2. CASE kind = "heap" /\ Becomes(x, Vec!HeapPop(c))
    <2>1. HeapIs(c) BY <1>2, Holds
    <2>2. HeapIs(Vec!HeapPop(c)) BY <2>1, HeapPopped
    <2> QED BY <1>2, <2>2, HeapKept
<1>3. CASE kind = "list" /\ Becomes(x, Ring!PopBack(c))
    <2>1. RingIs(c) /\ kind \in Rings BY <1>3, Holds DEF Rings
    <2>2. RingIs(Ring!PopBack(c)) /\ Ring!PopBack(c).owner = c.owner
        BY <2>1, PoppedBackRing DEF RingOf
    <2> QED BY <1>3, <2>1, <2>2, RingKept
<1> QED BY <1>1, <1>2, <1>3 DEF PoppedBack, Vec!StackPop

LEMMA PoppedFrontKeeps ==
    ASSUME IInv, NEW x \in Names, NEW n \in Budgets(x), PoppedFront(x, n)
    PROVE  IInv'
<1> DEFINE c == obj[x]
<1>1. CASE kind = "vector" /\ Becomes(x, Vec!PopFront(c, n).v)
    <2>1. VectorIs(c) /\ n \in Nat /\ 1 \in Nat BY <1>1, Holds, BudgetIs
    <2>2. VectorIs(Vec!PopFront(c, n).v) BY <2>1, ErasedFrom DEF Vec!PopFront
    <2> QED BY <1>1, <2>2, VectorKept
<1>2. CASE kind \in Rings /\ Becomes(x, Ring!PopFront(c))
    <2>1. RingIs(c) BY <1>2, Holds
    <2>2. RingIs(Ring!PopFront(c)) /\ Ring!PopFront(c).owner = c.owner
        BY <2>1, PoppedFrontRing DEF RingOf
    <2> QED BY <1>2, <2>2, RingKept
<1> QED BY <1>1, <1>2 DEF PoppedFront, Ring!QueuePop, Rings

LEMMA ResizedKeeps ==
    ASSUME IInv, NEW x \in Names, NEW n \in Budgets(x), NEW e \in Elements,
           NEW size \in 0..MaxSize + 1, Resized(x, size, e, n)
    PROVE  IInv'
<1> DEFINE c == obj[x]
<1>0. n \in Nat /\ size \in Nat /\ e \in Nat \ {0} /\ e \in Nat BY BudgetIs, GivenIs
<1>1. CASE kind = "vector" /\ Becomes(x, Vec!SizeAdjust(c, size, e, n).v)
    <2>1. VectorIs(c) BY <1>1, Holds
    <2>2. VectorIs(Vec!SizeAdjust(c, size, e, n).v) BY <1>0, <2>1, SizeAdjusted
    <2> QED BY <1>1, <2>2, VectorKept
<1>2. CASE kind = "list" /\ Becomes(x, Ring!Resize(c, size, e, n).l)
    <2>1. RingIs(c) /\ kind \in Rings BY <1>2, Holds DEF Rings
    <2>2. c.size + n <= Cardinality(ListNodes) BY <2>1, BudgetIs
    <2>3. RingIs(Ring!Resize(c, size, e, n).l) /\ Ring!Resize(c, size, e, n).l.owner = c.owner
        BY <1>0, <2>1, <2>2, ResizedRing
    <2> QED BY <1>2, <2>1, <2>3, RingKept
<1>3. CASE kind = "string" /\ Becomes(x, Str!Resize(c, size, e, n > 0).s)
    <2>1. StringIs(c) BY <1>3, Holds
    <2>2. StringIs(Str!Resize(c, size, e, n > 0).s) BY <1>0, <2>1, Flag, StringResized, Zenon
    <2> QED BY <1>3, <2>2, StringKept
<1> QED BY <1>1, <1>2, <1>3 DEF Resized

LEMMA ReservedKeeps ==
    ASSUME IInv, NEW x \in Names, NEW n \in Budgets(x), NEW capacity \in 0..MaxSize + 1,
           Reserved(x, capacity, n)
    PROVE  IInv'
<1> DEFINE c == obj[x]
<1>0. n \in Nat /\ capacity \in Nat BY BudgetIs
<1>1. CASE kind = "vector" /\ Becomes(x, Vec!EnsureCapacity(c, capacity, n).v)
    <2>1. VectorIs(c) BY <1>1, Holds
    <2>2. VectorIs(Vec!EnsureCapacity(c, capacity, n).v)
        BY <1>0, <2>1, CapacityEnsured DEF AllOrNothing
    <2> QED BY <1>1, <2>2, VectorKept
<1>2. CASE kind = "string" /\ Becomes(x, Str!Reserve(c, capacity, n > 0).s)
    <2>1. StringIs(c) BY <1>2, Holds
    <2>2. StringIs(Str!Reserve(c, capacity, n > 0).s) BY <1>0, <2>1, Flag, StringReserved, Zenon
    <2> QED BY <1>2, <2>2, StringKept
<1> QED BY <1>1, <1>2 DEF Reserved

LEMMA ExtendedKeeps ==
    ASSUME IInv, NEW x \in Names, NEW n \in Budgets(x), NEW y \in Names, Extended(x, y, n)
    PROVE  IInv'
<1> DEFINE c == obj[x]
<1>0. n \in Nat BY BudgetIs
<1>1. CASE kind = "vector" /\ Becomes(x, (IF x = y THEN Vec!ExtendSelf(c, n)
                                          ELSE Vec!Extend(c, obj[y], n)).v)
    <2>1. VectorIs(c) /\ VectorIs(obj[y]) BY <1>1, Holds
    <2>2. VectorIs(Vec!ExtendSelf(c, n).v) BY <1>0, <2>1, ExtendedVectorSelf
    <2>3. VectorIs(Vec!Extend(c, obj[y], n).v) BY <1>0, <2>1, ExtendedVector
    <2>4. VectorIs((IF x = y THEN Vec!ExtendSelf(c, n) ELSE Vec!Extend(c, obj[y], n)).v)
        BY <2>2, <2>3
    <2> QED BY <1>1, <2>4, VectorKept
<1>2. CASE kind = "list" /\ Becomes(x, (IF x = y THEN Ring!ExtendSelf(c, n)
                                        ELSE Ring!Extend(c, Ring!Contents(obj[y]), n)).l)
    <2>1. RingIs(c) /\ RingIs(obj[y]) /\ kind \in Rings BY <1>2, Holds DEF Rings
    <2>2. c.size + n <= Cardinality(ListNodes) BY <2>1, BudgetIs
    <2>3. Ring!Contents(obj[y]) \in Seq(Nat) BY <2>1, RingContents
    <2>4. RingIs(Ring!ExtendSelf(c, n).l) /\ Ring!ExtendSelf(c, n).l.owner = c.owner
        BY <1>0, <2>1, <2>2, ExtendedRingSelf
    <2> DEFINE r == Ring!Extend(c, Ring!Contents(obj[y]), n)
               s == IF x = y THEN Ring!ExtendSelf(c, n) ELSE r
    <2>5. RingIs(r.l) /\ r.l.owner = c.owner BY <1>0, <2>1, <2>2, <2>3, ExtendedRing
    <2>6. Becomes(x, s.l) BY <1>2
    <2>7. s = Ring!ExtendSelf(c, n) \/ s = r OBVIOUS
    <2> HIDE DEF s, r
    <2>8. RingIs(s.l) /\ s.l.owner = c.owner BY <2>4, <2>5, <2>7
    <2> QED BY <2>1, <2>6, <2>8, RingKept
<1>3. CASE kind = "string" /\ Becomes(x, (IF x = y THEN Str!ExtendSelf(c, n > 0)
                                          ELSE Str!Extend(c, Str!Text(obj[y]), n > 0)).s)
    <2>1. StringIs(c) /\ StringIs(obj[y]) BY <1>3, Holds
    <2>2. Str!Text(obj[y]) \in Seq(Nat) BY <2>1, TextIs
    <2>3. StringIs(Str!ExtendSelf(c, n > 0).s) BY <2>1, Flag, StringExtendedSelf, Zenon
    <2>4. StringIs(Str!Extend(c, Str!Text(obj[y]), n > 0).s)
        BY <2>1, <2>2, Flag, StringExtended, Zenon
    <2>5. StringIs((IF x = y THEN Str!ExtendSelf(c, n > 0)
                    ELSE Str!Extend(c, Str!Text(obj[y]), n > 0)).s)
        BY <2>3, <2>4, Zenon
    <2> QED BY <1>3, <2>5, StringKept
<1> QED BY <1>1, <1>2, <1>3 DEF Extended

LEMMA CopyAssignedKeeps ==
    ASSUME IInv, NEW x \in Names, NEW n \in Budgets(x), NEW y \in Names, CopyAssigned(x, y, n)
    PROVE  IInv'
<1> DEFINE c == obj[x]
<1>0. n \in Nat BY BudgetIs
<1>1. CASE kind \in Blocks /\ Becomes(x, Vec!Assign(c, obj[y], n).v)
    <2> DEFINE r == Vec!Assign(c, obj[y], n)
    <2>1. VectorIs(c) /\ VectorIs(obj[y]) /\ (kind = "heap" => HeapIs(c) /\ HeapIs(obj[y]))
        BY <1>1, Holds DEF Blocks, HeapIs
    <2>2. VectorIs(r.v) /\ (r.v = c \/ SameElements(r.v, obj[y]))
        BY <1>0, <2>1, AssignedVector
    <2> HIDE DEF r
    <2>3. kind = "heap" => HeapIs(r.v) BY <2>1, <2>2, HeapCopied
    <2>4. CASE kind = "heap" BY <1>1, <2>3, <2>4, HeapKept DEF r
    <2>5. CASE kind # "heap"
        <3>1. kind \in {"vector", "stack"} BY <1>1, <2>5 DEF Blocks
        <3> QED BY <1>1, <2>2, <3>1, VectorKept DEF r
    <2> QED BY <2>4, <2>5
<1>2. CASE /\ kind \in Rings
           /\ LET r == Ring!Assign(c, obj[y], NewOwner, n) IN obj' = [obj EXCEPT ![x] = r.l]
           /\ UNCHANGED kind
    <2> DEFINE r == Ring!Assign(c, obj[y], NewOwner, n)
    <2>1. RingIs(c) /\ RingIs(obj[y]) BY <1>2, Holds
    <2>2. n <= Cardinality(ListNodes) BY <1>2, BudgetIs
    <2>3. RingIs(r.l) /\ (r.l.owner = NewOwner \/ r.l = c)
        BY <1>0, <2>1, <2>2, AssignedRing
    <2>4. obj' = [obj EXCEPT ![x] = r.l] /\ kind' = kind BY <1>2
    <2> HIDE DEF r
    <2>5. \A z \in Names : z # x => r.l.owner # obj[z].owner
        BY <1>2, <2>3, NewOwnerIs DEF IInv, OwnersDiffer
    <2>6. Held(r.l) BY <1>2, <2>3 DEF Held, Rings
    <2> QED BY <2>4, <2>5, <2>6, Replaced
<1>3. CASE kind = "string" /\ Becomes(x, Str!Assign(c, obj[y], n > 0).s)
    <2>1. StringIs(c) /\ StringIs(obj[y]) BY <1>3, Holds
    <2>2. StringIs(Str!Assign(c, obj[y], n > 0).s) BY <2>1, Flag, StringAssigned, Zenon
    <2> QED BY <1>3, <2>2, StringKept
<1> QED BY <1>1, <1>2, <1>3 DEF CopyAssigned

LEMMA MoveAssignedKeeps ==
    ASSUME IInv, NEW x \in Names, NEW y \in Names, MoveAssigned(x, y)
    PROVE  IInv'
<1>0. x # y /\ kind' = kind BY DEF MoveAssigned
<1>1. CASE kind \in Blocks
    <2> DEFINE m == Vec!MoveAssign(obj[x], obj[y])
    <2>1. VectorIs(obj[x]) /\ VectorIs(obj[y]) /\ (kind = "heap" => HeapIs(obj[y]))
        BY <1>1, Holds DEF Blocks, HeapIs
    <2>2. m = [to |-> obj[y], from |-> Vec!EmptyVector] BY <2>1, MovedVector
    <2>3. obj' = [obj EXCEPT ![x] = m.to, ![y] = m.from] BY <1>1 DEF MoveAssigned
    <2> HIDE DEF m
    <2>4. obj' = [obj EXCEPT ![x] = obj[y], ![y] = Vec!EmptyVector] BY <2>2, <2>3
    <2>5. kind \notin Rings /\ kind # "string" BY <1>1 DEF Blocks, Rings
    <2>6. Held(obj[y]) /\ Held(Vec!EmptyVector)
        BY <2>1, <2>5, EmptyVectorIs, EmptyHeapIs DEF Held
    <2> QED BY <1>0, <2>4, <2>5, <2>6, BothReplaced
<1>2. CASE kind = "string"
    <2> DEFINE m == Str!MoveAssign(obj[x], obj[y])
    <2>1. StringIs(obj[y]) BY <1>2, Holds
    <2>2. StringIs(m.to) /\ StringIs(m.from) BY <2>1, StringMoved
    <2>3. obj' = [obj EXCEPT ![x] = m.to, ![y] = m.from] BY <1>2 DEF MoveAssigned, Blocks
    <2> HIDE DEF m
    <2>4. kind \notin Rings BY <1>2 DEF Rings
    <2>5. Held(m.to) /\ Held(m.from) BY <1>2, <2>2, <2>4 DEF Held
    <2> QED BY <1>0, <2>3, <2>4, <2>5, BothReplaced
<1>3. CASE kind \in Rings
    <2> DEFINE m == Ring!MoveAssign(obj[x], obj[y], NewOwner)
               new == Ring!NewList(NewOwner)
    <2>1. RingIs(obj[y]) BY <1>3, Holds
    <2>2. RingIs(new) /\ new.owner = NewOwner BY NewListIs DEF RingOf
    <2>3. m.to = obj[y] /\ m.from = new BY DEF Ring!MoveAssign
    <2>4. obj' = [obj EXCEPT ![x] = m.to, ![y] = m.from]
        BY <1>3 DEF MoveAssigned, Blocks, Rings
    <2> HIDE DEF m, new
    <2>5. obj' = [obj EXCEPT ![x] = obj[y], ![y] = new] BY <2>3, <2>4
    <2>6. Held(obj[y]) /\ Held(new) BY <1>3, <2>1, <2>2 DEF Held, Rings
    <2>7. obj[y].owner # new.owner BY <2>2, NewOwnerIs
    <2>8. \A z \in Names \ {x, y} : obj[y].owner # obj[z].owner /\ new.owner # obj[z].owner
        BY <1>3, <2>2, NewOwnerIs DEF IInv, OwnersDiffer
    <2> QED BY <1>0, <2>5, <2>6, <2>7, <2>8, BothReplaced
<1> QED BY <1>1, <1>2, <1>3 DEF IInv, SequenceKinds, Blocks, Rings

LEMMA LiteralAssignedKeeps ==
    ASSUME IInv, NEW x \in Names, NEW n \in Budgets(x), NEW t \in Literals,
           LiteralAssigned(x, t, n)
    PROVE  IInv'
<1> DEFINE c == obj[x]
<1>0. n \in Nat /\ t \in Seq(Nat) BY BudgetIs, GivenIs
<1>1. CASE kind = "list" /\ Becomes(x, Ring!AssignElements(c, t, n).l)
    <2>1. RingIs(c) /\ kind \in Rings BY <1>1, Holds DEF Rings
    <2>2. n <= Cardinality(ListNodes) BY <2>1, BudgetIs
    <2>3. RingIs(Ring!AssignElements(c, t, n).l)
          /\ Ring!AssignElements(c, t, n).l.owner = c.owner
        BY <1>0, <2>1, <2>2, ElementsAssigned
    <2> QED BY <1>1, <2>1, <2>3, RingKept
<1>2. CASE kind = "string" /\ Becomes(x, Str!AssignText(c, t, n > 0).s)
    <2>1. StringIs(c) BY <1>2, Holds
    <2>2. StringIs(Str!AssignText(c, t, n > 0).s) BY <1>0, <2>1, Flag, TextAssigned, Zenon
    <2> QED BY <1>2, <2>2, StringKept
<1> QED BY <1>1, <1>2 DEF LiteralAssigned

LEMMA PartAssignedKeeps ==
    ASSUME IInv, NEW x \in Names, NEW n \in Budgets(x), NEW y \in Names,
           NEW i \in 0..MaxSize + 1, NEW j \in 0..MaxSize + 1, PartAssigned(x, y, i, j, n)
    PROVE  IInv'
<1>0. kind = "string" /\ i \in Nat /\ j \in Nat BY DEF PartAssigned
<1>1. StringIs(obj[x]) /\ StringIs(obj[y]) BY <1>0, Holds
<1>2. StringIs(Str!SubString(obj[y], i, j, n > 0).s)
    BY <1>0, <1>1, Flag, SubStringIs, Zenon
<1>3. StringIs(Str!ReverseSubString(obj[y], i, j, n > 0).s)
    BY <1>0, <1>1, Flag, ReverseSubStringIs, Zenon
<1>4. PICK r \in {Str!SubString(obj[y], i, j, n > 0), Str!ReverseSubString(obj[y], i, j, n > 0)} :
         Becomes(x, IF r.ok THEN r.s ELSE obj[x])
    BY DEF PartAssigned
<1>5. StringIs(r.s) BY <1>2, <1>3, <1>4
<1>6. StringIs(IF r.ok THEN r.s ELSE obj[x]) BY <1>1, <1>5, Zenon
<1> QED BY <1>0, <1>4, <1>6, StringKept

LEMMA RecasedKeeps == ASSUME IInv, NEW x \in Names, Recased(x) PROVE IInv'
<1>1. StringIs(obj[x]) /\ kind = "string" BY Holds DEF Recased
<1>2. StringIs(Str!Uppercase(obj[x])) /\ StringIs(Str!Lowercase(obj[x]))
    BY <1>1, Uppercased, Lowercased
<1>3. PICK s \in {Str!Uppercase(obj[x]), Str!Lowercase(obj[x])} : Becomes(x, s) BY DEF Recased
<1>4. StringIs(s) BY <1>2, <1>3
<1> QED BY <1>1, <1>3, <1>4, StringKept

LEMMA NextKeeps == IInv /\ [SequenceNext]_vars => IInv'
<1> SUFFICES ASSUME IInv, [SequenceNext]_vars PROVE IInv'
    OBVIOUS
<1>1. CASE SequenceNext
    <2>1. PICK x \in Names :
          \/ PoppedBack(x) \/ Recased(x)
          \/ \E n \in Budgets(x) :
                \/ PoppedFront(x, n)
                \/ \E e \in Elements : \/ Appended(x, e, n) \/ Prepended(x, e, n)
                                       \/ \E size \in 0..MaxSize + 1 : Resized(x, size, e, n)
                \/ \E i \in 1..MaxSize : AppendedOwn(x, i, n) \/ Erased(x, i, n)
                \/ \E c \in 0..MaxSize + 1 : Reserved(x, c, n)
                \/ \E t \in Literals : \/ LiteralAssigned(x, t, n)
                                       \/ \E at \in 0..MaxSize + 1 : TextInserted(x, t, at, n)
                \/ \E y \in Names :
                      \/ Extended(x, y, n) \/ CopyAssigned(x, y, n)
                      \/ \E i, j \in 0..MaxSize + 1 : PartAssigned(x, y, i, j, n)
          \/ \E y \in Names : \/ MoveAssigned(x, y)
                              \/ \E p \in ListNodes \union {Ring!Head0} :
                                    \/ ListErased(x, y, p)
                                    \/ \E e \in Elements : ListInserted(x, y, p, e)
        BY <1>1, Zenon DEF SequenceNext
    <2>2. CASE PoppedBack(x) BY <2>2, PoppedBackKeeps
    <2>3. CASE Recased(x) BY <2>3, RecasedKeeps
    <2>4. ASSUME NEW n \in Budgets(x), PoppedFront(x, n) PROVE IInv'
        BY <2>4, PoppedFrontKeeps
    <2>5. ASSUME NEW n \in Budgets(x), NEW e \in Elements,
                 \/ Appended(x, e, n) \/ Prepended(x, e, n)
                 \/ \E size \in 0..MaxSize + 1 : Resized(x, size, e, n)
          PROVE  IInv'
        BY <2>5, AppendedKeeps, PrependedKeeps, ResizedKeeps
    <2>6. ASSUME NEW n \in Budgets(x), NEW i \in 1..MaxSize, AppendedOwn(x, i, n) \/ Erased(x, i, n)
          PROVE  IInv'
        BY <2>6, AppendedOwnKeeps, ErasedKeeps
    <2>7. ASSUME NEW n \in Budgets(x), NEW c \in 0..MaxSize + 1, Reserved(x, c, n) PROVE IInv'
        BY <2>7, ReservedKeeps
    <2>8. ASSUME NEW n \in Budgets(x), NEW t \in Literals,
                 \/ LiteralAssigned(x, t, n)
                 \/ \E at \in 0..MaxSize + 1 : TextInserted(x, t, at, n)
          PROVE  IInv'
        BY <2>8, LiteralAssignedKeeps, TextInsertedKeeps
    <2>9. ASSUME NEW n \in Budgets(x), NEW y \in Names,
                 \/ Extended(x, y, n) \/ CopyAssigned(x, y, n)
                 \/ \E i, j \in 0..MaxSize + 1 : PartAssigned(x, y, i, j, n)
          PROVE  IInv'
        BY <2>9, ExtendedKeeps, CopyAssignedKeeps, PartAssignedKeeps
    <2>10. ASSUME NEW y \in Names, MoveAssigned(x, y) PROVE IInv'
        BY <2>10, MoveAssignedKeeps
    <2>11. ASSUME NEW y \in Names, NEW p, ListErased(x, y, p) PROVE IInv'
        BY <2>11, ListErasedKeeps
    <2>12. ASSUME NEW y \in Names, NEW p, NEW e \in Elements, ListInserted(x, y, p, e) PROVE IInv'
        BY <2>12, ListInsertedKeeps
    <2> QED BY <2>1, <2>2, <2>3, <2>4, <2>5, <2>6, <2>7, <2>8, <2>9, <2>10, <2>11, <2>12, Zenon
<1>2. CASE UNCHANGED vars
    <2>1. kind' = kind /\ obj' = obj BY <1>2 DEF vars
    <2> QED BY <2>1 DEF IInv, Held, OwnersDiffer
<1> QED BY <1>1, <1>2

\* In every container kept in sequence, after every operation, one that threw in
\* the middle included: the constructed elements of a Vector are its first
\* places and none is lost, a PriorityQueue is ordered, a List's ring agrees
\* with itself and with its counter, a String is terminated in its buffer.
THEOREM StorageIsExact == SequenceSpec => []StorageExact
<1>1. SequenceInit => IInv BY InitIs
<1>2. IInv /\ [SequenceNext]_vars => IInv' BY NextKeeps
<1>3. IInv => StorageExact BY InvImpliesExact
<1> QED BY <1>1, <1>2, <1>3, PTL DEF SequenceSpec

=============================================================================
