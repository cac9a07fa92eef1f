----------------------------- MODULE BloomFilter -----------------------------
(***************************************************************************)
(* BaseContainer::BitSet (Base.hpp), words of 32 bits with a count of the  *)
(* bits set, and BloomFilterContainer::BloomFilter over it (Bloom.hpp),    *)
(* with three hash functors.                                               *)
(***************************************************************************)
EXTENDS Integers, FiniteSets

CONSTANT Hashes        \* Hashes[x][n]: what the nth functor makes of x

WordBits == 32

\* Resize allots capacity / 32 + 1 words and clears them all.
BitSetResize(capacity) ==
    [word |-> [w \in 0..capacity \div WordBits |-> {}], size |-> 0, capacity |-> capacity]

BitTest(b, i) == i < b.capacity /\ i % WordBits \in b.word[i \div WordBits]

\* An index out of range, and a bit that is set already, change nothing.
BitSet(b, i) ==
    IF i >= b.capacity \/ BitTest(b, i) THEN b
    ELSE [b EXCEPT !.word[i \div WordBits] = @ \union {i % WordBits}, !.size = @ + 1]

BitReset(b, i) ==
    IF ~BitTest(b, i) THEN b
    ELSE [b EXCEPT !.word[i \div WordBits] = @ \ {i % WordBits}, !.size = @ - 1]

Location(b, x, n) == Hashes[x][n] % b.capacity

BloomSet(b, x) ==
    BitSet(BitSet(BitSet(b, Location(b, x, 1)), Location(b, x, 2)), Location(b, x, 3))
BloomTest(b, x) == \A n \in 1..3 : BitTest(b, Location(b, x, n))

\* The counter is the number of bits set, none of them beyond the capacity.
BitsCounted(b) ==
    /\ b.size = Cardinality({i \in 0..b.capacity - 1 : BitTest(b, i)})
    /\ \A w \in DOMAIN b.word : \A i \in b.word[w] : w * WordBits + i < b.capacity
=============================================================================
