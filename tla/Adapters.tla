------------------------------ MODULE Adapters ------------------------------
(***************************************************************************)
(* TreeSet and HashSet (Set.hpp), TreeMap and HashMap (Map.hpp): what they *)
(* hand to RedBlackTree and HashTable.  A set is its table; a map's node   *)
(* holds a key and a value, only the key being compared and hashed.  An    *)
(* entry is a record of both, and list arguments are sequences of entries. *)
(***************************************************************************)
EXTENDS Integers, Sequences, SequencesExt

CONSTANTS Keys, HashOf      \* HashOf: the functor that is given to the adapter

Tree      == INSTANCE RedBlackTree WITH TreeKeys <- Keys
SetHash == INSTANCE HashTable WITH HashKeys <- Keys, HashOf <- [k \in Keys |-> 131 * HashOf[k]]
MapHash == INSTANCE HashTable WITH HashKeys <- Keys, HashOf <- [k \in Keys |-> 31 * HashOf[k]]

TreeSetPush(t, k) == Tree!Push(t, k)
TreeSetPop(t, k)  == Tree!Pop(t, k)
TreeSetFind(t, k) == Tree!Find(t, k) # Tree!Nil

\* The default constructor's table has ten buckets.
NewHashSet == SetHash!NewTable(10)
HashSetPush(h, k) == SetHash!Push(h, k)
HashSetPop(h, k)  == SetHash!Pop(h, k)
HashSetFind(h, k) == SetHash!Find(h, k) # SetHash!None

\* operator=(initializer_list) of all four adds what is absent and clears nothing;
\* it may throw after n elements.
TreeSetMerge(t, list, n) ==
    FoldLeft(LAMBDA acc, e : TreeSetPush(acc, e.key), t, SubSeq(list, 1, n))
HashSetMerge(h, list, n) ==
    FoldLeft(LAMBDA acc, e : HashSetPush(acc, e.key), h, SubSeq(list, 1, n))

NoValues == [k \in Keys |-> 0]
NewTreeMap == [table |-> Tree!EmptyTree, value |-> NoValues]
NewHashMap == [table |-> MapHash!NewTable(10), value |-> NoValues]

\* Mutant: a push of a key that is there replaces its value.
TreeMapAssign(m, e) ==
    [table |-> Tree!Push(m.table, e.key), value |-> [m.value EXCEPT ![e.key] = e.value]]

\* The node made for the entry is dropped when the key is there.
TreeMapPush(m, e) ==
    IF Tree!Find(m.table, e.key) # Tree!Nil THEN m
    ELSE [table |-> Tree!Push(m.table, e.key), value |-> [m.value EXCEPT ![e.key] = e.value]]
HashMapPush(m, e) ==
    IF MapHash!Find(m.table, e.key) # MapHash!None THEN m
    ELSE [table |-> MapHash!Push(m.table, e.key), value |-> [m.value EXCEPT ![e.key] = e.value]]

\* By the key alone, whatever the value of the entry given.
TreeMapPop(m, k) == [table |-> Tree!Pop(m.table, k), value |-> [m.value EXCEPT ![k] = 0]]
HashMapPop(m, k) == [table |-> MapHash!Pop(m.table, k), value |-> [m.value EXCEPT ![k] = 0]]

\* operator[] only looks; an absent key gives the end.
TreeMapFind(m, k) == Tree!Find(m.table, k) # Tree!Nil
HashMapFind(m, k) == MapHash!Find(m.table, k) # MapHash!None

TreeMapMerge(m, list, n) == FoldLeft(TreeMapPush, m, SubSeq(list, 1, n))
HashMapMerge(m, list, n) == FoldLeft(HashMapPush, m, SubSeq(list, 1, n))

=============================================================================
