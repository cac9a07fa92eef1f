--------------------------- MODULE KeyedContainers ---------------------------
(***************************************************************************)
(* The containers that look elements up: RedBlackTree with TreeSet and     *)
(* TreeMap over it, BalanceTree, BinaryTree, HashTable with HashSet and    *)
(* HashMap over it, BitSet and BloomFilter.  One action per operation; the *)
(* algorithms are in the modules that are instantiated.                    *)
(***************************************************************************)
EXTENDS ContainerWorld, Integers, FiniteSets, Sequences, TLC

CONSTANTS
    Keys, KeysOf,           \* the keys, and those that each kind is used with
    Values, Lists,          \* values of maps, initializer lists of entries
    HashOf,                 \* the hash functor
    Capacities, Factors,    \* arguments of HashTable's constructor, of ChangeLoadFactor
    BitCapacity, BitOf,     \* the size of BitSet, and the bit that stands for a key
    Hashes                  \* the three functors of BloomFilter

RedBlackKinds == {"red-black", "tree-set", "tree-map"}
HashKinds == {"hash", "hash-set", "hash-map"}
MapKinds  == {"tree-map", "hash-map"}
AdapterKinds == {"tree-set", "hash-set"} \union MapKinds
KeyedKinds == RedBlackKinds \union HashKinds \union {"avl", "binary", "bits", "filter"}

ASSUME KeyedAssumption ==
    /\ Keys \subseteq Nat \ {0} /\ Values \subseteq Nat
    /\ KeysOf \in [KeyedKinds -> SUBSET Keys]
    /\ Lists \subseteq Seq([key : Keys, value : Values])
    /\ HashOf \in [Keys -> Nat] /\ BitOf \in [Keys -> Nat]
    /\ Capacities \subseteq Nat /\ Factors \subseteq Nat /\ BitCapacity \in Nat \ {0}
    /\ Hashes \in [Keys -> [1..3 -> Nat]]

RB   == INSTANCE RedBlackTree WITH TreeKeys <- Keys
Avl  == INSTANCE BalanceTree WITH TreeKeys <- Keys
Bst  == INSTANCE BinaryTree WITH TreeKeys <- Keys
Hash == INSTANCE HashTable WITH HashKeys <- Keys
Over == INSTANCE Adapters
Bits == INSTANCE BloomFilter

\* The containers that a constructor makes; given is what a filter was told.
NewKeyed(k) ==
    CASE k \in {"red-black", "tree-set"} -> {RB!EmptyTree}
      [] k = "tree-map" -> {Over!NewTreeMap}
      [] k = "avl"      -> {Avl!EmptyTree}
      [] k = "binary"   -> {Bst!EmptyTree}
      [] k = "hash"     -> {Hash!NewTable(c) : c \in Capacities}
      [] k = "hash-set" -> {Over!NewHashSet}
      [] k = "hash-map" -> {Over!NewHashMap}
      [] k = "bits"     -> {Bits!BitSetResize(BitCapacity)}
      [] k = "filter"   -> {[bits |-> Bits!BitSetResize(BitCapacity), given |-> {}]}

KeyedInit ==
    /\ kind \in KeyedKinds
    /\ obj \in [Names -> NewKeyed(kind)]
    /\ leaked = {}

Put(c, k, v) ==
    CASE kind = "red-black" -> RB!Push(c, k)
      [] kind = "tree-set"  -> Over!TreeSetPush(c, k)
      [] kind = "tree-map"  -> Over!TreeMapPush(c, [key |-> k, value |-> v])
      [] kind = "avl"       -> Avl!Push(c, k)
      [] kind = "binary"    -> Bst!Push(c, k)
      [] kind = "hash"      -> Hash!Push(c, k)
      [] kind = "hash-set"  -> Over!HashSetPush(c, k)
      [] kind = "hash-map"  -> Over!HashMapPush(c, [key |-> k, value |-> v])
      [] kind = "bits"      -> Bits!BitSet(c, BitOf[k])
      [] kind = "filter"    -> [bits |-> Bits!BloomSet(c.bits, k), given |-> c.given \union {k}]

Take(c, k) ==
    CASE kind = "red-black" -> RB!Pop(c, k)
      [] kind = "tree-set"  -> Over!TreeSetPop(c, k)
      [] kind = "tree-map"  -> Over!TreeMapPop(c, k)
      [] kind = "avl"       -> Avl!Pop(c, k)
      [] kind = "binary"    -> Bst!Pop(c, k)
      [] kind = "hash"      -> Hash!Pop(c, k)
      [] kind = "hash-set"  -> Over!HashSetPop(c, k)
      [] kind = "hash-map"  -> Over!HashMapPop(c, k)
      [] kind = "bits"      -> Bits!BitReset(c, BitOf[k])

\* Whether the lookup of the kind finds the key.
Finds(c, k) ==
    CASE kind = "red-black" -> RB!Find(c, k) # RB!Nil
      [] kind = "tree-set"  -> Over!TreeSetFind(c, k)
      [] kind = "tree-map"  -> Over!TreeMapFind(c, k)
      [] kind = "avl"       -> Avl!Find(c, k) # Avl!Nil
      [] kind = "binary"    -> Bst!Find(c, k) # Bst!Nil
      [] kind = "hash"      -> Hash!Find(c, k) # Hash!None
      [] kind = "hash-set"  -> Over!HashSetFind(c, k)
      [] kind = "hash-map"  -> Over!HashMapFind(c, k)
      [] kind = "bits"      -> Bits!BitTest(c, BitOf[k])
      [] kind = "filter"    -> Bits!BloomTest(c.bits, k)

Set(x, c) == obj' = [obj EXCEPT ![x] = c] /\ UNCHANGED <<kind, leaked>>

Pushed(x, k) ==
    \E v \in IF kind \in MapKinds THEN Values ELSE {k} : Set(x, Put(obj[x], k, v))

\* A failed allocation or hash in the rehash; elsewhere it comes before any change.
PushThrown(x, k) ==
    kind = "hash" /\ \E h \in Hash!PushThrows(obj[x], k) : Set(x, h)

Popped(x, k) == kind # "filter" /\ Set(x, Take(obj[x], k))

\* BinaryTree::Insert.
Inserted(x, existing, k) == kind = "binary" /\ Set(x, Bst!Insert(obj[x], existing, k))

\* operator=(initializer_list) of the adapters, which may throw after n elements.
Merged(x, list, n) ==
    /\ kind \in AdapterKinds
    /\ Set(x, CASE kind = "tree-set" -> Over!TreeSetMerge(obj[x], list, n)
                [] kind = "tree-map" -> Over!TreeMapMerge(obj[x], list, n)
                [] kind = "hash-set" -> Over!HashSetMerge(obj[x], list, n)
                [] kind = "hash-map" -> Over!HashMapMerge(obj[x], list, n))

LoadFactorChanged(x, factor) == kind = "hash" /\ Set(x, Hash!ChangeLoadFactor(obj[x], factor))

\* A map's entries go where its table goes.
Table(c) == IF kind \in MapKinds THEN c.table ELSE c
Carrying(c, t) ==
    IF kind \notin MapKinds THEN t
    ELSE [table |-> t, value |-> [k \in Keys |-> IF k \in t.nodes THEN c.value[k] ELSE 0]]

\* budget elements are copied; only a table hashes what it copies.
CopyOf(t, budget, hashThrows) ==
    CASE kind \in RedBlackKinds -> RB!Copy(t, budget)
      [] kind = "avl"           -> Avl!Copy(t, budget)
      [] kind = "binary"        -> Bst!Copy(t, budget)
      [] kind = "hash"          -> Hash!Copy(t, budget, hashThrows)
      [] kind = "hash-set"      -> Over!SetHash!Copy(t, budget, hashThrows)
      [] kind = "hash-map"      -> Over!MapHash!Copy(t, budget, hashThrows)
Cleared(t) ==
    CASE kind \in RedBlackKinds -> RB!Clear(t)
      [] kind = "avl"           -> Avl!Clear(t)
      [] kind = "binary"        -> Bst!Clear(t)
      [] kind \in HashKinds     -> Hash!ClearNodes(t)

\* What a clean-up has left of the nodes that it was to free.
Leak(left, unlinked) ==
    IF left = {} THEN {} ELSE IF left = unlinked THEN {"unlinked node"} ELSE {"node"}

\* Copy and swap: the copy is made first, and what the target held goes with
\* the temporary.  A copy that fails leaves the target alone.
Copied(x, y, budget, hashThrows) ==
    /\ kind \notin {"bits", "filter"} /\ x # y
    /\ hashThrows => kind \in HashKinds
    /\ LET copy == CopyOf(Table(obj[y]), budget, hashThrows)
           gone == IF copy.done THEN Cleared(Table(obj[x])) ELSE copy.table
           unlinked == IF kind \in HashKinds THEN copy.unlinked ELSE {}
       IN /\ obj' = IF copy.done THEN [obj EXCEPT ![x] = Carrying(obj[y], copy.table)] ELSE obj
          /\ leaked' = leaked \union Leak(gone.nodes, unlinked)
    /\ UNCHANGED kind

\* BitSet is copied by its Vector and its numbers.
BitsAssigned(x, y) == kind = "bits" /\ x # y /\ Set(x, obj[y])

\* The overloads of BalanceTree's operator= leave a moved argument ambiguous.
Moved(x, y) ==
    /\ kind \notin {"avl", "bits", "filter"} /\ x # y
    /\ LET to   == Table(obj[x])
           from == Table(obj[y])
           m == CASE kind \in RedBlackKinds -> RB!MoveAssign(to, from)
                  [] kind = "binary"        -> Bst!MoveAssign(to, from)
                  [] kind \in HashKinds     -> Hash!MoveAssign(to, from)
       IN /\ obj' = [obj EXCEPT ![x] = Carrying(obj[y], m.to), ![y] = Carrying(obj[y], m.from)]
          /\ leaked' = leaked \union Leak(m.gone.nodes, {})
    /\ UNCHANGED kind

KeyedNext ==
    /\ kind \in KeyedKinds
    /\ \E x \in Names :
          \/ \E k \in KeysOf[kind] : Pushed(x, k) \/ PushThrown(x, k) \/ Popped(x, k)
          \/ \E e, k \in KeysOf[kind] : Inserted(x, e, k)
          \/ \E list \in Lists : \E n \in 0..Len(list) : Merged(x, list, n)
          \/ \E f \in Factors : LoadFactorChanged(x, f)
          \/ \E y \in Names : \/ \E n \in 0..Cardinality(Keys), h \in BOOLEAN : Copied(x, y, n, h)
                              \/ BitsAssigned(x, y)
                              \/ Moved(x, y)

KeyedSpec == KeyedInit /\ [][KeyedNext]_vars

(***************************************************************************)
(* Properties.                                                             *)
(***************************************************************************)
\* What a container holds, read off its nodes and not off its lookup.
Holds(c) ==
    CASE kind \in KeyedKinds \ {"bits", "filter"} -> Table(c).nodes
      [] kind = "bits"   -> {k \in Keys : Bits!BitTest(c, BitOf[k])}
      [] kind = "filter" -> c.given
      [] OTHER -> {}
Mapping(c) == [k \in Holds(c) |-> IF kind \in MapKinds THEN c.value[k] ELSE k]

TreeShape(c) ==
    /\ kind \in RedBlackKinds =>
           LET t == Table(c)
           IN RB!IsRedBlack(t) /\ RB!ParentsAgree(t) /\ RB!Below(t, t.root) = t.nodes
    /\ kind = "avl" =>
           Avl!IsBalanced(c) /\ Avl!ParentsAgree(c) /\ Avl!Below(c, c.root) = c.nodes
HashShape(c) ==
    /\ kind = "hash" => Hash!Agrees(c)
    /\ kind = "hash-set" => Over!SetHash!Agrees(c)
    /\ kind = "hash-map" => Over!MapHash!Agrees(c.table)
    /\ kind \in HashKinds => Hash!WithinLoad(Table(c))

\* After any history of insertions, removals and assignments a red-black tree
\* has a black root, no red node with a red child and as many black nodes on
\* one path as on any other (InsertAdjust, DeleteAdjust, EraseNode, Clear); an
\* AVL tree stores the true heights and balance factors, none of which leaves
\* -1..1 (RebalanceFrom, Pop, copy construction).  Parents agree with children
\* and every node that is owned is reached.  The chains, the insertion list in
\* both directions and the counter of a hash table agree, also after a rehash
\* that failed, and the load stays in bounds.  What a copy, a failed copy or an
\* assignment discards, its clean-up frees: the traversal of Clear meets every node.
\* One node does leak, by name: the one that HashTable's copy constructor has
\* allocated and not linked when the hash functor throws (Base.hpp:1747).
KnownLeaks == {"unlinked node"}
ShapesExact ==
    leaked \subseteq KnownLeaks /\ \A x \in Names : TreeShape(obj[x]) /\ HashShape(obj[x])

\* Iteration forward gives the held keys in ascending order, and backward the
\* mirror image.
Ascending(seq, set) ==
    /\ {seq[i] : i \in DOMAIN seq} = set
    /\ \A i, j \in DOMAIN seq : i < j => seq[i] < seq[j]
InOrder(c) ==
    LET fuel == Cardinality(Keys) + 1
        t == Table(c)
        Mirror(seq) == [i \in DOMAIN seq |-> seq[Len(seq) + 1 - i]]
    IN CASE kind \in RedBlackKinds ->
              /\ Ascending(RB!Walk(t, RB!Begin(t), "right", fuel), t.nodes)
              /\ Ascending(Mirror(RB!Walk(t, RB!Rbegin(t), "left", fuel)), t.nodes)
         [] kind = "avl" ->
              /\ Ascending(Avl!Walk(c, Avl!Begin(c), "right", fuel), c.nodes)
              /\ Ascending(Mirror(Avl!Walk(c, Avl!Rbegin(c), "left", fuel)), c.nodes)
         [] kind = "binary" -> Ascending(Bst!InOrder(c, c.root), c.nodes)
         [] OTHER -> TRUE

\* Find answers exactly for the keys held, wherever the last rotation or rehash
\* left them; a bloom filter never denies what it was given; the counter of a
\* bit set is the number of its bits; iteration is in key order.
LookupExact ==
    \A x \in Names :
        LET c == obj[x] IN
        /\ \A k \in Keys : IF kind = "filter" THEN k \in c.given => Finds(c, k)
                           ELSE kind \in KeyedKinds => (Finds(c, k) <=> k \in Holds(c))
        /\ kind = "bits" => Bits!BitsCounted(c)
        /\ kind = "filter" => Bits!BitsCounted(c.bits)
        /\ InOrder(c)

\* Every keyed container implements the abstract dictionary: a step changes
\* one key, merges a list, or copies or moves everything, a value stays with
\* its key until the key goes, and a step that fails changes nothing.
D == INSTANCE Dictionary WITH Values <- Values \union Keys,
                              held <- [x \in Names |-> Mapping(obj[x])]
DictionarySpec == D!Spec
=============================================================================
