------------------------- MODULE SequenceContainers -------------------------
(***************************************************************************)
(* The containers that keep elements in an order of the program's: Vector, *)
(* Stack and PriorityQueue over it, List, Queue over it, and String.  One  *)
(* action per operation; n is how much can be allocated, constructed or    *)
(* assigned before the operation throws.                                   *)
(***************************************************************************)
EXTENDS ContainerWorld, Integers, FiniteSets, Sequences, Functions, TLC

CONSTANTS
    Elements, Literals,       \* elements and the texts given as arguments
    FirstCapacity, MaxSize,   \* of Vector, and MaximumSize() of String
    ListNodes, Owners         \* addresses of list nodes and of sentinels

SequenceKinds == {"vector", "stack", "heap", "list", "queue", "string"}

ASSUME SequenceAssumption ==
    /\ Elements \subseteq Nat \ {0} /\ Literals \subseteq Seq(Elements)
    /\ FirstCapacity \in Nat \ {0} /\ MaxSize \in Nat \ {0}
    /\ ListNodes \subseteq Nat \ {0} /\ IsFiniteSet(ListNodes)
    /\ IsFiniteSet(Names) /\ IsFiniteSet(Owners) /\ Cardinality(Owners) > Cardinality(Names)

Vec  == INSTANCE Vector
Ring == INSTANCE List
Str  == INSTANCE StringBuffer WITH MaximumSize <- MaxSize

Blocks == {"vector", "stack", "heap"}
Rings  == {"list", "queue"}

NewOwner == CHOOSE o \in Owners : \A x \in Names : obj[x].owner # o

\* Lists are born with different sentinels; the owners are as good as named.
SequenceInit ==
    /\ kind \in SequenceKinds
    /\ leaked = {}
    /\ \/ kind \in Blocks /\ obj = [x \in Names |-> Vec!EmptyVector]
       \/ /\ kind \in Rings
          /\ LET owner == CHOOSE f \in [Names -> Owners] : IsInjective(f)
             IN obj = [x \in Names |-> Ring!NewList(owner[x])]
       \/ kind = "string" /\ obj = [x \in Names |-> Str!NewString(<< >>)]

\* How many allocations may succeed: nodes are only what is free.
Budgets(x) ==
    IF kind \in Rings THEN 0..Cardinality(ListNodes \ obj[x].nodes)
    ELSE IF kind = "string" THEN 0..1 ELSE 0..2 * MaxSize + 1

Becomes(x, c) == obj' = [obj EXCEPT ![x] = c] /\ UNCHANGED <<kind, leaked>>

Appended(x, e, n) ==
    LET c == obj[x] IN
    \/ kind = "vector" /\ Becomes(x, Vec!PushBack(c, e, n).v)
    \/ kind = "stack"  /\ Becomes(x, Vec!StackPush(c, e, n).v)
    \/ kind = "heap"   /\ Becomes(x, Vec!HeapPush(c, e, n).v)
    \/ kind = "list"   /\ n > 0 /\ Becomes(x, Ring!PushBack(c, e))
    \/ kind = "queue"  /\ n > 0 /\ Becomes(x, Ring!QueuePush(c, e))
    \/ kind = "string" /\ Becomes(x, Str!PushBack(c, e, n > 0).s)

\* PushBack of an element of the vector itself.
AppendedOwn(x, i, n) ==
    kind = "vector" /\ i <= obj[x].size /\ Becomes(x, Vec!PushBackOwn(obj[x], i, n).v)

Prepended(x, e, n) ==
    LET c == obj[x] IN
    \/ kind = "vector" /\ Becomes(x, Vec!PushFront(c, e, n).v)
    \/ kind = "list"   /\ n > 0 /\ Becomes(x, Ring!PushFront(c, e))
    \/ kind = "string" /\ Becomes(x, Str!Prepend(c, <<e>>, n > 0).s)

\* An iterator may have been taken from any of the lists.
ListInserted(x, y, p, e) ==
    /\ kind = "list" /\ p \in obj[y].nodes \union {Ring!Head0} /\ obj[x].nodes # ListNodes
    /\ Becomes(x, Ring!Insert(obj[x], Ring!Iterator(obj[y], p), e))
ListErased(x, y, p) ==
    /\ kind = "list" /\ p \in obj[y].nodes \union {Ring!Head0}
    /\ Becomes(x, Ring!Erase(obj[x], Ring!Iterator(obj[y], p)))

TextInserted(x, t, at, n) ==
    kind = "string" /\ Becomes(x, Str!InsertSubString(obj[x], t, at, n > 0).s)

Erased(x, i, n) == kind = "vector" /\ Becomes(x, Vec!Erase(obj[x], i, n).v)

PoppedBack(x) ==
    LET c == obj[x] IN
    \/ kind = "vector" /\ Becomes(x, Vec!PopBack(c))
    \/ kind = "stack"  /\ Becomes(x, Vec!StackPop(c))
    \/ kind = "heap"   /\ Becomes(x, Vec!HeapPop(c))
    \/ kind = "list"   /\ Becomes(x, Ring!PopBack(c))

PoppedFront(x, n) ==
    LET c == obj[x] IN
    \/ kind = "vector" /\ Becomes(x, Vec!PopFront(c, n).v)
    \/ kind = "list"   /\ Becomes(x, Ring!PopFront(c))
    \/ kind = "queue"  /\ Becomes(x, Ring!QueuePop(c))

Resized(x, size, e, n) ==
    LET c == obj[x] IN
    \/ kind = "vector" /\ Becomes(x, Vec!SizeAdjust(c, size, e, n).v)
    \/ kind = "list"   /\ Becomes(x, Ring!Resize(c, size, e, n).l)
    \/ kind = "string" /\ Becomes(x, Str!Resize(c, size, e, n > 0).s)

\* Vector's Resize and String's Reserve ask for capacity only.
Reserved(x, capacity, n) ==
    LET c == obj[x] IN
    \/ kind = "vector" /\ Becomes(x, Vec!EnsureCapacity(c, capacity, n).v)
    \/ kind = "string" /\ Becomes(x, Str!Reserve(c, capacity, n > 0).s)

\* operator+=, with itself too.
Extended(x, y, n) ==
    LET c == obj[x] IN
    \/ /\ kind = "vector"
       /\ Becomes(x, (IF x = y THEN Vec!ExtendSelf(c, n) ELSE Vec!Extend(c, obj[y], n)).v)
    \/ /\ kind = "list"
       /\ Becomes(x, (IF x = y THEN Ring!ExtendSelf(c, n)
                      ELSE Ring!Extend(c, Ring!Contents(obj[y]), n)).l)
    \/ /\ kind = "string"
       /\ Becomes(x, (IF x = y THEN Str!ExtendSelf(c, n > 0)
                      ELSE Str!Extend(c, Str!Text(obj[y]), n > 0)).s)

CopyAssigned(x, y, n) ==
    LET c == obj[x] IN
    /\ x # y
    /\ \/ kind \in Blocks /\ Becomes(x, Vec!Assign(c, obj[y], n).v)
       \/ /\ kind \in Rings
          /\ LET r == Ring!Assign(c, obj[y], NewOwner, n)
             IN /\ obj' = [obj EXCEPT ![x] = r.l]
                /\ leaked' = leaked \union (IF r.gone.nodes = {} THEN {} ELSE {"node"})
          /\ UNCHANGED kind
       \/ kind = "string" /\ Becomes(x, Str!Assign(c, obj[y], n > 0).s)

MoveAssigned(x, y) ==
    /\ x # y
    /\ LET m == IF kind \in Blocks THEN Vec!MoveAssign(obj[x], obj[y])
                ELSE IF kind = "string" THEN Str!MoveAssign(obj[x], obj[y])
                ELSE Ring!MoveAssign(obj[x], obj[y], NewOwner)
       IN /\ obj' = [obj EXCEPT ![x] = m.to, ![y] = m.from]
          /\ leaked' = leaked \union (IF kind \in Rings /\ m.gone.nodes # {} THEN {"node"} ELSE {})
    /\ UNCHANGED kind

\* Assignment of an initializer list, of a C string.
LiteralAssigned(x, t, n) ==
    \/ kind = "list"   /\ Becomes(x, Ring!AssignElements(obj[x], t, n).l)
    \/ kind = "string" /\ Becomes(x, Str!AssignText(obj[x], t, n > 0).s)

\* x = y.SubString(i, j), or ReverseSubString; a throw leaves x alone.
PartAssigned(x, y, i, j, n) ==
    /\ kind = "string"
    /\ \E r \in {Str!SubString(obj[y], i, j, n > 0), Str!ReverseSubString(obj[y], i, j, n > 0)} :
          Becomes(x, IF r.ok THEN r.s ELSE obj[x])
Recased(x) ==
    kind = "string" /\ \E s \in {Str!Uppercase(obj[x]), Str!Lowercase(obj[x])} : Becomes(x, s)

SequenceNext ==
    /\ kind \in SequenceKinds
    /\ \E x \in Names :
          \/ PoppedBack(x) \/ Recased(x)
          \/ \E n \in Budgets(x) :
                \/ PoppedFront(x, n)
                \/ \E e \in Elements : \/ Appended(x, e, n) \/ Prepended(x, e, n)
                                       \/ \E size \in 0..MaxSize + 1 : Resized(x, size, e, n)
                \/ \E i \in 1..MaxSize : AppendedOwn(x, i, n) \/ Erased(x, i, n)
                \/ \E c \in 0..MaxSize + 1 : Reserved(x, c, n)
                \/ \E t \in Literals : \/ LiteralAssigned(x, t, n)
                                       \/ \E at \in 0..MaxSize + 1 : TextInserted(x, t, at, n)
                \/ \E y \in Names :
                      \/ Extended(x, y, n) \/ CopyAssigned(x, y, n)
                      \/ \E i, j \in 0..MaxSize + 1 : PartAssigned(x, y, i, j, n)
          \/ \E y \in Names : \/ MoveAssigned(x, y)
                              \/ \E p \in ListNodes \union {Ring!Head0} :
                                    \/ ListErased(x, y, p)
                                    \/ \E e \in Elements : ListInserted(x, y, p, e)

SequenceSpec == SequenceInit /\ [][SequenceNext]_vars

(***************************************************************************)
(* Properties.                                                             *)
(***************************************************************************)
\* After every operation, one that threw in the middle included: a vector's
\* constructed elements are exactly its first places and none was freed
\* undestroyed; a heap is ordered; a list's ring agrees with itself in both
\* directions and with its counter; a string is terminated in its buffer.
StorageExact ==
    \A x \in Names :
        /\ kind \in Blocks => Vec!StorageExact(obj[x])
        /\ kind = "heap" => Vec!HeapOrdered(obj[x])
        /\ kind \in Rings => Ring!RingExact(obj[x])
        /\ kind = "string" => Str!Terminated(obj[x])

\* The sequence that an object stands for; a heap counts as sorted.
Value(c) ==
    CASE kind \in {"vector", "stack"} -> Vec!Contents(c)
      [] kind = "heap"   -> SortSeq(Vec!Contents(c), <)
      [] kind \in Rings  -> Ring!Contents(c)
      [] kind = "string" -> Str!Text(c)
      [] OTHER           -> << >>

\* Every sequential container implements the abstract series: what an operation
\* returns is the whole new sequence, and what one that throws leaves is the
\* old one, but for a vector's shift in place and a list's row of pushes.
Abstract == INSTANCE Series WITH held <- [x \in Names |-> Value(obj[x])]
SeriesSpec == Abstract!Spec
=============================================================================
