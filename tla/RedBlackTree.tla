---------------------------- MODULE RedBlackTree ----------------------------
(***************************************************************************)
(* BaseContainer::RedBlackTree, the tree behind TreeMap and TreeSet        *)
(* (Wan/Container/Base.hpp).  A node is named by its key: EraseNode        *)
(* relinks nodes and never moves a value from one node to another.         *)
(***************************************************************************)
EXTENDS SearchTree

EmptyTree == [root |-> Nil, child |-> Leaf, parent |-> [n \in TreeKeys |-> Nil],
            red |-> {}, nodes |-> {}]

Red(t, n) == n \in t.red

Paint(t, blacks, reds) == [t EXCEPT !.red = (@ \ blacks) \union reds]

LeftRevolve(t, n)  == Revolve(t, n, "left")
RightRevolve(t, n) == Revolve(t, n, "right")
Turn(t, n, s) == IF s = "left" THEN LeftRevolve(t, n) ELSE RightRevolve(t, n)

Delete(t, n) ==
    [t EXCEPT !.nodes = @ \ {n}, !.red = @ \ {n}, !.parent[n] = Nil,
              !.child["left"][n] = Nil, !.child["right"][n] = Nil]

RECURSIVE Clear(_)
Clear(t) ==
    IF t.root = Nil THEN t
    ELSE IF t.child["left"][t.root] # Nil THEN Clear(RightRevolve(t, t.root))
    ELSE LET right == t.child["right"][t.root]
         IN Clear(Delete(Adopt([t EXCEPT !.root = right], right, Nil), t.root))

RECURSIVE Descend(_, _, _)
Descend(t, n, k) ==      \* the node that holds k, or null, below n
    IF n = Nil \/ n = k THEN n ELSE Descend(t, t.child[SideFor(k, n)][n], k)

Find(t, k) == Descend(t, t.root, k)

RECURSIVE InsertAdjust(_, _)
InsertAdjust(t, n) ==
    LET p == t.parent[n]
        g == t.parent[p]
        s == IF t.child["left"][g] = p THEN "left" ELSE "right"
        uncle == t.child[Opposite(s)][g]
        inner == t.child[Opposite(s)][p] = n
        low == IF inner THEN p ELSE n
        straight == IF inner THEN Turn(t, p, s) ELSE t
        top == straight.parent[low]
    IN IF n = t.root \/ p = Nil \/ ~Red(t, p) \/ g = Nil THEN Paint(t, {t.root}, {})
       ELSE IF Red(t, uncle) THEN InsertAdjust(Paint(t, {p, uncle}, {g}), g)
       ELSE InsertAdjust(Turn(Paint(straight, {top}, {g}), g, Opposite(s)), low)

RECURSIVE InsertPoint(_, _, _)
InsertPoint(t, n, k) ==      \* the last node on the way down to k
    LET next == t.child[SideFor(k, n)][n]
    IN IF next = Nil \/ n = k THEN n ELSE InsertPoint(t, next, k)

\* A key that is there already leaves the tree as it is; the node is made
\* before anything is linked.
Push(t, k) ==
    IF t.root = Nil
    THEN InsertAdjust([t EXCEPT !.root = k, !.nodes = {k}, !.red = {k}], k)
    ELSE LET p == InsertPoint(t, t.root, k)
         IN IF p = k THEN t
            ELSE InsertAdjust([t EXCEPT !.nodes = @ \union {k}, !.red = @ \union {k},
                                        !.parent[k] = p, !.child[SideFor(k, p)][p] = k], k)

\* The subtree at c, a child of p on side s, is one black node short.
RECURSIVE DeleteAdjust(_, _, _, _)
DeleteAdjust(t, c, p, s) ==
    LET side == IF c = Nil THEN s ELSE IF t.child["left"][p] = c THEN "left" ELSE "right"
        far  == Opposite(side)
        old  == t.child[far][p]
        \* case 1: a red brother is turned into a black one
        turned == IF Red(t, old) THEN Turn(Paint(t, {old}, {p}), p, side) ELSE t
        b    == turned.child[far][p]
        near == turned.child[side][b]
        out  == turned.child[far][b]
        above == turned.parent[p]
        sideAbove == IF above # Nil /\ turned.child["left"][above] = p THEN "left" ELSE "right"
    IN IF c = t.root \/ Red(t, c) \/ p = Nil THEN Paint(t, {c}, {})
       ELSE IF old = Nil THEN DeleteAdjust(t, p, above, sideAbove)
       ELSE IF ~Red(turned, near) /\ ~Red(turned, out)        \* case 2
       THEN IF Red(turned, p) THEN Paint(turned, {p}, {b})
            ELSE DeleteAdjust(Paint(turned, {}, {b}), p, above, sideAbove)
       ELSE IF ~Red(turned, out)                              \* case 3
       THEN DeleteAdjust(Turn(Paint(turned, {near}, {b}), b, far), c, p, side)
       ELSE LET colour == IF Red(turned, p) THEN {b} ELSE {}  \* case 4
            IN Paint(Turn(Paint(Paint(turned, {b}, colour), {p, out}, {}), p, side),
                     {Turn(turned, p, side).root}, {})

\* The node that EraseNode takes out of its place: n, or its successor.
EraseNode(t, n) ==
    LET left  == t.child["left"][n]
        right == t.child["right"][n]
        two   == left # Nil /\ right # Nil
        moved == IF two THEN Extreme(t, right, "left") ELSE n
        up    == t.parent[moved]
        fix   == IF two THEN t.child["right"][moved] ELSE IF left = Nil THEN right ELSE left
        fixParent == IF two /\ up = n THEN moved ELSE up
        fixSide   == IF ~(two /\ up = n) /\ up # Nil /\ t.child["left"][up] = moved
                     THEN "left" ELSE "right"
        detached == IF ~two \/ up = n THEN t
                    ELSE Adopt([Graft(t, moved, fix) EXCEPT !.child["right"][moved] = right],
                               right, moved)
        replaced == IF ~two THEN Graft(t, n, fix)
                    ELSE LET g == [Graft(detached, n, moved) EXCEPT !.child["left"][moved] = left]
                         IN Paint(Adopt(g, left, moved), {moved} \ {n},
                                  IF Red(t, n) THEN {moved} ELSE {})
        gone == Delete(replaced, n)
        fixed == IF Red(t, moved) THEN gone ELSE DeleteAdjust(gone, fix, fixParent, fixSide)
    IN Paint(fixed, {fixed.root}, {})

Pop(t, k) == LET n == Find(t, k) IN IF n = Nil THEN t ELSE EraseNode(t, n)

\* Copies are made along a stack of pairs; budget is the number of nodes that
\* can be allocated before std::bad_alloc, on which the copy is cleared.
RECURSIVE CopyBelow(_, _, _, _)
CopyBelow(src, dst, stack, budget) ==
    IF stack = << >> THEN [done |-> TRUE, table |-> dst]
    ELSE LET n == stack[Len(stack)]
             Kids(s) == {src.child[s][n]} \ {Nil}
             kids == Kids("left") \union Kids("right")
             Made(set) == [dst EXCEPT
                 !.nodes = @ \union set,
                 !.red = @ \union (src.red \intersect set),
                 !.parent = [m \in TreeKeys |-> IF m \in set THEN n ELSE @[m]],
                 !.child = [s \in Sides |-> IF Kids(s) \subseteq set
                                            THEN [@[s] EXCEPT ![n] = src.child[s][n]] ELSE @[s]]]
             left == IF Kids("left") = {} THEN << >> ELSE <<src.child["left"][n]>>
             right == IF Kids("right") = {} THEN << >> ELSE <<src.child["right"][n]>>
         IN IF budget < Cardinality(kids)
            THEN [done |-> FALSE,
                  table |-> Clear(Made(IF budget = 0 THEN {} ELSE Kids("left")))]
            ELSE CopyBelow(src, Made(kids), SubSeq(stack, 1, Len(stack) - 1) \o left \o right,
                           budget - Cardinality(kids))

Copy(src, budget) ==
    IF src.root = Nil THEN [done |-> TRUE, table |-> EmptyTree]
    ELSE IF budget = 0 THEN [done |-> FALSE, table |-> EmptyTree]
    ELSE CopyBelow(src, [EmptyTree EXCEPT !.root = src.root, !.nodes = {src.root},
                                        !.red = {src.root} \intersect src.red],
                   <<src.root>>, budget - 1)

\* operator=(RedBlackTree&&): gone is what the target held, after Clear.
MoveAssign(to, from) == [to |-> from, from |-> EmptyTree, gone |-> Clear(to)]

Begin(t)  == Extreme(t, t.root, "left")
Rbegin(t) == Extreme(t, t.root, "right")

(***************************************************************************)
(* What makes a tree red-black.                                            *)
(***************************************************************************)
RECURSIVE BlackHeight(_, _)
BlackHeight(t, n) ==      \* -1 when two paths below n disagree
    IF n = Nil THEN 0
    ELSE LET l == BlackHeight(t, t.child["left"][n])
             r == BlackHeight(t, t.child["right"][n])
         IN IF l = -1 \/ l # r THEN -1 ELSE l + (IF Red(t, n) THEN 0 ELSE 1)

IsRedBlack(t) ==
    /\ ~Red(t, t.root)
    /\ \A n \in t.red, s \in Sides : ~Red(t, t.child[s][n])
    /\ BlackHeight(t, t.root) # -1
=============================================================================
