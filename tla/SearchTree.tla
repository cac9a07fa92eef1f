----------------------------- MODULE SearchTree -----------------------------
(***************************************************************************)
(* What the three search trees of Wan/Container share: linked nodes with   *)
(* two children, descent by comparison, iterators.  A tree is a record;    *)
(* its nodes are numbers, 0 being the null pointer.  "left" and "right"    *)
(* are values, so that one operator stands for the two mirrored halves     *)
(* that the C++ code writes out.  nodes is the set of heap nodes that the  *)
(* tree has allocated and not deleted.                                     *)
(***************************************************************************)
EXTENDS Integers, FiniteSets, Sequences

CONSTANT TreeKeys   \* the keys, positive integers

Nil == 0
Sides == {"left", "right"}
Opposite(s) == IF s = "left" THEN "right" ELSE "left"

Leaf == [s \in Sides |-> [n \in TreeKeys |-> Nil]]

\* The side on which key k lies of a node that holds key j.
SideFor(k, j) == IF j < k THEN "right" ELSE "left"

\* The outermost node on side s below n.
RECURSIVE Extreme(_, _, _)
Extreme(t, n, s) ==
    IF n = Nil \/ t.child[s][n] = Nil THEN n ELSE Extreme(t, t.child[s][n], s)

\* The nodes that a traversal with an explicit stack visits below n.
RECURSIVE Below(_, _)
Below(t, n) ==
    IF n = Nil \/ n \notin t.nodes THEN {n} \ {Nil}
    ELSE {n} \union UNION {Below(t, t.child[s][n]) : s \in Sides}

(***************************************************************************)
(* Trees with parent pointers.                                             *)
(***************************************************************************)
\* The link that leads to old (the parent's, or the root) leads to new.
Relink(t, parent, old, new) ==
    IF parent = Nil THEN [t EXCEPT !.root = new]
    ELSE LET s == IF t.child["left"][parent] = old THEN "left" ELSE "right"
         IN [t EXCEPT !.child[s][parent] = new]

Adopt(t, n, parent) == IF n = Nil THEN t ELSE [t EXCEPT !.parent[n] = parent]

\* Mutant: Transplant leaves the parent pointer of the node that moves up.
GraftOneWay(t, old, new) == Relink(t, t.parent[old], old, new)

\* The subtree at old is replaced by the one at new; old keeps its fields.
Graft(t, old, new) ==
    Adopt(Relink(t, t.parent[old], old, new), new, t.parent[old])

\* n moves down on side s and its child on the other side takes its place.
Revolve(t, n, s) ==
    LET pivot == t.child[Opposite(s)][n]
        inner == t.child[s][pivot]
        up    == t.parent[n]
        lifted == Relink([t EXCEPT !.child[Opposite(s)][n] = inner], up, n, pivot)
    IN Adopt(Adopt(Adopt([lifted EXCEPT !.child[s][pivot] = n], inner, n), pivot, up), n, pivot)

\* Where an iterator at n goes: the next node on side s, in key order.
RECURSIVE Climb(_, _, _)
Climb(t, n, s) ==
    LET p == t.parent[n]
    IN IF p # Nil /\ t.child[s][p] = n THEN Climb(t, p, s) ELSE p

Advance(t, n, s) ==
    IF n = Nil THEN Nil
    ELSE IF t.child[s][n] # Nil THEN Extreme(t, t.child[s][n], Opposite(s))
    ELSE Climb(t, n, s)

\* The nodes an iteration from n on meets; a walk longer than the tree is cut.
RECURSIVE Walk(_, _, _, _)
Walk(t, n, s, fuel) ==
    IF n = Nil \/ fuel = 0 THEN << >>
    ELSE <<n>> \o Walk(t, Advance(t, n, s), s, fuel - 1)

\* Every child points back at its parent, and the root has none.
ParentsAgree(t) ==
    /\ t.root # Nil => t.parent[t.root] = Nil
    /\ \A n \in t.nodes, s \in Sides :
           t.child[s][n] # Nil => t.parent[t.child[s][n]] = n
=============================================================================
