----------------------------- MODULE BinaryTree -----------------------------
(***************************************************************************)
(* TreeContainer::BinaryTree, the plain search tree of Tree.hpp.  Its nodes *)
(* have no parent.  A node is named by the key it holds; Pop of a node with *)
(* two children exchanges its value with its successor's, which exchanges   *)
(* the names of the two nodes.                                              *)
(***************************************************************************)
EXTENDS SearchTree

EmptyTree == [root |-> Nil, child |-> Leaf, nodes |-> {}]

Delete(t, n) ==
    [t EXCEPT !.nodes = @ \ {n}, !.child["left"][n] = Nil, !.child["right"][n] = Nil]

\* Left children are hung above their parent until there is none to hang.
RECURSIVE Flatten(_, _)
Flatten(t, n) ==
    IF n = Nil THEN [t EXCEPT !.root = Nil]
    ELSE LET l == t.child["left"][n]
         IN IF l # Nil
            THEN Flatten([t EXCEPT !.child["left"][n] = t.child["right"][l],
                                   !.child["right"][l] = n], l)
            ELSE Flatten(Delete(t, n), t.child["right"][n])
Clear(t) == Flatten(t, t.root)

\* The path from the root to the node that holds k, or to the null link.
RECURSIVE Path(_, _, _)
Path(t, n, k) ==
    <<n>> \o (IF n = Nil \/ n = k THEN << >> ELSE Path(t, t.child[SideFor(k, n)][n], k))
Find(t, k) == LET p == Path(t, t.root, k) IN p[Len(p)]

Push(t, k) ==
    LET p == Path(t, t.root, k)
        parent == p[Len(p) - 1]
        made == [t EXCEPT !.nodes = @ \union {k}]
    IN IF t.root = Nil THEN [made EXCEPT !.root = k]
       ELSE IF p[Len(p)] # Nil THEN t
       ELSE [made EXCEPT !.child[SideFor(k, parent)][parent] = k]

\* Two nodes exchange the values they hold.
Exchange(t, n, m) ==
    LET Other(j) == IF j = n THEN m ELSE IF j = m THEN n ELSE j
    IN [t EXCEPT !.root = Other(@),
                 !.child = [s \in Sides |-> [j \in TreeKeys |-> Other(@[s][Other(j)])]]]

\* The parent is the last node that the search passed; null above the root.
Pop(t, k) ==
    LET path == Path(t, t.root, k)
        n == path[Len(path)]
        parent == IF Len(path) = 1 THEN Nil ELSE path[Len(path) - 1]
        l == t.child["left"][n]
        r == t.child["right"][n]
        least == Extreme(t, r, "left")
        swapped == Exchange(t, n, least)
        \* the parent of the doomed node, which is found again below the right child
        above == CHOOSE m \in t.nodes : n \in {swapped.child[s][m] : s \in Sides}
    IN IF n = Nil THEN t
       ELSE IF l = Nil THEN Delete(Relink(t, parent, n, r), n)
       ELSE IF r = Nil THEN Delete(Relink(t, parent, n, l), n)
       ELSE Delete([swapped EXCEPT !.child[IF r = least THEN "right" ELSE "left"][above]
                                       = t.child["right"][least]], n)

\* Insert(ExistingValue, NewValue) throws without the first, else it is Push.
Insert(t, existing, k) == IF Find(t, existing) = Nil THEN t ELSE Push(t, k)

\* A stack of (source, link to fill); a failed allocation clears the copy.
RECURSIVE CopyStack(_, _, _, _)
CopyStack(src, dst, stack, budget) ==
    IF stack = << >> THEN [done |-> TRUE, table |-> dst]
    ELSE IF budget = 0 THEN [done |-> FALSE, table |-> Clear(dst)]
    ELSE LET top == stack[Len(stack)]
             n == top.from
             made == [dst EXCEPT !.nodes = @ \union {n}]
             linked == IF top.above = Nil THEN [made EXCEPT !.root = n]
                       ELSE [made EXCEPT !.child[top.side][top.above] = n]
             Kid(s) == IF src.child[s][n] = Nil THEN << >>
                       ELSE <<[from |-> src.child[s][n], above |-> n, side |-> s]>>
         IN CopyStack(src, linked, SubSeq(stack, 1, Len(stack) - 1)
                          \o Kid("right") \o Kid("left"), budget - 1)

Copy(src, budget) ==
    IF src.root = Nil THEN [done |-> TRUE, table |-> EmptyTree]
    ELSE CopyStack(src, EmptyTree, <<[from |-> src.root, above |-> Nil, side |-> "left"]>>, budget)

\* operator=(BinaryTree&&): gone is what the target held, after Clear.
MoveAssign(to, from) == [to |-> from, from |-> EmptyTree, gone |-> Clear(to)]

\* The values that the traversal with a stack visits, in its order.
RECURSIVE InOrder(_, _)
InOrder(t, n) ==
    IF n = Nil THEN << >>
    ELSE InOrder(t, t.child["left"][n]) \o <<n>> \o InOrder(t, t.child["right"][n])
=============================================================================
