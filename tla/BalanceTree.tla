----------------------------- MODULE BalanceTree -----------------------------
(***************************************************************************)
(* TreeContainer::BalanceTree, the AVL tree of Wan/Container/Tree.hpp.     *)
(* Every node stores its height and its balance factor; the rebalancing    *)
(* reads the stored factors, so a stale one rotates the wrong way.         *)
(***************************************************************************)
EXTENDS SearchTree

EmptyTree == [root |-> Nil, child |-> Leaf, parent |-> [n \in TreeKeys |-> Nil],
             height |-> [n \in TreeKeys |-> 0], balance |-> [n \in TreeKeys |-> 0],
             nodes |-> {}]

Height(t, n) == IF n = Nil THEN 0 ELSE t.height[n]

UpdateHeightAndBalance(t, n) ==
    LET l == Height(t, t.child["left"][n])
        r == Height(t, t.child["right"][n])
    IN [t EXCEPT !.height[n] = (IF l > r THEN l ELSE r) + 1, !.balance[n] = r - l]

Rotated(t, n, s) ==
    UpdateHeightAndBalance(UpdateHeightAndBalance(Revolve(t, n, s), n), t.child[Opposite(s)][n])
RotateLeft(t, n)  == Rotated(t, n, "left")
RotateRight(t, n) == Rotated(t, n, "right")

RECURSIVE RebalanceFrom(_, _)
RebalanceFrom(t, n) ==
    IF n = Nil THEN t
    ELSE LET u == UpdateHeightAndBalance(t, n)
             l == u.child["left"][n]
             r == u.child["right"][n]
             leftHeavy == u.balance[n] < -1
             rightHeavy == u.balance[n] > 1
             v == IF leftHeavy
                  THEN RotateRight(IF u.balance[l] > 0 THEN RotateLeft(u, l) ELSE u, n)
                  ELSE IF rightHeavy
                  THEN RotateLeft(IF u.balance[r] < 0 THEN RotateRight(u, r) ELSE u, n)
                  ELSE u
             subtreeRoot == IF leftHeavy \/ rightHeavy THEN v.parent[n] ELSE n
         IN RebalanceFrom(v, v.parent[subtreeRoot])

Delete(t, n) ==
    [t EXCEPT !.nodes = @ \ {n}, !.parent[n] = Nil, !.height[n] = 0, !.balance[n] = 0,
              !.child["left"][n] = Nil, !.child["right"][n] = Nil]

\* Left children are hung above their parent until there is none to hang.
RECURSIVE Flatten(_, _)
Flatten(t, n) ==
    IF n = Nil THEN [t EXCEPT !.root = Nil]
    ELSE LET l == t.child["left"][n]
         IN IF l # Nil
            THEN Flatten([t EXCEPT !.child["left"][n] = t.child["right"][l],
                                      !.child["right"][l] = n], l)
            ELSE Flatten(Delete(t, n), t.child["right"][n])
Clear(t) == Flatten(t, t.root)

RECURSIVE Descend(_, _, _)
Descend(t, n, k) == IF n = Nil \/ n = k THEN n ELSE Descend(t, t.child[SideFor(k, n)][n], k)
Find(t, k) == Descend(t, t.root, k)

RECURSIVE InsertPoint(_, _, _)
InsertPoint(t, n, k) ==
    LET next == t.child[SideFor(k, n)][n]
    IN IF n = k \/ next = Nil THEN n ELSE InsertPoint(t, next, k)

Push(t, k) ==
    LET Made(u) == [u EXCEPT !.nodes = @ \union {k}, !.height[k] = 1]
        p == InsertPoint(t, t.root, k)
    IN IF t.root = Nil THEN [Made(t) EXCEPT !.root = k]
       ELSE IF p = k THEN t
       ELSE RebalanceFrom([Made(t) EXCEPT !.parent[k] = p, !.child[SideFor(k, p)][p] = k], p)

Pop(t, k) ==
    LET n == Find(t, k)
        left  == t.child["left"][n]
        right == t.child["right"][n]
        one   == IF left = Nil THEN right ELSE left
        succ  == Extreme(t, right, "left")
        far   == t.parent[succ] # n
        start == IF left = Nil \/ right = Nil
                 THEN (IF t.parent[n] # Nil THEN t.parent[n] ELSE one)
                 ELSE (IF far THEN t.parent[succ] ELSE succ)
        detached == IF far THEN Adopt([Graft(t, succ, t.child["right"][succ])
                                          EXCEPT !.child["right"][succ] = right], right, succ)
                    ELSE t
        replaced == IF left = Nil \/ right = Nil THEN Graft(t, n, one)
                    ELSE UpdateHeightAndBalance(
                             Adopt([Graft(detached, n, succ) EXCEPT !.child["left"][succ] = left],
                                   left, succ), succ)
    IN IF n = Nil THEN t ELSE RebalanceFrom(Delete(replaced, n), start)

\* A copied node takes its height and its factor from the source, and its
\* side from its place under the source's parent.
RECURSIVE CopyStack(_, _, _, _)
CopyStack(src, dst, stack, budget) ==
    IF stack = << >> THEN [done |-> TRUE, table |-> dst]
    ELSE IF budget = 0 THEN [done |-> FALSE, table |-> Clear(dst)]
    ELSE LET n == stack[Len(stack)]
             p == src.parent[n]
             made == [dst EXCEPT !.nodes = @ \union {n}, !.parent[n] = p,
                                 !.height[n] = src.height[n], !.balance[n] = src.balance[n]]
             hung == IF p = Nil THEN [made EXCEPT !.root = n]
                     ELSE [made EXCEPT !.child[IF src.child["left"][p] = n
                                               THEN "left" ELSE "right"][p] = n]
             Pending(s) == IF src.child[s][n] = Nil THEN << >> ELSE <<src.child[s][n]>>
         IN CopyStack(src, hung, SubSeq(stack, 1, Len(stack) - 1)
                             \o Pending("right") \o Pending("left"), budget - 1)

Copy(src, budget) ==
    IF src.root = Nil THEN [done |-> TRUE, table |-> EmptyTree]
    ELSE CopyStack(src, EmptyTree, <<src.root>>, budget)

Begin(t)  == Extreme(t, t.root, "left")
Rbegin(t) == Extreme(t, t.root, "right")

(***************************************************************************)
(* What makes the tree an AVL tree.                                        *)
(***************************************************************************)
RECURSIVE TrueHeight(_, _)
TrueHeight(t, n) ==
    IF n = Nil THEN 0
    ELSE LET l == TrueHeight(t, t.child["left"][n])
             r == TrueHeight(t, t.child["right"][n])
         IN (IF l > r THEN l ELSE r) + 1

IsBalanced(t) ==
    \A n \in t.nodes :
        LET l == TrueHeight(t, t.child["left"][n])
            r == TrueHeight(t, t.child["right"][n])
        IN /\ t.height[n] = TrueHeight(t, n)
           /\ t.balance[n] = r - l
           /\ t.balance[n] \in -1..1
=============================================================================
