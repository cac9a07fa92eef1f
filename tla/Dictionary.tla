----------------------------- MODULE Dictionary -----------------------------
(***************************************************************************)
(* What the keyed containers promise: each name stands for a function from *)
(* the keys that are held to their values.  A key comes or goes one at a   *)
(* time; a value stays with its key until the key goes, whatever is pushed *)
(* meanwhile; a list of entries is merged in, in order; a whole container  *)
(* is copied, or moved away, by assignment.  Anything else, a failed       *)
(* operation among them, changes nothing.                                  *)
(***************************************************************************)
EXTENDS Integers, Sequences

CONSTANTS Keys, Values, Names, Lists    \* lists: the initializer lists of entries

VARIABLE held

Nothing == [k \in {} |-> 0]
Init == \A x \in Names : held[x] = Nothing

With(h, k, v) == [j \in DOMAIN h \union {k} |-> IF j \in DOMAIN h THEN h[j] ELSE v]

\* Relations between what a name held and what it holds.
Insert(h, g) == \E k \in DOMAIN g \ DOMAIN h : g[k] \in Values /\ g = With(h, k, g[k])
Remove(h, g) == \E k \in DOMAIN h \ DOMAIN g : h = With(g, k, h[k])

\* A failure in the middle keeps the entries before it.
Merge(h, g) ==
    \E list \in Lists :
        LET folded[n \in 0..Len(list)] ==
                IF n = 0 THEN h ELSE With(folded[n - 1], list[n].key, list[n].value)
        IN \E n \in 0..Len(list) : g = folded[n]

ChangeOne(x) ==
    LET h == held[x]
        g == held'[x]
    IN /\ \A y \in Names \ {x} : held'[y] = held[y]
       /\ Insert(h, g) \/ Remove(h, g) \/ (\E y \in Names : g = held[y]) \/ Merge(h, g)

MoveAll(x, y) == x # y /\ held' = [held EXCEPT ![x] = held[y], ![y] = Nothing]

Next == \E x \in Names : ChangeOne(x) \/ \E y \in Names : MoveAll(x, y)

Spec == Init /\ [][Next]_held
=============================================================================
