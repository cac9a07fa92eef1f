------------------------------- MODULE Series -------------------------------
(***************************************************************************)
(* What the sequential containers promise: each name stands for a sequence *)
(* of elements, and a step is one of the changes below or none.  A stack   *)
(* and a queue change at their ends; a priority queue is an ascending      *)
(* sequence that loses its last element.  An operation that throws changes *)
(* nothing, but for two cases that the last definitions state.  A change   *)
(* is a relation between the sequence before and the sequence after.       *)
(***************************************************************************)
EXTENDS Integers, Sequences

CONSTANTS Names, Elements, Literals   \* literals: the texts given as arguments

VARIABLES kind, held

Open == kind \in {"vector", "list", "string"}

\* The block stands before what was at place i + 1.
Spliced(s, i, block) == SubSeq(s, 1, i) \o block \o SubSeq(s, i + 1, Len(s))
IsAscending(s) == \A i \in 1..Len(s) - 1 : s[i] <= s[i + 1]

Put(s, t) ==
    /\ Len(t) = Len(s) + 1
    /\ \E i \in 0..Len(s) :
          /\ kind \in {"stack", "queue"} => i = Len(s)
          /\ t[i + 1] \in Elements /\ t = Spliced(s, i, <<t[i + 1]>>)
    /\ kind = "heap" => IsAscending(t)

Drop(s, t) ==
    /\ Len(t) = Len(s) - 1
    /\ \E i \in 1..Len(s) :
          /\ kind \in {"stack", "heap"} => i = Len(s)
          /\ kind = "queue" => i = 1
          /\ s = Spliced(t, i - 1, <<s[i]>>)

\* Another sequence, or copies of one element, at the end.
Lengthen(s, t) ==
    /\ Open /\ Len(t) > Len(s)
    /\ \/ \E y \in Names : t = s \o held[y]
       \/ \E e \in Elements : t = s \o [i \in 1..Len(t) - Len(s) |-> e]

\* A string takes a text at any place.
InsertText(s, t) ==
    kind = "string" /\ \E i \in 0..Len(s), text \in Literals : t = Spliced(s, i, text)

Prefix(t, s) == \E n \in 0..Len(s) : t = SubSeq(s, 1, n)

Truncate(s, t) == Open /\ Len(t) < Len(s) /\ Prefix(t, s)
Replace(s, t)  == Open /\ t \in Literals

\* A part of a string in either direction, and the change of case.
Part(t) ==
    /\ kind = "string"
    /\ \E y \in Names : \E i \in 0..Len(held[y]) - Len(t) :
          LET part == SubSeq(held[y], i + 1, i + Len(t))
          IN t = part \/ t = [k \in DOMAIN part |-> part[Len(t) + 1 - k]]
Recase(s, t) ==
    /\ kind = "string" /\ Len(t) = Len(s)
    /\ \E odd \in {0, 1} : \A i \in DOMAIN s :
          t[i] = IF s[i] % 2 = odd THEN s[i] + 2 * odd - 1 ELSE s[i]

\* A throw in the middle of a vector's shift: as many elements as before, each
\* its own or one of its neighbours.
Disturb(s, t) ==
    /\ kind = "vector" /\ Len(t) = Len(s)
    /\ \A i \in DOMAIN s : \E j \in {i - 1, i, i + 1} \intersect DOMAIN s : t[i] = s[j]

\* A throw in the middle of a list's pushes keeps those that were made.
PutSome(s, t) ==
    /\ kind = "list"
    /\ \/ \E y \in Names : Len(t) > Len(s) /\ Prefix(t, s \o held[y])
       \/ \E text \in Literals : Prefix(t, text)

Copied(t) == \E y \in Names : t = held[y]

ChangeOne(x) ==
    LET s == held[x]
        t == held'[x]
    IN /\ \A y \in Names \ {x} : held'[y] = held[y]
       /\ \/ Put(s, t) \/ Drop(s, t) \/ Copied(t) \/ Lengthen(s, t) \/ InsertText(s, t)
          \/ Truncate(s, t) \/ Replace(s, t) \/ Part(t) \/ Recase(s, t) \/ Disturb(s, t)
          \/ PutSome(s, t)

MoveAll(x, y) == x # y /\ held' = [held EXCEPT ![x] = held[y], ![y] = << >>]

Init == \A x \in Names : held[x] = << >>
Next ==
    /\ UNCHANGED kind
    /\ \E x \in Names : ChangeOne(x) \/ \E y \in Names : MoveAll(x, y)

Spec == Init /\ [][Next]_<<kind, held>>
=============================================================================
