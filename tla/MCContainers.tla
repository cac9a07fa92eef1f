---------------------------- MODULE MCContainers ----------------------------
(***************************************************************************)
(* All the containers of src/Wan/Container.  A behaviour is about objects  *)
(* of one kind, keyed or sequential; no container shares state with one of *)
(* another kind, so there is nothing to interleave between kinds.          *)
(***************************************************************************)
EXTENDS KeyedContainers, SequenceContainers

ContainersInit == KeyedInit \/ SequenceInit

\* How much an object holds, and the bound on how much two objects hold that are
\* not alike: one of them may grow, the other one stays small.
Amount(c) ==
    CASE kind \in KeyedKinds \ {"bits", "filter"} -> Cardinality(Table(c).nodes)
      [] kind \in Rings -> c.size
      [] kind \in SequenceKinds \ Rings -> Len(Value(c))
      [] OTHER -> 0
Small == IF kind \in KeyedKinds \union Rings THEN 1 ELSE 2
Same(c, d) ==
    IF kind \in KeyedKinds THEN Table(c).nodes = Table(d).nodes ELSE Value(c) = Value(d)
OneGrows ==
    \A x, y \in Names :
        Amount(obj[x]) > Small /\ Amount(obj[y]) > Small => Same(obj[x], obj[y])

ContainersNext == (KeyedNext \/ SequenceNext) /\ OneGrows'
ContainersSpec == ContainersInit /\ [][ContainersNext]_vars

-----------------------------------------------------------------------------
\* As many keys as there are cases of rebalancing, fewer elsewhere; the
\* hashes collide, and the bits of the filter lie in more than one word.

MCKeys == 1..6
MCKeysOf == [k \in KeyedKinds |->
    CASE k = "red-black" -> 1..6
      [] k = "avl" -> 1..5
      [] k \in {"binary", "bits", "filter"} -> 1..4
      [] k \in MapKinds -> 1..2
      [] OTHER -> 1..3]
MCLists == {<<[key |-> 1, value |-> 1], [key |-> 2, value |-> 2]>>}
MCHashOf == [k \in MCKeys |-> k % 3]
MCBitOf == [k \in MCKeys |-> 15 * k + (k \div 2)]
MCHashes == [k \in MCKeys |-> <<7 * k, 11 * k, 30 + k>>]
MCLiterals == {<<1, 2>>}
=============================================================================
