----------------------------- MODULE RouteTree -----------------------------
(***************************************************************************)
(* RadixTree of Web/Router/Router.hpp: the compressed tree of the patterns *)
(* of one method.  A pattern is a sequence of tokens, one per character or *)
(* parameter; a path is a sequence of characters.  A node is a record that *)
(* holds its children, so a tree is a value.                               *)
(***************************************************************************)
LOCAL INSTANCE Integers
LOCAL INSTANCE Sequences
LOCAL INSTANCE FiniteSets
LOCAL INSTANCE SequencesExt

CONSTANTS Digits, NoHandler

ParamTypes == {"int", "string", "path"}
IsParam(t) == t.type \in ParamTypes

Node(p, t, n) ==
    [prefix |-> p, type |-> t, name |-> n, children |-> <<>>, handler |-> NoHandler]
EmptyTree == Node(<<>>, "none", "")
IsLeaf(node) == node.handler # NoHandler

\* The checks made before the tree is touched; a token of type "malformed" is
\* an unmatched bracket, an unknown type, an empty name or one with other signs.
Valid(pattern) ==
    /\ pattern # <<>> /\ Head(pattern) = [type |-> "none", text |-> "/"]
    /\ \A i \in DOMAIN pattern :
        /\ pattern[i].type # "malformed"
        /\ pattern[i].type = "path" => i = Len(pattern)
        /\ \A j \in 1..(i - 1) :
            IsParam(pattern[i]) /\ IsParam(pattern[j]) => pattern[i].text # pattern[j].text

\* The characters before the first parameter.
Segment(pattern) ==
    LET stops == {i \in DOMAIN pattern : IsParam(pattern[i])} \union {Len(pattern) + 1}
        first == CHOOSE i \in stops : \A j \in stops : i <= j
    IN  [i \in 1..(first - 1) |-> pattern[i].text]

CommonLength(s, t) ==
    LET agree == {n \in 0..Len(s) : n <= Len(t) /\ SubSeq(s, 1, n) = SubSeq(t, 1, n)}
    IN  CHOOSE n \in agree : \A k \in agree : k <= n

FirstChild(node, test(_)) ==
    LET found == {i \in DOMAIN node.children : test(node.children[i])}
    IN  IF found = {} THEN 0 ELSE CHOOSE i \in found : \A j \in found : i <= j

\* Mutant: the handler stays in the upper half.
SplitKeeping(node, n) ==
    IF n = Len(node.prefix) THEN node ELSE
    [Node(SubSeq(node.prefix, 1, n), "none", "") EXCEPT
        !.handler = node.handler,
        !.children = <<[node EXCEPT !.prefix = SubSeq(@, n + 1, Len(@)), !.handler = NoHandler]>>]

\* The lower half keeps the handler and the children.
Split(node, n) ==
    IF n = Len(node.prefix) THEN node ELSE
    [Node(SubSeq(node.prefix, 1, n), "none", "") EXCEPT
        !.children = <<[node EXCEPT !.prefix = SubSeq(@, n + 1, Len(@))]>>]

\* Walks down from node: what it has become, and whether no conflict was met.
RECURSIVE Place(_, _, _)
Descend(node, i, child, rest, h) ==
    LET below == Place(child, rest, h)
    IN  [ok |-> below.ok,
         node |-> [node EXCEPT !.children =
             IF i = 0 THEN Append(@, below.node) ELSE [@ EXCEPT ![i] = below.node]]]

PlaceParam(node, token, rest, h) ==
    LET Same(c) == IsParam(c) /\ c.type = token.type
        Clash(c) == IsParam(c) /\ (c.type = token.type) # (c.name = token.text)
        i == FirstChild(node, LAMBDA c : Same(c) \/ Clash(c))
        child == IF i = 0 THEN Node(<<>>, token.type, token.text) ELSE node.children[i]
    IN  IF i # 0 /\ Clash(child) THEN [ok |-> FALSE, node |-> node]
        ELSE Descend(node, i, child, rest, h)

PlaceStatic(node, rest, h) ==
    LET segment == Segment(rest)
        Shares(c) == ~IsParam(c) /\ CommonLength(c.prefix, segment) > 0
        i == FirstChild(node, Shares)
        n == IF i = 0 THEN Len(segment) ELSE CommonLength(node.children[i].prefix, segment)
        child == IF i = 0 THEN Node(segment, "none", "") ELSE Split(node.children[i], n)
    IN  Descend(node, i, child, SubSeq(rest, n + 1, Len(rest)), h)

Place(node, rest, h) ==
    IF rest = <<>> THEN [ok |-> TRUE, node |-> [node EXCEPT !.handler = h]]
    ELSE IF IsParam(Head(rest)) THEN PlaceParam(node, Head(rest), Tail(rest), h)
    ELSE PlaceStatic(node, rest, h)

Insert(tree, pattern, h) ==
    IF ~Valid(pattern) \/ h = NoHandler THEN [ok |-> FALSE, node |-> tree]
    ELSE Place(tree, pattern, h)

\* How many characters of the path a parameter takes: as many as it can.
Captured(type, path) ==
    LET Takes(n) == \A i \in 1..n :
            \/ type = "path"
            \/ path[i] # "/" /\ (type = "int" => path[i] \in Digits)
        lengths == {n \in 0..Len(path) : Takes(n)}
    IN  CHOOSE n \in lengths : \A k \in lengths : k <= n

Set(params, n, v) == [m \in DOMAIN params \union {n} |-> IF m = n THEN v ELSE params[m]]
Erase(params, n) == [m \in DOMAIN params \ {n} |-> params[m]]
NotFound(params) == [handler |-> NoHandler, params |-> params]

\* Tries the children in turn and takes back what a failed one has captured.
RECURSIVE SearchNode(_, _, _)
RECURSIVE TryChildren(_, _, _)
TryChildren(children, path, params) ==
    IF children = <<>> THEN NotFound(params) ELSE
    LET child  == Head(children)
        n      == IF IsParam(child) THEN Captured(child.type, path) ELSE 0
        result == IF ~IsParam(child) THEN SearchNode(child, path, params)
                  ELSE IF n = 0 THEN NotFound(params)
                  ELSE SearchNode(child, SubSeq(path, n + 1, Len(path)),
                                  Set(params, child.name, SubSeq(path, 1, n)))
    IN  IF result.handler # NoHandler THEN result
        ELSE TryChildren(Tail(children), path,
                 IF n > 0 THEN Erase(result.params, child.name) ELSE result.params)

SearchNode(node, path, params) ==
    LET Static(c) == ~IsParam(c)
        rest == SubSeq(path, Len(node.prefix) + 1, Len(path))
    IN  IF ~IsPrefix(node.prefix, path) THEN NotFound(params)
        ELSE IF rest = <<>> THEN
            IF IsLeaf(node) THEN [handler |-> node.handler, params |-> params]
            ELSE NotFound(params)
        ELSE TryChildren(SelectSeq(node.children, Static)
                            \o SelectSeq(node.children, IsParam), rest, params)

Search(tree, path) == SearchNode(tree, path, <<>>)
=============================================================================
