------------------------------ MODULE Pipeline ------------------------------
(***************************************************************************)
(* Web/Router/Router.hpp: one radix tree per method, registrations until   *)
(* the server starts, and Match; and how Server answers a request with it: *)
(* it finds the route and runs the handler through the middlewares.        *)
(* registered is history: what was accepted, in order; a handler is the    *)
(* position of its registration.                                           *)
(***************************************************************************)
EXTENDS MiddlewareChain, FiniteSets

CONSTANTS
    Routes,         \* the pairs of a method and a pattern that are registered
    Targets,        \* the request targets that are looked up
    Digits, MaxRoutes

VARIABLES
    MemberTrees, registered,
    request                 \* what is being answered, and the handler that was found
routerVars == <<MemberTrees, registered>>
pipelineVars == <<routerVars, request, chainVars>>

Tree == INSTANCE RouteTree WITH NoHandler <- 0

Methods == {r[1] : r \in Routes}
NoMatch == Tree!NotFound(<<>>)

\* A chain that the application runs itself has no target.
OwnRun == [target |-> <<>>]
PipelineInit ==
    /\ MemberTrees = <<>> /\ registered = <<>>
    /\ request = OwnRun
    /\ ChainInit

\* A tree that the insertion has failed on is kept only if it was there before.
AddRoute(method, pattern) ==
    LET known == method \in DOMAIN MemberTrees
        result == Tree!Insert(IF known THEN MemberTrees[method] ELSE Tree!EmptyTree,
                              pattern, Len(registered) + 1)
    IN  IF MemberFrozen THEN UNCHANGED <<MemberTrees, registered>> ELSE
        /\ MemberTrees' = IF known \/ result.ok
                          THEN [m \in DOMAIN MemberTrees \union {method} |->
                                   IF m = method THEN result.node ELSE MemberTrees[m]]
                          ELSE MemberTrees
        /\ registered' = IF result.ok
                         THEN Append(registered, [method |-> method, pattern |-> pattern])
                         ELSE registered

\* Get, Post, Put, Del and Patch differ in the method that they pass on.
Register ==
    /\ Len(registered) < MaxRoutes
    /\ \E r \in Routes : AddRoute(r[1], r[2])

\* The target up to the query.
PathOf(target) ==
    LET marks == {i \in DOMAIN target : target[i] = "?"} \union {Len(target) + 1}
    IN  SubSeq(target, 1, (CHOOSE i \in marks : \A j \in marks : i <= j) - 1)

Match(method, target) ==
    IF method \notin DOMAIN MemberTrees THEN NoMatch
    ELSE Tree!Search(MemberTrees[method], PathOf(target))

-----------------------------------------------------------------------------
\* What the application sets up before the server starts.  Bounds: MaxRoutes
\* routes without middleware, one with it.
AddHandler ==
    /\ MemberMiddlewares = <<>> /\ phase = "idle"
    /\ Register
    /\ UNCHANGED <<request, chainVars>>
AddMiddleware == Len(registered) <= 1 /\ Use

\* Server::HandleConnection between reading a request and writing the response.
Dispatch ==
    Ready /\ \E q \in Requests :
        LET found == Match(q[1], q[2])
        IN  /\ request' = [method |-> q[1], target |-> q[2], handler |-> found.handler]
            /\ IF found.handler # 0 THEN RunChain(q[1]) ELSE AnswerNotFound(q[1])
            /\ UNCHANGED routerVars

\* MiddlewareChain::Run, called by an application with a handler of its own.
RunAlone ==
    /\ \E q \in Requests : RunChain(q[1])
    /\ request' = OwnRun /\ UNCHANGED routerVars

PipelineNext ==
    \/ AddHandler \/ Dispatch \/ RunAlone
    \/ (AddMiddleware \/ StartServing \/ ChainRuns) /\ UNCHANGED <<routerVars, request>>

-----------------------------------------------------------------------------
\* What a pattern makes of a path on its own: every parameter takes all that it
\* can; fits says whether nothing is left over.
RECURSIVE Reading(_, _, _)
Reading(pattern, path, params) ==
    IF pattern = <<>> THEN [fits |-> path = <<>>, params |-> params] ELSE
    LET t == Head(pattern)
        n == IF t.type = "none" THEN IF path # <<>> /\ Head(path) = t.text THEN 1 ELSE 0
             ELSE Tree!Captured(t.type, path)
    IN  IF n = 0 THEN [fits |-> FALSE, params |-> params]
        ELSE Reading(Tail(pattern), SubSeq(path, n + 1, Len(path)),
                     IF t.type = "none" THEN params
                     ELSE Tree!Set(params, t.text, SubSeq(path, 1, n)))

\* Of two patterns the one is preferred that has a character where they first
\* differ, or the parameter that was registered there earlier.
Preferred(p, q, all) ==
    LET d == CHOOSE i \in DOMAIN p \intersect DOMAIN q :
                 p[i] # q[i] /\ \A j \in 1..(i - 1) : p[j] = q[j]
        Since(s) == CHOOSE i \in DOMAIN all :
                        /\ IsPrefix(SubSeq(s, 1, d), all[i])
                        /\ \A j \in 1..(i - 1) : ~IsPrefix(SubSeq(s, 1, d), all[j])
    IN  \/ p[d].type = "none"
        \/ q[d].type # "none" /\ Since(p) < Since(q)

Expected(method, target) ==
    LET path == PathOf(target)
        mine == SelectSeq(registered, LAMBDA r : r.method = method)
        all  == [i \in DOMAIN mine |-> mine[i].pattern]
        fit  == {p \in {all[i] : i \in DOMAIN all} : Reading(p, path, <<>>).fits}
        best == CHOOSE p \in fit : \A q \in fit \ {p} : Preferred(p, q, all)
        last == CHOOSE i \in DOMAIN registered :
                    /\ registered[i] = [method |-> method, pattern |-> best]
                    /\ \A j \in (i + 1)..Len(registered) : registered[j] # registered[i]
    IN  IF fit = {} THEN NoMatch
        ELSE [handler |-> last, params |-> Reading(best, path, <<>>).params]

\* For every target, Match finds what the accepted registrations call for, and
\* the parameters of that pattern alone: splitting a node, a registration that
\* was refused half-way (Router.hpp:246-257) and a branch that failed while
\* searching (Router.hpp:465) leave no trace.
RouteExact ==
    \A m \in Methods : \A t \in Targets : Match(m, t) = Expected(m, t)

\* A request runs the handler that the registrations call for; it is answered
\* "not found" exactly if there is none, and then nothing has run.
RoutedRight ==
    request # OwnRun =>
        LET expected == Expected(request.method, request.target)
        IN  /\ request.handler = expected.handler
            /\ (status = "not found") = (expected = NoMatch)
            /\ status = "not found" => ran = <<>>

\* Match keeps to the accepted registrations whatever has been registered and
\* refused; once requests come the trees no longer change.
RoutesFollowed == phase = "idle" => RouteExact
=============================================================================
