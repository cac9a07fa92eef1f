--------------------------- MODULE MiddlewareChain ---------------------------
(***************************************************************************)
(* Web/Middleware: the chain of middlewares that a request goes through on *)
(* its way to the handler.  The coroutines that wait for one another are   *)
(* frames of a stack; the handler has frame 0.  failed is history:         *)
(* something was thrown while the request was worked on.                   *)
(***************************************************************************)
EXTENDS Integers, Sequences, SequencesExt

CONSTANTS
    UserMiddlewares,    \* middlewares of the application, see LoggingMiddleware
    Requests,           \* pairs of a method and a target
    MaxMiddlewares      \* bound on those that are used

VARIABLES MemberMiddlewares, MemberFrozen, Method, phase, stack, Index, ran, status, thrown, failed
runVars == <<Method, phase, stack, Index, ran, status, thrown, failed>>
chainVars == <<MemberMiddlewares, MemberFrozen, runVars>>

ASSUME ChainAssumption ==
    UserMiddlewares \subseteq [fn : {"user"}, priority : Int, nexts : Nat, throws : BOOLEAN]

\* nexts is how often Next is called, throws whether it ends in an exception.
LoggingMiddleware == [fn |-> "logging", priority |-> 0, nexts |-> 1, throws |-> FALSE]
CorsMiddleware == [fn |-> "cors", priority |-> 10, nexts |-> 1, throws |-> FALSE]
ErrorHandlerMiddleware == [fn |-> "error_handler", priority |-> -100, nexts |-> 1, throws |-> FALSE]
Middlewares ==
    UserMiddlewares \union {LoggingMiddleware, CorsMiddleware, ErrorHandlerMiddleware}

NextsOf(m) == IF m.fn = "cors" /\ Method = "options" THEN 0 ELSE m.nexts

ChainInit ==
    /\ MemberMiddlewares = <<>> /\ MemberFrozen = FALSE
    /\ Method = "none" /\ phase = "idle"
    /\ stack = <<>> /\ Index = 0 /\ ran = <<>>
    /\ status = "ok" /\ thrown = FALSE /\ failed = FALSE

-----------------------------------------------------------------------------
\* Mutant: of equal priorities the later comes first.
PlaceUnstable(m) ==
    {p \in 0..Len(MemberMiddlewares) : \A i \in DOMAIN MemberMiddlewares :
        i <= p <=> MemberMiddlewares[i].priority < m.priority}

\* Where push_back and stable_sort put it in a list that is in order: behind
\* those of its priority.
Place(m) ==
    {p \in 0..Len(MemberMiddlewares) : \A i \in DOMAIN MemberMiddlewares :
        i <= p <=> MemberMiddlewares[i].priority <= m.priority}

Named(m, n) == [fn |-> m.fn, priority |-> m.priority, nexts |-> m.nexts,
                throws |-> m.throws, name |-> n]

\* Refused once the server has been started.
Use ==
    /\ Len(MemberMiddlewares) < MaxMiddlewares /\ phase = "idle"
    /\ \E m \in Middlewares : \E p \in Place(m) :
        MemberMiddlewares' = IF MemberFrozen THEN MemberMiddlewares
            ELSE InsertAt(MemberMiddlewares, p + 1, Named(m, Len(MemberMiddlewares) + 1))
    /\ UNCHANGED <<MemberFrozen, runVars>>

StartServing ==
    /\ phase = "idle"
    /\ MemberFrozen' = TRUE
    /\ UNCHANGED <<MemberMiddlewares, runVars>>

-----------------------------------------------------------------------------
\* Next: the next middleware, or the handler when there is none left.
CallNext(rest, index, done) ==
    LET more == index < Len(MemberMiddlewares)
    IN  /\ Index' = IF more THEN index + 1 ELSE index
        /\ stack' = Append(rest, [at |-> IF more THEN index + 1 ELSE 0, nexts |-> 0])
        /\ ran' = Append(done, IF more THEN MemberMiddlewares[index + 1].name ELSE 0)

Ready == MemberFrozen /\ phase # "running"
\* MiddlewareChain::Run; one without middlewares runs the handler alone.
RunChain(m) ==
    /\ Ready
    /\ Method' = m /\ phase' = "running"
    /\ CallNext(<<>>, 0, <<>>)
    /\ status' = "ok" /\ thrown' = FALSE /\ failed' = FALSE
    /\ UNCHANGED <<MemberMiddlewares, MemberFrozen>>

\* No route, no chain.
AnswerNotFound(m) ==
    /\ Ready
    /\ Method' = m /\ phase' = "answered" /\ status' = "not found"
    /\ stack' = <<>> /\ Index' = 0 /\ ran' = <<>>
    /\ thrown' = FALSE /\ failed' = FALSE
    /\ UNCHANGED <<MemberMiddlewares, MemberFrozen>>

Top == stack[Len(stack)]
Below == SubSeq(stack, 1, Len(stack) - 1)
Middleware == MemberMiddlewares[Top.at]
Leave(throwing) ==
    /\ stack' = Below
    /\ thrown' = throwing
    /\ failed' = (failed \/ throwing)
    /\ phase' = IF Len(stack) > 1 THEN "running"
                ELSE IF throwing THEN "escaped" ELSE "answered"
    /\ UNCHANGED <<MemberMiddlewares, MemberFrozen, Method, Index, ran>>

HandlerEnds ==
    /\ phase = "running" /\ ~thrown /\ Top.at = 0
    /\ \/ Leave(TRUE) /\ UNCHANGED status
       \/ Leave(FALSE) /\ status' = "handled"

MiddlewareCallsNext ==
    /\ phase = "running" /\ ~thrown /\ Top.at # 0
    /\ Top.nexts < NextsOf(Middleware)
    /\ CallNext([stack EXCEPT ![Len(stack)].nexts = @ + 1], Index, ran)
    /\ UNCHANGED <<MemberMiddlewares, MemberFrozen, Method, phase, status, thrown, failed>>

MiddlewareEnds ==
    /\ phase = "running" /\ ~thrown /\ Top.at # 0
    /\ Top.nexts = NextsOf(Middleware)
    /\ Leave(Middleware.throws)
    /\ status' = IF Middleware.fn = "cors" /\ Top.nexts = 0 THEN "no content" ELSE status

\* An exception leaves a frame, unless the error handler waits there.
Unwind ==
    /\ phase = "running" /\ thrown
    /\ LET caught == Top.at # 0 /\ Middleware.fn = "error_handler"
       IN  /\ Leave(~caught)
           /\ status' = IF caught THEN "internal error" ELSE status

ChainRuns == HandlerEnds \/ MiddlewareCallsNext \/ MiddlewareEnds \/ Unwind
ChainNext ==
    \/ Use \/ StartServing \/ ChainRuns
    \/ \E q \in Requests : RunChain(q[1]) \/ AnswerNotFound(q[1])
ChainSpec == ChainInit /\ [][ChainNext]_chainVars

-----------------------------------------------------------------------------
HandlerRuns == Len(ran) - Len(MemberMiddlewares)
Repeats == \E i \in DOMAIN MemberMiddlewares : MemberMiddlewares[i].nexts > 1
RepeatsBefore(i) == \E j \in 1..(i - 1) : MemberMiddlewares[j].nexts > 1

InPriorityOrder ==
    \A i, j \in DOMAIN MemberMiddlewares : i < j =>
        LET a == MemberMiddlewares[i]  b == MemberMiddlewares[j]
        IN  a.priority < b.priority \/ (a.priority = b.priority /\ a.name < b.name)
EnteredInOrder ==
    \A i \in DOMAIN ran :
        ran[i] = IF i <= Len(MemberMiddlewares) THEN MemberMiddlewares[i].name ELSE 0
HandlerInside ==
    /\ HandlerRuns > 0 => \A i \in DOMAIN MemberMiddlewares :
        NextsOf(MemberMiddlewares[i]) > 0 \/ RepeatsBefore(i)
    /\ HandlerRuns > 1 => Repeats

\* Middlewares are entered by priority, those of one priority in the order they
\* were registered, and each at most once, even by a Next that is called again
\* (Middleware.hpp:103-114 shares one index); the handler runs inside of all of
\* them, again only if one of them calls Next again, and not at all if one does
\* not go on - but a Next that is called again outside of it goes past it.
ChainOrdered == InPriorityOrder /\ EnteredInOrder /\ HandlerInside

\* An error handler answers whatever is thrown further in: an exception escapes
\* only from outside of it, or past it through a Next that is called again.
Covers(i) ==
    /\ MemberMiddlewares[i].fn = "error_handler"
    /\ \A j \in 1..(i - 1) : ~MemberMiddlewares[j].throws /\ MemberMiddlewares[j].nexts <= 1
ErrorsContained ==
    \A i \in DOMAIN MemberMiddlewares : Covers(i) /\ ran # <<>> =>
        /\ phase # "escaped"
        /\ phase = "answered" /\ failed /\ ~Repeats => status = "internal error"

\* The order of the chain and the errors in it (MiddlewareChain and Builtins.hpp).
ChainRight == ChainOrdered /\ ErrorsContained
=============================================================================
