----------------------------- MODULE MCServices -----------------------------
(***************************************************************************)
(* What handlers and applications use besides the server itself: routing   *)
(* and middlewares, the session store, the client, the log, messages of    *)
(* the wire protocol and transfers over a transport.  They share no state, *)
(* so a behaviour is about one of them.                                    *)
(***************************************************************************)
EXTENDS Pipeline, SessionStore, HttpClient, Log, MCMessage, Transport

VARIABLE service
servicesVars == <<service, pipelineVars, sessionVars, clientVars, logVars, messageVars,
                  transportVars>>

ServicesInit ==
    /\ service \in {"pipeline", "sessions", "client", "log", "messages", "transport"}
    /\ PipelineInit /\ SessionInit /\ ClientInit /\ LogInit /\ MessageInit /\ TransportInit
    \* Where they are not looked at, one initial state is enough.
    /\ service # "messages" => format = "response"
    /\ service # "transport" => layer = "Reliable"

-----------------------------------------------------------------------------
\* Bounds on combinations.  Three routes are looked up but not served, and
\* middlewares are put around one route, which stands for any.

C(s) == [type |-> "none", text |-> s]
P(t, n) == [type |-> t, text |-> n]
AnyRoute == [method |-> "get", pattern |-> <<C("/"), P("string", "x")>>]
PipelineBound ==
    /\ MemberFrozen' => Len(registered) < MaxRoutes
    /\ MemberMiddlewares' # <<>> => \A i \in DOMAIN registered : registered[i] = AnyRoute

\* Of what is alike (threads, identifiers, writers, transfers) the first one that is
\* free is used, which leaves out only what differs by their names.
SessionBound ==
    /\ creating["q"] = 0 /\ creating'["q"] # 0 => creating["p"] # 0
    /\ \A i \in DOMAIN MemberSessions' \ DOMAIN MemberSessions :
          \A j \in Ids \ DOMAIN MemberSessions : i <= j
LogBound == writing["w2"] = NoCall /\ writing'["w2"] # NoCall => writing["w1"] # NoCall
TransportBound == transfer'["u"] # Unused => transfer'["t"] # Unused

\* No field has blanks around both its key and its value.
MessageBound ==
    \A n \in Names : LET fields == message'[n].header.headers
                     IN  \A k \in DOMAIN fields : Trimmed[k] # k => Trimmed[fields[k]] = fields[k]

\* The longest chains of redirects have the client to themselves.
ClientBound == call'["second"] # Idle => call'["first"].limit < 2

ServicesNext ==
    /\ \/ /\ service = "pipeline" /\ PipelineNext /\ PipelineBound
          /\ UNCHANGED <<sessionVars, clientVars, logVars, messageVars, transportVars>>
       \/ /\ service = "sessions" /\ SessionNext /\ SessionBound
          /\ UNCHANGED <<pipelineVars, clientVars, logVars, messageVars, transportVars>>
       \/ /\ service = "client" /\ ClientNext /\ ClientBound
          /\ UNCHANGED <<pipelineVars, sessionVars, logVars, messageVars, transportVars>>
       \/ /\ service = "log" /\ LogNext /\ LogBound
          /\ UNCHANGED <<pipelineVars, sessionVars, clientVars, messageVars, transportVars>>
       \/ /\ service = "messages" /\ MessageNext /\ MessageBound
          /\ UNCHANGED <<pipelineVars, sessionVars, clientVars, logVars, transportVars>>
       \/ /\ service = "transport" /\ TransportNext /\ TransportBound
          /\ UNCHANGED <<pipelineVars, sessionVars, clientVars, logVars, messageVars>>
    /\ UNCHANGED service

\* Deadlines expire and the executor runs what is ready; nothing is expected of peers.
ServicesSpec ==
    /\ ServicesInit /\ [][ServicesNext]_servicesVars
    /\ \A c \in Calls : WF_clientVars(service = "client" /\ TimesOut(c))
    /\ \A t \in Transfers : WF_transportVars(service = "transport" /\ Resume(t))

\* Whatever was registered and refused before, Match finds the handler that the
\* accepted registrations call for, and a request is answered by it, or "not found"
\* when they call for none (Router.hpp and Server::HandleConnection).
RequestsHandled == service = "pipeline" => RoutesFollowed /\ RoutedRight

\* Every call of the client ends, with a response or an error, though no peer ever
\* answers; and once a transport is closed, no transfer waits for its peer any longer
\* (Client.hpp's deadlines, Reliable::Close).
SomeoneWaits ==
    (\E c \in Calls : InProgress(c)) \/ (\E t \in Transfers : Working(transfer[t]))
CallsEnd == (service = "client" \/ socket = "closed") ~> ~SomeoneWaits

-----------------------------------------------------------------------------
\* Patterns that overlap in every way the tree tells apart, and malformed ones;
\* a redirect to every kind of reference.

MCPatterns == {
    <<C("/")>>, <<C("/"), C("a")>>, <<C("/"), C("a"), C("b")>>, <<C("/"), C("a"), C("/"), C("b")>>,
    <<C("/"), C("a"), P("string", "x")>>,
    <<C("/"), P("int", "n")>>, <<C("/"), P("int", "x")>>, <<C("/"), P("int", "n"), C("a")>>,
    <<C("/"), P("string", "x")>>, <<C("/"), P("string", "x"), C("b")>>,
    <<C("/"), P("string", "x"), C("/"), C("a")>>, <<C("/"), P("string", "x"), C("/"), P("path", "p")>>,
    <<C("/"), P("path", "p")>>}
MCMalformed == {
    <<>>, <<C("a")>>, <<C("/"), P("path", "p"), C("a")>>,
    <<C("/"), P("int", "n"), C("/"), P("string", "n")>>, <<C("/"), P("malformed", "")>>}
MCRoutes == {<<"get", p>> : p \in MCPatterns \union MCMalformed}
    \union {<<"post", <<C("/"), P("string", "x")>> >>}
Chars == {"/", "a", "b", "1"}
MCTargets == {<<"/">>, <<"/", "?">>, <<"/", "a", "?", "/">>} \union {<<"/", c>> : c \in Chars}
    \union {<<"/", c, d>> : c, d \in Chars} \union {<<"/", c, d, e>> : c, d, e \in Chars}
MCRequests == {<<"get", <<"/", "1">> >>, <<"get", <<"/", "a", "b">> >>, <<"options", <<"/", "a">> >>}

User(p, n, t) == [fn |-> "user", priority |-> p, nexts |-> n, throws |-> t]
MCUserMiddlewares == {
    User(0, 1, FALSE), User(0, 2, FALSE), User(10, 0, FALSE), User(10, 1, TRUE),
    User(-200, 0, TRUE), User(-200, 2, FALSE)}

Url(s, u, h, p) == [scheme |-> s, userinfo |-> u, host |-> h, port |-> p]
MCUrls == {
    Url("http", FALSE, "a", "absent"), Url("https", FALSE, "b", "absent"),
    Url("absent", FALSE, "absent", "absent"), Url("absent", FALSE, "b", "8080"),
    Url("https", FALSE, "a", "empty"), Url("malformed", FALSE, "absent", "absent")}
MCCalls == {"first", "second"}
MCUrlsOf == [first |-> MCUrls, second |-> {Url("https", FALSE, "b", "absent")}]
MCLimitsOf == [first |-> {-1, 1, 2}, second |-> {0}]
=============================================================================
