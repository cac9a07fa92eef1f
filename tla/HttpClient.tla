----------------------------- MODULE HttpClient -----------------------------
(***************************************************************************)
(* Web/Client/Client.hpp: calls of one HttpClient, each a coroutine that   *)
(* awaits one network operation after the other under a deadline and       *)
(* follows redirects.  sent is history: the requests of the call.  Paths   *)
(* and queries are left out, a URL is what decides where a request goes.   *)
(***************************************************************************)
EXTENDS Integers, Sequences

CONSTANTS
    Calls,
    UrlsOf,                     \* per call, the URLs asked for and answered with
    LimitsOf,                   \* per call, the values of MaxRedirects
    Statuses,
    Timeout, AllowInsecureRedirects

VARIABLES call, tlsContexts
clientVars == <<call, tlsContexts>>

\* A port may be given but empty.  A reference that does not parse has the
\* scheme "malformed".
Schemes == {"absent", "http", "https", "other", "malformed"}
IsUrl(u) == u \in [scheme : Schemes, userinfo : BOOLEAN, host : {u.host}, port : {u.port}]
ASSUME ClientAssumption ==
    /\ \A c \in Calls : LimitsOf[c] \subseteq Int /\ \A u \in UrlsOf[c] : IsUrl(u)
    /\ Timeout \in Int /\ AllowInsecureRedirects \in BOOLEAN

\* ValidateConfiguration; the limits of a response are left out.
ConfigurationValid == Timeout > 0
ASSUME ClientConfigured == ConfigurationValid

Redirects == {301, 302, 303, 307, 308}
NoUrl == [scheme |-> "none"]
NoResponse == [status |-> 0, location |-> NoUrl]

ParseHttpUrl(u) ==
    IF u.scheme \notin {"http", "https"} \/ u.userinfo \/ u.host = "absent" \/ u.port = "empty"
    THEN NoUrl
    ELSE [scheme |-> u.scheme, host |-> u.host,
          port |-> IF u.port # "absent" THEN u.port
                   ELSE IF u.scheme = "https" THEN "443" ELSE "80",
          authority |-> <<u.host, u.port>>, hostHeader |-> <<u.host, u.port>>]

\* The reference as seen from the URL of the request.
ResolveRedirect(to, ref) ==
    IF ref.scheme = "malformed" THEN NoUrl
    ELSE IF ref.scheme # "absent" THEN ParseHttpUrl(ref)
    ELSE IF ref.host # "absent" THEN ParseHttpUrl([ref EXCEPT !.scheme = to.scheme])
    ELSE ParseHttpUrl([scheme |-> to.scheme, userinfo |-> FALSE,
                       host |-> to.authority[1], port |-> to.authority[2]])

Idle == [phase |-> "idle", method |-> "none", to |-> NoUrl, body |-> FALSE, redirects |-> 0,
         limit |-> 0, deadline |-> FALSE, response |-> NoResponse, sent |-> <<>>]

ClientInit ==
    /\ call = [c \in Calls |-> Idle]
    /\ tlsContexts = 0

\* An awaited operation has a timer when there is a timeout; a post has a body.
Timed == Timeout > 0
HasBody(method) == method = "post"

Becomes(c, r) == call' = [call EXCEPT ![c] = r]
Fails(c) == Becomes(c, [call[c] EXCEPT !.phase = "failed", !.deadline = FALSE])

-----------------------------------------------------------------------------
\* DoRequest up to SendRequest, and SendRequest up to the resolution, which has
\* a timer of its own.
DoRequest(c, method, to, limit) ==
    Becomes(c, IF limit < 0 THEN [Idle EXCEPT !.phase = "failed", !.limit = limit]
               ELSE [Idle EXCEPT !.phase = "resolve", !.method = method, !.to = to,
                         !.body = HasBody(method), !.limit = limit, !.deadline = Timed])

\* Get and Post by host and port speak http, and leave the port out of Host.
GetOrPost(c) ==
    /\ call[c].phase = "idle"
    /\ \E m \in {"get", "post"}, limit \in LimitsOf[c] :
        \E u \in {v \in UrlsOf[c] : v.host # "absent" /\ v.port \notin {"absent", "empty"}} :
            DoRequest(c, m, [scheme |-> "http", host |-> u.host, port |-> u.port,
                             authority |-> <<u.host, u.port>>,
                             hostHeader |-> <<u.host, "absent">>],
                      limit)
    /\ UNCHANGED tlsContexts

\* Get and Post by URL.
DoAbsoluteUrlRequest(c) ==
    /\ call[c].phase = "idle"
    /\ \E m \in {"get", "post"}, limit \in LimitsOf[c], u \in UrlsOf[c] :
        LET to == ParseHttpUrl(u)
        IN  IF to = NoUrl THEN Fails(c) ELSE DoRequest(c, m, to, limit)
    /\ UNCHANGED tlsContexts

\* Mutant: the connection is made without a deadline.
ConnectingUntimed(r) == [r EXCEPT !.phase = "connect", !.deadline = FALSE]

\* Every operation is awaited under a deadline of its own.
Connecting(r) == [r EXCEPT !.phase = "connect", !.deadline = Timed]

\* The addresses are known.  The first https request of the client makes the
\* TLS context, under a mutex; that may throw and is then tried again later.
GetTlsContext(c) ==
    \/ tlsContexts > 0 /\ Becomes(c, Connecting(call[c])) /\ UNCHANGED tlsContexts
    \/ tlsContexts = 0 /\ Becomes(c, Connecting(call[c])) /\ tlsContexts' = tlsContexts + 1
    \/ tlsContexts = 0 /\ Fails(c) /\ UNCHANGED tlsContexts

Resolved(c) ==
    /\ call[c].phase = "resolve"
    /\ \/ call[c].to.scheme = "https" /\ GetTlsContext(c)
       \/ call[c].to.scheme = "http" /\ Becomes(c, Connecting(call[c])) /\ UNCHANGED tlsContexts

\* SendHttpRequest starts to write.
Writing(r) ==
    [r EXCEPT !.phase = "write", !.deadline = Timed,
        !.sent = Append(@, [method |-> r.method, to |-> r.to, body |-> r.body])]

Connected(c) ==
    /\ call[c].phase = "connect"
    /\ IF call[c].to.scheme = "https"
       THEN \/ Becomes(c, [call[c] EXCEPT !.phase = "handshake", !.deadline = Timed])
            \/ Fails(c)                  \* the server name cannot be set
       ELSE Becomes(c, Writing(call[c]))
    /\ UNCHANGED tlsContexts

Handshaken(c) ==
    /\ call[c].phase = "handshake"
    /\ Becomes(c, Writing(call[c]))
    /\ UNCHANGED tlsContexts

Written(c) ==
    /\ call[c].phase = "write"
    /\ Becomes(c, [call[c] EXCEPT !.phase = "read", !.deadline = Timed])
    /\ UNCHANGED tlsContexts

\* The request that follows a redirect.
Rewritten(r) == r.response.status \in {301, 302, 303} /\ r.method \notin {"get", "head"}

\* Mutant: the method is rewritten and the body kept.
RedirectedWithBody(r, to) ==
    [r EXCEPT !.phase = "resolve", !.deadline = Timed, !.to = to,
        !.method = IF Rewritten(r) THEN "get" ELSE @,
        !.redirects = @ + 1, !.response = NoResponse]

Redirected(r, to) ==
    [r EXCEPT !.phase = "resolve", !.deadline = Timed, !.to = to,
        !.method = IF Rewritten(r) THEN "get" ELSE @,
        !.body = IF Rewritten(r) THEN FALSE ELSE @,
        !.redirects = @ + 1, !.response = NoResponse]

\* What DoRequest makes of a response: the end, or the next request.
Answered(r) ==
    LET to == IF r.response.location = NoUrl THEN NoUrl
              ELSE ResolveRedirect(r.to, r.response.location)
    IN  IF \/ r.response.status \notin Redirects \/ r.redirects >= r.limit \/ to = NoUrl
           \/ r.to.scheme = "https" /\ to.scheme = "http" /\ ~AllowInsecureRedirects
        THEN [r EXCEPT !.phase = "done", !.deadline = FALSE]
        ELSE Redirected(r, to)

Received(c) ==
    /\ call[c].phase = "read"
    /\ \E s \in Statuses, u \in UrlsOf[c] \union {NoUrl} :
        LET r == [call[c] EXCEPT !.response = [status |-> s, location |-> u]]
        IN  /\ s \in Redirects \/ u = NoUrl
            /\ Becomes(c, IF r.to.scheme = "https"
                          THEN [r EXCEPT !.phase = "shutdown", !.deadline = Timed]
                          ELSE Answered(r))
    /\ UNCHANGED tlsContexts

\* The peer's close_notify, its plain close of the connection, or an abort.
TlsShutdown(c) ==
    /\ call[c].phase = "shutdown"
    /\ Becomes(c, Answered(call[c]))
    /\ UNCHANGED tlsContexts

Awaiting == {"resolve", "connect", "handshake", "write", "read", "shutdown"}

\* Any operation fails, in the shutdown too, although the response is complete.
OperationFails(c) ==
    /\ call[c].phase \in Awaiting
    /\ Fails(c)
    /\ UNCHANGED tlsContexts

TimesOut(c) ==
    /\ call[c].phase \in Awaiting /\ call[c].deadline
    /\ Fails(c)
    /\ UNCHANGED tlsContexts

ClientNext == \E c \in Calls :
    \/ GetOrPost(c) \/ DoAbsoluteUrlRequest(c) \/ Resolved(c) \/ Connected(c)
    \/ Handshaken(c) \/ Written(c) \/ Received(c) \/ TlsShutdown(c)
    \/ OperationFails(c) \/ TimesOut(c)

-----------------------------------------------------------------------------
\* Over a whole chain of redirects a call sends at most limit + 1 requests, goes
\* from https back to http only where that is allowed, never sends the body again
\* once a 301, 302 or 303 has made a GET of it (Client.hpp:425-433), connects to the
\* host and port that its URL and Host header name (419-424), and gives a redirect
\* back only when it could not follow it.  The TLS context is made once.
RedirectsFollowed ==
    /\ tlsContexts <= 1
    /\ \A c \in Calls : LET r == call[c]  s == r.sent IN
        /\ s # <<>> => Len(s) <= r.limit + 1
        /\ \A i \in DOMAIN s :
            /\ (s[i].body <=> s[i].method = "post")
            /\ s[i].to.hostHeader[1] = s[i].to.host /\ s[i].to.authority[1] = s[i].to.host
            /\ s[i].to.authority[2] \in {s[i].to.port, "absent"}
            /\ s[i].to.authority[2] = "absent" =>
                s[i].to.port = IF s[i].to.scheme = "https" THEN "443" ELSE "80"
            /\ \A j \in 1..(i - 1) :
                /\ s[i].body => s[j].body
                /\ s[j].to.scheme = "https" /\ s[i].to.scheme = "http" => AllowInsecureRedirects
        /\ r.phase = "done" /\ r.response.status \in Redirects /\ Len(s) <= r.limit =>
            LET at == r.response.location
                to == IF at = NoUrl THEN NoUrl ELSE ResolveRedirect(r.to, at)
            IN  to = NoUrl \/ (s[Len(s)].to.scheme = "https" /\ to.scheme = "http")

\* Whatever it awaits, a call has a deadline running (Client.hpp:584, 606, 627, 643,
\* 530, 538, 545).
InProgress(c) == call[c].phase \notin {"idle", "done", "failed"}
=============================================================================
