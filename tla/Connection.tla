----------------------------- MODULE Connection -----------------------------
(***************************************************************************)
(* One connection of the server from the slot it takes to the slot it      *)
(* gives back: LaunchConnection on the accept strand, the coroutine        *)
(* HandleConnection on the connection's own strand (TLS handshake, read,   *)
(* handler, write, keep-alive, TLS shutdown, clean-up), and the close      *)
(* operation that ConnectionRegistry::CloseAll dispatches to that strand   *)
(* while the coroutine is wherever it is.                                  *)
(*                                                                         *)
(* A strand is a queue of tasks: "co" resumes the coroutine, "close" is    *)
(* the close operation.  A stretch of the coroutine between two awaits is  *)
(* one step, except for the clean-up, whose effects on shared counters     *)
(* other threads can see one by one.                                       *)
(***************************************************************************)
EXTENDS Integers, Sequences, FiniteSets

CONSTANTS
  Conns,           \* connections that may arrive (bound of the model)
  MaxConnections,  \* MemberConfig.MaxConnections
  Configs,         \* the configurations the server may run with
  LaunchMayFail,   \* RegisterClose or co_spawn may throw
  HandlersStop     \* handlers may call the server's ForceStop

ConfigType == [tls : BOOLEAN, keepAlive : BOOLEAN, maxRequests : Nat \ {0},
               metrics : BOOLEAN]

ASSUME ConnectionAssumption ==
  /\ IsFiniteSet(Conns)
  /\ MaxConnections \in Nat \ {0}
  /\ Configs \subseteq ConfigType
  /\ LaunchMayFail \in BOOLEAN /\ HandlersStop \in BOOLEAN

VARIABLES
  config,         \* MemberConfig and whether MemberTlsContext is set
  active,         \* MemberActiveConnections
  metric,         \* ServerMetrics::MemberActiveConnections
  registry,       \* entries of MemberConnections
  taken,          \* entries a CloseAll has taken and not yet dispatched
  pc,             \* where each connection is
  result,         \* result of the operation the coroutine awaited
  sock,           \* each connection's socket
  handlerActive,  \* IsHandlerActive
  cancelled,      \* the handler in progress has been cancelled
  served,         \* RequestCount
  errors,         \* errors counted in ServerMetrics, by connection
  strand,         \* the tasks queued on each connection's strand
  closeAsked      \* history: connections some CloseAll has taken

counters == <<active, metric, errors>>
shared   == <<registry, taken, closeAsked>>
own      == <<pc, result, sock, handlerActive, cancelled, served>>
vars == <<config, counters, shared, own, strand>>

Launching == {"admitted", "registered", "counted", "undo"}
Pending   == {"handshake", "read", "handler", "write", "shutdown"}
Resumable == {"start", "handshakeDone", "readDone", "handlerStart", "handlerDone",
              "writeDone", "shutdownDone"}
Finishing == {"remove", "sub", "dec"}
PCs == {"none", "refused", "closed"} \cup Launching \cup Pending \cup Resumable
       \cup Finishing
Results == {"none", "ok", "eof", "aborted", "error"}

Init ==
  /\ config \in Configs
  /\ active = 0 /\ metric = 0 /\ errors = [c \in Conns |-> 0]
  /\ registry = {} /\ taken = {} /\ closeAsked = {}
  /\ pc = [c \in Conns |-> "none"] /\ result = [c \in Conns |-> "none"]
  /\ sock = [c \in Conns |-> "none"]
  /\ handlerActive = [c \in Conns |-> FALSE]
  /\ cancelled = [c \in Conns |-> FALSE] /\ served = [c \in Conns |-> 0]
  /\ strand = [c \in Conns |-> <<>>]

Goto(c, l) == pc' = [pc EXCEPT ![c] = l]
Counted(n) == IF config.metrics THEN n ELSE 0
CountError(c, bad) == errors' = [errors EXCEPT ![c] = @ + IF bad THEN Counted(1) ELSE 0]

-----------------------------------------------------------------------------
(* Admission and LaunchConnection, on the accept strand.                   *)

TryAcquireConnection(c) ==
  /\ pc[c] = "none"
  /\ IF active < MaxConnections
     THEN /\ active' = active + 1 /\ Goto(c, "admitted")
          /\ sock' = [sock EXCEPT ![c] = "open"]
     ELSE /\ Goto(c, "refused") /\ UNCHANGED active
          /\ sock' = [sock EXCEPT ![c] = "closed"]
  /\ UNCHANGED <<config, metric, errors, shared, result, handlerActive, cancelled,
                 served, strand>>

RegisterClose(c) ==
  /\ pc[c] = "admitted"
  /\ \/ Goto(c, "registered") /\ registry' = registry \cup {c}
     \/ LaunchMayFail /\ Goto(c, "undo") /\ UNCHANGED registry
  /\ UNCHANGED <<config, counters, taken, closeAsked, result, sock, handlerActive,
                 cancelled, served, strand>>

CountConnection(c) ==
  /\ pc[c] = "registered" /\ Goto(c, "counted")
  /\ metric' = metric + Counted(1)
  /\ UNCHANGED <<config, active, errors, shared, result, sock, handlerActive,
                 cancelled, served, strand>>

\* Mutant: a failed launch keeps the gauge.
SpawnKeepsGauge(c) ==
  /\ pc[c] = "counted"
  /\ \/ /\ Goto(c, "start") /\ strand' = [strand EXCEPT ![c] = Append(@, "co")]
        /\ UNCHANGED <<registry, errors>>
     \/ /\ LaunchMayFail /\ Goto(c, "undo")
        /\ registry' = registry \ {c} /\ CountError(c, TRUE)
        /\ UNCHANGED strand
  /\ UNCHANGED <<config, active, metric, taken, closeAsked, result, sock,
                 handlerActive, cancelled, served>>

\* Mutant: co_spawn's failure gives the slot back before the common handler does.
SpawnReleasesTwice(c) ==
  /\ pc[c] = "counted"
  /\ \/ /\ Goto(c, "start") /\ strand' = [strand EXCEPT ![c] = Append(@, "co")]
        /\ UNCHANGED <<registry, metric, errors, active>>
     \/ /\ LaunchMayFail /\ Goto(c, "undo")
        /\ registry' = registry \ {c} /\ active' = active - 1
        /\ metric' = metric - Counted(1) /\ CountError(c, TRUE)
        /\ UNCHANGED strand
  /\ UNCHANGED <<config, taken, closeAsked, result, sock, handlerActive, cancelled,
                 served>>

\* co_spawn queues the coroutine, or throws: the entry, the gauge are undone.
SpawnConnection(c) ==
  /\ pc[c] = "counted"
  /\ \/ /\ Goto(c, "start") /\ strand' = [strand EXCEPT ![c] = Append(@, "co")]
        /\ UNCHANGED <<registry, metric, errors>>
     \/ /\ LaunchMayFail /\ Goto(c, "undo")
        /\ registry' = registry \ {c}
        /\ metric' = metric - Counted(1) /\ CountError(c, TRUE)
        /\ UNCHANGED strand
  /\ UNCHANGED <<config, active, taken, closeAsked, result, sock, handlerActive,
                 cancelled, served>>

\* Mutant: a failed launch does not close the socket.
UndoLaunchOpen(c) ==
  /\ pc[c] = "undo" /\ Goto(c, "refused")
  /\ active' = active - 1
  /\ UNCHANGED <<config, metric, errors, shared, result, sock, handlerActive,
                 cancelled, served, strand>>

UndoLaunch(c) ==
  /\ pc[c] = "undo" /\ Goto(c, "refused")
  /\ active' = active - 1 /\ sock' = [sock EXCEPT ![c] = "closed"]
  /\ UNCHANGED <<config, metric, errors, shared, result, handlerActive, cancelled,
                 served, strand>>

-----------------------------------------------------------------------------
(* The outside world: an awaited operation completes, on a closed socket   *)
(* always with an error, and queues the resumption.                        *)

Complete(c, l, r) ==
  /\ Goto(c, l) /\ result' = [result EXCEPT ![c] = r]
  /\ strand' = [strand EXCEPT ![c] = Append(@, "co")]

DoneOf(l) == CASE l = "handshake" -> "handshakeDone" [] l = "read" -> "readDone"
               [] l = "write" -> "writeDone" [] l = "shutdown" -> "shutdownDone"

IoCompletes(c) ==
  /\ pc[c] \in {"handshake", "read", "write", "shutdown"}
  /\ \E r \in (IF sock[c] = "closed" THEN {"error"}
               ELSE {"ok", "error"} \cup (IF pc[c] = "write" THEN {} ELSE {"eof"})) :
       Complete(c, DoneOf(pc[c]), r)
  /\ UNCHANGED <<config, counters, shared, sock, handlerActive, cancelled, served>>

\* The stream's timer expires: the socket is closed and the operation fails.
IoTimesOut(c) ==
  /\ pc[c] \in {"handshake", "read", "write", "shutdown"} /\ sock[c] = "open"
  /\ Complete(c, DoneOf(pc[c]), "error")
  /\ sock' = [sock EXCEPT ![c] = "closed"]
  /\ UNCHANGED <<config, counters, shared, handlerActive, cancelled, served>>

\* What the handler awaits completes; it is resumed and runs to its end.
HandlerCompletes(c) ==
  /\ pc[c] = "handler" /\ Complete(c, "handlerDone", "none")
  /\ UNCHANGED <<config, counters, shared, sock, handlerActive, cancelled, served>>

-----------------------------------------------------------------------------
(* ConnectionRegistry.                                                     *)

\* Mutant: only connections with a handler in progress are closed.
CloseAllHandlers ==
  /\ registry # {}
  /\ registry' = {} /\ taken' = taken \cup {c \in registry : handlerActive[c]}
  /\ closeAsked' = closeAsked \cup registry
  /\ UNCHANGED <<config, counters, own, strand>>

\* Any thread may call ForceStop.  The entries are taken out under the lock.
CloseAll ==
  /\ registry # {}
  /\ registry' = {} /\ taken' = taken \cup registry
  /\ closeAsked' = closeAsked \cup registry
  /\ UNCHANGED <<config, counters, own, strand>>

DispatchClose(c) ==
  /\ c \in taken /\ taken' = taken \ {c}
  /\ strand' = [strand EXCEPT ![c] = Append(@, "close")]
  /\ UNCHANGED <<config, counters, registry, closeAsked, own>>

\* The close operation: cancel the handler if one is in progress, then close
\* the socket, which aborts what the coroutine awaits of it.
CloseOperation(c, queue) ==
  /\ cancelled' = [cancelled EXCEPT ![c] = @ \/ handlerActive[c]]
  /\ sock' = [sock EXCEPT ![c] = "closed"]
  /\ IF pc[c] \in {"handshake", "read", "write", "shutdown"} /\ sock[c] = "open"
     THEN /\ Goto(c, DoneOf(pc[c])) /\ result' = [result EXCEPT ![c] = "aborted"]
          /\ strand' = [strand EXCEPT ![c] = Append(queue, "co")]
     ELSE /\ strand' = [strand EXCEPT ![c] = queue]
          /\ UNCHANGED <<pc, result>>

\* A strand runs its first task when no earlier one is still running.
Task(c, t) == strand[c] # <<>> /\ Head(strand[c]) = t /\ pc[c] \notin Finishing

CloseConnection(c) ==
  /\ Task(c, "close") /\ CloseOperation(c, Tail(strand[c]))
  /\ UNCHANGED <<config, counters, shared, handlerActive, served>>

-----------------------------------------------------------------------------
(* HandleConnection.                                                       *)

Resume(c, l) == /\ Task(c, "co") /\ pc[c] = l
                /\ strand' = [strand EXCEPT ![c] = Tail(@)]

\* Close: the TLS shutdown is awaited first, when the handshake was complete.
CloseFrom(handshaken) == IF config.tls /\ handshaken THEN "shutdown" ELSE "remove"

Started(c) ==
  /\ Resume(c, "start") /\ Goto(c, IF config.tls THEN "handshake" ELSE "read")
  /\ UNCHANGED <<config, counters, shared, result, sock, handlerActive, cancelled,
                 served>>

Handshaken(c) ==
  /\ Resume(c, "handshakeDone")
  /\ Goto(c, IF result[c] = "ok" THEN "read" ELSE CloseFrom(FALSE))
  /\ CountError(c, result[c] \notin {"ok", "aborted"})
  /\ UNCHANGED <<config, active, metric, shared, result, sock, handlerActive,
                 cancelled, served>>

\* A request that matches a route starts a handler, in this task or in one of
\* its own; one that does not is answered; a failed read leaves the loop.
RequestRead(c) ==
  /\ Task(c, "co") /\ pc[c] = "readDone"
  /\ \/ /\ result[c] = "ok" /\ Goto(c, "handlerStart")
        /\ handlerActive' = [handlerActive EXCEPT ![c] = TRUE]
        /\ \/ UNCHANGED strand
           \/ strand' = [strand EXCEPT ![c] = Append(Tail(@), "co")]
        /\ UNCHANGED errors
     \/ /\ result[c] = "ok" /\ Resume(c, "readDone") /\ Goto(c, "write")
        /\ UNCHANGED <<handlerActive, errors>>
     \/ /\ result[c] # "ok" /\ Resume(c, "readDone") /\ Goto(c, CloseFrom(TRUE))
        /\ CountError(c, result[c] # "eof") /\ UNCHANGED handlerActive
  /\ UNCHANGED <<config, active, metric, shared, result, sock, cancelled, served>>

\* The handler runs to what it awaits, or to its end; once cancelled it can
\* await nothing any more.
HandlerStarts(c) ==
  /\ Task(c, "co") /\ pc[c] = "handlerStart"
  /\ \/ /\ ~cancelled[c] /\ Goto(c, "handler")
        /\ strand' = [strand EXCEPT ![c] = Tail(@)]
     \/ /\ Goto(c, "handlerDone")
        /\ strand' = [strand EXCEPT ![c] = Append(Tail(@), "co")]
  /\ UNCHANGED <<config, counters, shared, result, sock, handlerActive, cancelled,
                 served>>

\* The handler calls ForceStop: dispatch runs its own close operation at once.
HandlerStops(c) ==
  /\ HandlersStop /\ Task(c, "co") /\ pc[c] = "handlerStart" /\ registry # {}
  /\ registry' = {} /\ taken' = taken \cup (registry \ {c})
  /\ closeAsked' = closeAsked \cup registry
  /\ IF c \in registry THEN CloseOperation(c, strand[c])
     ELSE UNCHANGED <<cancelled, sock, pc, result, strand>>
  /\ UNCHANGED <<config, counters, handlerActive, served>>

\* Mutant: a handler that throws leaves IsHandlerActive set.
HandlerEndsActive(c) ==
  /\ Resume(c, "handlerDone")
  /\ \E r \in {"ok", "error"} \cup (IF cancelled[c] THEN {"aborted"} ELSE {}) :
       /\ result' = [result EXCEPT ![c] = r]
       /\ Goto(c, IF r = "ok" THEN "write" ELSE CloseFrom(TRUE))
       /\ CountError(c, r # "ok")
       /\ handlerActive' = [handlerActive EXCEPT ![c] = (r # "ok")]
  /\ cancelled' = [cancelled EXCEPT ![c] = FALSE]
  /\ UNCHANGED <<config, active, metric, shared, sock, served>>

\* The handler's outcome reaches the coroutine: a response or an exception.
HandlerEnds(c) ==
  /\ Resume(c, "handlerDone")
  /\ \E r \in {"ok", "error"} \cup (IF cancelled[c] THEN {"aborted"} ELSE {}) :
       /\ result' = [result EXCEPT ![c] = r]
       /\ Goto(c, IF r = "ok" THEN "write" ELSE CloseFrom(TRUE))
       /\ CountError(c, r # "ok")
  /\ handlerActive' = [handlerActive EXCEPT ![c] = FALSE]
  /\ cancelled' = [cancelled EXCEPT ![c] = FALSE]
  /\ UNCHANGED <<config, active, metric, shared, sock, served>>

\* Mutant: the limit is off by one.
ResponseWrittenOneMore(c) ==
  /\ Resume(c, "writeDone")
  /\ IF result[c] = "ok"
     THEN /\ served' = [served EXCEPT ![c] = @ + 1] /\ UNCHANGED errors
          /\ \E stays \in BOOLEAN :
               Goto(c, IF stays /\ config.keepAlive
                          /\ served[c] < config.maxRequests
                       THEN "read" ELSE CloseFrom(TRUE))
     ELSE Goto(c, CloseFrom(TRUE)) /\ CountError(c, TRUE) /\ UNCHANGED served
  /\ UNCHANGED <<config, active, metric, shared, result, sock, handlerActive,
                 cancelled>>

\* Mutant: RequestCount is not incremented.
ResponseWrittenUncounted(c) ==
  /\ Resume(c, "writeDone")
  /\ IF result[c] = "ok"
     THEN /\ UNCHANGED <<served, errors>>
          /\ \E stays \in BOOLEAN :
               Goto(c, IF stays /\ config.keepAlive
                          /\ served[c] + 1 < config.maxRequests
                       THEN "read" ELSE CloseFrom(TRUE))
     ELSE Goto(c, CloseFrom(TRUE)) /\ CountError(c, TRUE) /\ UNCHANGED served
  /\ UNCHANGED <<config, active, metric, shared, result, sock, handlerActive,
                 cancelled>>

\* After the response the loop goes on if the server and this client (stays)
\* keep the connection alive and the limit is not reached.
ResponseWritten(c) ==
  /\ Resume(c, "writeDone")
  /\ IF result[c] = "ok"
     THEN /\ served' = [served EXCEPT ![c] = @ + 1] /\ UNCHANGED errors
          /\ \E stays \in BOOLEAN :
               Goto(c, IF stays /\ config.keepAlive
                          /\ served[c] + 1 < config.maxRequests
                       THEN "read" ELSE CloseFrom(TRUE))
     ELSE Goto(c, CloseFrom(TRUE)) /\ CountError(c, TRUE) /\ UNCHANGED served
  /\ UNCHANGED <<config, active, metric, shared, result, sock, handlerActive,
                 cancelled>>

ShutDown(c) ==
  /\ Resume(c, "shutdownDone") /\ Goto(c, "remove")
  /\ CountError(c, result[c] = "error")
  /\ UNCHANGED <<config, active, metric, shared, result, sock, handlerActive,
                 cancelled, served>>

\* The rest of Close, step by step in one task.
RemoveConnection(c) ==
  /\ pc[c] = "remove" /\ Goto(c, "sub")
  /\ sock' = [sock EXCEPT ![c] = "closed"] /\ registry' = registry \ {c}
  /\ UNCHANGED <<config, counters, taken, closeAsked, result, handlerActive,
                 cancelled, served, strand>>

ReleaseSlot(c) ==
  /\ pc[c] = "sub" /\ Goto(c, "dec") /\ active' = active - 1
  /\ UNCHANGED <<config, metric, errors, shared, result, sock, handlerActive,
                 cancelled, served, strand>>

\* Mutant: the gauge is decremented with metrics disabled too.
UncountAlways(c) ==
  /\ pc[c] = "dec" /\ Goto(c, "closed") /\ metric' = metric - 1
  /\ UNCHANGED <<config, active, errors, shared, result, sock, handlerActive,
                 cancelled, served, strand>>

UncountConnection(c) ==
  /\ pc[c] = "dec" /\ Goto(c, "closed") /\ metric' = metric - Counted(1)
  /\ UNCHANGED <<config, active, errors, shared, result, sock, handlerActive,
                 cancelled, served, strand>>

-----------------------------------------------------------------------------
Launch(c) ==
  \/ RegisterClose(c) \/ CountConnection(c) \/ SpawnConnection(c) \/ UndoLaunch(c)

StrandStep(c) ==
  \/ CloseConnection(c) \/ Started(c) \/ Handshaken(c) \/ RequestRead(c)
  \/ HandlerStarts(c) \/ HandlerEnds(c) \/ ResponseWritten(c) \/ ShutDown(c)
  \/ RemoveConnection(c) \/ ReleaseSlot(c) \/ UncountConnection(c)

Step(c) == Launch(c) \/ StrandStep(c) \/ DispatchClose(c)

Next ==
  \/ CloseAll
  \/ \E c \in Conns :
       \/ TryAcquireConnection(c) \/ Step(c) \/ HandlerStops(c)
       \/ IoCompletes(c) \/ IoTimesOut(c) \/ HandlerCompletes(c)

Spec == Init /\ [][Next]_vars

\* What ForceStop may count on: strands run, operations on a closed socket
\* end, a cancelled handler ends.
Progress ==
  \A c \in Conns : /\ WF_vars(Step(c))
                   /\ WF_vars(IoCompletes(c) /\ sock[c] = "closed")
                   /\ WF_vars(HandlerCompletes(c) /\ cancelled[c])

\* Handlers end by themselves.
HandlersEnd == \A c \in Conns : WF_vars(HandlerCompletes(c))

\* Reads, writes and shutdowns complete or time out.
IoEnds == \A c \in Conns : WF_vars(IoCompletes(c) \/ IoTimesOut(c))

ForceSpec == Spec /\ Progress
LiveSpec  == Spec /\ Progress /\ HandlersEnd

-----------------------------------------------------------------------------
(* Properties.                                                             *)

TypeOK ==
  /\ config \in Configs
  /\ active \in Nat /\ metric \in Nat /\ errors \in [Conns -> Nat]
  /\ registry \subseteq Conns /\ taken \subseteq Conns /\ closeAsked \subseteq Conns
  /\ pc \in [Conns -> PCs] /\ result \in [Conns -> Results]
  /\ sock \in [Conns -> {"none", "open", "closed"}]
  /\ handlerActive \in [Conns -> BOOLEAN] /\ cancelled \in [Conns -> BOOLEAN]
  /\ served \in [Conns -> Nat] /\ strand \in [Conns -> Seq({"co", "close"})]

\* Every path of LaunchConnection and HandleConnection, error paths included,
\* takes and gives back exactly one slot: the connections implement SlotPool.
Slots == INSTANCE SlotPool WITH
  held  <- {c \in Conns : pc[c] \in Launching \cup Pending \cup Resumable
                                    \cup {"remove", "sub"}},
  spent <- {c \in Conns : pc[c] \in {"refused", "dec", "closed"}},
  count <- active
SlotSpec == Slots!Spec

\* "每个已接入连接在停止时只使活动连接指标减一": the gauge counts exactly the
\* connections that were counted in and not yet counted out.
MetricExact ==
  metric = IF config.metrics
           THEN Cardinality({c \in Conns : pc[c] \in {"counted"} \cup Pending
                                             \cup Resumable \cup Finishing})
           ELSE 0

\* A stop misses nobody and nothing stays behind: a connection that serves is
\* registered or some stop has taken it, and an entry belongs to a connection
\* that still holds its slot.
Serves(c) == pc[c] \in Pending \cup Resumable \cup {"registered", "counted"}
RegistryExact ==
  /\ \A c \in Conns : Serves(c) => c \in registry \cup closeAsked
  /\ \A c \in registry : Serves(c) \/ pc[c] = "remove"

\* What is counted in is counted out, in the gauge and in the registry.
AccountsExact == MetricExact /\ RegistryExact

\* A close operation is never lost: once it has been dispatched and is no
\* longer queued, the socket is closed; and every connection that is over has
\* closed its socket.
Queued(c, t) == \E i \in DOMAIN strand[c] : strand[c][i] = t
CloseNotLost ==
  \A c \in Conns :
    \/ c \in closeAsked \ taken /\ ~Queued(c, "close")
    \/ pc[c] \in {"refused", "closed"}
    => sock[c] = "closed"

\* A cancellation hits the handler in progress when the connection is closed,
\* never a later request and never a connection that stays open.
InHandler(c) == pc[c] \in {"handlerStart", "handler", "handlerDone"}
CancelHitsHandler ==
  \A c \in Conns :
    /\ handlerActive[c] <=> InHandler(c)
    /\ cancelled[c] => InHandler(c) /\ sock[c] = "closed" /\ c \in closeAsked

\* No coroutine is resumed twice or forgotten: it is queued exactly while it
\* waits to be resumed.
ResumedOnce ==
  \A c \in Conns :
    Cardinality({i \in DOMAIN strand[c] : strand[c][i] = "co"})
      = IF pc[c] \in Resumable THEN 1 ELSE 0

\* The strand loses no close operation and resumes no coroutine twice.
StrandExact == CloseNotLost /\ ResumedOnce

\* A connection serves no more requests than the configuration allows.
KeepAliveLimit ==
  \A c \in Conns : served[c] <= IF config.keepAlive THEN config.maxRequests ELSE 1

\* When handlers end by themselves, a connection that ForceStop takes is
\* cleaned up, however silent the client is.
ForcedEnds == \A c \in Conns : (c \in closeAsked) ~> (pc[c] \in {"refused", "closed"})

\* When reads, writes and timers end, every admitted connection gives its slot
\* back, stop or no stop.
SlotComesBack == IoEnds => \A c \in Conns : (pc[c] = "admitted") ~> (pc[c] \in {"refused", "closed"})
=============================================================================
