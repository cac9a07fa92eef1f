---------------------------- MODULE Application ----------------------------
(***************************************************************************)
(* Wan::Web::Application over its Server: Start, Stop, Wait and the        *)
(* destructor, called by owner threads, and Stop and State called by       *)
(* request handlers on the server's worker threads.  Start keeps           *)
(* MemberLifecycleMutex for as long as the server starts, which is what    *)
(* ties the two kinds of callers together.                                 *)
(*                                                                         *)
(* The server is reduced to what the application can tell of it; that it   *)
(* is so is what Server.tla and Executor.tla check: a stop before the      *)
(* listener is up fails the start, a stopping server stops its executor    *)
(* once Run and the handlers have ended, and a failed start cleans up.     *)
(***************************************************************************)
EXTENDS Integers, FiniteSets

CONSTANTS
  Owners,     \* threads that own the application
  Handlers,   \* request handlers that may run (bound of the model)
  MayCall,    \* the calls each owner makes, each at most once (bound)
  Faults,     \* which failures the run injects
  None

Calls == {"Start", "Stop", "Wait", "Destroy"}
AllFaults == {"config", "bind", "thread", "spawn"}

ASSUME ApplicationAssumption ==
  /\ MayCall \in [Owners -> SUBSET Calls]
  /\ Faults \subseteq AllFaults
  /\ Owners \cap Handlers = {} /\ None \notin Owners \cup Handlers

Actors == Owners \cup Handlers

VARIABLES
  state,      \* MemberState
  failure,    \* MemberFailure is set
  mutex,      \* the owner inside Start's long section of MemberLifecycleMutex
  pc,         \* where each actor is
  left,       \* the calls each owner may still make
  outcome,    \* history: how each owner's last Wait ended
  destroyer,  \* the owner running the destructor
  destroyed,  \* the destructor has returned
  started, startComplete, startFailure, stopping,  \* of the Server
  listener,   \* Run: "none" before it listens, "open", "ended"
  threads,    \* worker threads: "none", "some", "all", "joined"
  stopped,    \* the executor is stopped
  waiter      \* holder of the server's MemberWaitMutex

app    == <<state, failure, mutex>>
server == <<started, startComplete, startFailure, stopping, listener, threads,
            stopped, waiter>>
hist   == <<left, outcome, destroyer, destroyed>>
vars == <<app, server, hist, pc>>

States == {"Created", "Starting", "Running", "Stopping", "Stopped", "Failed"}
OwnerPCs == {"idle", "startValidate", "serverStart", "threads", "abort", "listen",
             "startFails", "stopCall", "graceful", "stopFails", "waitCall",
             "waitLock", "waitStart", "waitJoin", "waitEnd"}
HandlerPCs == {"none", "running", "stopCall", "stateCall", "graceful", "stopFails",
               "done"}

Init ==
  /\ state = "Created" /\ failure = FALSE /\ mutex = None
  /\ pc = [a \in Actors |-> IF a \in Owners THEN "idle" ELSE "none"]
  /\ left = MayCall /\ outcome = [o \in Owners |-> "none"]
  /\ destroyer = None /\ destroyed = FALSE
  /\ started = FALSE /\ startComplete = FALSE /\ startFailure = FALSE
  /\ stopping = FALSE /\ listener = "none" /\ threads = "none"
  /\ stopped = FALSE /\ waiter = None

Goto(a, l) == pc' = [pc EXCEPT ![a] = l]
\* Mutant: every caller of Stop and State is taken for an owner.
ReturnIdle(a) == Goto(a, "idle")

\* A handler goes on with its request after a call, an owner is idle.
Return(a) == Goto(a, IF a \in Owners THEN "idle" ELSE "running")
Free == mutex = None

InHandler == {h \in Handlers : pc[h] \notin {"none", "done"}}

-----------------------------------------------------------------------------
(* Calls of owners.                                                        *)

Call(o, k) ==
  /\ pc[o] = "idle" /\ k \in left[o] /\ destroyer = None
  /\ left' = [left EXCEPT ![o] = @ \ {k}]

StopCall(o) ==
  /\ Call(o, "Stop") /\ Goto(o, "stopCall")
  /\ UNCHANGED <<app, server, outcome, destroyer, destroyed>>

WaitCall(o) ==
  /\ Call(o, "Wait") /\ Goto(o, "waitCall")
  /\ outcome' = [outcome EXCEPT ![o] = "none"]
  /\ UNCHANGED <<app, server, destroyer, destroyed>>

\* The destructor is Stop, then Wait; nobody else uses the application any more.
DestroyCall(o) ==
  /\ Call(o, "Destroy") /\ \A p \in Owners : pc[p] = "idle"
  /\ destroyer' = o /\ Goto(o, "stopCall")
  /\ UNCHANGED <<app, server, outcome, destroyed>>

-----------------------------------------------------------------------------
(* Start.                                                                  *)

StartCall(o) ==
  /\ Call(o, "Start") /\ Free
  /\ IF state = "Created" THEN state' = "Starting" /\ Goto(o, "startValidate")
     ELSE UNCHANGED <<state, pc>>
  /\ UNCHANGED <<failure, mutex, server, outcome, destroyer, destroyed>>

\* The second section; it is left with an exception, with Stopped, or held on
\* through the server's start.
StartValidate(o) ==
  /\ pc[o] = "startValidate"
  /\ \/ "config" \in Faults /\ Goto(o, "startFails") /\ UNCHANGED <<state, mutex>>
     \/ /\ Free
        /\ CASE state = "Stopping" -> state' = "Stopped" /\ Goto(o, "idle")
                                      /\ UNCHANGED mutex
             [] state = "Starting" -> mutex' = o /\ Goto(o, "serverStart")
                                      /\ UNCHANGED state
             [] OTHER -> Goto(o, "startFails") /\ UNCHANGED <<state, mutex>>
  /\ UNCHANGED <<failure, server, hist>>

\* Server::Start up to Executor::Run, which throws if a Wait has joined it; a
\* Wait still draining the executor may have run Run before the ForceStop.
ServerStart(o) ==
  /\ pc[o] = "serverStart" /\ started' = TRUE
  /\ \/ /\ threads = "joined" /\ Goto(o, "waitLock") /\ UNCHANGED threads
        /\ stopping' = TRUE /\ startComplete' = TRUE /\ startFailure' \in BOOLEAN
     \/ /\ threads # "joined" /\ Goto(o, "threads") /\ threads' = "some"
        /\ stopping' = FALSE /\ startComplete' = FALSE /\ startFailure' = FALSE
  /\ UNCHANGED <<app, listener, stopped, waiter, hist>>

\* The rest of the threads; or one of them cannot be created.
ServerThreads(o) ==
  /\ pc[o] = "threads"
  /\ \/ Goto(o, "listen") /\ threads' = "all" /\ UNCHANGED stopped
     \/ /\ "thread" \in Faults
        /\ Goto(o, "abort") /\ stopped' = TRUE /\ UNCHANGED threads
  /\ UNCHANGED <<app, started, startComplete, startFailure, stopping, listener,
                 waiter, hist>>

\* ForceStop from inside Server::Start.
ForceStart ==
  /\ stopping' = TRUE /\ startComplete' = TRUE
  /\ startFailure' = (startFailure \/ ~startComplete)

\* Executor::Run joins the threads it has created, then throws.
ServerAbort(o) ==
  /\ pc[o] = "abort" /\ InHandler = {}
  /\ threads' = "joined" /\ ForceStart /\ Goto(o, "waitLock")
  /\ UNCHANGED <<app, started, listener, stopped, waiter, hist>>

ServerListens(o) ==
  /\ pc[o] = "listen" /\ startComplete
  /\ IF startFailure
     THEN ForceStart /\ Goto(o, "waitLock") /\ UNCHANGED <<state, mutex>>
     ELSE /\ state' = "Running" /\ mutex' = None /\ Goto(o, "idle")
          /\ UNCHANGED <<startComplete, startFailure, stopping>>
  /\ UNCHANGED <<failure, started, listener, threads, stopped, waiter, hist>>

\* The handler of Start locks the mutex again.
StartFails(o) ==
  /\ pc[o] = "startFails" /\ Free
  /\ failure' = TRUE /\ state' = "Failed" /\ Goto(o, "idle")
  /\ UNCHANGED <<mutex, server, hist>>

-----------------------------------------------------------------------------
(* Stop, called by owners and by handlers; State, called by handlers.      *)

\* Mutant: the destructor does not wait.
StopReturnsGone(a, threw) ==
  IF destroyer = a THEN Goto(a, "idle") /\ destroyed' = TRUE
  ELSE Return(a) /\ UNCHANGED destroyed

\* In the destructor an exception of Stop skips Wait.
StopReturns(a, threw) ==
  IF destroyer = a
  THEN /\ Goto(a, IF threw THEN "idle" ELSE "waitCall")
       /\ destroyed' = threw
  ELSE Return(a) /\ UNCHANGED destroyed

\* Mutant: a failed application is stopped like a running one.
StopFailedToo(a) ==
  /\ pc[a] = "stopCall" /\ Free
  /\ CASE state = "Created" -> state' = "Stopped" /\ StopReturns(a, FALSE)
       [] state \in {"Stopped", "Stopping"} -> StopReturns(a, FALSE) /\ UNCHANGED state
       [] OTHER -> state' = "Stopping" /\ Goto(a, "graceful") /\ UNCHANGED destroyed
  /\ UNCHANGED <<failure, mutex, server, left, outcome, destroyer>>

Stop(a) ==
  /\ pc[a] = "stopCall" /\ Free
  /\ CASE state = "Created" ->
            state' = "Stopped" /\ StopReturns(a, FALSE) /\ UNCHANGED stopping
       [] state \in {"Stopped", "Stopping"} ->
            StopReturns(a, FALSE) /\ UNCHANGED <<state, stopping>>
       [] state = "Failed" ->
            /\ stopping' = (stopping \/ started)
            /\ StopReturns(a, FALSE) /\ UNCHANGED state
       [] OTHER -> state' = "Stopping" /\ Goto(a, "graceful")
                   /\ UNCHANGED <<stopping, destroyed>>
  /\ UNCHANGED <<failure, mutex, started, startComplete, startFailure, listener,
                 threads, stopped, waiter, left, outcome, destroyer>>

\* Mutant: the server is never told.
GracefulStopNot(a) ==
  /\ pc[a] = "graceful" /\ StopReturns(a, FALSE)
  /\ UNCHANGED <<app, server, left, outcome, destroyer>>

\* Server::BeginGracefulStop; with a connection in progress it spawns the drain
\* timer's coroutine, which may fail after the stop has begun.
GracefulStop(a) ==
  /\ pc[a] = "graceful"
  /\ IF ~started \/ stopping
     THEN StopReturns(a, FALSE) /\ UNCHANGED <<startComplete, startFailure, stopping>>
     ELSE /\ ForceStart
          /\ \/ StopReturns(a, FALSE)
             \/ /\ "spawn" \in Faults /\ InHandler # {}
                /\ Goto(a, "stopFails") /\ UNCHANGED destroyed
  /\ UNCHANGED <<app, started, listener, threads, stopped, waiter, left, outcome,
                 destroyer>>

StopFails(a) ==
  /\ pc[a] = "stopFails" /\ Free
  /\ failure' = TRUE /\ state' = "Failed" /\ StopReturns(a, TRUE)
  /\ UNCHANGED <<mutex, server, left, outcome, destroyer>>

HandlerCalls(h) ==
  /\ pc[h] = "running"
  /\ \E k \in {"stopCall", "stateCall", "done"} : Goto(h, k)
  /\ UNCHANGED <<app, server, hist>>

State(h) ==
  /\ pc[h] = "stateCall" /\ Free /\ Return(h)
  /\ UNCHANGED <<app, server, hist>>

-----------------------------------------------------------------------------
(* Wait.                                                                   *)

WaitReturns(o, how) ==
  /\ outcome' = [outcome EXCEPT ![o] = how]
  /\ destroyed' = (destroyed \/ destroyer = o)
  /\ Goto(o, "idle")

\* Mutant: a stopping application counts as stopped.
WaitEager(o) ==
  /\ pc[o] = "waitCall" /\ Free
  /\ IF state \in {"Created", "Stopped", "Stopping"}
     THEN state' = "Stopped" /\ WaitReturns(o, "ok")
     ELSE /\ outcome' = [outcome EXCEPT ![o] = IF state = "Failed" THEN "known" ELSE @]
          /\ Goto(o, "waitLock") /\ UNCHANGED <<state, destroyed>>
  /\ UNCHANGED <<failure, mutex, server, left, destroyer>>

Wait(o) ==
  /\ pc[o] = "waitCall" /\ Free
  /\ IF state \in {"Created", "Stopped"}
     THEN state' = "Stopped" /\ WaitReturns(o, "ok")
     ELSE /\ outcome' = [outcome EXCEPT ![o] = IF state = "Failed" THEN "known" ELSE @]
          /\ Goto(o, "waitLock") /\ UNCHANGED <<state, destroyed>>
  /\ UNCHANGED <<failure, mutex, server, left, destroyer>>

\* Server::Wait, called by Wait or by a failing Start.
WaitLock(o) ==
  /\ pc[o] = "waitLock" /\ waiter = None
  /\ waiter' = o /\ Goto(o, "waitStart")
  /\ UNCHANGED <<app, started, startComplete, startFailure, stopping, listener,
                 threads, stopped, hist>>

WaitStart(o) ==
  /\ pc[o] = "waitStart" /\ (started => startComplete)
  /\ Goto(o, "waitJoin")
  /\ UNCHANGED <<app, server, hist>>

\* Join, and the clean-up after it; while Executor::Run creates threads Join waits.
WaitJoin(o) ==
  /\ pc[o] = "waitJoin"
  /\ \/ threads = "none" \/ threads = "joined"
     \/ threads = "all" /\ stopped /\ InHandler = {}
  /\ threads' = "joined" /\ stopped' = TRUE /\ stopping' = TRUE
  /\ listener' = IF listener = "none" THEN "none" ELSE "ended"
  /\ waiter' = None /\ Goto(o, "waitEnd")
  /\ outcome' = [outcome EXCEPT ![o] =
                   IF startFailure /\ @ # "known" THEN "failing" ELSE @]
  /\ UNCHANGED <<app, started, startComplete, startFailure, left, destroyer,
                 destroyed>>

\* The server's Wait has thrown or returned: Start fails, a known failure is
\* thrown again, a new one is recorded, or the application is stopped.
WaitEnd(o) ==
  /\ pc[o] = "waitEnd"
  /\ IF mutex = o
     THEN mutex' = None /\ Goto(o, "startFails")
          /\ UNCHANGED <<state, failure, outcome, destroyed>>
     ELSE /\ \/ outcome[o] = "known" /\ UNCHANGED <<state, failure, mutex>>
                /\ WaitReturns(o, "threw")
             \/ /\ outcome[o] # "known" /\ Free /\ UNCHANGED mutex
                /\ IF outcome[o] = "failing"
                   THEN failure' = TRUE /\ state' = "Failed" /\ WaitReturns(o, "threw")
                   ELSE /\ state' = IF state = "Failed" THEN state ELSE "Stopped"
                        /\ UNCHANGED failure /\ WaitReturns(o, "ok")
  /\ UNCHANGED <<server, left, destroyer>>

-----------------------------------------------------------------------------
(* The server's own steps.                                                 *)

Working == threads \in {"some", "all"} /\ ~stopped

\* Run listens; or it finds the server stopping, or cannot bind.
ListenerOpens ==
  /\ started /\ Working /\ listener = "none"
  /\ \/ /\ ~stopping /\ listener' = "open" /\ startComplete' = TRUE
        /\ UNCHANGED <<startFailure, stopping>>
     \/ /\ stopping \/ "bind" \in Faults
        /\ listener' = "ended" /\ startFailure' = TRUE
        /\ startComplete' = TRUE /\ stopping' = TRUE
  /\ UNCHANGED <<app, hist, pc, started, threads, stopped, waiter>>

ListenerEnds ==
  /\ Working /\ listener = "open" /\ stopping /\ listener' = "ended"
  /\ UNCHANGED <<app, hist, pc, started, startComplete, startFailure, stopping,
                 threads, stopped, waiter>>

ExecutorStops ==
  /\ Working /\ stopping /\ listener = "ended" /\ InHandler = {}
  /\ stopped' = TRUE
  /\ UNCHANGED <<app, hist, pc, started, startComplete, startFailure, stopping,
                 listener, threads, waiter>>

HandlerBegins(h) ==
  /\ pc[h] = "none" /\ Working /\ listener = "open" /\ Goto(h, "running")
  /\ UNCHANGED <<app, server, hist>>

-----------------------------------------------------------------------------
OwnerCall(o) == StartCall(o) \/ StopCall(o) \/ WaitCall(o) \/ DestroyCall(o)

OwnerStep(o) ==
  \/ StartValidate(o) \/ ServerStart(o) \/ ServerThreads(o) \/ ServerAbort(o)
  \/ ServerListens(o) \/ StartFails(o)
  \/ Stop(o) \/ GracefulStop(o) \/ StopFails(o)
  \/ Wait(o) \/ WaitLock(o) \/ WaitStart(o) \/ WaitJoin(o) \/ WaitEnd(o)

HandlerStep(h) ==
  HandlerCalls(h) \/ Stop(h) \/ State(h) \/ GracefulStop(h) \/ StopFails(h)

ServerStep == ListenerOpens \/ ListenerEnds \/ ExecutorStops

Next ==
  \/ \E o \in Owners : OwnerCall(o) \/ OwnerStep(o)
  \/ \E h \in Handlers : HandlerBegins(h) \/ HandlerStep(h)
  \/ ServerStep

Spec == Init /\ [][Next]_vars

\* Threads that can move do, and a handler ends some day.
FairSpec ==
  /\ Spec /\ WF_vars(ServerStep)
  /\ \A o \in Owners : WF_vars(OwnerStep(o))
  /\ \A h \in Handlers : WF_vars(HandlerStep(h)) /\ SF_vars(HandlerStep(h) /\ pc'[h] = "done")

-----------------------------------------------------------------------------
(* Properties.                                                             *)

TypeOK ==
  /\ state \in States /\ failure \in BOOLEAN /\ mutex \in Owners \cup {None}
  /\ DOMAIN pc = Actors
  /\ \A o \in Owners : pc[o] \in OwnerPCs
  /\ \A h \in Handlers : pc[h] \in HandlerPCs
  /\ left \in [Owners -> SUBSET Calls]
  /\ outcome \in [Owners -> {"none", "known", "failing", "ok", "threw"}]
  /\ destroyer \in Owners \cup {None} /\ destroyed \in BOOLEAN
  /\ started \in BOOLEAN /\ startComplete \in BOOLEAN /\ startFailure \in BOOLEAN
  /\ stopping \in BOOLEAN /\ listener \in {"none", "open", "ended"}
  /\ threads \in {"none", "some", "all", "joined"} /\ stopped \in BOOLEAN
  /\ waiter \in Owners \cup {None}

Gone == threads \in {"none", "joined"} /\ listener # "open" /\ InHandler = {}

\* "Stopped：工作线程、连接、计时器及拥有的资源已释放": whichever of Start, Stop
\* and Wait publishes Stopped, no thread, listener or handler is left.
StoppedMeansGone == state = "Stopped" => Gone

\* Running is only published when the server listens, and while nobody has
\* stopped it, it does.
RunningMeansServing ==
  state = "Running" =>
    /\ started /\ startComplete /\ ~startFailure /\ listener # "none"
    /\ ~stopping => listener = "open" /\ threads = "all" /\ ~stopped

\* A failure that Start or Stop reported, or Wait found, is kept, and a failed
\* application whose calls are over has released what the failed start created.
FailureKept ==
  /\ state = "Failed" <=> failure
  /\ state = "Failed" /\ startFailure /\ (\A o \in Owners : pc[o] = "idle") => Gone

\* The published state means what the documentation says of it.
StateTruthful == StoppedMeansGone /\ RunningMeansServing /\ FailureKept

\* The documented state machine, in which Stopped and Failed are final.
Edges ==
  {<<"Created", "Starting">>, <<"Created", "Stopped">>, <<"Starting", "Running">>,
   <<"Starting", "Stopping">>, <<"Starting", "Failed">>, <<"Running", "Stopping">>,
   <<"Running", "Stopped">>, <<"Running", "Failed">>, <<"Stopping", "Stopped">>,
   <<"Stopping", "Failed">>}

\* A Wait may end between the two sections of Start, or before its failure is
\* recorded, and publishes Stopped for an application that is still starting.
WaitOvertakesStart ==
  \E o, p \in Owners : pc[o] = "waitEnd" /\ pc[p] \in {"startValidate", "startFails"}

\* A failure of Start, or of the graceful stop, that is recorded late.
LateFailure == \E a \in Actors : pc[a] \in {"startFails", "stopFails"}

\* The state only moves along the documented machine, but for those two races.
\* Above all, Failed is final, and Stopped but for a failure recorded late.
LegalTransitions ==
  [][state' # state =>
       \/ <<state, state'>> \in Edges
       \/ <<state, state'>> = <<"Starting", "Stopped">> /\ WaitOvertakesStart
       \/ <<state, state'>> = <<"Stopped", "Failed">> /\ LateFailure]_state

\* "析构时会请求停止并等待清理完成" (Application.hpp:53): after the destructor
\* no thread of the server runs any more, unless a Stop failed to spawn the
\* coroutine of the graceful stop: the destructor then swallows the failure.
StopFailed == "spawn" \in Faults /\ failure /\ ~startFailure
DestroyedMeansGone == destroyed /\ ~StopFailed => Gone

\* "处理器内可以调用 `Stop()` 请求停止" (Docs/Web.md:54): a handler's calls return.
HandlerAnswered ==
  \A h \in Handlers : (pc[h] \in {"stopCall", "stateCall"}) ~> (pc[h] \in {"running", "done"})

\* Unless a thread cannot be created: Executor::Run then joins the threads it
\* has, and one of their handlers may be waiting for Start's mutex.
ThreadsCreated == \A o \in Owners : pc[o] # "abort"

\* As long as every thread is created, a handler's calls return, Start returns,
\* and so does a Wait once somebody has stopped the server.
CallsReturn ==
  []ThreadsCreated =>
    /\ HandlerAnswered
    /\ \A o \in Owners :
         /\ (pc[o] = "startValidate") ~> (pc[o] = "idle")
         /\ (pc[o] = "waitCall" /\ state = "Stopping") ~> (pc[o] = "idle")
=============================================================================
