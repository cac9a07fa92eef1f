------------------------------- MODULE Server -------------------------------
(***************************************************************************)
(* Lifecycle of Wan/Web/Server/Server.hpp: the threads that call Start,    *)
(* Wait, BeginGracefulStop and ForceStop; the accept loop Run and the      *)
(* drain-timer coroutine on the accept strand; the connections on strands  *)
(* of their own; the ConnectionRegistry; and the executor, reduced to what *)
(* Executor.tla shows of it.                                               *)
(*                                                                         *)
(* A section under MemberLifecycleMutex is one step and so is every later  *)
(* effect of the same function: the calls a function still has to make are *)
(* a sequence of operations, todo[a], that the actor a works off one step  *)
(* at a time while every other actor moves.  Connection.tla has the        *)
(* details of one connection that are left out here.                       *)
(***************************************************************************)
EXTENDS Integers, Sequences, FiniteSets

CONSTANTS
  Owners,          \* threads that use the server from outside
  Conns,           \* connections that may arrive (bound of the model)
  MaxConnections,  \* MemberConfig.MaxConnections
  MayCall,         \* the calls each owner makes, each at most once (bound)
  Faults,          \* which failures the run injects
  None

Calls == {"Start", "Wait", "Graceful", "Force"}
AllFaults == {"bind", "accept", "option", "alloc", "launch", "spawn", "thread"}

ASSUME ServerAssumption ==
  /\ MaxConnections \in Nat \ {0}
  /\ IsFiniteSet(Conns)
  /\ MayCall \in [Owners -> SUBSET Calls]
  /\ Faults \subseteq AllFaults
  /\ Owners \cap Conns = {} /\ None \notin Owners \cup Conns
  /\ {"run", "timer"} \cap (Owners \cup Conns) = {}

Actors == Owners \cup Conns \cup {"run", "timer"}

VARIABLES
  started, startComplete, startFailure, runFailure,  \* MemberStarted, ...
  stopping, forceStop, runComplete,
  memberAcceptor,   \* MemberAcceptor is set
  acceptor,         \* the acceptor object: "none", "open", "closed"
  run,              \* where the coroutine Run is
  accepted,         \* the connection Run has accepted and not yet launched
  timer,            \* MemberDrainTimer is set
  timerActive,      \* MemberDrainTimerActive
  timerCo,          \* where the coroutine StopAfterDrainTimeout is
  active,           \* MemberActiveConnections
  registry,         \* entries of MemberConnections
  conn,             \* where each connection's coroutine is
  open,             \* connections whose socket is open
  closeTask,        \* connections with a dispatched close operation
  execLife,         \* Executor::MemberState
  iocStopped,       \* the io_context is stopped
  strand,           \* tasks queued on the accept strand, in order
  todo,             \* operations each actor still has to make
  opc, left,        \* where each owner is, and the calls it may still make
  waiter,           \* the owner holding MemberWaitMutex
  starter,          \* the owner inside Start
  startResult,      \* history: how Start ended
  waitResult,       \* history: how each owner's last Wait ended
  stopAsked         \* history: some owner called a stop operation

life   == <<started, startComplete, startFailure, runFailure, stopping,
            forceStop, runComplete>>
listen == <<memberAcceptor, acceptor>>
loop   == <<run, accepted>>
drain  == <<timer, timerActive, timerCo>>
sockets == <<registry, open, closeTask>>
exec   == <<execLife, iocStopped>>
calls  == <<opc, left, waiter, starter, startResult, waitResult, stopAsked>>
vars == <<life, listen, loop, drain, active, sockets, conn, exec, strand, todo, calls>>

ConnStates == {"none", "refused", "spawned", "io", "ready", "failed", "handler",
               "cancelled", "handled", "closing", "closed"}
\* Suspension points and steps of Run.
RunSuspended == {"none", "spawned", "accepting", "accepted", "aborted",
                 "acceptError", "retry", "retried", "done"}
RunSteps == {"publish", "check0", "errCheck", "check1", "acquire", "check2",
             "launch", "fail"}
TimerStates == {"none", "spawned", "waiting", "expired", "cancelled", "done"}
Ops == {"forceStop", "cancelTimer", "closeAcceptor", "closeAll", "maybeFinish",
        "execStop", "markRun", "spawnTimer", "completeTimer", "remove", "release",
        "closeAcceptorNow", "cancelTimerNow", "closeAllNow"}
OwnerPCs == {"idle", "startSpawn", "startExecutor", "startThreads", "startAbort",
             "startWait", "waitLock", "waitStart", "waitJoin", "waitThreads",
             "waitMark", "waitClean", "drain"}

Init ==
  /\ started = FALSE /\ startComplete = FALSE /\ startFailure = FALSE
  /\ runFailure = FALSE /\ stopping = FALSE /\ forceStop = FALSE
  /\ runComplete = FALSE
  /\ memberAcceptor = FALSE /\ acceptor = "none"
  /\ run = "none" /\ accepted = None
  /\ timer = FALSE /\ timerActive = FALSE /\ timerCo = "none"
  /\ active = 0 /\ registry = {} /\ conn = [c \in Conns |-> "none"]
  /\ open = {} /\ closeTask = {}
  /\ execLife = "Created" /\ iocStopped = FALSE /\ strand = <<>>
  /\ todo = [a \in Actors |-> <<>>]
  /\ opc = [o \in Owners |-> "idle"] /\ left = MayCall
  /\ waiter = None /\ starter = None /\ startResult = "none"
  /\ waitResult = [o \in Owners |-> "none"] /\ stopAsked = FALSE

-----------------------------------------------------------------------------
(* Executor and strand.                                                    *)

\* A thread runs the io_context: a worker, or the owner in DrainStopped.
Dispatching ==
  /\ ~iocStopped
  /\ \/ execLife \in {"Starting", "Running", "Joining"}
     \/ \E o \in Owners : opc[o] = "drain"

\* The accept strand executes one handler at a time.
StrandIdle == run \in RunSuspended /\ todo["run"] = <<>> /\ todo["timer"] = <<>>
Quiet == StrandIdle /\ \A c \in Conns : todo[c] = <<>>

OnStrand(a) == a \in {"run", "timer"}

Next1(a, op) == todo[a] # <<>> /\ Head(todo[a]) = op
Then(a, ops) == todo' = [todo EXCEPT ![a] = ops \o Tail(@)]
If(b, ops) == IF b THEN ops ELSE <<>>

\* Cancelling the timer completes a pending wait, and nothing else.
CancelWait(queue) ==
  IF timerCo = "waiting"
  THEN timerCo' = "cancelled" /\ strand' = Append(queue, "timer")
  ELSE UNCHANGED timerCo /\ strand' = queue

\* Closing the acceptor aborts a pending accept.
CloseListener(queue) ==
  /\ acceptor' = "closed"
  /\ IF run = "accepting"
     THEN run' = "aborted" /\ strand' = Append(queue, "run")
     ELSE UNCHANGED run /\ strand' = queue

\* Emitting the signal and closing the socket ends what the coroutine awaits.
Aborted(s) == CASE s = "io" -> "failed" [] s = "handler" -> "cancelled" [] OTHER -> s

-----------------------------------------------------------------------------
(* The operations.                                                         *)

ForceStop(a) ==
  /\ Next1(a, "forceStop")
  /\ IF ~started THEN Then(a, <<>>) /\ UNCHANGED <<life, memberAcceptor>>
     ELSE /\ stopping' = TRUE /\ forceStop' = TRUE
          /\ memberAcceptor' = FALSE
          /\ startFailure' = (startFailure \/ ~startComplete)
          /\ startComplete' = TRUE
          /\ Then(a, If(timer, <<"cancelTimer">>)
                     \o If(memberAcceptor, <<"closeAcceptor">>)
                     \o <<"closeAll", "maybeFinish">>)
          /\ UNCHANGED <<started, runFailure, runComplete>>
  /\ UNCHANGED <<acceptor, loop, drain, active, sockets, conn, exec, strand, calls>>

CancelDrainTimer(a) ==
  /\ Next1(a, "cancelTimer") /\ Then(a, <<>>)
  /\ IF OnStrand(a) THEN CancelWait(strand)
     ELSE strand' = Append(strand, "cancelTimer") /\ UNCHANGED timerCo
  /\ UNCHANGED <<life, listen, loop, timer, timerActive, active, sockets, conn,
                 exec, calls>>

CloseAcceptor(a) ==
  /\ Next1(a, "closeAcceptor") /\ Then(a, <<>>)
  /\ IF OnStrand(a) THEN CloseListener(strand)
     ELSE strand' = Append(strand, "closeAcceptor") /\ UNCHANGED <<acceptor, run>>
  /\ UNCHANGED <<life, memberAcceptor, accepted, drain, active, sockets, conn,
                 exec, calls>>

\* The registry is emptied at once; the close operations are dispatched.
CloseAll(a) ==
  /\ Next1(a, "closeAll") /\ Then(a, <<>>)
  /\ registry' = {} /\ closeTask' = closeTask \cup registry
  /\ UNCHANGED <<life, listen, loop, drain, active, open, conn, exec, strand, calls>>

\* Mutant: the accept loop need not have ended.
DrainedEarly == stopping /\ active = 0
Drained == stopping /\ runComplete /\ active = 0

\* Mutant: an outstanding drain timer does not hold up the stop.
MaybeFinishUnchecked(a) ==
  /\ Next1(a, "maybeFinish")
  /\ Then(a, If(Drained /\ timerActive /\ timer, <<"cancelTimer">>)
             \o If(Drained, <<"execStop">>))
  /\ UNCHANGED <<life, listen, loop, drain, active, sockets, conn, exec, strand, calls>>

MaybeFinishGracefulStop(a) ==
  /\ Next1(a, "maybeFinish")
  /\ Then(a, If(Drained /\ timerActive /\ timer, <<"cancelTimer">>)
             \o If(Drained /\ ~timerActive, <<"execStop">>))
  /\ UNCHANGED <<life, listen, loop, drain, active, sockets, conn, exec, strand, calls>>

\* Executor::Stop, as in Executor.tla.
ExecutorStop(a) ==
  /\ Next1(a, "execStop") /\ Then(a, <<>>)
  /\ IF execLife = "Joined" THEN UNCHANGED exec
     ELSE /\ iocStopped' = TRUE
          /\ execLife' = IF execLife \in {"Created", "Running"} THEN "Stopping"
                         ELSE execLife
  /\ UNCHANGED <<life, listen, loop, drain, active, sockets, conn, strand, calls>>

MarkRunComplete(a) ==
  /\ Next1(a, "markRun") /\ Then(a, <<"maybeFinish">>)
  /\ runComplete' = TRUE
  /\ UNCHANGED <<started, startComplete, startFailure, runFailure, stopping,
                 forceStop, listen, loop, drain, active, sockets, conn, exec,
                 strand, calls>>

CompleteDrainTimer(a) ==
  /\ Next1(a, "completeTimer") /\ Then(a, <<"maybeFinish">>)
  /\ timer' = FALSE /\ timerActive' = FALSE
  /\ UNCHANGED <<life, listen, loop, timerCo, active, sockets, conn, exec, strand,
                 calls>>

\* BeginGracefulStop's last part; co_spawn may throw.
SpawnDrainTimer(a) ==
  /\ Next1(a, "spawnTimer")
  /\ \/ /\ Then(a, <<>>)
        /\ strand' = Append(strand, "timer") /\ timerCo' = "spawned"
     \/ /\ "spawn" \in Faults
        /\ Then(a, <<"completeTimer", "forceStop">>)
        /\ UNCHANGED <<strand, timerCo>>
  /\ UNCHANGED <<life, listen, loop, timer, timerActive, active, sockets, conn,
                 exec, calls>>

\* The parts of a connection's Close: leave the registry, give back the slot.
RemoveConnection(c) ==
  /\ Next1(c, "remove") /\ Then(c, <<>>)
  /\ open' = open \ {c} /\ registry' = registry \ {c}
  /\ UNCHANGED <<life, listen, loop, drain, active, closeTask, conn, exec, strand,
                 calls>>

\* Mutant: the last connection does not look whether the stop can finish.
ReleaseSilently(c) ==
  /\ Next1(c, "release") /\ Then(c, <<>>)
  /\ active' = active - 1
  /\ conn' = [conn EXCEPT ![c] = "closed"]
  /\ UNCHANGED <<life, listen, loop, drain, sockets, exec, strand, calls>>

ReleaseConnection(c) ==
  /\ Next1(c, "release") /\ Then(c, <<"maybeFinish">>)
  /\ active' = active - 1
  /\ conn' = [conn EXCEPT ![c] = "closed"]
  /\ UNCHANGED <<life, listen, loop, drain, sockets, exec, strand, calls>>

\* Wait's clean-up runs on the waiting thread, after Join.
CleanUpNow(o) ==
  /\ \/ /\ Next1(o, "closeAcceptorNow") /\ CloseListener(strand)
        /\ UNCHANGED <<timerCo, sockets, conn>>
     \/ /\ Next1(o, "cancelTimerNow") /\ CancelWait(strand)
        /\ UNCHANGED <<acceptor, run, sockets, conn>>
     \/ /\ Next1(o, "closeAllNow")
        /\ registry' = {} /\ open' = open \ registry
        /\ conn' = [c \in Conns |-> IF c \in registry THEN Aborted(conn[c])
                                    ELSE conn[c]]
        /\ UNCHANGED <<acceptor, run, timerCo, strand, closeTask>>
  /\ Then(o, <<>>)
  /\ UNCHANGED <<life, memberAcceptor, accepted, timer, timerActive, active, exec,
                 calls>>

Operation(a) ==
  \/ ForceStop(a) \/ CancelDrainTimer(a) \/ CloseAcceptor(a) \/ CloseAll(a)
  \/ MaybeFinishGracefulStop(a) \/ ExecutorStop(a) \/ MarkRunComplete(a)
  \/ CompleteDrainTimer(a) \/ SpawnDrainTimer(a)

-----------------------------------------------------------------------------
(* Start.                                                                  *)

At(o, l) == opc[o] = l /\ todo[o] = <<>>
Goto(o, l) == opc' = [opc EXCEPT ![o] = l]
Call(o, k) == At(o, "idle") /\ k \in left[o] /\ left' = [left EXCEPT ![o] = @ \ {k}]

StartClaim(o) ==
  /\ Call(o, "Start")
  /\ IF started THEN UNCHANGED <<life, drain, opc, starter>>
     ELSE /\ started' = TRUE
          /\ startComplete' = FALSE /\ startFailure' = FALSE
          /\ runFailure' = FALSE /\ stopping' = FALSE /\ forceStop' = FALSE
          /\ runComplete' = FALSE
          /\ timer' = FALSE /\ timerActive' = FALSE /\ UNCHANGED timerCo
          /\ starter' = o /\ Goto(o, "startSpawn")
  /\ UNCHANGED <<listen, loop, active, sockets, conn, exec, strand, todo, waiter,
                 startResult, waitResult, stopAsked>>

\* Start's handler: ForceStop, Wait, rethrow.
StartFails(o) ==
  /\ todo' = [todo EXCEPT ![o] = <<"forceStop">>]
  /\ Goto(o, "waitLock")

StartSpawn(o) ==
  /\ At(o, "startSpawn")
  /\ \/ /\ run' = "spawned" /\ strand' = Append(strand, "run")
        /\ Goto(o, "startExecutor") /\ UNCHANGED todo
     \/ "spawn" \in Faults /\ StartFails(o) /\ UNCHANGED <<run, strand>>
  /\ UNCHANGED <<life, listen, accepted, drain, active, sockets, conn, exec, left,
                 waiter, starter, startResult, waitResult, stopAsked>>

\* Executor::Run: claim the lifecycle, then create the threads.
StartExecutor(o) ==
  /\ At(o, "startExecutor")
  /\ IF execLife = "Created"
     THEN execLife' = "Starting" /\ Goto(o, "startThreads") /\ UNCHANGED todo
     ELSE StartFails(o) /\ UNCHANGED execLife
  /\ UNCHANGED <<life, listen, loop, drain, active, sockets, conn, iocStopped,
                 strand, left, waiter, starter, startResult, waitResult, stopAsked>>

\* Mutant: publishing Running restarts a context that was stopped meanwhile.
StartThreadsRestart(o) ==
  /\ At(o, "startThreads")
  /\ execLife' = "Running" /\ iocStopped' = FALSE /\ Goto(o, "startWait")
  /\ UNCHANGED <<life, listen, loop, drain, active, sockets, conn, strand, todo,
                 left, waiter, starter, startResult, waitResult, stopAsked>>

StartThreads(o) ==
  /\ At(o, "startThreads")
  /\ \/ /\ execLife' = IF iocStopped THEN "Stopping" ELSE "Running"
        /\ Goto(o, "startWait") /\ UNCHANGED iocStopped
     \/ /\ "thread" \in Faults
        /\ iocStopped' = TRUE /\ Goto(o, "startAbort") /\ UNCHANGED execLife
  /\ UNCHANGED <<life, listen, loop, drain, active, sockets, conn, strand, todo,
                 left, waiter, starter, startResult, waitResult, stopAsked>>

\* Thread creation failed: the threads that exist are joined, then Run throws.
StartAbort(o) ==
  /\ At(o, "startAbort") /\ Quiet
  /\ execLife' = "Joined"
  /\ StartFails(o)
  /\ UNCHANGED <<life, listen, loop, drain, active, sockets, conn, iocStopped,
                 strand, left, waiter, starter, startResult, waitResult, stopAsked>>

StartWait(o) ==
  /\ At(o, "startWait") /\ startComplete
  /\ IF startFailure THEN StartFails(o) /\ UNCHANGED <<starter, startResult>>
     ELSE /\ Goto(o, "idle") /\ starter' = None /\ startResult' = "ok"
          /\ UNCHANGED todo
  /\ UNCHANGED <<life, listen, loop, drain, active, sockets, conn, exec, strand,
                 left, waiter, waitResult, stopAsked>>

-----------------------------------------------------------------------------
(* Wait.                                                                   *)

WaitCall(o) ==
  /\ Call(o, "Wait") /\ Goto(o, "waitLock")
  /\ UNCHANGED <<life, listen, loop, drain, active, sockets, conn, exec, strand,
                 todo, waiter, starter, startResult, waitResult, stopAsked>>

WaitLock(o) ==
  /\ At(o, "waitLock") /\ waiter = None
  /\ waiter' = o /\ Goto(o, "waitStart")
  /\ UNCHANGED <<life, listen, loop, drain, active, sockets, conn, exec, strand,
                 todo, left, starter, startResult, waitResult, stopAsked>>

WaitStart(o) ==
  /\ At(o, "waitStart") /\ (started => startComplete)
  /\ Goto(o, "waitJoin")
  /\ UNCHANGED <<life, listen, loop, drain, active, sockets, conn, exec, strand,
                 todo, left, waiter, starter, startResult, waitResult, stopAsked>>

\* Executor::Join; an executor never run has no threads to wait for.
WaitJoin(o) ==
  /\ At(o, "waitJoin") /\ execLife # "Starting"
  /\ CASE execLife = "Joined"  -> Goto(o, "waitMark") /\ UNCHANGED execLife
       [] execLife = "Created" -> Goto(o, "waitMark") /\ execLife' = "Joined"
       [] OTHER                -> Goto(o, "waitThreads") /\ execLife' = "Joining"
  /\ UNCHANGED <<life, listen, loop, drain, active, sockets, conn, iocStopped,
                 strand, todo, left, waiter, starter, startResult, waitResult,
                 stopAsked>>

WaitThreads(o) ==
  /\ At(o, "waitThreads") /\ iocStopped /\ Quiet
  /\ execLife' = "Joined" /\ Goto(o, "waitMark")
  /\ UNCHANGED <<life, listen, loop, drain, active, sockets, conn, iocStopped,
                 strand, todo, left, waiter, starter, startResult, waitResult,
                 stopAsked>>

WaitMark(o) ==
  /\ At(o, "waitMark")
  /\ stopping' = TRUE /\ forceStop' = TRUE /\ memberAcceptor' = FALSE
  /\ todo' = [todo EXCEPT ![o] = If(memberAcceptor, <<"closeAcceptorNow">>)
                                 \o If(timer, <<"cancelTimerNow">>)
                                 \o <<"closeAllNow">>]
  /\ Goto(o, "waitClean")
  /\ UNCHANGED <<started, startComplete, startFailure, runFailure, runComplete,
                 acceptor, loop, drain, active, sockets, conn, exec, strand, left,
                 waiter, starter, startResult, waitResult, stopAsked>>

\* Executor::DrainStopped runs what is left, on the waiting thread.
WaitDrain(o) ==
  /\ At(o, "waitClean")
  /\ iocStopped' = FALSE /\ Goto(o, "drain")
  /\ UNCHANGED <<life, listen, loop, drain, active, sockets, conn, execLife,
                 strand, todo, left, waiter, starter, startResult, waitResult,
                 stopAsked>>

Alive(c) == conn[c] \notin {"none", "refused", "closed"}
NoWork ==
  /\ Quiet /\ strand = <<>>
  /\ run \notin {"accepting", "retry"} /\ timerCo # "waiting"
  /\ closeTask = {} /\ \A c \in Conns : ~Alive(c)

WaitDone(o) ==
  /\ At(o, "drain") /\ NoWork
  /\ iocStopped' = TRUE /\ active' = 0
  /\ waiter' = None /\ Goto(o, "idle")
  /\ IF starter = o
     THEN starter' = None /\ startResult' = "failed" /\ UNCHANGED waitResult
     ELSE /\ waitResult' = [waitResult EXCEPT ![o] =
                              IF runFailure \/ startFailure THEN "threw" ELSE "ok"]
          /\ UNCHANGED <<starter, startResult>>
  /\ UNCHANGED <<life, listen, loop, drain, sockets, conn, execLife, strand, todo,
                 left, stopAsked>>

-----------------------------------------------------------------------------
(* BeginGracefulStop and ForceStop, as called by owners.                   *)

BeginGracefulStop(o) ==
  /\ Call(o, "Graceful") /\ stopAsked' = TRUE
  /\ IF ~started \/ stopping THEN UNCHANGED <<life, timer, timerActive, todo>>
     ELSE /\ stopping' = TRUE
          /\ startFailure' = (startFailure \/ ~startComplete)
          /\ startComplete' = TRUE
          /\ timer' = (timer \/ active > 0)
          /\ timerActive' = (timerActive \/ active > 0)
          /\ todo' = [todo EXCEPT ![o] = If(memberAcceptor, <<"closeAcceptor">>)
               \o IF active > 0 THEN <<"spawnTimer">> ELSE <<"maybeFinish">>]
          /\ UNCHANGED <<started, runFailure, forceStop, runComplete>>
  /\ UNCHANGED <<listen, loop, timerCo, active, sockets, conn, exec, strand, opc,
                 waiter, starter, startResult, waitResult>>

ForceStopCall(o) ==
  /\ Call(o, "Force") /\ stopAsked' = TRUE
  /\ todo' = [todo EXCEPT ![o] = <<"forceStop">>]
  /\ UNCHANGED <<life, listen, loop, drain, active, sockets, conn, exec, strand,
                 opc, waiter, starter, startResult, waitResult>>

-----------------------------------------------------------------------------
(* The accept strand: the coroutine Run, the drain timer's coroutine and   *)
(* the two tasks other threads dispatch to it.                             *)

Head1(task) == Dispatching /\ StrandIdle /\ strand # <<>> /\ Head(strand) = task

StrandTask ==
  /\ \/ /\ Head1("cancelTimer") /\ CancelWait(Tail(strand))
        /\ UNCHANGED <<acceptor, run>>
     \/ /\ Head1("closeAcceptor") /\ CloseListener(Tail(strand))
        /\ UNCHANGED timerCo
  /\ UNCHANGED <<life, memberAcceptor, accepted, timer, timerActive, active, sockets,
                 conn, exec, todo, calls>>

\* A break out of the accept loop.
RunEnds == run' = "done" /\ accepted' = None /\ todo' = [todo EXCEPT !["run"] = <<"markRun">>]

\* Mutant: the error of bind and listen is not looked at.
RunResumeUnchecked ==
  /\ Head1("run") /\ strand' = Tail(strand)
  /\ \/ /\ run = "spawned" /\ run' = "publish"
        /\ \/ acceptor' = "open"
           \/ "bind" \in Faults /\ UNCHANGED acceptor
        /\ UNCHANGED <<accepted, todo>>
     \/ run = "aborted" /\ RunEnds /\ UNCHANGED acceptor
     \/ /\ run \in {"accepted", "acceptError", "retried"}
        /\ run' = CASE run = "accepted"    -> "check1"
                    [] run = "acceptError" -> "errCheck"
                    [] run = "retried"     -> "accepting"
        /\ UNCHANGED <<acceptor, accepted, todo>>
  /\ UNCHANGED <<life, memberAcceptor, drain, active, sockets, conn, exec, calls>>

\* Run is resumed: its first step opens, binds and listens.
RunResume ==
  /\ Head1("run") /\ strand' = Tail(strand)
  /\ \/ /\ run = "spawned"
        /\ \/ run' = "publish" /\ acceptor' = "open"
           \/ "bind" \in Faults /\ run' = "fail" /\ UNCHANGED acceptor
        /\ UNCHANGED <<accepted, todo>>
     \/ run = "aborted" /\ RunEnds /\ UNCHANGED acceptor
     \/ /\ run \in {"accepted", "acceptError", "retried"}
        /\ run' = CASE run = "accepted"    -> "check1"
                    [] run = "acceptError" -> "errCheck"
                    [] run = "retried"     -> "accepting"
        /\ UNCHANGED <<acceptor, accepted, todo>>
  /\ UNCHANGED <<life, memberAcceptor, drain, active, sockets, conn, exec, calls>>

RunPublish ==
  /\ run = "publish" /\ run' = "check0"
  /\ IF stopping THEN startFailure' = TRUE /\ UNCHANGED memberAcceptor
     ELSE memberAcceptor' = TRUE /\ UNCHANGED startFailure
  /\ startComplete' = TRUE
  /\ UNCHANGED <<started, runFailure, stopping, forceStop, runComplete, acceptor,
                 accepted, drain, active, sockets, conn, exec, strand, todo, calls>>

RunCheckStartup ==
  /\ run = "check0"
  /\ IF stopping THEN acceptor' = "closed" /\ RunEnds
     ELSE run' = "accepting" /\ UNCHANGED <<acceptor, accepted, todo>>
  /\ UNCHANGED <<life, memberAcceptor, drain, active, sockets, conn, exec, strand,
                 calls>>

\* async_accept completes with a connection, a transient error or, on an
\* acceptor closed before the call, an error; the retry delay passes.
AcceptCompletes ==
  /\ \/ /\ run = "accepting" /\ acceptor = "open" /\ run' = "accepted"
        /\ \E c \in Conns : /\ conn[c] = "none" /\ accepted' = c
                            /\ open' = open \cup {c}
     \/ /\ run = "accepting" /\ run' = "acceptError"
        /\ acceptor = "closed" \/ "accept" \in Faults
        /\ UNCHANGED <<accepted, open>>
     \/ run = "retry" /\ run' = "retried" /\ UNCHANGED <<accepted, open>>
  /\ strand' = Append(strand, "run")
  /\ UNCHANGED <<life, listen, drain, active, registry, closeTask, conn, exec, todo,
                 calls>>

RunCheckError ==
  /\ run = "errCheck"
  /\ IF stopping THEN RunEnds ELSE run' = "retry" /\ UNCHANGED <<accepted, todo>>
  /\ UNCHANGED <<life, listen, drain, active, sockets, conn, exec, strand, calls>>

\* The accepted socket is closed again; the loop goes on.
Refuse ==
  /\ open' = open \ {accepted} /\ conn' = [conn EXCEPT ![accepted] = "refused"]
  /\ UNCHANGED <<registry, closeTask>>

RunCheckStopping ==
  /\ run = "check1"
  /\ \/ stopping /\ RunEnds /\ Refuse
     \/ /\ ~stopping /\ run' = "acquire"
        /\ UNCHANGED <<accepted, todo, sockets, conn>>
     \/ /\ ~stopping /\ "option" \in Faults
        /\ run' = "accepting" /\ accepted' = None /\ Refuse /\ UNCHANGED todo
  /\ UNCHANGED <<life, listen, drain, active, exec, strand, calls>>

TryAcquireConnection ==
  /\ run = "acquire"
  /\ IF active < MaxConnections
     THEN /\ active' = active + 1 /\ run' = "check2"
          /\ UNCHANGED <<accepted, sockets, conn>>
     ELSE /\ run' = "accepting" /\ accepted' = None /\ Refuse /\ UNCHANGED active
  /\ UNCHANGED <<life, listen, drain, exec, strand, todo, calls>>

\* Mutant: the break after a stop keeps the slot.
RunCheckAdmittedKept ==
  /\ run = "check2"
  /\ IF stopping THEN RunEnds /\ Refuse
     ELSE run' = "launch" /\ UNCHANGED <<accepted, todo, sockets, conn>>
  /\ UNCHANGED <<life, listen, drain, active, exec, strand, calls>>

RunCheckAdmitted ==
  /\ run = "check2"
  /\ IF stopping THEN active' = active - 1 /\ RunEnds /\ Refuse
     ELSE run' = "launch" /\ UNCHANGED <<active, accepted, todo, sockets, conn>>
  /\ UNCHANGED <<life, listen, drain, exec, strand, calls>>

\* Mutant: LaunchConnection rethrows, and both handlers give the slot back.
LaunchConnectionTwice ==
  /\ run = "launch"
  /\ \/ /\ run' = "accepting" /\ accepted' = None
        /\ registry' = registry \cup {accepted}
        /\ conn' = [conn EXCEPT ![accepted] = "spawned"]
        /\ UNCHANGED <<active, open, closeTask>>
     \/ /\ "launch" \in Faults /\ run' = "fail"
        /\ active' = active - 2 /\ accepted' = None /\ Refuse
  /\ UNCHANGED <<life, listen, drain, exec, strand, todo, calls>>

\* Making the stream may throw out of the loop; LaunchConnection registers and
\* spawns the connection, or undoes all of it.
LaunchConnection ==
  /\ run = "launch"
  /\ \/ /\ run' = "accepting" /\ accepted' = None
        /\ registry' = registry \cup {accepted}
        /\ conn' = [conn EXCEPT ![accepted] = "spawned"]
        /\ UNCHANGED <<active, open, closeTask>>
     \/ /\ \/ "launch" \in Faults /\ run' = "accepting"
           \/ "alloc" \in Faults /\ run' = "fail"
        /\ active' = active - 1 /\ accepted' = None /\ Refuse
  /\ UNCHANGED <<life, listen, drain, exec, strand, todo, calls>>

\* Run's handler.
RunFails ==
  /\ run = "fail" /\ run' = "done"
  /\ startFailure' = (startFailure \/ ~startComplete)
  /\ runFailure' = (runFailure \/ (startComplete /\ ~stopping))
  /\ startComplete' = TRUE /\ stopping' = TRUE /\ forceStop' = TRUE
  /\ runComplete' = TRUE /\ memberAcceptor' = FALSE
  /\ todo' = [todo EXCEPT !["run"] =
       If(memberAcceptor, <<"closeAcceptor">>) \o If(timer, <<"cancelTimer">>)
       \o <<"closeAll", "maybeFinish">>]
  /\ UNCHANGED <<started, acceptor, accepted, drain, active, sockets, conn, exec,
                 strand, calls>>

\* StopAfterDrainTimeout: the check and the wait are one handler; an expired
\* deadline forces the stop.
TimerResume ==
  /\ Head1("timer")
  /\ IF timerCo = "spawned" /\ ~forceStop
     THEN timerCo' = "waiting" /\ UNCHANGED todo
     ELSE /\ timerCo' = "done"
          /\ todo' = [todo EXCEPT !["timer"] =
               If(timerCo = "expired" /\ ~forceStop, <<"forceStop">>)
               \o <<"completeTimer">>]
  /\ strand' = Tail(strand)
  /\ UNCHANGED <<life, listen, loop, timer, timerActive, active, sockets, conn,
                 exec, calls>>

TimerExpires ==
  /\ timerCo = "waiting" /\ timerCo' = "expired"
  /\ strand' = Append(strand, "timer")
  /\ UNCHANGED <<life, listen, loop, timer, timerActive, active, sockets, conn,
                 exec, todo, calls>>

-----------------------------------------------------------------------------
(* Connections, coarsely: io is any awaited handshake, read or write.      *)

Frame == UNCHANGED <<life, listen, loop, drain, active, exec, strand, calls>>

IoEnds(c) ==
  /\ conn[c] = "io"
  /\ \E s \in (IF c \in open THEN {"ready", "failed"} ELSE {"failed"}) :
       conn' = [conn EXCEPT ![c] = s]
  /\ UNCHANGED <<sockets, todo>> /\ Frame

HandlerEnds(c) ==
  /\ conn[c] \in {"handler", "cancelled"}
  /\ conn' = [conn EXCEPT ![c] = "handled"]
  /\ UNCHANGED <<sockets, todo>> /\ Frame

\* The coroutine goes on: to its first operation, from a finished read to the
\* handler, from a handler to the write, from a write to the next read.
ConnResume(c) ==
  /\ Dispatching
  /\ \/ conn[c] \in {"spawned", "handled", "ready"} /\ conn' = [conn EXCEPT ![c] = "io"]
     \/ conn[c] = "ready" /\ conn' = [conn EXCEPT ![c] = "handler"]
  /\ UNCHANGED <<sockets, todo>> /\ Frame

\* It leaves its loop, on an error, an exception or the keep-alive limit.
ConnClose(c) ==
  /\ Dispatching /\ conn[c] \in {"ready", "failed", "handled"}
  /\ conn' = [conn EXCEPT ![c] = "closing"]
  /\ todo' = [todo EXCEPT ![c] = <<"remove", "release">>]
  /\ UNCHANGED sockets /\ Frame

\* The dispatched close operation of CloseAll.
CloseConnection(c) ==
  /\ Dispatching /\ c \in closeTask /\ todo[c] = <<>>
  /\ closeTask' = closeTask \ {c} /\ open' = open \ {c}
  /\ conn' = [conn EXCEPT ![c] = Aborted(@)]
  /\ UNCHANGED <<registry, todo>> /\ Frame

-----------------------------------------------------------------------------
OwnerCall(o) == StartClaim(o) \/ WaitCall(o) \/ BeginGracefulStop(o) \/ ForceStopCall(o)

OwnerStep(o) ==
  \/ Operation(o) \/ CleanUpNow(o)
  \/ StartSpawn(o) \/ StartExecutor(o) \/ StartThreads(o) \/ StartAbort(o)
  \/ StartWait(o)
  \/ WaitLock(o) \/ WaitStart(o) \/ WaitJoin(o) \/ WaitThreads(o) \/ WaitMark(o)
  \/ WaitDrain(o) \/ WaitDone(o)

StrandStep ==
  \/ Operation("run") \/ Operation("timer") \/ StrandTask \/ RunResume
  \/ RunPublish \/ RunCheckStartup \/ RunCheckError \/ RunCheckStopping
  \/ TryAcquireConnection \/ RunCheckAdmitted \/ LaunchConnection \/ RunFails
  \/ TimerResume

ConnStep(c) ==
  \/ Operation(c) \/ RemoveConnection(c) \/ ReleaseConnection(c)
  \/ ConnResume(c) \/ ConnClose(c) \/ CloseConnection(c)

Next ==
  \/ \E o \in Owners : OwnerCall(o) \/ OwnerStep(o)
  \/ StrandStep \/ AcceptCompletes \/ TimerExpires
  \/ \E c \in Conns : ConnStep(c) \/ IoEnds(c) \/ HandlerEnds(c)

Spec == Init /\ [][Next]_vars

(* Threads and strands that can move do; a cancelled handler ends; an      *)
(* operation on a closed socket or acceptor completes.  This is all        *)
(* ForceStop may count on.                                                 *)
Progress ==
  /\ \A o \in Owners : WF_vars(OwnerStep(o))
  /\ WF_vars(StrandStep)
  /\ WF_vars(AcceptCompletes /\ acceptor = "closed")
  /\ \A c \in Conns : /\ WF_vars(ConnStep(c)) /\ WF_vars(CloseConnection(c))
                      /\ WF_vars(IoEnds(c) /\ c \notin open)
                      /\ WF_vars(HandlerEnds(c) /\ conn[c] = "cancelled")

(* Handlers end, reads and writes time out, and MaxKeepaliveRequests ends  *)
(* every connection's loop.                                                *)
Timeouts ==
  \A c \in Conns : WF_vars(IoEnds(c)) /\ WF_vars(HandlerEnds(c)) /\ SF_vars(ConnClose(c))

LiveSpec  == Spec /\ Progress /\ Timeouts /\ WF_vars(TimerExpires)
ForceSpec == Spec /\ Progress

-----------------------------------------------------------------------------
(* Properties.                                                             *)

TypeOK ==
  /\ started \in BOOLEAN /\ startComplete \in BOOLEAN /\ startFailure \in BOOLEAN
  /\ runFailure \in BOOLEAN /\ stopping \in BOOLEAN /\ forceStop \in BOOLEAN
  /\ runComplete \in BOOLEAN /\ memberAcceptor \in BOOLEAN
  /\ acceptor \in {"none", "open", "closed"}
  /\ run \in RunSuspended \cup RunSteps /\ accepted \in Conns \cup {None}
  /\ timer \in BOOLEAN /\ timerActive \in BOOLEAN /\ timerCo \in TimerStates
  /\ active \in Nat /\ registry \subseteq Conns /\ conn \in [Conns -> ConnStates]
  /\ open \subseteq Conns /\ closeTask \subseteq Conns
  /\ execLife \in {"Created", "Starting", "Running", "Stopping", "Joining", "Joined"}
  /\ iocStopped \in BOOLEAN
  /\ strand \in Seq({"run", "timer", "cancelTimer", "closeAcceptor"})
  /\ todo \in [Actors -> Seq(Ops)]
  /\ opc \in [Owners -> OwnerPCs] /\ left \in [Owners -> SUBSET Calls]
  /\ waiter \in Owners \cup {None} /\ starter \in Owners \cup {None}
  /\ startResult \in {"none", "ok", "failed"}
  /\ waitResult \in [Owners -> {"none", "ok", "threw"}] /\ stopAsked \in BOOLEAN

\* The atomic counter equals the connections that hold a slot, admitted and
\* not yet given back, on every success and error path; so the limit holds
\* for real connections, and the drain check sees zero only when none is left.
Holding == {c \in Conns : Alive(c)}
           \cup (IF run \in {"check2", "launch"} THEN {accepted} ELSE {})
Admission == active = Cardinality(Holding) /\ active <= MaxConnections

\* Connections take and give back slots as SlotPool says, and no step of the
\* server, Wait's clean-up included, moves the counter otherwise.
Slots == INSTANCE SlotPool WITH
  held  <- Holding,
  spent <- {c \in Conns : conn[c] \in {"refused", "closed"}},
  count <- active
SlotSpec == Slots!Spec

\* The server stops its executor only after a stop was asked for or Run
\* failed, when the accept loop has ended, no connection holds a slot and no
\* drain timer is outstanding: a graceful stop abandons nobody.
StoppedByServer == iocStopped /\ execLife \in {"Stopping", "Joining"}
StopOnlyDrained ==
  StoppedByServer =>
    /\ stopping /\ run = "done" /\ Holding = {}
    /\ timerCo \notin {"spawned", "waiting"}

\* No connection is closed under its client before ForceStop, the deadline or
\* a failure of Run; while draining gracefully they all finish by themselves.
NoCloseBeforeForce == closeTask # {} => forceStop

\* A graceful stop is graceful: it abandons nobody and cuts nobody off.
StopOrderly == StopOnlyDrained /\ NoCloseBeforeForce

\* A graceful stop that overlaps a Start that fails may spawn the coroutine of
\* the drain timer after everything was cleaned up; it then stays queued.
SpawnedTooLate == startResult = "failed" /\ timerCo = "spawned"

\* When every call has returned and some Wait has, nothing is left that keeps
\* the server alive or serves: no coroutine, queued or suspended, and no
\* registered or open connection.
NothingLeft ==
  /\ run \in {"none", "done"} /\ (timerCo \in {"none", "done"} \/ SpawnedTooLate)
  /\ registry = {} /\ closeTask = {} /\ Holding = {} /\ open = {} /\ active = 0
Over == (\E o \in Owners : waitResult[o] # "none") /\ (\A o \in Owners : At(o, "idle"))
WaitLeavesNothing == Over => NothingLeft

\* A Start that throws, for whatever reason, has cleaned up: the executor is
\* closed, the accept loop is gone and no connection it admitted is left.
FailedStartCleansUp ==
  startResult = "failed" =>
    execLife = "Joined" /\ run \in {"none", "done"} /\ registry = {} /\ Holding = {}

\* A Start that returned normally leaves a server that listens on a running
\* executor, until somebody stops it.
StartedMeansListening ==
  startResult = "ok" /\ ~stopping =>
    /\ acceptor = "open" /\ memberAcceptor /\ ~iocStopped
    /\ run \notin {"none", "spawned", "publish", "done"}

\* Start and Wait report a server that nobody asked to stop: a Wait that
\* returns normally after a successful Start means that a stop was requested.
SilentEndMeansStop ==
  startResult = "ok" /\ (\E o \in Owners : waitResult[o] = "ok") => stopAsked

\* What Start and Wait tell their callers is true of the server.
ResultsTruthful == StartedMeansListening /\ FailedStartCleansUp /\ SilentEndMeansStop

\* Once stopping, the server is drained and its executor stopped.
StopFinishes == stopping ~> (iocStopped \/ execLife = "Joined")

\* After a stop request every Wait returns, and every Start does.
CallsReturn ==
  /\ \A o \in Owners : (opc[o] = "waitLock" /\ stopping) ~> (opc[o] = "idle")
  /\ \A o \in Owners : (opc[o] = "startWait") ~> (opc[o] = "idle")

\* "立即取消活动连接并请求停止工作线程" (Server.hpp:249): once forced, every
\* socket is closed, whatever the clients and the timeouts do.
ForceCloses == forceStop ~> (open = {})
=============================================================================
