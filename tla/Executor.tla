------------------------------ MODULE Executor ------------------------------
(***************************************************************************)
(* The worker-thread executor of Wan/Web/Core/Executor.hpp: an io_context, *)
(* a work guard, a vector of std::threads that run the context, and a      *)
(* lifecycle guarded by one mutex and one condition variable.              *)
(*                                                                         *)
(* Owners are the threads that call Run, Join, Stop, DrainStopped and the  *)
(* destructor; Workers are the threads that Run creates; Handlers are the  *)
(* pieces of work handed to the context.  A section under                  *)
(* MemberLifecycleMutex or MemberFailureMutex is one step; everything      *)
(* between two sections interleaves.  The condition-variable wait of Join  *)
(* is a guard: every change of MemberState away from Starting notifies.    *)
(***************************************************************************)
EXTENDS Naturals, FiniteSets

CONSTANTS
  Owners,           \* threads that use the executor from outside
  Workers,          \* the threads Run creates (their number is MemberThreads)
  Handlers,         \* the handlers that may be submitted (bound of the model)
  NoHandler,        \* "no handler", "no exception_ptr"
  CreateMayFail,    \* whether std::thread's constructor may throw
  HandlersMayJoin   \* whether a handler may call Join from a worker

ASSUME ExecutorAssumption ==
  /\ Owners \cap Workers = {}
  /\ IsFiniteSet(Workers) /\ Workers # {}
  /\ NoHandler \notin Handlers
  /\ CreateMayFail \in BOOLEAN /\ HandlersMayJoin \in BOOLEAN

Threads == Owners \cup Workers

VARIABLES
  MemberState,          \* the lifecycle state
  MemberStopRequested,  \* Stop arrived while the state was Starting
  workGuard,            \* MemberWorkGuard still keeps the context alive
  iocStopped,           \* io_context::stopped()
  handler,              \* state of each handler inside the io_context
  MemberWorkers,        \* the threads held by the member vector
  joining,              \* Join's local vector Workers, per calling owner
  joinable,             \* std::threads that have not been joined
  MemberWorkerFailure,  \* the recorded exception (named by its handler)
  pc,                   \* where each thread is
  cur,                  \* the handler each thread is executing
  flying,               \* the exception each thread is unwinding with
  raised,               \* history: handlers that let an exception escape
  dropped,              \* history: exceptions that lost to an earlier one
  delivered,            \* history: how often each exception was rethrown
  dtor                  \* progress of ~Executor

lifecycle == <<MemberState, MemberStopRequested, workGuard, iocStopped>>
threads   == <<MemberWorkers, joining, joinable>>
failures  == <<MemberWorkerFailure, flying, raised, dropped, delivered>>
vars      == <<lifecycle, handler, threads, failures, pc, cur, dtor>>

States == {"Created", "Starting", "Running", "Stopping", "Joining", "Joined"}
OwnerPCs == {"idle", "create", "abortStop", "abortJoin", "dtorStop",
             "joinWait", "joinThreads", "rethrow", "drain", "drainRun",
             "drainHandler", "drainRecord", "drainStop"}
WorkerPCs == {"none", "poll", "handler", "joinWait", "record", "stop",
              "spawnRecord", "spawnStop", "exited"}

Init ==
  /\ MemberState = "Created" /\ MemberStopRequested = FALSE
  /\ workGuard = TRUE /\ iocStopped = FALSE
  /\ handler = [h \in Handlers |-> "idle"]
  /\ MemberWorkers = {} /\ joining = [o \in Owners |-> {}] /\ joinable = {}
  /\ MemberWorkerFailure = NoHandler
  /\ pc = [t \in Threads |-> IF t \in Owners THEN "idle" ELSE "none"]
  /\ cur = [t \in Threads |-> NoHandler]
  /\ flying = [t \in Threads |-> NoHandler]
  /\ raised = {} /\ dropped = {} /\ delivered = [h \in Handlers |-> 0]
  /\ dtor = "none"

Goto(t, l) == pc' = [pc EXCEPT ![t] = l]

-----------------------------------------------------------------------------
(* The io_context, as the code uses it.                                    *)

Outstanding == {h \in Handlers : handler[h] \in {"pending", "ready", "running"}}

\* Work is posted, or an asynchronous operation is started on the context.
Submit(h) ==
  /\ dtor \in {"none", "running"} /\ handler[h] = "idle"
  /\ \E s \in {"ready", "pending"} : handler' = [handler EXCEPT ![h] = s]
  /\ UNCHANGED <<lifecycle, threads, failures, pc, cur, dtor>>

\* The operation behind h completes; its handler becomes ready to run.
Complete(h) ==
  /\ handler[h] = "pending"
  /\ handler' = [handler EXCEPT ![h] = "ready"]
  /\ UNCHANGED <<lifecycle, threads, failures, pc, cur, dtor>>

\* run() takes a ready handler and executes it on the calling thread.
Dispatch(t, from, to) ==
  /\ pc[t] = from /\ ~iocStopped
  /\ \E h \in Handlers :
       /\ handler[h] = "ready"
       /\ handler' = [handler EXCEPT ![h] = "running"]
       /\ cur' = [cur EXCEPT ![t] = h]
  /\ Goto(t, to)
  /\ UNCHANGED <<lifecycle, threads, failures, dtor>>

\* run() returns once the context is stopped or has no work left; running out
\* of work stops the context as well.
RunReturns(t, from, to) ==
  /\ pc[t] = from
  /\ iocStopped \/ (~workGuard /\ Outstanding = {})
  /\ iocStopped' = TRUE
  /\ Goto(t, to)
  /\ UNCHANGED <<MemberState, MemberStopRequested, workGuard, handler, threads,
                 failures, cur, dtor>>

FinishHandler(t) ==
  /\ handler' = [handler EXCEPT ![cur[t]] = "done"]
  /\ cur' = [cur EXCEPT ![t] = NoHandler]

HandlerReturns(t, from, to) ==
  /\ pc[t] = from
  /\ FinishHandler(t) /\ Goto(t, to)
  /\ UNCHANGED <<lifecycle, threads, failures, dtor>>

\* Mutant: the exception is named after the handler has been destroyed.
HandlerThrowsLate(t, from, to) ==
  /\ pc[t] = from
  /\ FinishHandler(t) /\ Goto(t, to)
  /\ flying' = [flying EXCEPT ![t] = cur'[t]] /\ raised' = raised \cup {cur'[t]}
  /\ UNCHANGED <<lifecycle, threads, MemberWorkerFailure, dropped, delivered, dtor>>

\* The handler lets a new exception escape.
HandlerThrows(t, from, to) ==
  /\ pc[t] = from
  /\ FinishHandler(t) /\ Goto(t, to)
  /\ flying' = [flying EXCEPT ![t] = cur[t]]
  /\ raised' = raised \cup {cur[t]}
  /\ UNCHANGED <<lifecycle, threads, MemberWorkerFailure, dropped, delivered, dtor>>

-----------------------------------------------------------------------------
(* Stop, RecordWorkerFailure and RethrowWorkerFailure.                     *)

\* Mutant: Stop during Starting only leaves the request behind.
StopEffectDeferred ==
  IF MemberState = "Starting"
  THEN MemberStopRequested' = TRUE /\ UNCHANGED <<MemberState, workGuard, iocStopped>>
  ELSE /\ MemberState' = IF MemberState = "Joined" THEN "Joined" ELSE "Stopping"
       /\ iocStopped' = TRUE /\ workGuard' = FALSE /\ UNCHANGED MemberStopRequested

StopEffect ==
  IF MemberState = "Joined" THEN UNCHANGED lifecycle
  ELSE /\ MemberState' = IF MemberState \in {"Created", "Running"}
                         THEN "Stopping" ELSE MemberState
       /\ MemberStopRequested' = (MemberStopRequested \/ MemberState = "Starting")
       /\ workGuard' = FALSE
       /\ iocStopped' = TRUE

StopFrom(t, from, to) ==
  /\ pc[t] = from
  /\ StopEffect /\ Goto(t, to)
  /\ UNCHANGED <<handler, threads, failures, cur, dtor>>

\* The first recorded exception is kept; a later one is dropped.
RecordWorkerFailure(t, from, to) ==
  /\ pc[t] = from
  /\ IF MemberWorkerFailure = NoHandler
     THEN MemberWorkerFailure' = flying[t] /\ UNCHANGED dropped
     ELSE dropped' = dropped \cup {flying[t]} /\ UNCHANGED MemberWorkerFailure
  /\ flying' = [flying EXCEPT ![t] = NoHandler]
  /\ Goto(t, to)
  /\ UNCHANGED <<lifecycle, handler, threads, raised, delivered, cur, dtor>>

\* Mutant: the recorded exception is rethrown but not cleared.
RethrowWorkerFailureKept(o) ==
  /\ pc[o] = "rethrow"
  /\ IF MemberWorkerFailure = NoHandler THEN UNCHANGED delivered
     ELSE delivered' = [delivered EXCEPT ![MemberWorkerFailure] = @ + 1]
  /\ Goto(o, "idle")
  /\ UNCHANGED <<lifecycle, handler, threads, MemberWorkerFailure, flying, raised,
                 dropped, cur, dtor>>

\* The recorded exception leaves the executor through Join or DrainStopped;
\* out of the destructor's Join it ends in std::terminate.
RethrowWorkerFailure(o) ==
  /\ pc[o] = "rethrow"
  /\ MemberWorkerFailure' = NoHandler
  /\ IF MemberWorkerFailure = NoHandler
     THEN /\ dtor' = IF dtor = "running" THEN "destroyed" ELSE dtor
          /\ UNCHANGED delivered
     ELSE IF dtor = "running"
     THEN dtor' = "terminated" /\ UNCHANGED delivered
     ELSE /\ delivered' = [delivered EXCEPT ![MemberWorkerFailure] = @ + 1]
          /\ UNCHANGED dtor
  /\ Goto(o, "idle")
  /\ UNCHANGED <<lifecycle, handler, threads, flying, raised, dropped, cur>>

-----------------------------------------------------------------------------
(* Run, on an owner.                                                       *)

CanCall(o) == pc[o] = "idle" /\ dtor = "none"

RunClaim(o) ==
  /\ CanCall(o) /\ MemberState = "Created"
  /\ MemberState' = "Starting"
  /\ Goto(o, "create")
  /\ UNCHANGED <<MemberStopRequested, workGuard, iocStopped, handler, threads,
                 failures, cur, dtor>>

CreateThread(o) ==
  /\ pc[o] = "create"
  /\ \E w \in Workers \ MemberWorkers :
       /\ MemberWorkers' = MemberWorkers \cup {w}
       /\ joinable' = joinable \cup {w}
       /\ pc' = [pc EXCEPT ![w] = "poll"]
  /\ UNCHANGED <<lifecycle, handler, joining, failures, cur, dtor>>

CreateFails(o) ==
  /\ CreateMayFail
  /\ pc[o] = "create" /\ MemberWorkers # Workers
  /\ Goto(o, "abortStop")
  /\ UNCHANGED <<lifecycle, handler, threads, failures, cur, dtor>>

\* Mutant: Run publishes Running without looking at the stop request.
RunPublishBlind(o) ==
  /\ pc[o] = "create" /\ MemberWorkers = Workers
  /\ MemberState' = "Running"
  /\ Goto(o, "idle")
  /\ UNCHANGED <<MemberStopRequested, workGuard, iocStopped, handler, threads,
                 failures, cur, dtor>>

\* All threads exist: publish Running, or Stopping if Stop came in between.
RunPublish(o) ==
  /\ pc[o] = "create" /\ MemberWorkers = Workers
  /\ MemberState' = IF MemberStopRequested THEN "Stopping" ELSE "Running"
  /\ Goto(o, "idle")
  /\ UNCHANGED <<MemberStopRequested, workGuard, iocStopped, handler, threads,
                 failures, cur, dtor>>

\* One std::thread::join of a thread in the set held.
JoinOne(o, from, held) ==
  /\ pc[o] = from
  /\ \E w \in held \cap joinable :
       /\ pc[w] = "exited"
       /\ joinable' = joinable \ {w}
  /\ UNCHANGED <<lifecycle, handler, MemberWorkers, joining, failures, pc, cur, dtor>>

\* Mutants: the failure path of Run does not join the threads it created;
\* or it leaves the state at Starting.
RunAbortedUnjoined(o) ==
  /\ pc[o] = "abortJoin" /\ MemberState' = "Joined" /\ Goto(o, "idle")
  /\ UNCHANGED <<MemberStopRequested, workGuard, iocStopped, handler, threads,
                 failures, cur, dtor>>
RunAbortedSilent(o) ==
  /\ pc[o] = "abortJoin" /\ MemberWorkers \cap joinable = {} /\ Goto(o, "idle")
  /\ UNCHANGED <<lifecycle, handler, threads, failures, cur, dtor>>

RunAborted(o) ==
  /\ pc[o] = "abortJoin" /\ MemberWorkers \cap joinable = {}
  /\ MemberState' = "Joined"
  /\ Goto(o, "idle")
  /\ UNCHANGED <<MemberStopRequested, workGuard, iocStopped, handler, threads,
                 failures, cur, dtor>>

-----------------------------------------------------------------------------
(* Join, on an owner.                                                      *)

JoinCall(o) ==
  /\ CanCall(o)
  /\ Goto(o, "joinWait")
  /\ UNCHANGED <<lifecycle, handler, threads, failures, cur, dtor>>

JoinAlreadyJoined(o) ==
  /\ pc[o] = "joinWait" /\ MemberState = "Joined"
  /\ Goto(o, "rethrow")
  /\ UNCHANGED <<lifecycle, handler, threads, failures, cur, dtor>>

\* "executor Join is already in progress"
JoinRefused(o) ==
  /\ pc[o] = "joinWait" /\ MemberState = "Joining"
  /\ Goto(o, "idle")
  /\ dtor' = IF dtor = "running" THEN "terminated" ELSE dtor
  /\ UNCHANGED <<lifecycle, handler, threads, failures, cur>>

JoinClaim(o) ==
  /\ pc[o] = "joinWait" /\ MemberState \in {"Created", "Running", "Stopping"}
  /\ MemberState' = "Joining"
  /\ joining' = [joining EXCEPT ![o] = MemberWorkers]
  /\ MemberWorkers' = {}
  /\ Goto(o, "joinThreads")
  /\ UNCHANGED <<MemberStopRequested, workGuard, iocStopped, handler, joinable,
                 failures, cur, dtor>>

JoinFinish(o) ==
  /\ pc[o] = "joinThreads" /\ joining[o] \cap joinable = {}
  /\ MemberState' = "Joined"
  /\ joining' = [joining EXCEPT ![o] = {}]
  /\ Goto(o, "rethrow")
  /\ UNCHANGED <<MemberStopRequested, workGuard, iocStopped, handler,
                 MemberWorkers, joinable, failures, cur, dtor>>

-----------------------------------------------------------------------------
(* DrainStopped and the destructor, on an owner.                           *)

Draining(o) == pc[o] \in {"drain", "drainRun", "drainHandler", "drainRecord", "drainStop"}

\* Mutant: DrainStopped does not insist on Joined.
DrainCallEarly(o) ==
  /\ CanCall(o) /\ \A p \in Owners : ~Draining(p)
  /\ Goto(o, "drain")
  /\ UNCHANGED <<lifecycle, handler, threads, failures, cur, dtor>>

\* io_context::restart must not overlap another run(): its only caller,
\* Server::Wait, holds MemberWaitMutex around DrainStopped.
DrainCall(o) ==
  /\ CanCall(o) /\ MemberState = "Joined"
  /\ \A p \in Owners : ~Draining(p)
  /\ Goto(o, "drain")
  /\ UNCHANGED <<lifecycle, handler, threads, failures, cur, dtor>>

DrainRestart(o) ==
  /\ pc[o] = "drain"
  /\ workGuard' = FALSE /\ iocStopped' = FALSE
  /\ Goto(o, "drainRun")
  /\ UNCHANGED <<MemberState, MemberStopRequested, handler, threads, failures,
                 cur, dtor>>

\* A drained handler may call Join: the state is Joined, so the recorded
\* exception, if any, is rethrown inside the handler and escapes from it.
DrainHandlerJoins(o) ==
  /\ HandlersMayJoin
  /\ pc[o] = "drainHandler" /\ MemberWorkerFailure # NoHandler
  /\ flying' = [flying EXCEPT ![o] = MemberWorkerFailure]
  /\ MemberWorkerFailure' = NoHandler
  /\ FinishHandler(o) /\ Goto(o, "drainRecord")
  /\ UNCHANGED <<lifecycle, threads, raised, dropped, delivered, dtor>>

\* The destructor: no owner is inside a call, and none starts one any more.
Destroy(o) ==
  /\ CanCall(o) /\ \A p \in Owners : pc[p] = "idle"
  /\ dtor' = "running"
  /\ Goto(o, "dtorStop")
  /\ UNCHANGED <<lifecycle, handler, threads, failures, cur>>

-----------------------------------------------------------------------------
(* A worker: MemberIoc.run() and its catch block, the handlers it executes *)
(* and the completion callback of Spawn.                                   *)

HandlerCallsJoin(w) ==
  /\ HandlersMayJoin
  /\ pc[w] = "handler"
  /\ Goto(w, "joinWait")
  /\ UNCHANGED <<lifecycle, handler, threads, failures, cur, dtor>>

\* Join throws in the handler: another Join is in progress, or the calling
\* thread is among the workers to be joined.
HandlerJoinThrows(w) ==
  /\ pc[w] = "joinWait"
  /\ \/ MemberState = "Joining"
     \/ MemberState \in {"Running", "Stopping"} /\ w \in MemberWorkers \cap joinable
  /\ Goto(w, "handler")
  /\ UNCHANGED <<lifecycle, handler, threads, failures, cur, dtor>>

\* One step of a handler towards its end, on a worker.
HandlerEnds(w) ==
  \/ HandlerReturns(w, "handler", "poll")
  \/ HandlerThrows(w, "handler", "record")
  \/ HandlerThrows(w, "handler", "spawnRecord")

WorkerStep(w) ==
  \/ RunReturns(w, "poll", "exited")
  \/ Dispatch(w, "poll", "handler")
  \/ HandlerJoinThrows(w)
  \/ RecordWorkerFailure(w, "record", "stop")
  \/ StopFrom(w, "stop", "exited")
  \/ RecordWorkerFailure(w, "spawnRecord", "spawnStop")
  \/ StopFrom(w, "spawnStop", "poll")

WorkerChoice(w) ==
  \/ HandlerCallsJoin(w)
  \/ StopFrom(w, "handler", "handler")

DrainHandlerEnds(o) ==
  \/ HandlerReturns(o, "drainHandler", "drainRun")
  \/ HandlerThrows(o, "drainHandler", "drainRecord")
  \/ DrainHandlerJoins(o)

OwnerStep(o) ==
  \/ CreateThread(o) \/ CreateFails(o) \/ RunPublish(o)
  \/ StopFrom(o, "abortStop", "abortJoin")
  \/ JoinOne(o, "abortJoin", MemberWorkers) \/ RunAborted(o)
  \/ StopFrom(o, "dtorStop", "joinWait")
  \/ JoinAlreadyJoined(o) \/ JoinRefused(o) \/ JoinClaim(o)
  \/ JoinOne(o, "joinThreads", joining[o]) \/ JoinFinish(o)
  \/ DrainRestart(o)
  \/ Dispatch(o, "drainRun", "drainHandler")
  \/ RunReturns(o, "drainRun", "rethrow")
  \/ RecordWorkerFailure(o, "drainRecord", "drainStop")
  \/ StopFrom(o, "drainStop", "drainRun")
  \/ RethrowWorkerFailure(o)

OwnerCall(o) ==
  \/ RunClaim(o) \/ JoinCall(o) \/ DrainCall(o) \/ Destroy(o)
  \/ CanCall(o) /\ StopFrom(o, "idle", "idle")

Next ==
  \/ \E h \in Handlers : Submit(h) \/ Complete(h)
  \/ \E o \in Owners : OwnerCall(o) \/ OwnerStep(o) \/ DrainHandlerEnds(o)
  \/ \E w \in Workers : WorkerStep(w) \/ WorkerChoice(w) \/ HandlerEnds(w)

Spec == Init /\ [][Next]_vars

(* The scheduler runs every thread that can move, and every handler ends,  *)
(* also one that called Join or Stop on its way (hence SF).                *)
(* Nothing makes an owner call, a handler call Stop or Join, or an         *)
(* asynchronous operation complete.                                        *)
Fairness ==
  /\ \A o \in Owners : WF_vars(OwnerStep(o)) /\ WF_vars(DrainHandlerEnds(o))
  /\ \A w \in Workers : WF_vars(WorkerStep(w)) /\ SF_vars(HandlerEnds(w))

FairSpec == Spec /\ Fairness

-----------------------------------------------------------------------------
(* Properties.                                                             *)

TypeOK ==
  /\ MemberState \in States /\ MemberStopRequested \in BOOLEAN
  /\ workGuard \in BOOLEAN /\ iocStopped \in BOOLEAN
  /\ handler \in [Handlers -> {"idle", "pending", "ready", "running", "done"}]
  /\ MemberWorkers \subseteq Workers /\ joinable \subseteq Workers
  /\ joining \in [Owners -> SUBSET Workers]
  /\ MemberWorkerFailure \in Handlers \cup {NoHandler}
  /\ pc \in [Threads -> OwnerPCs \cup WorkerPCs]
  /\ \A o \in Owners : pc[o] \in OwnerPCs
  /\ \A w \in Workers : pc[w] \in WorkerPCs
  /\ cur \in [Threads -> Handlers \cup {NoHandler}]
  /\ flying \in [Threads -> Handlers \cup {NoHandler}]
  /\ raised \subseteq Handlers /\ dropped \subseteq Handlers
  /\ delivered \in [Handlers -> Nat]
  /\ dtor \in {"none", "running", "destroyed", "terminated"}

Gone(w) == pc[w] \in {"none", "exited"}

\* Join, the failure path of Run and the destructor publish Joined only when
\* every worker thread has ended and every std::thread has been joined; from
\* then on no thread of the executor touches the io_context.
JoinedMeansExited ==
  MemberState = "Joined" => joinable = {} /\ \A w \in Workers : Gone(w)

\* A stop is never lost: an executor that Run published as Running is really
\* serving, whatever Stop and handler failures happened while it was Starting.
RunningMeansServing ==
  MemberState = "Running" =>
    ~MemberStopRequested /\ ~iocStopped /\ workGuard /\ MemberWorkers = Workers

\* Threads are accounted for.  Every live std::thread is held by exactly one vector, the member or the
\* local of one Join, so no vector is destroyed with a joinable thread and
\* no thread is joined twice; and only the thread in Run or the one Join that
\* claimed the lifecycle holds any.  Joined is published without any left.
Holders(w) == {o \in Owners : w \in joining[o]}
ThreadOwnership ==
  /\ JoinedMeansExited
  /\ \A w \in joinable :
       IF w \in MemberWorkers THEN Holders(w) = {} ELSE Cardinality(Holders(w)) = 1
  /\ \A w \in Workers : ~Gone(w) => w \in joinable
  /\ Cardinality({o \in Owners : pc[o] \in {"create", "abortStop", "abortJoin",
                                            "joinThreads"}}) <= 1

\* Every exception that escaped from a handler is in exactly one place: still
\* unwinding, recorded, rethrown once to an owner, or dropped because another
\* was recorded first.  None is lost or reported twice.
Places(h) ==
  Cardinality({t \in Threads : flying[t] = h})
  + (IF MemberWorkerFailure = h THEN 1 ELSE 0)
  + delivered[h]
  + (IF h \in dropped THEN 1 ELSE 0)
EachInOnePlace ==
  \A h \in Handlers :
    IF h \in raised
    THEN Places(h) = 1 \/ (dtor = "terminated" /\ Places(h) <= 1)
    ELSE Places(h) = 0

\* The destructor ends the process only because of a handler exception that
\* no Join or DrainStopped had reported: never because a Join was refused.
TerminatesOnlyUnreported ==
  dtor = "terminated" => \E h \in raised : delivered[h] = 0 /\ h \notin dropped

\* No exception of a handler is lost, reported twice or answered by the end of
\* the process after it was reported.
FailureConserved == EachInOnePlace /\ TerminatesOnlyUnreported

\* The executor implements the pool its owners rely on: no thread leaves or
\* takes work wrongly around Stop, and Joined means that none is left.
Pool == INSTANCE WorkerPool WITH
  phase   <- IF MemberState = "Joined" THEN "closed"
             ELSE IF iocStopped THEN "halted" ELSE "open",
  started <- {w \in Workers : pc[w] # "none"},
  live    <- {w \in Workers : ~Gone(w)},
  busy    <- {w \in Workers : pc[w] \in {"handler", "joinWait"}}

PoolSpec == Pool!Spec

\* Run joins a worker whose handler waits in Join for Run (Executor.hpp:130): a
\* deadlock, though "@throws std::logic_error" is said of such a Join (154).
JoinsItself ==
  MemberState = "Starting" /\ \E w \in Workers : pc[w] = "joinWait"

\* A Join that claimed the threads returns once the context is stopped, and no
\* call of Join waits for ever for Run to leave Starting.
JoinReturns ==
  \A o \in Owners :
    /\ (pc[o] = "joinThreads" /\ iocStopped) ~> (pc[o] = "idle")
    /\ (pc[o] = "joinWait") ~> (pc[o] # "joinWait" \/ JoinsItself)

\* After an escaped exception, as after Stop, every worker thread ends, and
\* every call of Join is answered, but for that one deadlock.
PoolEnds ==
  /\ (raised # {} \/ iocStopped) ~> (JoinsItself \/ \A w \in Workers : Gone(w))
  /\ JoinReturns
=============================================================================
