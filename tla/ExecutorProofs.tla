--------------------------- MODULE ExecutorProofs ---------------------------
(***************************************************************************)
(* Safety of Executor for any number of owners, workers and handlers:      *)
(* type correctness, the lifecycle and thread invariants, and the          *)
(* refinement of WorkerPool.                                               *)
(***************************************************************************)
EXTENDS Executor, TLAPS, FiniteSetTheorems

(* Where a thread may be inside Run and inside DrainStopped.               *)
StartPCs == {"create", "abortStop", "abortJoin"}
DrainPCs == {"drain", "drainRun", "drainHandler", "drainRecord", "drainStop"}
Before == {"Created", "Starting", "Running", "Stopping"}

\* The context is stopped exactly when the lifecycle says so, until it is
\* joined (DrainStopped restarts it then).
LifecycleInv ==
  /\ MemberState = "Created" => ~MemberStopRequested /\ ~iocStopped
  /\ MemberState = "Starting" => (iocStopped <=> MemberStopRequested)
  /\ MemberState = "Running" => ~MemberStopRequested /\ ~iocStopped
  /\ MemberState = "Stopping" => iocStopped
  /\ MemberState # "Joined" => (workGuard <=> ~iocStopped)

\* The lifecycle state names the one call that may touch the threads.
CallInv ==
  /\ \A o \in Owners : pc[o] \in StartPCs => MemberState = "Starting"
  /\ \A o \in Owners : pc[o] = "joinThreads" => MemberState = "Joining"
  /\ \A o \in Owners : pc[o] \in DrainPCs => MemberState = "Joined"
  /\ \A o, p \in Owners : pc[o] \in StartPCs /\ pc[p] \in StartPCs => o = p
  /\ \A o, p \in Owners : pc[o] = "joinThreads" /\ pc[p] = "joinThreads" => o = p
  /\ MemberState = "Joining" => \E o \in Owners : pc[o] = "joinThreads"

\* Which vector holds the threads, and what it holds.
ThreadInv ==
  /\ \A w \in Workers : ~Gone(w) => w \in joinable
  /\ MemberState \in Before =>
       /\ joinable \subseteq MemberWorkers
       /\ \A w \in Workers : pc[w] # "none" <=> w \in MemberWorkers
  /\ MemberState = "Running" => MemberWorkers = Workers
  /\ \A o \in Owners :
       IF pc[o] = "joinThreads"
       THEN joinable \subseteq joining[o] /\ MemberWorkers = {}
       ELSE joining[o] = {}
  /\ MemberState = "Joined" => joinable = {}

\* A thread inside a handler has one, and one that records has an exception.
WorkInv ==
  \A t \in Threads :
    /\ pc[t] \in {"handler", "drainHandler"} => cur[t] \in Handlers
    /\ t \in Workers /\ pc[t] = "joinWait" => cur[t] \in Handlers
    /\ pc[t] \in {"record", "spawnRecord", "drainRecord"} => flying[t] \in Handlers

IInv == TypeOK /\ LifecycleInv /\ CallInv /\ ThreadInv /\ WorkInv

LEMMA InitInv == Init => IInv
<1> SUFFICES ASSUME Init PROVE IInv
  OBVIOUS
<1> USE ExecutorAssumption DEF Init
<1>0. ASSUME NEW t \in Threads
      PROVE  pc[t] = IF t \in Owners THEN "idle" ELSE "none"
  OBVIOUS
<1>1. TypeOK
  <2>1. \A o \in Owners : pc[o] = "idle"
    BY <1>0 DEF Threads
  <2>2. \A w \in Workers : pc[w] = "none"
    BY <1>0 DEF Threads
  <2>3. pc \in [Threads -> OwnerPCs \cup WorkerPCs]
    BY DEF OwnerPCs, WorkerPCs
  <2> QED
    BY <2>1, <2>2, <2>3 DEF TypeOK, States, OwnerPCs, WorkerPCs
<1>2. LifecycleInv
  BY DEF LifecycleInv
<1>3. CallInv
  BY <1>0 DEF CallInv, Threads, StartPCs, DrainPCs
<1>4. ThreadInv
  BY <1>0 DEF ThreadInv, Threads, Before, Gone
<1>5. WorkInv
  BY <1>0 DEF WorkInv, Threads
<1> QED
  BY <1>1, <1>2, <1>3, <1>4, <1>5 DEF IInv
(* One step of the executor preserves every part of the invariant.         *)
LEMMA StepInv == IInv /\ [Next]_vars => IInv'
<1> SUFFICES ASSUME IInv, [Next]_vars PROVE IInv'
  OBVIOUS
<1> USE ExecutorAssumption
    DEF IInv, TypeOK, LifecycleInv, CallInv, ThreadInv, WorkInv, Threads, Goto,
        Gone, States, OwnerPCs, WorkerPCs, StartPCs, DrainPCs, Before,
        lifecycle, threads, failures
<1>1. ASSUME NEW h \in Handlers, Submit(h) PROVE IInv'
  BY <1>1 DEF Submit
<1>2. ASSUME NEW h \in Handlers, Complete(h) PROVE IInv'
  BY <1>2 DEF Complete
<1>3. ASSUME NEW o \in Owners, RunClaim(o) PROVE IInv'
  BY <1>3 DEF RunClaim, CanCall
<1>4. ASSUME NEW o \in Owners, JoinCall(o) PROVE IInv'
  BY <1>4 DEF JoinCall, CanCall
<1>5. ASSUME NEW o \in Owners, DrainCall(o) PROVE IInv'
  BY <1>5 DEF DrainCall, CanCall
<1>6. ASSUME NEW o \in Owners, Destroy(o) PROVE IInv'
  BY <1>6 DEF Destroy, CanCall
<1>7. ASSUME NEW o \in Owners, CanCall(o) /\ StopFrom(o, "idle", "idle") PROVE IInv'
  BY <1>7, ZenonT(40) DEF CanCall, StopFrom, StopEffect
<1>8. ASSUME NEW o \in Owners, CreateThread(o) PROVE IInv'
  BY <1>8 DEF CreateThread
<1>9. ASSUME NEW o \in Owners, CreateFails(o) PROVE IInv'
  BY <1>9 DEF CreateFails
<1>10. ASSUME NEW o \in Owners, RunPublish(o) PROVE IInv'
  BY <1>10 DEF RunPublish
<1>11. ASSUME NEW o \in Owners, StopFrom(o, "abortStop", "abortJoin") PROVE IInv'
  BY <1>11 DEF StopFrom, StopEffect
<1>12. ASSUME NEW o \in Owners, JoinOne(o, "abortJoin", MemberWorkers) PROVE IInv'
  BY <1>12 DEF JoinOne
<1>13. ASSUME NEW o \in Owners, RunAborted(o) PROVE IInv'
  BY <1>13 DEF RunAborted
<1>14. ASSUME NEW o \in Owners, StopFrom(o, "dtorStop", "joinWait") PROVE IInv'
  <2> USE <1>14 DEF StopFrom, StopEffect
  <2>1. TypeOK' /\ LifecycleInv'
    OBVIOUS
  <2>2. CallInv' /\ WorkInv'
    OBVIOUS
  <2>3. ThreadInv'
    OBVIOUS
  <2> QED
    BY <2>1, <2>2, <2>3
<1>15. ASSUME NEW o \in Owners, JoinAlreadyJoined(o) PROVE IInv'
  BY <1>15 DEF JoinAlreadyJoined
<1>16. ASSUME NEW o \in Owners, JoinRefused(o) PROVE IInv'
  BY <1>16 DEF JoinRefused
<1>17. ASSUME NEW o \in Owners, JoinClaim(o) PROVE IInv'
  BY <1>17 DEF JoinClaim
<1>18. ASSUME NEW o \in Owners, JoinOne(o, "joinThreads", joining[o]) PROVE IInv'
  BY <1>18 DEF JoinOne
<1>19. ASSUME NEW o \in Owners, JoinFinish(o) PROVE IInv'
  BY <1>19 DEF JoinFinish
<1>20. ASSUME NEW o \in Owners, DrainRestart(o) PROVE IInv'
  BY <1>20 DEF DrainRestart
<1>21. ASSUME NEW o \in Owners, Dispatch(o, "drainRun", "drainHandler") PROVE IInv'
  BY <1>21 DEF Dispatch
<1>22. ASSUME NEW o \in Owners, RunReturns(o, "drainRun", "rethrow") PROVE IInv'
  BY <1>22 DEF RunReturns
<1>23. ASSUME NEW o \in Owners, RecordWorkerFailure(o, "drainRecord", "drainStop") PROVE IInv'
  BY <1>23 DEF RecordWorkerFailure
<1>24. ASSUME NEW o \in Owners, StopFrom(o, "drainStop", "drainRun") PROVE IInv'
  BY <1>24 DEF StopFrom, StopEffect
<1>25. ASSUME NEW o \in Owners, RethrowWorkerFailure(o) PROVE IInv'
  BY <1>25 DEF RethrowWorkerFailure
<1>26. ASSUME NEW o \in Owners, HandlerReturns(o, "drainHandler", "drainRun") PROVE IInv'
  BY <1>26 DEF HandlerReturns, FinishHandler
<1>27. ASSUME NEW o \in Owners, HandlerThrows(o, "drainHandler", "drainRecord") PROVE IInv'
  BY <1>27 DEF HandlerThrows, FinishHandler
<1>28. ASSUME NEW o \in Owners, DrainHandlerJoins(o) PROVE IInv'
  BY <1>28 DEF DrainHandlerJoins, FinishHandler
<1>29. ASSUME NEW w \in Workers, RunReturns(w, "poll", "exited") PROVE IInv'
  BY <1>29 DEF RunReturns
<1>30. ASSUME NEW w \in Workers, Dispatch(w, "poll", "handler") PROVE IInv'
  BY <1>30 DEF Dispatch
<1>31. ASSUME NEW w \in Workers, HandlerJoinThrows(w) PROVE IInv'
  BY <1>31 DEF HandlerJoinThrows
<1>32. ASSUME NEW w \in Workers, RecordWorkerFailure(w, "record", "stop") PROVE IInv'
  BY <1>32 DEF RecordWorkerFailure
<1>33. ASSUME NEW w \in Workers, StopFrom(w, "stop", "exited") PROVE IInv'
  BY <1>33, ZenonT(40) DEF StopFrom, StopEffect
<1>34. ASSUME NEW w \in Workers, RecordWorkerFailure(w, "spawnRecord", "spawnStop") PROVE IInv'
  BY <1>34 DEF RecordWorkerFailure
<1>35. ASSUME NEW w \in Workers, StopFrom(w, "spawnStop", "poll") PROVE IInv'
  BY <1>35, ZenonT(40) DEF StopFrom, StopEffect
<1>36. ASSUME NEW w \in Workers, HandlerCallsJoin(w) PROVE IInv'
  BY <1>36 DEF HandlerCallsJoin
<1>37. ASSUME NEW w \in Workers, StopFrom(w, "handler", "handler") PROVE IInv'
  BY <1>37, ZenonT(40) DEF StopFrom, StopEffect
<1>38. ASSUME NEW w \in Workers, HandlerReturns(w, "handler", "poll") PROVE IInv'
  BY <1>38 DEF HandlerReturns, FinishHandler
<1>39. ASSUME NEW w \in Workers, HandlerThrows(w, "handler", "record") PROVE IInv'
  BY <1>39 DEF HandlerThrows, FinishHandler
<1>40. ASSUME NEW w \in Workers, HandlerThrows(w, "handler", "spawnRecord") PROVE IInv'
  BY <1>40 DEF HandlerThrows, FinishHandler
<1>41. CASE UNCHANGED vars
  BY <1>41 DEF vars
<1> QED
  BY <1>1, <1>2, <1>3, <1>4, <1>5, <1>6, <1>7, <1>8, <1>9, <1>10, <1>11,
     <1>12, <1>13, <1>14, <1>15, <1>16, <1>17, <1>18, <1>19, <1>20, <1>21,
     <1>22, <1>23, <1>24, <1>25, <1>26, <1>27, <1>28, <1>29, <1>30, <1>31,
     <1>32, <1>33, <1>34, <1>35, <1>36, <1>37, <1>38, <1>39, <1>40, <1>41
  DEF Next, OwnerCall, OwnerStep, DrainHandlerEnds, WorkerStep, WorkerChoice,
      HandlerEnds

LEMMA InvHolds == Spec => []IInv
BY InitInv, StepInv, PTL DEF Spec

-----------------------------------------------------------------------------
(* Type correctness of the executor's state.                               *)
THEOREM TypeCorrect == Spec => []TypeOK
<1>1. IInv => TypeOK
  BY DEF IInv
<1> QED
  BY <1>1, InvHolds, PTL

(* Joined is published, by Join, by Run's failure path or by ~Executor, only *)
(* when every worker has ended and every std::thread was joined.           *)
THEOREM JoinedSafe == Spec => []JoinedMeansExited
<1>1. IInv => JoinedMeansExited
  BY DEF IInv, ThreadInv, JoinedMeansExited
<1> QED
  BY <1>1, InvHolds, PTL

(* An executor published as Running has all its workers, its work guard and *)
(* a context that is not stopped: no Stop during Run is lost.              *)
THEOREM RunningServes == Spec => []RunningMeansServing
<1>1. IInv => RunningMeansServing
  BY DEF IInv, ThreadInv, LifecycleInv, RunningMeansServing
<1> QED
  BY <1>1, InvHolds, PTL

LEMMA AtMostOne ==
  ASSUME NEW S, \A x, y \in S : x = y
  PROVE  Cardinality(S) <= 1
<1>1. CASE S = {}
  BY <1>1, FS_EmptySet
<1>2. CASE S # {}
  <2>1. PICK x \in S : S = {x}
    BY <1>2
  <2> QED
    BY <2>1, FS_Singleton
<1> QED
  BY <1>1, <1>2

(* Every live std::thread is in exactly one vector, at most one thread is  *)
(* inside a section that may touch them, and Joined leaves none.           *)
THEOREM ThreadsOwned == Spec => []ThreadOwnership
<1>1. IInv => ThreadOwnership
  <2> SUFFICES ASSUME IInv PROVE ThreadOwnership
    OBVIOUS
  <2> USE DEF IInv, TypeOK, CallInv, ThreadInv, StartPCs, Before, States
  <2>1. ASSUME NEW w \in joinable
        PROVE  IF w \in MemberWorkers THEN Holders(w) = {}
               ELSE Cardinality(Holders(w)) = 1
    <3>1. CASE MemberState \in Before
      BY <2>1, <3>1 DEF Holders
    <3>2. CASE MemberState = "Joining"
      <4>1. PICK o \in Owners : pc[o] = "joinThreads"
        BY <3>2
      <4>2. Holders(w) = {o} /\ w \notin MemberWorkers
        BY <2>1, <4>1 DEF Holders
      <4> QED
        BY <4>2, FS_Singleton
    <3> QED
      BY <2>1, <3>1, <3>2
  <2>2. Cardinality({o \in Owners : pc[o] \in {"create", "abortStop", "abortJoin",
                                                "joinThreads"}}) <= 1
    BY AtMostOne
  <2>3. JoinedMeansExited
    BY DEF JoinedMeansExited
  <2> QED
    BY <2>1, <2>2, <2>3 DEF ThreadOwnership, Gone
<1> QED
  BY <1>1, InvHolds, PTL

-----------------------------------------------------------------------------
(* Exceptions of handlers.                                                 *)

\* A handler is executed by one thread and throws once, at its end.
HandlerInv ==
  /\ \A t, u \in Threads : cur[t] # NoHandler /\ cur[t] = cur[u] => t = u
  /\ \A t \in Threads : cur[t] # NoHandler => handler[cur[t]] = "running"
  /\ \A h \in raised : handler[h] = "done"

\* Every place of an exception excludes the others.
PlaceInv ==
  /\ \A t, u \in Threads : flying[t] # NoHandler /\ flying[t] = flying[u] => t = u
  /\ \A t \in Threads : flying[t] # NoHandler =>
       /\ pc[t] \in {"record", "spawnRecord", "drainRecord"}
       /\ flying[t] \in raised \ dropped /\ delivered[flying[t]] = 0
       /\ MemberWorkerFailure # flying[t]
  /\ MemberWorkerFailure # NoHandler =>
       MemberWorkerFailure \in raised \ dropped /\ delivered[MemberWorkerFailure] = 0
  /\ dropped \subseteq raised
  /\ \A h \in Handlers : delivered[h] # 0 =>
       delivered[h] = 1 /\ h \in raised \ dropped

\* The exception that nobody was told of, when it has ended the process.
Unreported(h) ==
  /\ h \in raised \ dropped /\ delivered[h] = 0 /\ MemberWorkerFailure # h
  /\ \A t \in Threads : flying[t] # h
Placed(h) ==
  MemberWorkerFailure = h \/ delivered[h] = 1 \/ h \in dropped \/ \E t \in Threads : flying[t] = h
FoundInv == \A h \in raised : dtor = "terminated" \/ Placed(h)

\* The destructor is alone, so its Join is not refused.
DestroyInv ==
  /\ dtor # "none" => \A o, p \in Owners : pc[o] # "idle" /\ pc[p] # "idle" => o = p
  /\ dtor = "terminated" => \E h \in Handlers : Unreported(h)

FailInv == HandlerInv /\ PlaceInv /\ FoundInv /\ DestroyInv

LEMMA FailInit == Init => FailInv
<1> SUFFICES ASSUME Init PROVE FailInv
  OBVIOUS
<1>1. \A t \in Threads : cur[t] = NoHandler /\ flying[t] = NoHandler
  BY DEF Init
<1>2. raised = {} /\ dropped = {} /\ MemberWorkerFailure = NoHandler /\ dtor = "none"
      /\ \A h \in Handlers : delivered[h] = 0
  BY DEF Init
<1> QED BY <1>1, <1>2 DEF FailInv, HandlerInv, PlaceInv, FoundInv, DestroyInv

\* A step on which no exception moves and no handler begins or ends.
LEMMA QuietStep ==
  ASSUME IInv, FailInv, UNCHANGED <<handler, failures, cur, dtor>>,
         \A t \in Threads : flying[t] # NoHandler => pc'[t] = pc[t],
         \A o \in Owners : dtor # "none" /\ pc'[o] # "idle" => pc[o] # "idle"
  PROVE  FailInv'
<1> USE DEF FailInv, failures
<1>1. HandlerInv'
  BY DEF HandlerInv
<1>2. PlaceInv'
  BY DEF PlaceInv
<1>3. FoundInv'
  BY DEF FoundInv, Placed
<1>4. DestroyInv'
  BY DEF DestroyInv, Unreported
<1> QED BY <1>1, <1>2, <1>3, <1>4

\* A handler gets ready, which has not thrown yet.
LEMMA HandlerMoves ==
  ASSUME FailInv, NEW h \in Handlers, handler[h] \in {"idle", "pending"},
         NEW s \in {"pending", "ready"}, handler' = [handler EXCEPT ![h] = s],
         UNCHANGED <<failures, pc, cur, dtor>>
  PROVE  FailInv'
<1> USE DEF FailInv, failures
<1>1. HandlerInv'
  BY DEF HandlerInv
<1>2. PlaceInv'
  BY DEF PlaceInv
<1>3. FoundInv'
  BY DEF FoundInv, Placed
<1>4. DestroyInv'
  BY DEF DestroyInv, Unreported
<1> QED BY <1>1, <1>2, <1>3, <1>4

LEMMA DispatchFails ==
  ASSUME IInv, FailInv, NEW t \in Threads, NEW from, NEW to, from # "idle",
         from \notin {"record", "spawnRecord", "drainRecord"}, Dispatch(t, from, to)
  PROVE  FailInv'
<1> USE DEF FailInv, failures, Dispatch, Goto
<1>0. cur \in [Threads -> Handlers \cup {NoHandler}] /\ pc \in [Threads -> OwnerPCs \cup WorkerPCs]
      /\ handler \in [Handlers -> {"idle", "pending", "ready", "running", "done"}]
      /\ NoHandler \notin Handlers /\ raised \subseteq Handlers
  BY ExecutorAssumption DEF IInv, TypeOK
<1>1. HandlerInv'
  BY <1>0 DEF HandlerInv
<1>2. PlaceInv'
  BY <1>0 DEF PlaceInv
<1>3. FoundInv'
  BY DEF FoundInv, Placed
<1>4. DestroyInv'
  BY <1>0 DEF DestroyInv, Unreported, Threads
<1> QED BY <1>1, <1>2, <1>3, <1>4

LEMMA ReturnFails ==
  ASSUME IInv, FailInv, NEW t \in Threads, NEW from, NEW to, cur[t] \in Handlers,
         from # "idle", from \notin {"record", "spawnRecord", "drainRecord"},
         HandlerReturns(t, from, to)
  PROVE  FailInv'
<1> USE DEF FailInv, failures, HandlerReturns, FinishHandler, Goto
<1>0. cur \in [Threads -> Handlers \cup {NoHandler}] /\ pc \in [Threads -> OwnerPCs \cup WorkerPCs]
      /\ handler \in [Handlers -> {"idle", "pending", "ready", "running", "done"}]
      /\ NoHandler \notin Handlers /\ raised \subseteq Handlers
  BY ExecutorAssumption DEF IInv, TypeOK
<1>1. HandlerInv'
  BY <1>0 DEF HandlerInv
<1>2. PlaceInv'
  BY <1>0 DEF PlaceInv
<1>3. FoundInv'
  BY DEF FoundInv, Placed
<1>4. DestroyInv'
  BY <1>0 DEF DestroyInv, Unreported, Threads
<1> QED BY <1>1, <1>2, <1>3, <1>4

\* A new exception: its handler has thrown nothing before.
LEMMA ThrowFails ==
  ASSUME IInv, FailInv, NEW t \in Threads, NEW from, NEW to, cur[t] \in Handlers,
         from # "idle", from \notin {"record", "spawnRecord", "drainRecord"},
         to \in {"record", "spawnRecord", "drainRecord"},
         HandlerThrows(t, from, to)
  PROVE  FailInv'
<1> USE DEF FailInv, HandlerThrows, FinishHandler, Goto
<1> DEFINE h == cur[t]
<1>0. cur \in [Threads -> Handlers \cup {NoHandler}] /\ pc \in [Threads -> OwnerPCs \cup WorkerPCs]
      /\ handler \in [Handlers -> {"idle", "pending", "ready", "running", "done"}]
      /\ flying \in [Threads -> Handlers \cup {NoHandler}]
      /\ NoHandler \notin Handlers /\ raised \subseteq Handlers /\ delivered \in [Handlers -> Nat]
  BY ExecutorAssumption DEF IInv, TypeOK
<1>1. h \notin raised /\ h # NoHandler
  BY <1>0 DEF HandlerInv
<1>2. HandlerInv'
  BY <1>0, <1>1 DEF HandlerInv
<1>3. /\ \A u \in Threads : flying[u] # h
      /\ MemberWorkerFailure # h /\ h \notin dropped /\ delivered[h] = 0
      /\ flying[t] = NoHandler
  BY <1>0, <1>1 DEF PlaceInv
<1>4. flying'[t] = h /\ \A u \in Threads : u # t => flying'[u] = flying[u]
  BY <1>0
<1>5. PlaceInv'
  BY <1>0, <1>1, <1>3, <1>4 DEF PlaceInv
<1>6. FoundInv'
  BY <1>0, <1>3, <1>4 DEF FoundInv, Placed
<1>7. DestroyInv'
  <2>1. dtor # "none" => \A o, p \in Owners : pc'[o] # "idle" /\ pc'[p] # "idle" => o = p
    BY <1>0 DEF DestroyInv, Threads
  <2>2. ASSUME NEW k \in Handlers, Unreported(k) PROVE Unreported(k)'
    BY <2>2, <1>1, <1>4 DEF Unreported
  <2> QED BY <2>1, <2>2 DEF DestroyInv
<1> QED BY <1>2, <1>5, <1>6, <1>7

\* The first exception is recorded; another one is dropped.
LEMMA RecordFails ==
  ASSUME IInv, FailInv, NEW t \in Threads, NEW from, NEW to, flying[t] \in Handlers,
         from # "idle", RecordWorkerFailure(t, from, to)
  PROVE  FailInv'
<1> USE DEF FailInv, RecordWorkerFailure, Goto
<1> DEFINE h == flying[t]
<1>0. pc \in [Threads -> OwnerPCs \cup WorkerPCs]
      /\ flying \in [Threads -> Handlers \cup {NoHandler}]
      /\ NoHandler \notin Handlers /\ raised \subseteq Handlers /\ delivered \in [Handlers -> Nat]
  BY ExecutorAssumption DEF IInv, TypeOK
<1>1. HandlerInv'
  BY DEF HandlerInv
<1>2. /\ h # NoHandler /\ h \in raised \ dropped /\ delivered[h] = 0
      /\ MemberWorkerFailure # h
      /\ \A u \in Threads : u # t => flying[u] # h
  BY <1>0 DEF PlaceInv
<1>3. flying'[t] = NoHandler /\ \A u \in Threads : u # t => flying'[u] = flying[u] /\ pc'[u] = pc[u]
  BY <1>0
<1>4. PlaceInv'
  BY <1>0, <1>2, <1>3 DEF PlaceInv
<1>5. ASSUME NEW k \in raised, Placed(k) PROVE Placed(k)'
  BY <1>0, <1>2, <1>3, <1>5 DEF Placed
<1>6. FoundInv'
  BY <1>5 DEF FoundInv
<1>7. DestroyInv'
  <2>1. dtor # "none" => \A o, p \in Owners : pc'[o] # "idle" /\ pc'[p] # "idle" => o = p
    BY <1>0 DEF DestroyInv, Threads
  <2>2. ASSUME NEW k \in Handlers, Unreported(k) PROVE Unreported(k)'
    BY <2>2, <1>0, <1>3 DEF Unreported
  <2> QED BY <2>1, <2>2 DEF DestroyInv
<1> QED BY <1>1, <1>4, <1>6, <1>7

\* The recorded exception leaves to an owner, or ends the process.
LEMMA RethrowFails ==
  ASSUME IInv, FailInv, NEW o \in Owners, RethrowWorkerFailure(o)
  PROVE  FailInv'
<1> USE DEF FailInv, RethrowWorkerFailure, Goto
<1> DEFINE h == MemberWorkerFailure
<1>0. pc \in [Threads -> OwnerPCs \cup WorkerPCs] /\ o \in Threads
      /\ flying \in [Threads -> Handlers \cup {NoHandler}]
      /\ NoHandler \notin Handlers /\ raised \subseteq Handlers /\ delivered \in [Handlers -> Nat]
      /\ h \in Handlers \cup {NoHandler}
  BY ExecutorAssumption DEF IInv, TypeOK, Threads
<1>1. HandlerInv'
  BY DEF HandlerInv
<1>2. \A t \in Threads : t # o => pc'[t] = pc[t]
  BY <1>0
<1>3. flying[o] = NoHandler
  BY <1>0 DEF PlaceInv
<1>4. dtor # "none" => \A q, p \in Owners : pc'[q] # "idle" /\ pc'[p] # "idle" => q = p
  BY <1>0, <1>2 DEF DestroyInv, Threads
<1>5. CASE h = NoHandler
  <2>1. UNCHANGED <<MemberWorkerFailure, delivered, flying, raised, dropped>>
    BY <1>5
  <2>2. PlaceInv'
    BY <1>2, <1>3, <2>1 DEF PlaceInv
  <2>3. FoundInv'
    BY <1>5, <2>1 DEF FoundInv, Placed
  <2>4. DestroyInv'
    BY <1>4, <1>5, <2>1 DEF DestroyInv, Unreported
  <2> QED BY <1>1, <2>2, <2>3, <2>4
<1>6. CASE h # NoHandler
  <2>1. /\ h \in raised \ dropped /\ delivered[h] = 0
        /\ \A t \in Threads : flying[t] # h
    BY <1>0, <1>6 DEF PlaceInv
  <2>2. CASE dtor = "running"
    <3>1. dtor' = "terminated" /\ MemberWorkerFailure' = NoHandler
          /\ UNCHANGED <<delivered, flying, raised, dropped>>
      BY <1>6, <2>2
    <3>2. PlaceInv'
      BY <1>2, <1>3, <3>1 DEF PlaceInv
    <3>3. PICK k \in Handlers : k = h
      BY <1>0, <1>6
    <3>4. Unreported(k)'
      BY <1>6, <2>1, <3>1, <3>3 DEF Unreported
    <3>5. FoundInv' /\ DestroyInv'
      BY <1>4, <3>1, <3>4 DEF FoundInv, DestroyInv
    <3> QED BY <1>1, <3>2, <3>5
  <2>3. CASE dtor # "running"
    <3>1. dtor' = dtor /\ MemberWorkerFailure' = NoHandler
          /\ delivered' = [delivered EXCEPT ![h] = @ + 1]
          /\ UNCHANGED <<flying, raised, dropped>>
      BY <1>6, <2>3
    <3>2. delivered'[h] = 1 /\ \A k \in Handlers : k # h => delivered'[k] = delivered[k]
      BY <1>0, <1>6, <2>1, <3>1
    <3>3. PlaceInv'
      BY <1>0, <1>2, <1>3, <2>1, <3>1, <3>2 DEF PlaceInv
    <3>4. FoundInv'
      BY <1>0, <3>1, <3>2 DEF FoundInv, Placed
    <3>5. ASSUME NEW k \in Handlers, Unreported(k) PROVE Unreported(k)'
      BY <1>0, <3>1, <3>2, <3>5 DEF Unreported
    <3>6. DestroyInv'
      BY <1>4, <3>1, <3>5 DEF DestroyInv
    <3> QED BY <1>1, <3>3, <3>4, <3>6
  <2> QED BY <2>2, <2>3
<1> QED BY <1>5, <1>6

\* Join in a drained handler: the recorded exception unwinds again.
LEMMA DrainJoinFails ==
  ASSUME IInv, FailInv, NEW o \in Owners, cur[o] \in Handlers, DrainHandlerJoins(o)
  PROVE  FailInv'
<1> USE DEF FailInv, DrainHandlerJoins, FinishHandler, Goto
<1> DEFINE h == MemberWorkerFailure
<1>0. cur \in [Threads -> Handlers \cup {NoHandler}] /\ pc \in [Threads -> OwnerPCs \cup WorkerPCs]
      /\ handler \in [Handlers -> {"idle", "pending", "ready", "running", "done"}]
      /\ flying \in [Threads -> Handlers \cup {NoHandler}] /\ o \in Threads
      /\ NoHandler \notin Handlers /\ raised \subseteq Handlers /\ delivered \in [Handlers -> Nat]
      /\ h \in Handlers
  BY ExecutorAssumption DEF IInv, TypeOK, Threads
<1>1. HandlerInv'
  BY <1>0 DEF HandlerInv
<1>2. /\ h \in raised \ dropped /\ delivered[h] = 0
      /\ \A t \in Threads : flying[t] # h
      /\ flying[o] = NoHandler
  BY <1>0 DEF PlaceInv
<1>3. flying'[o] = h /\ pc'[o] = "drainRecord"
      /\ \A u \in Threads : u # o => flying'[u] = flying[u] /\ pc'[u] = pc[u]
  BY <1>0
<1>4. PlaceInv'
  BY <1>0, <1>2, <1>3 DEF PlaceInv
<1>5. ASSUME NEW k \in raised, Placed(k) PROVE Placed(k)'
  BY <1>0, <1>2, <1>3, <1>5 DEF Placed
<1>6. FoundInv'
  BY <1>5 DEF FoundInv
<1>7. DestroyInv'
  <2>1. dtor # "none" => \A q, p \in Owners : pc'[q] # "idle" /\ pc'[p] # "idle" => q = p
    BY <1>0 DEF DestroyInv, Threads
  <2>2. ASSUME NEW k \in Handlers, Unreported(k) PROVE Unreported(k)'
    BY <2>2, <1>0, <1>3 DEF Unreported
  <2> QED BY <2>1, <2>2 DEF DestroyInv
<1> QED BY <1>1, <1>4, <1>6, <1>7

LEMMA FailStep == IInv /\ FailInv /\ [Next]_vars => FailInv'
<1> SUFFICES ASSUME IInv, FailInv, [Next]_vars PROVE FailInv'
  OBVIOUS
<1>0. /\ pc \in [Threads -> OwnerPCs \cup WorkerPCs] /\ Owners \subseteq Threads
      /\ Workers \subseteq Threads /\ Owners \cap Workers = {}
      /\ \A t \in Threads : flying[t] # NoHandler =>
           pc[t] \in {"record", "spawnRecord", "drainRecord"}
  BY ExecutorAssumption DEF IInv, TypeOK, Threads, FailInv, PlaceInv
<1>1. ASSUME NEW h \in Handlers, Submit(h) \/ Complete(h) PROVE FailInv'
  BY <1>1, HandlerMoves DEF Submit, Complete
\* The calls, and what moves only threads.
<1>2. ASSUME NEW o \in Owners, RunClaim(o) \/ JoinCall(o) \/ DrainCall(o) PROVE FailInv'
  BY <1>0, <1>2, QuietStep DEF RunClaim, JoinCall, DrainCall, CanCall, Goto
<1>3. ASSUME NEW o \in Owners, CreateThread(o) PROVE FailInv'
  <2>1. PICK w \in Workers \ MemberWorkers : pc' = [pc EXCEPT ![w] = "poll"]
    BY <1>3 DEF CreateThread
  <2>2. pc[w] = "none" /\ MemberState = "Starting"
    BY <1>3 DEF IInv, CallInv, StartPCs, ThreadInv, Before, CreateThread
  <2> QED BY <1>0, <1>3, <2>1, <2>2, QuietStep DEF CreateThread
<1>4. ASSUME NEW o \in Owners, CreateFails(o) \/ RunPublish(o) \/ RunAborted(o) PROVE FailInv'
  BY <1>0, <1>4, QuietStep DEF CreateFails, RunPublish, RunAborted, Goto
<1>5. ASSUME NEW o \in Owners,
             JoinOne(o, "abortJoin", MemberWorkers) \/ JoinOne(o, "joinThreads", joining[o])
      PROVE FailInv'
  BY <1>0, <1>5, QuietStep DEF JoinOne
<1>6. ASSUME NEW o \in Owners, JoinAlreadyJoined(o) \/ JoinClaim(o) \/ JoinFinish(o) PROVE FailInv'
  BY <1>0, <1>6, QuietStep DEF JoinAlreadyJoined, JoinClaim, JoinFinish, Goto
<1>7. ASSUME NEW o \in Owners, DrainRestart(o) PROVE FailInv'
  BY <1>0, <1>7, QuietStep DEF DrainRestart, Goto
<1>8. ASSUME NEW t \in Threads, NEW from, NEW to,
             from \notin {"record", "spawnRecord", "drainRecord"},
             StopFrom(t, from, to), from = "idle" => to = "idle"
      PROVE FailInv'
  BY <1>0, <1>8, QuietStep DEF StopFrom, Goto
<1>9. ASSUME NEW t \in Threads, NEW from, NEW to,
             from \notin {"idle", "record", "spawnRecord", "drainRecord"},
             RunReturns(t, from, to)
      PROVE FailInv'
  BY <1>0, <1>9, QuietStep DEF RunReturns, Goto
<1>10. ASSUME NEW w \in Workers, HandlerCallsJoin(w) \/ HandlerJoinThrows(w) PROVE FailInv'
  BY <1>0, <1>10, QuietStep DEF HandlerCallsJoin, HandlerJoinThrows, Goto
\* The destructor.
<1>11. ASSUME NEW o \in Owners, Destroy(o) PROVE FailInv'
  <2> USE <1>11 DEF Destroy, CanCall, Goto, failures
  <2>1. HandlerInv' /\ FoundInv'
    BY DEF FailInv, HandlerInv, FoundInv, Placed
  <2>2. PlaceInv'
    BY <1>0 DEF FailInv, PlaceInv
  <2>3. DestroyInv'
    BY <1>0 DEF DestroyInv
  <2> QED BY <2>1, <2>2, <2>3 DEF FailInv
<1>12. ASSUME NEW o \in Owners, JoinRefused(o) PROVE FailInv'
  <2>1. PICK p \in Owners : pc[p] = "joinThreads"
    BY <1>12 DEF JoinRefused, IInv, CallInv
  <2>2. dtor = "none" /\ UNCHANGED dtor
    BY <1>12, <2>1 DEF JoinRefused, FailInv, DestroyInv
  <2> QED BY <1>0, <1>12, <2>2, QuietStep DEF JoinRefused, Goto
\* Handlers and their exceptions.
<1>13. ASSUME NEW o \in Owners, OwnerCall(o) \/ OwnerStep(o) \/ DrainHandlerEnds(o)
       PROVE FailInv'
  <2>1. ASSUME RecordWorkerFailure(o, "drainRecord", "drainStop") PROVE FailInv'
    BY <1>0, <2>1, RecordFails DEF IInv, WorkInv, RecordWorkerFailure
  <2>2. ASSUME DrainHandlerEnds(o) PROVE FailInv'
    <3>1. cur[o] \in Handlers
      BY <1>0, <2>2 DEF DrainHandlerEnds, HandlerReturns, HandlerThrows, DrainHandlerJoins,
                        IInv, WorkInv
    <3> QED BY <1>0, <2>2, <3>1, ReturnFails, ThrowFails, DrainJoinFails DEF DrainHandlerEnds
  <2>3. ASSUME Dispatch(o, "drainRun", "drainHandler") PROVE FailInv'
    BY <1>0, <2>3, DispatchFails
  <2>4. ASSUME \/ StopFrom(o, "abortStop", "abortJoin") \/ StopFrom(o, "dtorStop", "joinWait")
               \/ StopFrom(o, "drainStop", "drainRun") \/ StopFrom(o, "idle", "idle")
        PROVE FailInv'
    BY <1>0, <1>8, <2>4
  <2>5. ASSUME RunReturns(o, "drainRun", "rethrow") PROVE FailInv'
    BY <1>0, <1>9, <2>5
  <2> QED
    BY <1>2, <1>3, <1>4, <1>5, <1>6, <1>7, <1>11, <1>12, <1>13, <2>1, <2>2, <2>3, <2>4, <2>5,
       RethrowFails
    DEF OwnerCall, OwnerStep
<1>14. ASSUME NEW w \in Workers, WorkerStep(w) \/ WorkerChoice(w) \/ HandlerEnds(w)
       PROVE FailInv'
  <2>1. ASSUME \/ RecordWorkerFailure(w, "record", "stop")
               \/ RecordWorkerFailure(w, "spawnRecord", "spawnStop")
        PROVE FailInv'
    <3>1. flying[w] \in Handlers
      BY <1>0, <2>1 DEF IInv, WorkInv, RecordWorkerFailure
    <3> QED BY <1>0, <2>1, <3>1, RecordFails
  <2>2. ASSUME HandlerEnds(w) PROVE FailInv'
    <3>1. cur[w] \in Handlers
      BY <1>0, <2>2 DEF HandlerEnds, HandlerReturns, HandlerThrows, IInv, WorkInv
    <3> QED BY <1>0, <2>2, <3>1, ReturnFails, ThrowFails DEF HandlerEnds
  <2>3. ASSUME Dispatch(w, "poll", "handler") PROVE FailInv'
    BY <1>0, <2>3, DispatchFails
  <2>4. ASSUME \/ StopFrom(w, "stop", "exited") \/ StopFrom(w, "spawnStop", "poll")
               \/ StopFrom(w, "handler", "handler")
        PROVE FailInv'
    BY <1>0, <1>8, <2>4
  <2>5. ASSUME RunReturns(w, "poll", "exited") PROVE FailInv'
    BY <1>0, <1>9, <2>5
  <2> QED BY <1>10, <1>14, <2>1, <2>2, <2>3, <2>4, <2>5 DEF WorkerStep, WorkerChoice
<1>15. CASE UNCHANGED vars
  BY <1>0, <1>15, QuietStep DEF vars
<1> QED BY <1>1, <1>13, <1>14, <1>15 DEF Next

LEMMA FailHolds == Spec => [](IInv /\ FailInv)
BY InitInv, StepInv, FailInit, FailStep, PTL DEF Spec

LEMMA OnePlaceOnly ==
  ASSUME NEW S, NEW x \in S, \A y \in S : x = y
  PROVE  Cardinality(S) = 1
<1>1. S = {x}
  OBVIOUS
<1> QED BY <1>1, FS_Singleton

\* The places of an exception, counted.
LEMMA PlacesCounted == IInv /\ FailInv => EachInOnePlace
<1> SUFFICES ASSUME IInv, FailInv, NEW h \in Handlers
             PROVE  IF h \in raised THEN Places(h) = 1 \/ (dtor = "terminated" /\ Places(h) <= 1)
                    ELSE Places(h) = 0
  BY DEF EachInOnePlace
<1> DEFINE F == {t \in Threads : flying[t] = h}
<1>0. /\ h # NoHandler /\ delivered[h] \in Nat
  BY ExecutorAssumption DEF IInv, TypeOK
<1>1. CASE \E t \in Threads : flying[t] = h
  <2>0. PICK t \in F : TRUE
    BY <1>1
  <2>1. Cardinality(F) = 1
    <3>1. \A u \in F : t = u
      BY <1>0, <2>0 DEF FailInv, PlaceInv
    <3> HIDE DEF F
    <3> QED BY <2>0, <3>1, OnePlaceOnly
  <2>2. MemberWorkerFailure # h /\ h \in raised \ dropped /\ delivered[h] = 0
    BY <1>0, <1>1 DEF FailInv, PlaceInv
  <2> QED BY <2>1, <2>2 DEF Places
<1>2. CASE ~\E t \in Threads : flying[t] = h
  <2>1. F = {} /\ Cardinality(F) = 0
    BY <1>2, FS_EmptySet
  <2>2. /\ MemberWorkerFailure = h => h \in raised \ dropped /\ delivered[h] = 0
        /\ h \in dropped => h \in raised
        /\ delivered[h] # 0 => delivered[h] = 1 /\ h \in raised \ dropped
        /\ h \in raised => dtor = "terminated" \/ Placed(h)
    BY <1>0 DEF FailInv, PlaceInv, FoundInv
  <2> QED BY <1>0, <1>2, <2>1, <2>2 DEF Places, Placed
<1> QED BY <1>1, <1>2

(* No exception that escapes from a handler is lost, reported twice or     *)
(* answered by std::terminate once it was reported: RecordWorkerFailure,   *)
(* RethrowWorkerFailure and ~Executor, and a Join inside a drained handler. *)
THEOREM FailuresConserved == Spec => []FailureConserved
<1>1. IInv /\ FailInv => TerminatesOnlyUnreported
  BY DEF FailInv, DestroyInv, Unreported, TerminatesOnlyUnreported
<1> QED
  BY <1>1, PlacesCounted, FailHolds, PTL DEF FailureConserved

-----------------------------------------------------------------------------
(* The executor implements the pool: every step maps to one of WorkerPool's *)
(* or leaves the pool's variables alone.                                   *)
poolPhase == IF MemberState = "Joined" THEN "closed"
             ELSE IF iocStopped THEN "halted" ELSE "open"
poolStarted == {w \in Workers : pc[w] # "none"}
poolLive == {w \in Workers : ~Gone(w)}
poolBusy == {w \in Workers : pc[w] \in {"handler", "joinWait"}}
pool == <<poolPhase, poolStarted, poolLive, poolBusy>>

LEMMA PoolStep == IInv /\ [Next]_vars => [Pool!Next]_pool
<1> SUFFICES ASSUME IInv, [Next]_vars PROVE [Pool!Next]_pool
  OBVIOUS
<1> USE ExecutorAssumption
    DEF IInv, TypeOK, LifecycleInv, CallInv, ThreadInv, Threads, Goto, Gone,
        States, OwnerPCs, WorkerPCs, StartPCs, DrainPCs, Before, lifecycle, threads,
        failures
<1> USE DEF pool, poolPhase, poolStarted, poolLive, poolBusy, Pool!Next, Pool!Start,
        Pool!Take, Pool!Finish, Pool!Halt, Pool!Leave, Pool!Close
<1>1. ASSUME NEW h \in Handlers, Submit(h) PROVE [Pool!Next]_pool
  BY <1>1 DEF Submit
<1>2. ASSUME NEW h \in Handlers, Complete(h) PROVE [Pool!Next]_pool
  BY <1>2 DEF Complete
<1>3. ASSUME NEW o \in Owners, RunClaim(o) PROVE [Pool!Next]_pool
  BY <1>3 DEF RunClaim, CanCall
<1>4. ASSUME NEW o \in Owners, JoinCall(o) PROVE [Pool!Next]_pool
  BY <1>4 DEF JoinCall, CanCall
<1>5. ASSUME NEW o \in Owners, DrainCall(o) PROVE [Pool!Next]_pool
  BY <1>5 DEF DrainCall, CanCall
<1>6. ASSUME NEW o \in Owners, Destroy(o) PROVE [Pool!Next]_pool
  BY <1>6 DEF Destroy, CanCall
<1>7. ASSUME NEW o \in Owners, CanCall(o) /\ StopFrom(o, "idle", "idle") PROVE [Pool!Next]_pool
  BY <1>7 DEF CanCall, StopFrom, StopEffect
<1>8. ASSUME NEW o \in Owners, CreateThread(o) PROVE [Pool!Next]_pool
  BY <1>8 DEF CreateThread
<1>9. ASSUME NEW o \in Owners, CreateFails(o) PROVE [Pool!Next]_pool
  BY <1>9 DEF CreateFails
<1>10. ASSUME NEW o \in Owners, RunPublish(o) PROVE [Pool!Next]_pool
  BY <1>10 DEF RunPublish
<1>11. ASSUME NEW o \in Owners, StopFrom(o, "abortStop", "abortJoin") PROVE [Pool!Next]_pool
  BY <1>11 DEF StopFrom, StopEffect
<1>12. ASSUME NEW o \in Owners, JoinOne(o, "abortJoin", MemberWorkers) PROVE [Pool!Next]_pool
  BY <1>12 DEF JoinOne
<1>13. ASSUME NEW o \in Owners, RunAborted(o) PROVE [Pool!Next]_pool
  BY <1>13 DEF RunAborted
<1>14. ASSUME NEW o \in Owners, StopFrom(o, "dtorStop", "joinWait") PROVE [Pool!Next]_pool
  BY <1>14 DEF StopFrom, StopEffect
<1>15. ASSUME NEW o \in Owners, JoinAlreadyJoined(o) PROVE [Pool!Next]_pool
  BY <1>15 DEF JoinAlreadyJoined
<1>16. ASSUME NEW o \in Owners, JoinRefused(o) PROVE [Pool!Next]_pool
  BY <1>16 DEF JoinRefused
<1>17. ASSUME NEW o \in Owners, JoinClaim(o) PROVE [Pool!Next]_pool
  BY <1>17 DEF JoinClaim
<1>18. ASSUME NEW o \in Owners, JoinOne(o, "joinThreads", joining[o]) PROVE [Pool!Next]_pool
  BY <1>18 DEF JoinOne
<1>19. ASSUME NEW o \in Owners, JoinFinish(o) PROVE [Pool!Next]_pool
  BY <1>19 DEF JoinFinish
<1>20. ASSUME NEW o \in Owners, DrainRestart(o) PROVE [Pool!Next]_pool
  BY <1>20 DEF DrainRestart
<1>21. ASSUME NEW o \in Owners, Dispatch(o, "drainRun", "drainHandler") PROVE [Pool!Next]_pool
  BY <1>21 DEF Dispatch
<1>22. ASSUME NEW o \in Owners, RunReturns(o, "drainRun", "rethrow") PROVE [Pool!Next]_pool
  BY <1>22 DEF RunReturns
<1>23. ASSUME NEW o \in Owners, RecordWorkerFailure(o, "drainRecord", "drainStop") PROVE [Pool!Next]_pool
  BY <1>23 DEF RecordWorkerFailure
<1>24. ASSUME NEW o \in Owners, StopFrom(o, "drainStop", "drainRun") PROVE [Pool!Next]_pool
  BY <1>24 DEF StopFrom, StopEffect
<1>25. ASSUME NEW o \in Owners, RethrowWorkerFailure(o) PROVE [Pool!Next]_pool
  BY <1>25 DEF RethrowWorkerFailure
<1>26. ASSUME NEW o \in Owners, HandlerReturns(o, "drainHandler", "drainRun") PROVE [Pool!Next]_pool
  BY <1>26 DEF HandlerReturns, FinishHandler
<1>27. ASSUME NEW o \in Owners, HandlerThrows(o, "drainHandler", "drainRecord") PROVE [Pool!Next]_pool
  BY <1>27 DEF HandlerThrows, FinishHandler
<1>28. ASSUME NEW o \in Owners, DrainHandlerJoins(o) PROVE [Pool!Next]_pool
  BY <1>28 DEF DrainHandlerJoins, FinishHandler
<1>29. ASSUME NEW w \in Workers, RunReturns(w, "poll", "exited") PROVE [Pool!Next]_pool
  BY <1>29 DEF RunReturns
<1>30. ASSUME NEW w \in Workers, Dispatch(w, "poll", "handler") PROVE [Pool!Next]_pool
  BY <1>30 DEF Dispatch
<1>31. ASSUME NEW w \in Workers, HandlerJoinThrows(w) PROVE [Pool!Next]_pool
  BY <1>31 DEF HandlerJoinThrows
<1>32. ASSUME NEW w \in Workers, RecordWorkerFailure(w, "record", "stop") PROVE [Pool!Next]_pool
  BY <1>32 DEF RecordWorkerFailure
<1>33. ASSUME NEW w \in Workers, StopFrom(w, "stop", "exited") PROVE [Pool!Next]_pool
  BY <1>33 DEF StopFrom, StopEffect
<1>34. ASSUME NEW w \in Workers, RecordWorkerFailure(w, "spawnRecord", "spawnStop") PROVE [Pool!Next]_pool
  BY <1>34 DEF RecordWorkerFailure
<1>35. ASSUME NEW w \in Workers, StopFrom(w, "spawnStop", "poll") PROVE [Pool!Next]_pool
  BY <1>35 DEF StopFrom, StopEffect
<1>36. ASSUME NEW w \in Workers, HandlerCallsJoin(w) PROVE [Pool!Next]_pool
  BY <1>36 DEF HandlerCallsJoin
<1>37. ASSUME NEW w \in Workers, StopFrom(w, "handler", "handler") PROVE [Pool!Next]_pool
  BY <1>37 DEF StopFrom, StopEffect
<1>38. ASSUME NEW w \in Workers, HandlerReturns(w, "handler", "poll") PROVE [Pool!Next]_pool
  BY <1>38 DEF HandlerReturns, FinishHandler
<1>39. ASSUME NEW w \in Workers, HandlerThrows(w, "handler", "record") PROVE [Pool!Next]_pool
  BY <1>39 DEF HandlerThrows, FinishHandler
<1>40. ASSUME NEW w \in Workers, HandlerThrows(w, "handler", "spawnRecord") PROVE [Pool!Next]_pool
  BY <1>40 DEF HandlerThrows, FinishHandler
<1>41. CASE UNCHANGED vars
  BY <1>41 DEF vars
<1> QED
  BY <1>1, <1>2, <1>3, <1>4, <1>5, <1>6, <1>7, <1>8, <1>9, <1>10, <1>11,
     <1>12, <1>13, <1>14, <1>15, <1>16, <1>17, <1>18, <1>19, <1>20, <1>21,
     <1>22, <1>23, <1>24, <1>25, <1>26, <1>27, <1>28, <1>29, <1>30, <1>31,
     <1>32, <1>33, <1>34, <1>35, <1>36, <1>37, <1>38, <1>39, <1>40, <1>41
  DEF Next, OwnerCall, OwnerStep, DrainHandlerEnds, WorkerStep, WorkerChoice,
      HandlerEnds

LEMMA PoolInit == Init => Pool!Init
BY ExecutorAssumption DEF Init, Pool!Init, Threads, Gone

(* Spec implements WorkerPool: no worker leaves before the pool is halted, *)
(* none takes work after Stop, and Joined means that none is left.         *)
THEOREM ImplementsPool == Spec => PoolSpec
<1>1. IInv /\ [Next]_vars => [Pool!Next]_(Pool!poolVars)
  BY PoolStep DEF pool, poolPhase, poolStarted, poolLive, poolBusy, Pool!poolVars
<1> QED
  BY <1>1, PoolInit, InvHolds, PTL DEF Spec, PoolSpec, Pool!Spec

=============================================================================
