---------------------------- MODULE ServerProofs ----------------------------
(***************************************************************************)
(* Proofs about Server, for any finite set of connections, any limit, any  *)
(* owners, calls and injected faults: type correctness, the exact slot     *)
(* counter and the refinement of SlotPool; then how the server stops: a    *)
(* graceful stop abandons nobody, Start and Wait tell the truth, and Wait  *)
(* leaves nothing behind.                                                  *)
(***************************************************************************)
EXTENDS Server, TLAPS, FiniteSetTheorems

LifeTypes ==
  /\ started \in BOOLEAN /\ startComplete \in BOOLEAN /\ startFailure \in BOOLEAN
  /\ runFailure \in BOOLEAN /\ stopping \in BOOLEAN /\ forceStop \in BOOLEAN
  /\ runComplete \in BOOLEAN
  /\ memberAcceptor \in BOOLEAN /\ acceptor \in {"none", "open", "closed"}
  /\ timer \in BOOLEAN /\ timerActive \in BOOLEAN /\ timerCo \in TimerStates

LoopTypes ==
  /\ run \in RunSuspended \cup RunSteps /\ accepted \in Conns \cup {None}
  /\ execLife \in {"Created", "Starting", "Running", "Stopping", "Joining", "Joined"}
  /\ iocStopped \in BOOLEAN

ConnTypes ==
  /\ active \in Int /\ registry \subseteq Conns /\ conn \in [Conns -> ConnStates]
  /\ open \subseteq Conns /\ closeTask \subseteq Conns

Tasks == {"run", "timer", "cancelTimer", "closeAcceptor"}
QueueTypes ==
  /\ strand \in Seq(Tasks)
  /\ todo \in [Actors -> Seq(Ops)]

CallTypes ==
  /\ opc \in [Owners -> OwnerPCs] /\ left \in [Owners -> SUBSET Calls]
  /\ waiter \in Owners \cup {None} /\ starter \in Owners \cup {None}
  /\ startResult \in {"none", "ok", "failed"}
  /\ waitResult \in [Owners -> {"none", "ok", "threw"}] /\ stopAsked \in BOOLEAN

\* TypeOK, except that the counter may be negative.
TypeInv == LifeTypes /\ LoopTypes /\ ConnTypes /\ QueueTypes /\ CallTypes

\* The connection in Run's hands is a new one.
Handing == {"accepted", "check1", "acquire", "check2", "launch"}
AcceptInv ==
  /\ run \in Handing <=> accepted # None
  /\ accepted \in Conns => conn[accepted] = "none"

\* Run is spawned once, by the one owner whose Start has claimed the server.
StartPCs == {"startSpawn", "startExecutor", "startThreads", "startAbort", "startWait"}
SpawnInv ==
  /\ \A o \in Owners : opc[o] \in StartPCs => starter = o
  /\ \A o \in Owners : opc[o] = "startSpawn" => run = "none"
  /\ ~started => run = "none" /\ starter = None

\* A connection gives its slot back while it closes, and only then.
Slotless == Ops \ {"remove", "release"}
CloseInv ==
  \A c \in Conns :
    IF conn[c] = "closing" THEN todo[c] \in {<<"remove", "release">>, <<"release">>}
    ELSE todo[c] \in Seq(Slotless)

\* What every step but those of a closing connection does to conn.
Closings == \A c \in Conns : conn'[c] = "closing" <=> conn[c] = "closing"

CountInv == active = Cardinality(Holding) /\ active <= MaxConnections

\* Inductive: every step of an owner, the strand or a connection keeps it.
IInv == TypeInv /\ AcceptInv /\ SpawnInv /\ CloseInv /\ CountInv

-----------------------------------------------------------------------------
(* Operations.                                                             *)

\* What every step but those of a closing connection does to todo: nothing,
\* work off one operation that leaves the slots alone, or give an owner, Run or
\* the drain timer some to do.
TodoMove ==
  \/ UNCHANGED todo
  \/ \E a \in Actors, ops \in Seq(Slotless) :
       todo[a] # <<>> /\ Head(todo[a]) \in Slotless /\ Then(a, ops)
  \/ \E a \in Actors \ Conns, ops \in Seq(Slotless) : todo' = [todo EXCEPT ![a] = ops]

(* The sequences of operations the handlers of the code leave to do.       *)
LEMMA OpSequences ==
  /\ <<>> \in Seq(Slotless)
  /\ <<"forceStop">> \in Seq(Slotless) /\ <<"maybeFinish">> \in Seq(Slotless)
  /\ <<"markRun">> \in Seq(Slotless) /\ <<"completeTimer">> \in Seq(Slotless)
  /\ <<"spawnTimer">> \in Seq(Slotless) /\ <<"closeAllNow">> \in Seq(Slotless)
  /\ <<"cancelTimer">> \in Seq(Slotless) /\ <<"closeAcceptor">> \in Seq(Slotless)
  /\ <<"cancelTimerNow">> \in Seq(Slotless) /\ <<"closeAcceptorNow">> \in Seq(Slotless)
  /\ <<"execStop">> \in Seq(Slotless)
  /\ <<"closeAll", "maybeFinish">> \in Seq(Slotless)
  /\ <<"completeTimer", "forceStop">> \in Seq(Slotless)
  BY DEF Slotless, Ops

(* A handler that leaves some of them to do only on a condition.           *)
LEMMA IfSequence ==
  ASSUME NEW b, NEW ops \in Seq(Slotless) PROVE If(b, ops) \in Seq(Slotless)
  BY OpSequences DEF If

(* A handler that leaves two of them to do, one after the other.           *)
LEMMA Concatenation ==
  ASSUME NEW s \in Seq(Slotless), NEW t \in Seq(Slotless) PROVE s \o t \in Seq(Slotless)
  OBVIOUS

(* Operations that leave the slots alone are operations.                   *)
LEMMA SlotlessIsOps ==
  ASSUME NEW s \in Seq(Slotless) PROVE s \in Seq(Ops)
<1>1. Slotless \subseteq Ops
  BY DEF Slotless
<1> QED
  BY <1>1

(* Such a move keeps the types, and every connection that is not involved  *)
(* in its own closing keeps to operations that leave the slots alone.      *)
LEMMA TodoTypes ==
  ASSUME todo \in [Actors -> Seq(Ops)], TodoMove
  PROVE  todo' \in [Actors -> Seq(Ops)]
<1>1. CASE UNCHANGED todo
  BY <1>1
<1>2. ASSUME NEW a \in Actors, NEW ops \in Seq(Slotless), todo[a] # <<>>, Then(a, ops)
      PROVE  todo' \in [Actors -> Seq(Ops)]
  <2>1. Tail(todo[a]) \in Seq(Ops) /\ ops \in Seq(Ops)
    BY <1>2, SlotlessIsOps
  <2>2. ops \o Tail(todo[a]) \in Seq(Ops)
    BY <2>1
  <2> QED
    BY <2>2, <1>2 DEF Then
<1>3. ASSUME NEW a \in Actors, NEW ops \in Seq(Slotless),
             todo' = [todo EXCEPT ![a] = ops]
      PROVE  todo' \in [Actors -> Seq(Ops)]
  BY <1>3, SlotlessIsOps
<1> QED
  BY <1>1, <1>2, <1>3 DEF TodoMove

(* Such a move leaves what a closing connection still has to do as it is.  *)
LEMMA TodoCloses ==
  ASSUME todo \in [Actors -> Seq(Ops)], CloseInv, TodoMove,
         Closings
  PROVE  CloseInv'
<1> USE DEF Closings
<1>1. CASE UNCHANGED todo
  BY <1>1 DEF CloseInv
<1>2. ASSUME NEW a \in Actors, NEW ops \in Seq(Slotless), todo[a] # <<>>,
             Head(todo[a]) \in Slotless, Then(a, ops)
      PROVE  CloseInv'
  <2>1. ASSUME NEW c \in Conns, c # a PROVE todo'[c] = todo[c]
    BY <1>2, <2>1 DEF Then, Actors
  <2>2. CASE a \notin Conns
    BY <2>1, <2>2 DEF CloseInv
  <2>3. CASE a \in Conns
    <3>1. conn[a] # "closing"
      BY <1>2, <2>3 DEF CloseInv, Slotless
    <3>2. todo[a] \in Seq(Slotless)
      BY <3>1, <2>3 DEF CloseInv
    <3>3. Tail(todo[a]) \in Seq(Slotless)
      BY <3>2, <1>2
    <3>4. ops \o Tail(todo[a]) \in Seq(Slotless)
      BY <3>3
    <3>5. todo'[a] \in Seq(Slotless)
      BY <3>4, <1>2 DEF Then
    <3> QED
      BY <2>1, <3>1, <3>5 DEF CloseInv
  <2> QED
    BY <2>2, <2>3
<1>3. ASSUME NEW a \in Actors \ Conns, NEW ops \in Seq(Slotless),
             todo' = [todo EXCEPT ![a] = ops]
      PROVE  CloseInv'
  BY <1>3 DEF CloseInv, Actors
<1> QED
  BY <1>1, <1>2, <1>3 DEF TodoMove

(* Working off one operation that leaves the slots alone is such a move.   *)
LEMMA OneOperation ==
  ASSUME NEW a \in Actors, NEW op \in Slotless, NEW ops \in Seq(Slotless),
         Next1(a, op), Then(a, ops)
  PROVE  TodoMove
  BY DEF TodoMove, Next1

(* The operations that leave the slots alone.                              *)
LEMMA Operations ==
  /\ "forceStop" \in Slotless /\ "cancelTimer" \in Slotless
  /\ "closeAcceptor" \in Slotless /\ "closeAll" \in Slotless
  /\ "maybeFinish" \in Slotless /\ "execStop" \in Slotless /\ "markRun" \in Slotless
  /\ "spawnTimer" \in Slotless /\ "completeTimer" \in Slotless
  /\ "closeAcceptorNow" \in Slotless /\ "cancelTimerNow" \in Slotless
  /\ "closeAllNow" \in Slotless
  BY DEF Slotless, Ops

(* What the strand's queue goes through.                                   *)
StrandMove ==
  \E queue \in {strand} \cup (IF strand = <<>> THEN {} ELSE {Tail(strand)}) :
    strand' = queue \/ \E t \in Tasks : strand' = Append(queue, t)

(* So it holds tasks of the strand only.                                   *)
LEMMA StrandTypes ==
  ASSUME strand \in Seq(Tasks), StrandMove PROVE strand' \in Seq(Tasks)
<1>1. ASSUME NEW queue \in Seq(Tasks), NEW t \in Tasks
      PROVE  Append(queue, t) \in Seq(Tasks)
  OBVIOUS
<1>2. strand # <<>> => Tail(strand) \in Seq(Tasks)
  OBVIOUS
<1> QED
  BY <1>1, <1>2 DEF StrandMove

(* The three calls that write most of the flags at once.                   *)
LEMMA LifeSteps ==
  ASSUME LifeTypes, NEW a \in Actors
  PROVE  StartClaim(a) \/ BeginGracefulStop(a) \/ ForceStop(a) => LifeTypes'
<1> USE DEF LifeTypes, TimerStates, life
<1>1. ASSUME StartClaim(a) PROVE LifeTypes'
  BY <1>1, ZenonT(40) DEF StartClaim, listen, drain
<1>2. ASSUME BeginGracefulStop(a) PROVE LifeTypes'
  <2>1. CASE ~started \/ stopping
    BY <1>2, <2>1 DEF BeginGracefulStop, listen
  <2>2. CASE ~(~started \/ stopping)
    <3>1. /\ stopping' = TRUE /\ startComplete' = TRUE
          /\ UNCHANGED <<started, runFailure, forceStop, runComplete>>
          /\ UNCHANGED <<memberAcceptor, acceptor, timerCo>>
      BY <1>2, <2>2 DEF BeginGracefulStop, listen
    <3>2. startFailure' \in BOOLEAN
      BY <1>2, <2>2 DEF BeginGracefulStop
    <3>3. timer' \in BOOLEAN /\ timerActive' \in BOOLEAN
      BY <1>2, <2>2 DEF BeginGracefulStop
    <3> QED
      BY <3>1, <3>2, <3>3
  <2> QED
    BY <2>1, <2>2
<1>3. ASSUME ForceStop(a) PROVE LifeTypes'
  BY <1>3, ZenonT(40) DEF ForceStop, drain
<1> QED
  BY <1>1, <1>2, <1>3

(* Every step keeps the types of everything but the queues.                *)
LEMMA PlainStep ==
  ASSUME TypeInv, AcceptInv, [Next]_vars
  PROVE  LifeTypes' /\ LoopTypes' /\ ConnTypes' /\ CallTypes'
<1> DEFINE Goal == LifeTypes' /\ LoopTypes' /\ ConnTypes' /\ CallTypes'
<1> USE ServerAssumption
    DEF TypeInv, LifeTypes, LoopTypes, ConnTypes, CallTypes, TimerStates, RunSuspended,
        RunSteps, ConnStates, OwnerPCs, life, listen, loop, drain, sockets, exec, calls
<1>1. ASSUME NEW o \in Owners, StartClaim(o) PROVE Goal
  <2> USE <1>1 DEF StartClaim, Call, At, Goto
  <2>1. LifeTypes'
    BY LifeSteps DEF Actors
  <2>2. LoopTypes' /\ ConnTypes'
    OBVIOUS
  <2>3. CallTypes'
    OBVIOUS
  <2> QED
    BY <2>1, <2>2, <2>3
<1>2. ASSUME NEW o \in Owners, WaitCall(o) PROVE Goal
  BY <1>2 DEF WaitCall, Call, At, Goto
<1>3. ASSUME NEW o \in Owners, BeginGracefulStop(o) PROVE Goal
  <2> USE <1>3 DEF BeginGracefulStop, Call, At, Goto, If
  <2>1. LifeTypes'
    BY ONLY <1>3, LifeSteps, TypeInv DEF TypeInv, Actors
  <2>2. LoopTypes' /\ ConnTypes'
    OBVIOUS
  <2>3. CallTypes'
    OBVIOUS
  <2> QED
    BY <2>1, <2>2, <2>3
<1>4. ASSUME NEW o \in Owners, ForceStopCall(o) PROVE Goal
  BY <1>4 DEF ForceStopCall, Call, At, Goto
<1>5. ASSUME NEW o \in Owners, CleanUpNow(o) PROVE Goal
  BY <1>5 DEF CleanUpNow, Next1, Then, CloseListener, CancelWait, Aborted
<1>6. ASSUME NEW o \in Owners, StartSpawn(o) PROVE Goal
  BY <1>6 DEF StartSpawn, At, Goto, StartFails
<1>7. ASSUME NEW o \in Owners, StartExecutor(o) PROVE Goal
  BY <1>7 DEF StartExecutor, At, Goto, StartFails
<1>8. ASSUME NEW o \in Owners, StartThreads(o) PROVE Goal
  <2> USE <1>8 DEF StartThreads, At, Goto
  <2>1. LifeTypes'
    OBVIOUS
  <2>2. LoopTypes' /\ ConnTypes'
    OBVIOUS
  <2>3. CallTypes'
    OBVIOUS
  <2> QED
    BY <2>1, <2>2, <2>3
<1>9. ASSUME NEW o \in Owners, StartAbort(o) PROVE Goal
  BY <1>9 DEF StartAbort, At, Goto, StartFails
<1>10. ASSUME NEW o \in Owners, StartWait(o) PROVE Goal
  BY <1>10 DEF StartWait, At, Goto, StartFails
<1>11. ASSUME NEW o \in Owners, WaitLock(o) PROVE Goal
  BY <1>11 DEF WaitLock, At, Goto
<1>12. ASSUME NEW o \in Owners, WaitStart(o) PROVE Goal
  BY <1>12 DEF WaitStart, At, Goto
<1>13. ASSUME NEW o \in Owners, WaitJoin(o) PROVE Goal
  BY <1>13 DEF WaitJoin, At, Goto
<1>14. ASSUME NEW o \in Owners, WaitThreads(o) PROVE Goal
  BY <1>14 DEF WaitThreads, At, Goto
<1>15. ASSUME NEW o \in Owners, WaitMark(o) PROVE Goal
  <2> USE <1>15 DEF WaitMark, At, Goto, If
  <2>1. LifeTypes'
    BY ZenonT(30)
  <2>2. LoopTypes' /\ ConnTypes'
    OBVIOUS
  <2>3. CallTypes'
    OBVIOUS
  <2> QED
    BY <2>1, <2>2, <2>3
<1>16. ASSUME NEW o \in Owners, WaitDrain(o) PROVE Goal
  <2> USE <1>16 DEF WaitDrain, At, Goto
  <2>1. LifeTypes'
    OBVIOUS
  <2>2. LoopTypes' /\ ConnTypes'
    OBVIOUS
  <2>3. CallTypes'
    OBVIOUS
  <2> QED
    BY <2>1, <2>2, <2>3
<1>17. ASSUME NEW o \in Owners, WaitDone(o) PROVE Goal
  BY <1>17 DEF WaitDone, At, Goto
<1>18. ASSUME NEW a \in Actors, ForceStop(a) PROVE Goal
  <2> USE <1>18 DEF ForceStop, Next1, Then, If
  <2>1. LifeTypes'
    BY LifeSteps DEF Actors
  <2>2. LoopTypes' /\ ConnTypes'
    OBVIOUS
  <2>3. CallTypes'
    OBVIOUS
  <2> QED
    BY <2>1, <2>2, <2>3
<1>19. ASSUME NEW a \in Actors, CancelDrainTimer(a) PROVE Goal
  BY <1>19 DEF CancelDrainTimer, Next1, Then, CancelWait
<1>20. ASSUME NEW a \in Actors, CloseAcceptor(a) PROVE Goal
  BY <1>20 DEF CloseAcceptor, Next1, Then, CloseListener
<1>21. ASSUME NEW a \in Actors, CloseAll(a) PROVE Goal
  BY <1>21 DEF CloseAll, Next1, Then
<1>22. ASSUME NEW a \in Actors, MaybeFinishGracefulStop(a) PROVE Goal
  BY <1>22 DEF MaybeFinishGracefulStop, Next1, Then, If
<1>23. ASSUME NEW a \in Actors, ExecutorStop(a) PROVE Goal
  <2> USE <1>23 DEF ExecutorStop, Next1, Then
  <2>1. LifeTypes'
    OBVIOUS
  <2>2. LoopTypes' /\ ConnTypes'
    OBVIOUS
  <2>3. CallTypes'
    OBVIOUS
  <2> QED
    BY <2>1, <2>2, <2>3
<1>24. ASSUME NEW a \in Actors, MarkRunComplete(a) PROVE Goal
  BY <1>24 DEF MarkRunComplete, Next1, Then
<1>25. ASSUME NEW a \in Actors, CompleteDrainTimer(a) PROVE Goal
  <2> USE <1>25 DEF CompleteDrainTimer, Next1, Then
  <2>1. LifeTypes'
    BY ZenonT(40)
  <2>2. LoopTypes' /\ ConnTypes'
    OBVIOUS
  <2>3. CallTypes'
    OBVIOUS
  <2> QED
    BY <2>1, <2>2, <2>3
<1>26. ASSUME NEW a \in Actors, SpawnDrainTimer(a) PROVE Goal
  BY <1>26 DEF SpawnDrainTimer, Next1, Then
<1>27. ASSUME StrandTask PROVE Goal
  BY <1>27 DEF StrandTask, Head1, CancelWait, CloseListener
<1>28. ASSUME RunResume PROVE Goal
  BY <1>28 DEF RunResume, Head1, RunEnds
<1>29. ASSUME RunPublish PROVE Goal
  <2> USE <1>29 DEF RunPublish
  <2>1. LifeTypes'
    BY ZenonT(40)
  <2>2. LoopTypes' /\ ConnTypes'
    OBVIOUS
  <2>3. CallTypes'
    OBVIOUS
  <2> QED
    BY <2>1, <2>2, <2>3
<1>30. ASSUME RunCheckStartup PROVE Goal
  BY <1>30 DEF RunCheckStartup, RunEnds
<1>31. ASSUME RunCheckError PROVE Goal
  BY <1>31 DEF RunCheckError, RunEnds
<1>32. ASSUME RunCheckStopping PROVE Goal
  BY <1>32 DEF RunCheckStopping, RunEnds, Refuse
<1>33. ASSUME TryAcquireConnection PROVE Goal
  BY <1>33 DEF TryAcquireConnection, Refuse
<1>34. ASSUME RunCheckAdmitted PROVE Goal
  BY <1>34 DEF RunCheckAdmitted, RunEnds, Refuse
<1>35. ASSUME LaunchConnection PROVE Goal
  <2> USE <1>35 DEF LaunchConnection, Refuse
  <2>1. LifeTypes'
    OBVIOUS
  <2>2. LoopTypes' /\ ConnTypes'
    <3>1. accepted \in Conns
      BY DEF AcceptInv, Handing
    <3> QED
      BY <3>1
  <2>3. CallTypes'
    OBVIOUS
  <2> QED
    BY <2>1, <2>2, <2>3
<1>36. ASSUME RunFails PROVE Goal
  <2> USE <1>36 DEF RunFails, If
  <2>1. LifeTypes'
    OBVIOUS
  <2>2. LoopTypes' /\ ConnTypes'
    OBVIOUS
  <2>3. CallTypes'
    OBVIOUS
  <2> QED
    BY <2>1, <2>2, <2>3
<1>37. ASSUME TimerResume PROVE Goal
  BY <1>37 DEF TimerResume, Head1, If
<1>38. ASSUME AcceptCompletes PROVE Goal
  BY <1>38 DEF AcceptCompletes
<1>39. ASSUME TimerExpires PROVE Goal
  BY <1>39 DEF TimerExpires
<1>40. ASSUME NEW c \in Conns, RemoveConnection(c) PROVE Goal
  BY <1>40 DEF RemoveConnection, Next1, Then
<1>41. ASSUME NEW c \in Conns, ReleaseConnection(c) PROVE Goal
  BY <1>41 DEF ReleaseConnection, Next1, Then
<1>42. ASSUME NEW c \in Conns, ConnResume(c) PROVE Goal
  BY <1>42 DEF ConnResume, Frame
<1>43. ASSUME NEW c \in Conns, ConnClose(c) PROVE Goal
  BY <1>43 DEF ConnClose, Frame
<1>44. ASSUME NEW c \in Conns, CloseConnection(c) PROVE Goal
  BY <1>44 DEF CloseConnection, Frame, Aborted
<1>45. ASSUME NEW c \in Conns, IoEnds(c) PROVE Goal
  BY <1>45 DEF IoEnds, Frame
<1>46. ASSUME NEW c \in Conns, HandlerEnds(c) PROVE Goal
  BY <1>46 DEF HandlerEnds, Frame
<1>47. CASE UNCHANGED vars
  BY <1>47 DEF vars
<1> QED
  BY <1>1, <1>2, <1>3, <1>4, <1>5, <1>6, <1>7, <1>8, <1>9, <1>10, <1>11, <1>12,
     <1>13, <1>14, <1>15, <1>16, <1>17, <1>18, <1>19, <1>20, <1>21, <1>22, <1>23,
     <1>24, <1>25, <1>26, <1>27, <1>28, <1>29, <1>30, <1>31, <1>32, <1>33, <1>34,
     <1>35, <1>36, <1>37, <1>38, <1>39, <1>40, <1>41, <1>42, <1>43, <1>44, <1>45,
     <1>46, <1>47
     DEF Next, OwnerCall, OwnerStep, StrandStep, ConnStep, Operation, Actors

(* The accept strand's queue is only appended to and worked off.           *)
LEMMA StrandMoves ==
  ASSUME [Next]_vars PROVE StrandMove
<1> USE DEF StrandMove, Tasks, sockets, exec, calls
<1>1. ASSUME NEW o \in Owners, StartClaim(o) PROVE StrandMove
  BY <1>1 DEF StartClaim, Call, At, Goto
<1>2. ASSUME NEW o \in Owners, WaitCall(o) PROVE StrandMove
  BY <1>2 DEF WaitCall, Call, At, Goto
<1>3. ASSUME NEW o \in Owners, BeginGracefulStop(o) PROVE StrandMove
  BY <1>3 DEF BeginGracefulStop, Call, At, Goto, If
<1>4. ASSUME NEW o \in Owners, ForceStopCall(o) PROVE StrandMove
  BY <1>4 DEF ForceStopCall, Call, At, Goto
<1>5. ASSUME NEW o \in Owners, CleanUpNow(o) PROVE StrandMove
  BY <1>5 DEF CleanUpNow, Next1, Then, CloseListener, CancelWait, Aborted
<1>6. ASSUME NEW o \in Owners, StartSpawn(o) PROVE StrandMove
  BY <1>6 DEF StartSpawn, At, Goto, StartFails
<1>7. ASSUME NEW o \in Owners, StartExecutor(o) PROVE StrandMove
  BY <1>7 DEF StartExecutor, At, Goto, StartFails
<1>8. ASSUME NEW o \in Owners, StartThreads(o) PROVE StrandMove
  BY <1>8 DEF StartThreads, At, Goto
<1>9. ASSUME NEW o \in Owners, StartAbort(o) PROVE StrandMove
  BY <1>9 DEF StartAbort, At, Goto, StartFails
<1>10. ASSUME NEW o \in Owners, StartWait(o) PROVE StrandMove
  BY <1>10 DEF StartWait, At, Goto, StartFails
<1>11. ASSUME NEW o \in Owners, WaitLock(o) PROVE StrandMove
  BY <1>11 DEF WaitLock, At, Goto
<1>12. ASSUME NEW o \in Owners, WaitStart(o) PROVE StrandMove
  BY <1>12 DEF WaitStart, At, Goto
<1>13. ASSUME NEW o \in Owners, WaitJoin(o) PROVE StrandMove
  BY <1>13 DEF WaitJoin, At, Goto
<1>14. ASSUME NEW o \in Owners, WaitThreads(o) PROVE StrandMove
  BY <1>14 DEF WaitThreads, At, Goto
<1>15. ASSUME NEW o \in Owners, WaitMark(o) PROVE StrandMove
  BY <1>15 DEF WaitMark, At, Goto, If
<1>16. ASSUME NEW o \in Owners, WaitDrain(o) PROVE StrandMove
  BY <1>16 DEF WaitDrain, At, Goto
<1>17. ASSUME NEW o \in Owners, WaitDone(o) PROVE StrandMove
  BY <1>17 DEF WaitDone, At, Goto
<1>18. ASSUME NEW a \in Actors, ForceStop(a) PROVE StrandMove
  BY <1>18 DEF ForceStop, Next1, Then, If
<1>19. ASSUME NEW a \in Actors, CancelDrainTimer(a) PROVE StrandMove
  BY <1>19 DEF CancelDrainTimer, Next1, Then, CancelWait
<1>20. ASSUME NEW a \in Actors, CloseAcceptor(a) PROVE StrandMove
  BY <1>20 DEF CloseAcceptor, Next1, Then, CloseListener
<1>21. ASSUME NEW a \in Actors, CloseAll(a) PROVE StrandMove
  BY <1>21 DEF CloseAll, Next1, Then
<1>22. ASSUME NEW a \in Actors, MaybeFinishGracefulStop(a) PROVE StrandMove
  BY <1>22 DEF MaybeFinishGracefulStop, Next1, Then, If
<1>23. ASSUME NEW a \in Actors, ExecutorStop(a) PROVE StrandMove
  BY <1>23 DEF ExecutorStop, Next1, Then
<1>24. ASSUME NEW a \in Actors, MarkRunComplete(a) PROVE StrandMove
  BY <1>24 DEF MarkRunComplete, Next1, Then
<1>25. ASSUME NEW a \in Actors, CompleteDrainTimer(a) PROVE StrandMove
  BY <1>25 DEF CompleteDrainTimer, Next1, Then
<1>26. ASSUME NEW a \in Actors, SpawnDrainTimer(a) PROVE StrandMove
  BY <1>26 DEF SpawnDrainTimer, Next1, Then
<1>27. ASSUME StrandTask PROVE StrandMove
  BY <1>27 DEF StrandTask, Head1, CancelWait, CloseListener
<1>28. ASSUME RunResume PROVE StrandMove
  BY <1>28 DEF RunResume, Head1, RunEnds
<1>29. ASSUME RunPublish PROVE StrandMove
  BY <1>29 DEF RunPublish
<1>30. ASSUME RunCheckStartup PROVE StrandMove
  BY <1>30 DEF RunCheckStartup, RunEnds
<1>31. ASSUME RunCheckError PROVE StrandMove
  BY <1>31 DEF RunCheckError, RunEnds
<1>32. ASSUME RunCheckStopping PROVE StrandMove
  BY <1>32 DEF RunCheckStopping, RunEnds, Refuse
<1>33. ASSUME TryAcquireConnection PROVE StrandMove
  BY <1>33 DEF TryAcquireConnection, Refuse
<1>34. ASSUME RunCheckAdmitted PROVE StrandMove
  BY <1>34 DEF RunCheckAdmitted, RunEnds, Refuse
<1>35. ASSUME LaunchConnection PROVE StrandMove
  BY <1>35 DEF LaunchConnection, Refuse
<1>36. ASSUME RunFails PROVE StrandMove
  BY <1>36 DEF RunFails, If
<1>37. ASSUME TimerResume PROVE StrandMove
  BY <1>37 DEF TimerResume, Head1, If
<1>38. ASSUME AcceptCompletes PROVE StrandMove
  BY <1>38 DEF AcceptCompletes
<1>39. ASSUME TimerExpires PROVE StrandMove
  BY <1>39 DEF TimerExpires
<1>40. ASSUME NEW c \in Conns, RemoveConnection(c) PROVE StrandMove
  BY <1>40 DEF RemoveConnection, Next1, Then
<1>41. ASSUME NEW c \in Conns, ReleaseConnection(c) PROVE StrandMove
  BY <1>41 DEF ReleaseConnection, Next1, Then
<1>42. ASSUME NEW c \in Conns, ConnResume(c) PROVE StrandMove
  BY <1>42 DEF ConnResume, Frame
<1>43. ASSUME NEW c \in Conns, ConnClose(c) PROVE StrandMove
  BY <1>43 DEF ConnClose, Frame
<1>44. ASSUME NEW c \in Conns, CloseConnection(c) PROVE StrandMove
  BY <1>44 DEF CloseConnection, Frame, Aborted
<1>45. ASSUME NEW c \in Conns, IoEnds(c) PROVE StrandMove
  BY <1>45 DEF IoEnds, Frame
<1>46. ASSUME NEW c \in Conns, HandlerEnds(c) PROVE StrandMove
  BY <1>46 DEF HandlerEnds, Frame
<1>47. CASE UNCHANGED vars
  BY <1>47 DEF vars
<1> QED
  BY <1>1, <1>2, <1>3, <1>4, <1>5, <1>6, <1>7, <1>8, <1>9, <1>10, <1>11, <1>12,
     <1>13, <1>14, <1>15, <1>16, <1>17, <1>18, <1>19, <1>20, <1>21, <1>22, <1>23,
     <1>24, <1>25, <1>26, <1>27, <1>28, <1>29, <1>30, <1>31, <1>32, <1>33, <1>34,
     <1>35, <1>36, <1>37, <1>38, <1>39, <1>40, <1>41, <1>42, <1>43, <1>44, <1>45,
     <1>46, <1>47
     DEF Next, OwnerCall, OwnerStep, StrandStep, ConnStep, Operation, Actors

(* Outside a closing connection todo only moves as TodoMove says.           *)
LEMMA TodoMoves ==
  ASSUME [Next]_vars
  PROVE  \/ TodoMove
         \/ \E c \in Conns : RemoveConnection(c) \/ ReleaseConnection(c) \/ ConnClose(c)
<1> USE ServerAssumption DEF Actors
<1>1. ASSUME NEW o \in Owners, StartClaim(o) PROVE TodoMove
  BY <1>1 DEF StartClaim, Call, At, Goto, TodoMove
<1>2. ASSUME NEW o \in Owners, WaitCall(o) PROVE TodoMove
  BY <1>2 DEF WaitCall, Call, At, Goto, TodoMove
<1>3. ASSUME NEW o \in Owners, BeginGracefulStop(o) PROVE TodoMove
  BY <1>3, OpSequences, IfSequence, Concatenation
     DEF BeginGracefulStop, Call, At, Goto, TodoMove
<1>4. ASSUME NEW o \in Owners, ForceStopCall(o) PROVE TodoMove
  BY <1>4, OpSequences DEF ForceStopCall, Call, At, Goto, TodoMove
<1>5. ASSUME NEW o \in Owners, CleanUpNow(o) PROVE TodoMove
  BY <1>5, OneOperation, Operations, OpSequences
     DEF CleanUpNow, CloseListener, CancelWait, Aborted
<1>6. ASSUME NEW o \in Owners, StartSpawn(o) PROVE TodoMove
  BY <1>6, OpSequences DEF StartSpawn, At, Goto, StartFails, TodoMove
<1>7. ASSUME NEW o \in Owners, StartExecutor(o) PROVE TodoMove
  BY <1>7, OpSequences DEF StartExecutor, At, Goto, StartFails, TodoMove
<1>8. ASSUME NEW o \in Owners, StartThreads(o) PROVE TodoMove
  BY <1>8 DEF StartThreads, At, Goto, TodoMove
<1>9. ASSUME NEW o \in Owners, StartAbort(o) PROVE TodoMove
  BY <1>9, OpSequences DEF StartAbort, At, Goto, StartFails, TodoMove
<1>10. ASSUME NEW o \in Owners, StartWait(o) PROVE TodoMove
  BY <1>10, OpSequences DEF StartWait, At, Goto, StartFails, TodoMove
<1>11. ASSUME NEW o \in Owners, WaitLock(o) PROVE TodoMove
  BY <1>11 DEF WaitLock, At, Goto, TodoMove
<1>12. ASSUME NEW o \in Owners, WaitStart(o) PROVE TodoMove
  BY <1>12 DEF WaitStart, At, Goto, TodoMove
<1>13. ASSUME NEW o \in Owners, WaitJoin(o) PROVE TodoMove
  BY <1>13 DEF WaitJoin, At, Goto, TodoMove
<1>14. ASSUME NEW o \in Owners, WaitThreads(o) PROVE TodoMove
  BY <1>14 DEF WaitThreads, At, Goto, TodoMove
<1>15. ASSUME NEW o \in Owners, WaitMark(o) PROVE TodoMove
  BY <1>15, OpSequences, IfSequence, Concatenation DEF WaitMark, At, Goto, TodoMove
<1>16. ASSUME NEW o \in Owners, WaitDrain(o) PROVE TodoMove
  BY <1>16 DEF WaitDrain, At, Goto, TodoMove
<1>17. ASSUME NEW o \in Owners, WaitDone(o) PROVE TodoMove
  BY <1>17 DEF WaitDone, At, Goto, TodoMove
<1>18. ASSUME NEW a \in Actors, ForceStop(a) PROVE TodoMove
  BY <1>18, OneOperation, Operations, OpSequences, IfSequence, Concatenation
     DEF ForceStop
<1>19. ASSUME NEW a \in Actors, CancelDrainTimer(a) PROVE TodoMove
  BY <1>19, OneOperation, Operations, OpSequences DEF CancelDrainTimer, CancelWait
<1>20. ASSUME NEW a \in Actors, CloseAcceptor(a) PROVE TodoMove
  BY <1>20, OneOperation, Operations, OpSequences DEF CloseAcceptor, CloseListener
<1>21. ASSUME NEW a \in Actors, CloseAll(a) PROVE TodoMove
  BY <1>21, OneOperation, Operations, OpSequences DEF CloseAll
<1>22. ASSUME NEW a \in Actors, MaybeFinishGracefulStop(a) PROVE TodoMove
  BY <1>22, OneOperation, Operations, OpSequences, IfSequence, Concatenation
     DEF MaybeFinishGracefulStop
<1>23. ASSUME NEW a \in Actors, ExecutorStop(a) PROVE TodoMove
  BY <1>23, OneOperation, Operations, OpSequences DEF ExecutorStop
<1>24. ASSUME NEW a \in Actors, MarkRunComplete(a) PROVE TodoMove
  BY <1>24, OneOperation, Operations, OpSequences DEF MarkRunComplete
<1>25. ASSUME NEW a \in Actors, CompleteDrainTimer(a) PROVE TodoMove
  BY <1>25, OneOperation, Operations, OpSequences DEF CompleteDrainTimer
<1>26. ASSUME NEW a \in Actors, SpawnDrainTimer(a) PROVE TodoMove
  BY <1>26, OneOperation, Operations, OpSequences DEF SpawnDrainTimer
<1>27. ASSUME StrandTask PROVE TodoMove
  BY <1>27 DEF StrandTask, Head1, CancelWait, CloseListener, TodoMove
<1>28. ASSUME RunResume PROVE TodoMove
  BY <1>28, OpSequences DEF RunResume, Head1, RunEnds, TodoMove
<1>29. ASSUME RunPublish PROVE TodoMove
  BY <1>29 DEF RunPublish, TodoMove
<1>30. ASSUME RunCheckStartup PROVE TodoMove
  BY <1>30, OpSequences DEF RunCheckStartup, RunEnds, TodoMove
<1>31. ASSUME RunCheckError PROVE TodoMove
  BY <1>31, OpSequences DEF RunCheckError, RunEnds, TodoMove
<1>32. ASSUME RunCheckStopping PROVE TodoMove
  BY <1>32, OpSequences DEF RunCheckStopping, RunEnds, Refuse, TodoMove
<1>33. ASSUME TryAcquireConnection PROVE TodoMove
  BY <1>33 DEF TryAcquireConnection, Refuse, TodoMove
<1>34. ASSUME RunCheckAdmitted PROVE TodoMove
  BY <1>34, OpSequences DEF RunCheckAdmitted, RunEnds, Refuse, TodoMove
<1>35. ASSUME LaunchConnection PROVE TodoMove
  BY <1>35 DEF LaunchConnection, Refuse, TodoMove
<1>36. ASSUME RunFails PROVE TodoMove
  BY <1>36, OpSequences, IfSequence, Concatenation DEF RunFails, TodoMove
<1>37. ASSUME TimerResume PROVE TodoMove
  BY <1>37, OpSequences, IfSequence, Concatenation DEF TimerResume, Head1, TodoMove
<1>38. ASSUME AcceptCompletes PROVE TodoMove
  BY <1>38 DEF AcceptCompletes, TodoMove
<1>39. ASSUME TimerExpires PROVE TodoMove
  BY <1>39 DEF TimerExpires, TodoMove
<1>40. ASSUME NEW c \in Conns, ConnResume(c) PROVE TodoMove
  BY <1>40 DEF ConnResume, Frame, TodoMove
<1>41. ASSUME NEW c \in Conns, CloseConnection(c) PROVE TodoMove
  BY <1>41 DEF CloseConnection, Frame, Aborted, TodoMove
<1>42. ASSUME NEW c \in Conns, IoEnds(c) PROVE TodoMove
  BY <1>42 DEF IoEnds, Frame, TodoMove
<1>43. ASSUME NEW c \in Conns, HandlerEnds(c) PROVE TodoMove
  BY <1>43 DEF HandlerEnds, Frame, TodoMove
<1>44. CASE UNCHANGED vars
  BY <1>44 DEF vars, TodoMove
<1> QED
  BY <1>1, <1>2, <1>3, <1>4, <1>5, <1>6, <1>7, <1>8, <1>9, <1>10, <1>11, <1>12,
     <1>13, <1>14, <1>15, <1>16, <1>17, <1>18, <1>19, <1>20, <1>21, <1>22, <1>23,
     <1>24, <1>25, <1>26, <1>27, <1>28, <1>29, <1>30, <1>31, <1>32, <1>33, <1>34,
     <1>35, <1>36, <1>37, <1>38, <1>39, <1>40, <1>41, <1>42, <1>43, <1>44
     DEF Next, OwnerCall, OwnerStep, StrandStep, ConnStep, Operation, Actors

(* Only ConnClose begins a closing and only ReleaseConnection ends one.    *)
LEMMA ClosingStep ==
  ASSUME TypeInv, AcceptInv, [Next]_vars
  PROVE  \/ Closings
         \/ \E c \in Conns : ReleaseConnection(c) \/ ConnClose(c)
<1> USE ServerAssumption
    DEF TypeInv, LoopTypes, ConnTypes, AcceptInv, Handing, ConnStates, Closings
<1>1. ASSUME NEW o \in Owners, StartClaim(o) PROVE Closings
  BY <1>1 DEF StartClaim, Call, At, Goto
<1>2. ASSUME NEW o \in Owners, WaitCall(o) PROVE Closings
  BY <1>2 DEF WaitCall, Call, At, Goto
<1>3. ASSUME NEW o \in Owners, BeginGracefulStop(o) PROVE Closings
  BY <1>3 DEF BeginGracefulStop, Call, At, Goto, If
<1>4. ASSUME NEW o \in Owners, ForceStopCall(o) PROVE Closings
  BY <1>4 DEF ForceStopCall, Call, At, Goto
<1>5. ASSUME NEW o \in Owners, CleanUpNow(o) PROVE Closings
  BY <1>5 DEF CleanUpNow, Next1, Then, CloseListener, CancelWait, Aborted
<1>6. ASSUME NEW o \in Owners, StartSpawn(o) PROVE Closings
  BY <1>6 DEF StartSpawn, At, Goto, StartFails
<1>7. ASSUME NEW o \in Owners, StartExecutor(o) PROVE Closings
  BY <1>7 DEF StartExecutor, At, Goto, StartFails
<1>8. ASSUME NEW o \in Owners, StartThreads(o) PROVE Closings
  BY <1>8 DEF StartThreads, At, Goto
<1>9. ASSUME NEW o \in Owners, StartAbort(o) PROVE Closings
  BY <1>9 DEF StartAbort, At, Goto, StartFails
<1>10. ASSUME NEW o \in Owners, StartWait(o) PROVE Closings
  BY <1>10 DEF StartWait, At, Goto, StartFails
<1>11. ASSUME NEW o \in Owners, WaitLock(o) PROVE Closings
  BY <1>11 DEF WaitLock, At, Goto
<1>12. ASSUME NEW o \in Owners, WaitStart(o) PROVE Closings
  BY <1>12 DEF WaitStart, At, Goto
<1>13. ASSUME NEW o \in Owners, WaitJoin(o) PROVE Closings
  BY <1>13 DEF WaitJoin, At, Goto
<1>14. ASSUME NEW o \in Owners, WaitThreads(o) PROVE Closings
  BY <1>14 DEF WaitThreads, At, Goto
<1>15. ASSUME NEW o \in Owners, WaitMark(o) PROVE Closings
  BY <1>15 DEF WaitMark, At, Goto, If
<1>16. ASSUME NEW o \in Owners, WaitDrain(o) PROVE Closings
  BY <1>16 DEF WaitDrain, At, Goto
<1>17. ASSUME NEW o \in Owners, WaitDone(o) PROVE Closings
  BY <1>17 DEF WaitDone, At, Goto
<1>18. ASSUME NEW a \in Actors, ForceStop(a) PROVE Closings
  BY <1>18 DEF ForceStop, Next1, Then, If
<1>19. ASSUME NEW a \in Actors, CancelDrainTimer(a) PROVE Closings
  BY <1>19 DEF CancelDrainTimer, Next1, Then, CancelWait
<1>20. ASSUME NEW a \in Actors, CloseAcceptor(a) PROVE Closings
  BY <1>20 DEF CloseAcceptor, Next1, Then, CloseListener
<1>21. ASSUME NEW a \in Actors, CloseAll(a) PROVE Closings
  BY <1>21 DEF CloseAll, Next1, Then
<1>22. ASSUME NEW a \in Actors, MaybeFinishGracefulStop(a) PROVE Closings
  BY <1>22 DEF MaybeFinishGracefulStop, Next1, Then, If
<1>23. ASSUME NEW a \in Actors, ExecutorStop(a) PROVE Closings
  BY <1>23 DEF ExecutorStop, Next1, Then
<1>24. ASSUME NEW a \in Actors, MarkRunComplete(a) PROVE Closings
  BY <1>24 DEF MarkRunComplete, Next1, Then
<1>25. ASSUME NEW a \in Actors, CompleteDrainTimer(a) PROVE Closings
  BY <1>25 DEF CompleteDrainTimer, Next1, Then
<1>26. ASSUME NEW a \in Actors, SpawnDrainTimer(a) PROVE Closings
  BY <1>26 DEF SpawnDrainTimer, Next1, Then
<1>27. ASSUME StrandTask PROVE Closings
  BY <1>27 DEF StrandTask, Head1, CancelWait, CloseListener
<1>28. ASSUME RunResume PROVE Closings
  BY <1>28 DEF RunResume, Head1, RunEnds
<1>29. ASSUME RunPublish PROVE Closings
  BY <1>29 DEF RunPublish
<1>30. ASSUME RunCheckStartup PROVE Closings
  BY <1>30 DEF RunCheckStartup, RunEnds
<1>31. ASSUME RunCheckError PROVE Closings
  BY <1>31 DEF RunCheckError, RunEnds
<1>32. ASSUME RunCheckStopping PROVE Closings
  BY <1>32 DEF RunCheckStopping, RunEnds, Refuse
<1>33. ASSUME TryAcquireConnection PROVE Closings
  BY <1>33 DEF TryAcquireConnection, Refuse
<1>34. ASSUME RunCheckAdmitted PROVE Closings
  BY <1>34 DEF RunCheckAdmitted, RunEnds, Refuse
<1>35. ASSUME LaunchConnection PROVE Closings
  BY <1>35 DEF LaunchConnection, Refuse
<1>36. ASSUME RunFails PROVE Closings
  BY <1>36 DEF RunFails, If
<1>37. ASSUME TimerResume PROVE Closings
  BY <1>37 DEF TimerResume, Head1, If
<1>38. ASSUME AcceptCompletes PROVE Closings
  BY <1>38 DEF AcceptCompletes
<1>39. ASSUME TimerExpires PROVE Closings
  BY <1>39 DEF TimerExpires
<1>40. ASSUME NEW c \in Conns, RemoveConnection(c) PROVE Closings
  BY <1>40 DEF RemoveConnection, Next1, Then
<1>41. ASSUME NEW c \in Conns, ConnResume(c) PROVE Closings
  BY <1>41 DEF ConnResume, Frame
<1>42. ASSUME NEW c \in Conns, CloseConnection(c) PROVE Closings
  BY <1>42 DEF CloseConnection, Frame, Aborted
<1>43. ASSUME NEW c \in Conns, IoEnds(c) PROVE Closings
  BY <1>43 DEF IoEnds, Frame
<1>44. ASSUME NEW c \in Conns, HandlerEnds(c) PROVE Closings
  BY <1>44 DEF HandlerEnds, Frame
<1>45. CASE UNCHANGED vars
  BY <1>45 DEF vars
<1> QED
  BY <1>1, <1>2, <1>3, <1>4, <1>5, <1>6, <1>7, <1>8, <1>9, <1>10, <1>11, <1>12,
     <1>13, <1>14, <1>15, <1>16, <1>17, <1>18, <1>19, <1>20, <1>21, <1>22, <1>23,
     <1>24, <1>25, <1>26, <1>27, <1>28, <1>29, <1>30, <1>31, <1>32, <1>33, <1>34,
     <1>35, <1>36, <1>37, <1>38, <1>39, <1>40, <1>41, <1>42, <1>43, <1>44, <1>45
     DEF Next, OwnerCall, OwnerStep, StrandStep, ConnStep, Operation, Actors


(* An operation that gives back what a connection holds belongs to a       *)
(* closing one.                                                            *)
LEMMA CloserCloses ==
  ASSUME CloseInv, NEW c \in Conns, todo[c] # <<>>, Head(todo[c]) \in {"remove", "release"}
  PROVE  conn[c] = "closing"
<1>1. ASSUME conn[c] # "closing" PROVE Head(todo[c]) \in Slotless
  <2>1. todo[c] \in Seq(Slotless)
    BY <1>1 DEF CloseInv
  <2> QED
    BY <2>1
<1> QED
  BY <1>1 DEF Slotless

(* Only a closing connection gives its slot back.                          *)
LEMMA ReleaseCloses ==
  ASSUME CloseInv, NEW c \in Conns, ReleaseConnection(c) PROVE conn[c] = "closing"
  BY CloserCloses DEF ReleaseConnection, Next1

(* The steps of a closing connection itself.                               *)
LEMMA CloseStep ==
  ASSUME TypeInv, CloseInv, NEW c \in Conns,
         RemoveConnection(c) \/ ReleaseConnection(c) \/ ConnClose(c)
  PROVE  CloseInv' /\ todo' \in [Actors -> Seq(Ops)]
<1> USE DEF TypeInv, QueueTypes, ConnTypes, Actors
<1>1. /\ <<"release">> \in Seq(Ops) /\ <<"remove", "release">> \in Seq(Ops)
      /\ <<"maybeFinish">> \in Seq(Ops)
      /\ <<>> \o Tail(<<"remove", "release">>) = <<"release">>
      /\ <<"maybeFinish">> \o Tail(<<"release">>) = <<"maybeFinish">>
  BY DEF Ops
<1>2. CASE RemoveConnection(c)
  <2>1. todo[c] = <<"remove", "release">>
    BY CloserCloses, <1>2 DEF RemoveConnection, Next1, CloseInv
  <2>2. todo' = [todo EXCEPT ![c] = <<"release">>] /\ conn' = conn
    BY <2>1, <1>1, <1>2 DEF RemoveConnection, Then
  <2> QED
    BY <2>1, <2>2, <1>1, CloserCloses, <1>2 DEF CloseInv, RemoveConnection, Next1
<1>3. CASE ReleaseConnection(c)
  <2>1. todo[c] = <<"release">>
    BY CloserCloses, <1>3 DEF ReleaseConnection, Next1, CloseInv
  <2>2. todo' = [todo EXCEPT ![c] = <<"maybeFinish">>]
    BY <2>1, <1>1, <1>3 DEF ReleaseConnection, Then
  <2> QED
    BY <2>2, <1>1, <1>3, OpSequences DEF CloseInv, ReleaseConnection
<1>4. CASE ConnClose(c)
  BY <1>1, <1>4 DEF ConnClose, CloseInv
<1> QED
  BY <1>2, <1>3, <1>4

(* Run hands over one new connection at a time and is spawned once.        *)
LEMMA AcceptStep ==
  ASSUME TypeInv, AcceptInv, SpawnInv, CloseInv, [Next]_vars PROVE AcceptInv' /\ SpawnInv'
<1> DEFINE Goal == AcceptInv' /\ SpawnInv'
<1> USE ServerAssumption
    DEF TypeInv, LoopTypes, ConnTypes, CallTypes, AcceptInv, SpawnInv, StartPCs, Handing,
        RunSuspended, RunSteps, ConnStates, OwnerPCs, life, listen, loop, drain, sockets,
        exec, calls
<1>1. ASSUME NEW o \in Owners, StartClaim(o) PROVE Goal
  <2> USE <1>1 DEF StartClaim, Call, At, Goto
  <2>1. AcceptInv'
    OBVIOUS
  <2>2. SpawnInv'
    OBVIOUS
  <2> QED
    BY <2>1, <2>2
<1>2. ASSUME NEW o \in Owners, WaitCall(o) PROVE Goal
  BY <1>2 DEF WaitCall, Call, At, Goto
<1>3. ASSUME NEW o \in Owners, BeginGracefulStop(o) PROVE Goal
  BY <1>3 DEF BeginGracefulStop, Call, At, Goto, If
<1>4. ASSUME NEW o \in Owners, ForceStopCall(o) PROVE Goal
  BY <1>4 DEF ForceStopCall, Call, At, Goto
<1>5. ASSUME NEW o \in Owners, CleanUpNow(o) PROVE Goal
  BY <1>5 DEF CleanUpNow, Next1, Then, CloseListener, CancelWait, Aborted
<1>6. ASSUME NEW o \in Owners, StartSpawn(o) PROVE Goal
  <2> USE <1>6 DEF StartSpawn, At, Goto, StartFails
  <2>1. AcceptInv'
    OBVIOUS
  <2>2. SpawnInv'
    OBVIOUS
  <2> QED
    BY <2>1, <2>2
<1>7. ASSUME NEW o \in Owners, StartExecutor(o) PROVE Goal
  BY <1>7 DEF StartExecutor, At, Goto, StartFails
<1>8. ASSUME NEW o \in Owners, StartThreads(o) PROVE Goal
  BY <1>8 DEF StartThreads, At, Goto
<1>9. ASSUME NEW o \in Owners, StartAbort(o) PROVE Goal
  BY <1>9 DEF StartAbort, At, Goto, StartFails
<1>10. ASSUME NEW o \in Owners, StartWait(o) PROVE Goal
  BY <1>10 DEF StartWait, At, Goto, StartFails
<1>11. ASSUME NEW o \in Owners, WaitLock(o) PROVE Goal
  BY <1>11 DEF WaitLock, At, Goto
<1>12. ASSUME NEW o \in Owners, WaitStart(o) PROVE Goal
  BY <1>12 DEF WaitStart, At, Goto
<1>13. ASSUME NEW o \in Owners, WaitJoin(o) PROVE Goal
  BY <1>13 DEF WaitJoin, At, Goto
<1>14. ASSUME NEW o \in Owners, WaitThreads(o) PROVE Goal
  BY <1>14 DEF WaitThreads, At, Goto
<1>15. ASSUME NEW o \in Owners, WaitMark(o) PROVE Goal
  BY <1>15 DEF WaitMark, At, Goto, If
<1>16. ASSUME NEW o \in Owners, WaitDrain(o) PROVE Goal
  BY <1>16 DEF WaitDrain, At, Goto
<1>17. ASSUME NEW o \in Owners, WaitDone(o) PROVE Goal
  BY <1>17 DEF WaitDone, At, Goto
<1>18. ASSUME NEW a \in Actors, ForceStop(a) PROVE Goal
  BY <1>18 DEF ForceStop, Next1, Then, If
<1>19. ASSUME NEW a \in Actors, CancelDrainTimer(a) PROVE Goal
  BY <1>19 DEF CancelDrainTimer, Next1, Then, CancelWait
<1>20. ASSUME NEW a \in Actors, CloseAcceptor(a) PROVE Goal
  BY <1>20 DEF CloseAcceptor, Next1, Then, CloseListener
<1>21. ASSUME NEW a \in Actors, CloseAll(a) PROVE Goal
  BY <1>21 DEF CloseAll, Next1, Then
<1>22. ASSUME NEW a \in Actors, MaybeFinishGracefulStop(a) PROVE Goal
  BY <1>22 DEF MaybeFinishGracefulStop, Next1, Then, If
<1>23. ASSUME NEW a \in Actors, ExecutorStop(a) PROVE Goal
  BY <1>23 DEF ExecutorStop, Next1, Then
<1>24. ASSUME NEW a \in Actors, MarkRunComplete(a) PROVE Goal
  BY <1>24 DEF MarkRunComplete, Next1, Then
<1>25. ASSUME NEW a \in Actors, CompleteDrainTimer(a) PROVE Goal
  BY <1>25 DEF CompleteDrainTimer, Next1, Then
<1>26. ASSUME NEW a \in Actors, SpawnDrainTimer(a) PROVE Goal
  BY <1>26 DEF SpawnDrainTimer, Next1, Then
<1>27. ASSUME StrandTask PROVE Goal
  BY <1>27 DEF StrandTask, Head1, CancelWait, CloseListener
<1>28. ASSUME RunResume PROVE Goal
  BY <1>28 DEF RunResume, Head1, RunEnds
<1>29. ASSUME RunPublish PROVE Goal
  BY <1>29 DEF RunPublish
<1>30. ASSUME RunCheckStartup PROVE Goal
  BY <1>30 DEF RunCheckStartup, RunEnds
<1>31. ASSUME RunCheckError PROVE Goal
  BY <1>31 DEF RunCheckError, RunEnds
<1>32. ASSUME RunCheckStopping PROVE Goal
  BY <1>32 DEF RunCheckStopping, RunEnds, Refuse
<1>33. ASSUME TryAcquireConnection PROVE Goal
  BY <1>33 DEF TryAcquireConnection, Refuse
<1>34. ASSUME RunCheckAdmitted PROVE Goal
  BY <1>34 DEF RunCheckAdmitted, RunEnds, Refuse
<1>35. ASSUME LaunchConnection PROVE Goal
  BY <1>35 DEF LaunchConnection, Refuse
<1>36. ASSUME RunFails PROVE Goal
  BY <1>36 DEF RunFails, If
<1>37. ASSUME TimerResume PROVE Goal
  BY <1>37 DEF TimerResume, Head1, If
<1>38. ASSUME AcceptCompletes PROVE Goal
  BY <1>38 DEF AcceptCompletes
<1>39. ASSUME TimerExpires PROVE Goal
  BY <1>39 DEF TimerExpires
<1>40. ASSUME NEW c \in Conns, RemoveConnection(c) PROVE Goal
  BY <1>40 DEF RemoveConnection, Next1, Then
<1>41. ASSUME NEW c \in Conns, ReleaseConnection(c) PROVE Goal
  <2>1. conn[c] = "closing"
    BY <1>41, ReleaseCloses
  <2> QED
    BY <1>41, <2>1 DEF ReleaseConnection
<1>42. ASSUME NEW c \in Conns, ConnResume(c) PROVE Goal
  BY <1>42 DEF ConnResume, Frame
<1>43. ASSUME NEW c \in Conns, ConnClose(c) PROVE Goal
  BY <1>43 DEF ConnClose, Frame
<1>44. ASSUME NEW c \in Conns, CloseConnection(c) PROVE Goal
  BY <1>44 DEF CloseConnection, Frame, Aborted
<1>45. ASSUME NEW c \in Conns, IoEnds(c) PROVE Goal
  BY <1>45 DEF IoEnds, Frame
<1>46. ASSUME NEW c \in Conns, HandlerEnds(c) PROVE Goal
  BY <1>46 DEF HandlerEnds, Frame
<1>47. CASE UNCHANGED vars
  BY <1>47 DEF vars
<1> QED
  BY <1>1, <1>2, <1>3, <1>4, <1>5, <1>6, <1>7, <1>8, <1>9, <1>10, <1>11, <1>12,
     <1>13, <1>14, <1>15, <1>16, <1>17, <1>18, <1>19, <1>20, <1>21, <1>22, <1>23,
     <1>24, <1>25, <1>26, <1>27, <1>28, <1>29, <1>30, <1>31, <1>32, <1>33, <1>34,
     <1>35, <1>36, <1>37, <1>38, <1>39, <1>40, <1>41, <1>42, <1>43, <1>44, <1>45,
     <1>46, <1>47
     DEF Next, OwnerCall, OwnerStep, StrandStep, ConnStep, Operation, Actors

-----------------------------------------------------------------------------
(* The slots.                                                              *)

Held(c)  == Alive(c) \/ (run \in {"check2", "launch"} /\ c = accepted)
Spent(c) == conn[c] \in {"refused", "closed"}

\* What a step does to the slots, connection by connection.
SlotsStay ==
  active' = active /\ \A c \in Conns : (Held(c)' <=> Held(c)) /\ (Spent(c)' <=> Spent(c))
SlotTaken(c) ==
  /\ ~Held(c) /\ ~Spent(c) /\ active < MaxConnections /\ active' = active + 1
  /\ Held(c)' /\ \A d \in Conns : Spent(d)' <=> Spent(d)
  /\ \A d \in Conns \ {c} : Held(d)' <=> Held(d)
SlotRefused(c) ==
  /\ ~Held(c) /\ ~Spent(c) /\ active' = active
  /\ Spent(c)' /\ \A d \in Conns : Held(d)' <=> Held(d)
  /\ \A d \in Conns \ {c} : Spent(d)' <=> Spent(d)
SlotReleased(c) ==
  /\ Held(c) /\ ~Held(c)' /\ Spent(c)' /\ active' = active - 1
  /\ \A d \in Conns \ {c} : (Held(d)' <=> Held(d)) /\ (Spent(d)' <=> Spent(d))
SlotMove ==
  SlotsStay \/ \E c \in Conns : SlotTaken(c) \/ SlotRefused(c) \/ SlotReleased(c)

(* Each step takes, refuses or gives back one slot, or none.               *)
LEMMA SlotStep ==
  ASSUME TypeInv, AcceptInv, SpawnInv, CloseInv, CountInv, [Next]_vars PROVE SlotMove
<1> USE ServerAssumption
    DEF TypeInv, LoopTypes, ConnTypes, AcceptInv, Handing, RunSuspended, RunSteps,
        ConnStates, SlotMove, SlotsStay, Held, Spent, Alive, loop, listen, calls
<1>1. ASSUME NEW o \in Owners, StartClaim(o) PROVE SlotMove
  BY <1>1 DEF StartClaim, Call, At, Goto
<1>2. ASSUME NEW o \in Owners, WaitCall(o) PROVE SlotMove
  BY <1>2 DEF WaitCall, Call, At, Goto
<1>3. ASSUME NEW o \in Owners, BeginGracefulStop(o) PROVE SlotMove
  BY <1>3 DEF BeginGracefulStop, Call, At, Goto, If
<1>4. ASSUME NEW o \in Owners, ForceStopCall(o) PROVE SlotMove
  BY <1>4 DEF ForceStopCall, Call, At, Goto
<1>5. ASSUME NEW o \in Owners, CleanUpNow(o) PROVE SlotMove
  BY <1>5 DEF CleanUpNow, Next1, Then, CloseListener, CancelWait, Aborted
<1>6. ASSUME NEW o \in Owners, StartSpawn(o) PROVE SlotMove
  <2>1. run = "none"
    BY <1>6 DEF StartSpawn, At, SpawnInv
  <2> QED
    BY <1>6, <2>1 DEF StartSpawn
<1>7. ASSUME NEW o \in Owners, StartExecutor(o) PROVE SlotMove
  BY <1>7 DEF StartExecutor, At, Goto, StartFails
<1>8. ASSUME NEW o \in Owners, StartThreads(o) PROVE SlotMove
  BY <1>8 DEF StartThreads, At, Goto
<1>9. ASSUME NEW o \in Owners, StartAbort(o) PROVE SlotMove
  BY <1>9 DEF StartAbort, At, Goto, StartFails
<1>10. ASSUME NEW o \in Owners, StartWait(o) PROVE SlotMove
  BY <1>10 DEF StartWait, At, Goto, StartFails
<1>11. ASSUME NEW o \in Owners, WaitLock(o) PROVE SlotMove
  BY <1>11 DEF WaitLock, At, Goto
<1>12. ASSUME NEW o \in Owners, WaitStart(o) PROVE SlotMove
  BY <1>12 DEF WaitStart, At, Goto
<1>13. ASSUME NEW o \in Owners, WaitJoin(o) PROVE SlotMove
  BY <1>13 DEF WaitJoin, At, Goto
<1>14. ASSUME NEW o \in Owners, WaitThreads(o) PROVE SlotMove
  BY <1>14 DEF WaitThreads, At, Goto
<1>15. ASSUME NEW o \in Owners, WaitMark(o) PROVE SlotMove
  BY <1>15 DEF WaitMark, At, Goto, If
<1>16. ASSUME NEW o \in Owners, WaitDrain(o) PROVE SlotMove
  BY <1>16 DEF WaitDrain, At, Goto
<1>17. ASSUME NEW o \in Owners, WaitDone(o) PROVE SlotMove
  <2>1. Holding = {}
    BY <1>17 DEF WaitDone, NoWork, Quiet, StrandIdle, Holding
  <2>2. active = 0
    BY <2>1, FS_EmptySet DEF CountInv
  <2> QED
    BY <1>17, <2>2 DEF WaitDone
<1>18. ASSUME NEW a \in Actors, ForceStop(a) PROVE SlotMove
  BY <1>18 DEF ForceStop, Next1, Then, If
<1>19. ASSUME NEW a \in Actors, CancelDrainTimer(a) PROVE SlotMove
  BY <1>19 DEF CancelDrainTimer, Next1, Then, CancelWait
<1>20. ASSUME NEW a \in Actors, CloseAcceptor(a) PROVE SlotMove
  BY <1>20 DEF CloseAcceptor, Next1, Then, CloseListener
<1>21. ASSUME NEW a \in Actors, CloseAll(a) PROVE SlotMove
  BY <1>21 DEF CloseAll, Next1, Then
<1>22. ASSUME NEW a \in Actors, MaybeFinishGracefulStop(a) PROVE SlotMove
  BY <1>22 DEF MaybeFinishGracefulStop, Next1, Then, If
<1>23. ASSUME NEW a \in Actors, ExecutorStop(a) PROVE SlotMove
  BY <1>23 DEF ExecutorStop, Next1, Then
<1>24. ASSUME NEW a \in Actors, MarkRunComplete(a) PROVE SlotMove
  BY <1>24 DEF MarkRunComplete, Next1, Then
<1>25. ASSUME NEW a \in Actors, CompleteDrainTimer(a) PROVE SlotMove
  BY <1>25 DEF CompleteDrainTimer, Next1, Then
<1>26. ASSUME NEW a \in Actors, SpawnDrainTimer(a) PROVE SlotMove
  BY <1>26 DEF SpawnDrainTimer, Next1, Then
<1>27. ASSUME StrandTask PROVE SlotMove
  BY <1>27 DEF StrandTask, Head1, CancelWait, CloseListener
<1>28. ASSUME RunResume PROVE SlotMove
  BY <1>28 DEF RunResume, Head1, RunEnds
<1>29. ASSUME RunPublish PROVE SlotMove
  BY <1>29 DEF RunPublish
<1>30. ASSUME RunCheckStartup PROVE SlotMove
  BY <1>30 DEF RunCheckStartup, RunEnds
<1>31. ASSUME RunCheckError PROVE SlotMove
  BY <1>31 DEF RunCheckError, RunEnds
<1>32. ASSUME RunCheckStopping PROVE SlotMove
  BY <1>32 DEF RunCheckStopping, RunEnds, Refuse, SlotTaken, SlotRefused, SlotReleased
<1>33. ASSUME TryAcquireConnection PROVE SlotMove
  BY <1>33 DEF TryAcquireConnection, Refuse, SlotTaken, SlotRefused, SlotReleased
<1>34. ASSUME RunCheckAdmitted PROVE SlotMove
  BY <1>34 DEF RunCheckAdmitted, RunEnds, Refuse, SlotTaken, SlotRefused, SlotReleased
<1>35. ASSUME LaunchConnection PROVE SlotMove
  <2>1. accepted \in Conns /\ conn[accepted] = "none" /\ run = "launch"
    BY <1>35 DEF LaunchConnection
  <2>2. CASE /\ conn' = [conn EXCEPT ![accepted] = "spawned"] /\ run' = "accepting"
             /\ UNCHANGED active
    <3>1. ASSUME NEW c \in Conns PROVE (Held(c)' <=> Held(c)) /\ (Spent(c)' <=> Spent(c))
      BY <2>1, <2>2
    <3> QED
      BY <2>2, <3>1
  <2>3. CASE /\ conn' = [conn EXCEPT ![accepted] = "refused"]
             /\ run' \in {"accepting", "fail"} /\ active' = active - 1
    BY <2>1, <2>3 DEF SlotReleased
  <2> QED
    BY <1>35, <2>2, <2>3 DEF LaunchConnection, Refuse
<1>36. ASSUME RunFails PROVE SlotMove
  BY <1>36 DEF RunFails, If
<1>37. ASSUME TimerResume PROVE SlotMove
  BY <1>37 DEF TimerResume, Head1, If
<1>38. ASSUME AcceptCompletes PROVE SlotMove
  BY <1>38 DEF AcceptCompletes
<1>39. ASSUME TimerExpires PROVE SlotMove
  BY <1>39 DEF TimerExpires
<1>40. ASSUME NEW c \in Conns, RemoveConnection(c) PROVE SlotMove
  BY <1>40 DEF RemoveConnection, Next1, Then
<1>41. ASSUME NEW c \in Conns, ReleaseConnection(c) PROVE SlotMove
  <2>1. conn[c] = "closing"
    BY <1>41, ReleaseCloses
  <2>2. /\ conn' = [conn EXCEPT ![c] = "closed"] /\ active' = active - 1
        /\ UNCHANGED <<run, accepted>>
    BY <1>41 DEF ReleaseConnection
  <2>3. accepted # c
    BY <2>1
  <2> QED
    BY <2>1, <2>2, <2>3 DEF SlotReleased
<1>42. ASSUME NEW c \in Conns, ConnResume(c) PROVE SlotMove
  BY <1>42 DEF ConnResume, Frame
<1>43. ASSUME NEW c \in Conns, ConnClose(c) PROVE SlotMove
  BY <1>43 DEF ConnClose, Frame
<1>44. ASSUME NEW c \in Conns, CloseConnection(c) PROVE SlotMove
  BY <1>44 DEF CloseConnection, Frame, Aborted
<1>45. ASSUME NEW c \in Conns, IoEnds(c) PROVE SlotMove
  BY <1>45 DEF IoEnds, Frame
<1>46. ASSUME NEW c \in Conns, HandlerEnds(c) PROVE SlotMove
  BY <1>46 DEF HandlerEnds, Frame
<1>47. CASE UNCHANGED vars
  BY <1>47 DEF vars
<1> QED
  BY <1>1, <1>2, <1>3, <1>4, <1>5, <1>6, <1>7, <1>8, <1>9, <1>10, <1>11, <1>12,
     <1>13, <1>14, <1>15, <1>16, <1>17, <1>18, <1>19, <1>20, <1>21, <1>22, <1>23,
     <1>24, <1>25, <1>26, <1>27, <1>28, <1>29, <1>30, <1>31, <1>32, <1>33, <1>34,
     <1>35, <1>36, <1>37, <1>38, <1>39, <1>40, <1>41, <1>42, <1>43, <1>44, <1>45,
     <1>46, <1>47
     DEF Next, OwnerCall, OwnerStep, StrandStep, ConnStep, Operation, Actors

(* The two sets of the refinement, by their members.                       *)
LEMMA Members ==
  ASSUME LoopTypes, AcceptInv
  PROVE  Holding = {c \in Conns : Held(c)}
<1>1. run \in {"check2", "launch"} => accepted \in Conns
  BY DEF LoopTypes, AcceptInv, Handing
<1>2. CASE run \in {"check2", "launch"}
  BY <1>1, <1>2 DEF Holding, Held, Alive
<1>3. CASE run \notin {"check2", "launch"}
  BY <1>3 DEF Holding, Held, Alive
<1> QED
  BY <1>2, <1>3

(* A move of the slots is a step of SlotPool.                              *)
LEMMA PoolStep ==
  ASSUME SlotMove, Holding = {c \in Conns : Held(c)},
         Holding' = {c \in Conns : Held(c)'}
  PROVE  [Slots!Next]_(Slots!vars)
<1> DEFINE gone == {c \in Conns : conn[c] \in {"refused", "closed"}}
<1>1. gone = {c \in Conns : Spent(c)} /\ gone' = {c \in Conns : Spent(c)'}
  BY DEF Spent
<1>2. CASE SlotsStay
  <2>1. Holding' = Holding /\ gone' = gone /\ active' = active
    BY <1>1, <1>2 DEF SlotsStay
  <2> QED
    BY <2>1 DEF Slots!vars
<1>3. ASSUME NEW c \in Conns, SlotTaken(c) PROVE Slots!Acquire(c)
  <2>1. Holding' = Holding \cup {c} /\ gone' = gone /\ c \notin Holding \cup gone
    BY <1>1, <1>3 DEF SlotTaken
  <2> QED
    BY <2>1, <1>3 DEF Slots!Acquire, SlotTaken
<1>4. ASSUME NEW c \in Conns, SlotRefused(c) PROVE Slots!Refuse(c)
  <2>1. Holding' = Holding /\ gone' = gone \cup {c} /\ c \notin Holding \cup gone
    BY <1>1, <1>4 DEF SlotRefused
  <2> QED
    BY <2>1, <1>4 DEF Slots!Refuse, SlotRefused
<1>5. ASSUME NEW c \in Conns, SlotReleased(c) PROVE Slots!Release(c)
  <2>1. Holding' = Holding \ {c} /\ gone' = gone \cup {c} /\ c \in Holding
    BY <1>1, <1>5 DEF SlotReleased
  <2> QED
    BY <2>1, <1>5 DEF Slots!Release, SlotReleased
<1> QED
  BY <1>2, <1>3, <1>4, <1>5 DEF SlotMove, Slots!Next

(* A step of SlotPool keeps the counter exact and within the limit.        *)
LEMMA PoolCounts ==
  ASSUME [Slots!Next]_(Slots!vars), Holding \subseteq Conns, CountInv
  PROVE  CountInv'
<1>1. IsFiniteSet(Holding) /\ Cardinality(Holding) \in Nat
  BY FS_Subset, FS_CardinalityType, ServerAssumption DEF ServerAssumption
<1>2. CASE UNCHANGED Slots!vars
  BY <1>2 DEF Slots!vars, CountInv
<1>3. ASSUME NEW c \in Conns, Slots!Acquire(c) PROVE CountInv'
  <2>1. Cardinality(Holding \cup {c}) = Cardinality(Holding) + 1
    BY <1>1, <1>3, FS_AddElement DEF Slots!Acquire
  <2> QED
    BY <2>1, <1>1, <1>3, ServerAssumption DEF Slots!Acquire, CountInv, ServerAssumption
<1>4. ASSUME NEW c \in Conns, Slots!Refuse(c) PROVE CountInv'
  BY <1>4 DEF Slots!Refuse, CountInv
<1>5. ASSUME NEW c \in Conns, Slots!Release(c) PROVE CountInv'
  <2>1. Cardinality(Holding \ {c}) = Cardinality(Holding) - 1
    BY <1>1, <1>5, FS_RemoveElement DEF Slots!Release
  <2> QED
    BY <2>1, <1>1, <1>5, ServerAssumption DEF Slots!Release, CountInv, ServerAssumption
<1> QED
  BY <1>2, <1>3, <1>4, <1>5 DEF Slots!Next

(* At first no slot is taken, and every part of the invariant holds.       *)
LEMMA InitInv == Init => IInv /\ Slots!Init
<1> SUFFICES ASSUME Init PROVE IInv /\ Slots!Init
  OBVIOUS
<1> USE ServerAssumption DEF Init
<1>1. TypeInv
  <2>1. LifeTypes
    BY DEF LifeTypes, TimerStates
  <2>2. LoopTypes /\ ConnTypes
    <3>1. LoopTypes
      BY DEF LoopTypes, RunSuspended
    <3>2. ConnTypes
      BY DEF ConnTypes, ConnStates
    <3> QED
      BY <3>1, <3>2
  <2>3. QueueTypes
    BY DEF QueueTypes
  <2>4. CallTypes
    BY DEF CallTypes, OwnerPCs
  <2> QED
    BY <2>1, <2>2, <2>3, <2>4 DEF TypeInv
<1>2. AcceptInv /\ SpawnInv
  BY DEF AcceptInv, Handing, SpawnInv, StartPCs
<1>3. CloseInv
  BY OpSequences DEF CloseInv, Actors
<1>4. Holding = {} /\ {c \in Conns : conn[c] \in {"refused", "closed"}} = {}
  BY DEF Holding, Alive
<1>5. CountInv
  BY <1>4, FS_EmptySet DEF CountInv
<1> QED
  BY <1>1, <1>2, <1>3, <1>4, <1>5 DEF IInv, Slots!Init

(* Every step keeps the invariant and is a step of SlotPool or a stutter.  *)
LEMMA StepInv == IInv /\ [Next]_vars => IInv' /\ [Slots!Next]_(Slots!vars)
<1> SUFFICES ASSUME IInv, [Next]_vars PROVE IInv' /\ [Slots!Next]_(Slots!vars)
  OBVIOUS
<1> USE DEF IInv
<1>1. LifeTypes' /\ LoopTypes' /\ ConnTypes' /\ CallTypes'
  BY PlainStep
<1>2. strand' \in Seq(Tasks)
  BY StrandMoves, StrandTypes DEF TypeInv, QueueTypes
<1>3. CloseInv' /\ todo' \in [Actors -> Seq(Ops)]
  <2>1. CASE \E c \in Conns : RemoveConnection(c) \/ ReleaseConnection(c) \/ ConnClose(c)
    BY <2>1, CloseStep
  <2>2. CASE TodoMove /\ Closings
    BY <2>2, TodoTypes, TodoCloses DEF TypeInv, QueueTypes
  <2> QED
    BY <2>1, <2>2, TodoMoves, ClosingStep
<1>4. TypeInv'
  BY <1>1, <1>2, <1>3 DEF TypeInv, QueueTypes
<1>5. AcceptInv' /\ SpawnInv'
  BY AcceptStep
<1>6. [Slots!Next]_(Slots!vars)
  <2>1. SlotMove
    BY SlotStep
  <2>2. Holding = {c \in Conns : Held(c)}
    BY Members DEF TypeInv
  <2>3. Holding' = {c \in Conns : Held(c)'}
    <3>1. (run \in {"check2", "launch"} => accepted \in Conns)'
      BY <1>4, <1>5 DEF TypeInv, LoopTypes, AcceptInv, Handing
    <3>2. CASE run' \in {"check2", "launch"}
      BY <3>1, <3>2 DEF Holding, Held, Alive
    <3>3. CASE run' \notin {"check2", "launch"}
      BY <3>3 DEF Holding, Held, Alive
    <3> QED
      BY <3>2, <3>3
  <2> QED
    BY <2>1, <2>2, <2>3, PoolStep
<1>7. CountInv'
  <2>1. Holding \subseteq Conns
    BY Members DEF TypeInv
  <2> QED
    BY <2>1, <1>6, PoolCounts
<1> QED
  BY <1>3, <1>4, <1>5, <1>6, <1>7

(* So the invariant always holds.                                          *)
LEMMA Invariance == Spec => []IInv
<1>1. Init => IInv
  BY InitInv
<1>2. IInv /\ [Next]_vars => IInv'
  BY StepInv
<1> QED
  BY <1>1, <1>2, PTL DEF Spec

(* The server's state is well typed for any owners, connections, calls and *)
(* faults; above all, the slot counter never goes below zero.              *)
THEOREM TypeCorrect == Spec => []TypeOK
<1>1. ASSUME IInv PROVE TypeOK
  <2>1. Holding \subseteq Conns
    BY <1>1, Members DEF IInv, TypeInv
  <2>2. active \in Nat
    BY <1>1, <2>1, FS_Subset, FS_CardinalityType, ServerAssumption
       DEF IInv, CountInv, ServerAssumption
  <2> QED
    BY <1>1, <2>2
       DEF IInv, TypeInv, LifeTypes, LoopTypes, ConnTypes, QueueTypes, CallTypes, Tasks,
           TypeOK
<1> QED
  BY <1>1, Invariance, PTL

(* MemberActiveConnections is the number of connections that hold a slot,  *)
(* on every success and error path, and never above MaxConnections.        *)
THEOREM AdmissionExact == Spec => []Admission
<1>1. IInv => Admission
  BY DEF IInv, CountInv, Admission
<1> QED
  BY <1>1, Invariance, PTL

(* The server takes and gives back slots as SlotPool says.                 *)
THEOREM ImplementsSlotPool == Spec => SlotSpec
<1>1. Init => Slots!Init
  BY InitInv
<1>2. IInv /\ [Next]_vars => [Slots!Next]_(Slots!vars)
  BY StepInv
<1> QED
  BY <1>1, <1>2, Invariance, PTL DEF Spec, SlotSpec, Slots!Spec

-----------------------------------------------------------------------------
(* How the server stops.  Steps of the actors are so many that each part   *)
(* of the invariant looks at them through what they may do: Sources says   *)
(* who gives whom something to do, FlagMoves, TimerMoves and RunMoves how  *)
(* flags, timer and Run go on, QueueMoves what the strand holds, ExecMoves *)
(* what becomes of the executor and the callers.                           *)

-----------------------------------------------------------------------------
(* What is still to be done: operations of the actors, tasks of the strand. *)

Owed(a, op) == todo[a] \notin Seq(Ops \ {op})
Owes(op)    == \E a \in Actors : Owed(a, op)
Queued(t)   == strand \notin Seq(Tasks \ {t})

\* A step that gives nobody other operations to do than those of X.
Gives(X) ==
  \/ todo' = todo
  \/ \E a \in Actors, ops \in Seq(X) :
       /\ todo[a] # <<>> /\ Then(a, ops)
  \/ \E a \in Actors, ops \in Seq(X) : todo' = [todo EXCEPT ![a] = ops]

(* What such a step does not give was to be done before.                   *)
LEMMA OnlyGiven ==
  ASSUME todo \in [Actors -> Seq(Ops)], NEW X \in SUBSET Ops, Gives(X), NEW op, op \notin X,
         NEW b \in Actors, Owed(b, op)'
  PROVE  Owed(b, op)
<1> DEFINE Rest == Ops \ {op}
<1>1. ASSUME NEW ops \in Seq(X) PROVE ops \in Seq(Rest)
  <2>1. X \subseteq Rest
    OBVIOUS
  <2> QED
    BY <2>1
<1>2. ASSUME NEW a \in Actors, NEW ops \in Seq(X), todo[a] # <<>>, Then(a, ops),
             todo[b] \in Seq(Rest)
      PROVE  todo'[b] \in Seq(Rest)
  <2>1. CASE a = b
    <3>1. Tail(todo[b]) \in Seq(Rest) /\ ops \in Seq(Rest)
      BY <1>1, <1>2, <2>1
    <3>2. ops \o Tail(todo[b]) \in Seq(Rest)
      BY <3>1
    <3> QED
      BY <3>2, <1>2, <2>1 DEF Then
  <2>2. CASE a # b
    BY <1>2, <2>2 DEF Then
  <2> QED
    BY <2>1, <2>2
<1>3. ASSUME NEW a \in Actors, NEW ops \in Seq(X), todo' = [todo EXCEPT ![a] = ops],
             todo[b] \in Seq(Rest)
      PROVE  todo'[b] \in Seq(Rest)
  BY <1>1, <1>3
<1> QED
  BY <1>2, <1>3 DEF Gives, Owed

(* An operation that is next is still to be done.                          *)
LEMMA NextIsOwed ==
  ASSUME todo \in [Actors -> Seq(Ops)], NEW a \in Actors, NEW op, Next1(a, op)
  PROVE  Owed(a, op) /\ Owes(op)
<1>1. ASSUME todo[a] \in Seq(Ops \ {op}) PROVE FALSE
  BY <1>1 DEF Next1
<1> QED
  BY <1>1 DEF Owed, Owes

(* The same of the strand: its head is queued, and working off another     *)

(* task or appending one leaves what is queued.                            *)
LEMMA HeadIsQueued ==
  ASSUME NEW t, strand # <<>>, Head(strand) = t PROVE Queued(t)
<1>1. ASSUME strand \in Seq(Tasks \ {t}) PROVE FALSE
  BY <1>1
<1> QED
  BY <1>1 DEF Queued

(* A task other than the head is queued if it is in the tail.              *)
LEMMA TailQueued ==
  ASSUME strand \in Seq(Tasks), strand # <<>>, NEW t, Head(strand) # t,
         Tail(strand) \in Seq(Tasks \ {t})
  PROVE  ~Queued(t)
<1>1. Head(strand) \in Tasks \ {t}
  OBVIOUS
<1>2. strand = <<Head(strand)>> \o Tail(strand)
  OBVIOUS
<1>3. <<Head(strand)>> \in Seq(Tasks \ {t})
  BY <1>1
<1>4. <<Head(strand)>> \o Tail(strand) \in Seq(Tasks \ {t})
  BY <1>3
<1> QED
  BY <1>2, <1>4 DEF Queued

(* Appending to a sequence adds the appended element and nothing else.     *)
LEMMA Appended ==
  ASSUME NEW S, NEW q \in Seq(S), NEW u \in S, NEW t
  PROVE  /\ Append(q, u) \in Seq(S \ {t}) <=> q \in Seq(S \ {t}) /\ u # t
<1>1. ASSUME q \in Seq(S \ {t}), u # t PROVE Append(q, u) \in Seq(S \ {t})
  BY <1>1
<1>2. ASSUME Append(q, u) \in Seq(S \ {t}) PROVE q \in Seq(S \ {t}) /\ u # t
  <2> DEFINE r == Append(q, u)
  <2>1. Len(r) = Len(q) + 1 /\ r[Len(q) + 1] = u
    OBVIOUS
  <2>2. \A i \in 1..Len(q) : r[i] = q[i] /\ r[i] \in S \ {t}
    BY <1>2
  <2>3. u \in S \ {t}
    BY <1>2, <2>1
  <2>4. \A i \in 1..Len(q) : q[i] \in S \ {t}
    BY <2>2
  <2>5. q \in Seq(S \ {t})
    BY <2>4
  <2> QED
    BY <2>3, <2>5
<1> QED
  BY <1>1, <1>2

(* What is not in a sequence is not in its tail.                           *)
LEMMA TailKeeps ==
  ASSUME NEW S, NEW q \in Seq(S), q # <<>>, NEW t, q \in Seq(S \ {t})
  PROVE  Tail(q) \in Seq(S \ {t})
  OBVIOUS

(* Nor does anybody owe it, then, who did not before.                      *)
LEMMA NotGiven ==
  ASSUME todo \in [Actors -> Seq(Ops)], NEW X \in SUBSET Ops, Gives(X), NEW op, op \notin X
  PROVE  Owes(op)' => Owes(op)
  BY OnlyGiven DEF Owes

(* Sequences of operations of a set.                                       *)
LEMMA OpsOf ==
  ASSUME NEW X, NEW s \in Seq(X), NEW t \in Seq(X), NEW b
  PROVE  <<>> \in Seq(X) /\ s \o t \in Seq(X) /\ If(b, s) \in Seq(X)
  BY DEF If

\* The operations that promise nothing of the state they are done in.
Harmless == {"cancelTimer", "maybeFinish", "remove", "release", "cancelTimerNow",
             "closeAllNow"}

\* Who may leave each of the others to do, and what is true then.
ForceAsked ==
  \/ stopAsked' \/ timerCo = "expired" \/ Owes("spawnTimer")
  \/ \E o \in Owners : opc[o] \in StartPCs /\ opc' = [opc EXCEPT ![o] = "waitLock"]
                       /\ startResult' = startResult
DrainPlanned(a) ==
  BeginGracefulStop(a) /\ started /\ ~stopping /\ active > 0
Sources ==
  /\ Owes("closeAll")' => Owes("closeAll") \/ (started' /\ forceStop')
  /\ Owes("execStop")' => Owes("execStop") \/ (Drained' /\ ~timerActive')
  /\ Owes("markRun")' =>
       \/ Owes("markRun")
       \/ run' = "done" /\ stopping' = stopping /\ (stopping \/ run = "aborted")
  /\ Owes("forceStop")' => Owes("forceStop") \/ ForceAsked
  /\ Owes("completeTimer")' =>
       \/ Owes("completeTimer") \/ timerCo' = "done"
       \/ \E a \in Actors : SpawnDrainTimer(a)
  /\ Owes("closeAcceptor")' => Owes("closeAcceptor") \/ (started' /\ stopping')
  /\ Owes("closeAcceptorNow")' =>
       Owes("closeAcceptorNow") \/ (memberAcceptor /\ started' = started /\ stopping')
  /\ \A a \in Actors : Owed(a, "spawnTimer")' =>
       Owed(a, "spawnTimer") \/ (a \in Owners /\ DrainPlanned(a))

(* Every step leaves operations to do only where the handlers do.          *)
LEMMA TodoSources ==
  ASSUME TypeInv, SpawnInv, [Next]_vars PROVE Sources
<1> USE DEF TypeInv, QueueTypes, Actors
<1> DEFINE Only(X) == \A op \in Ops \ X : Owes(op)' => Owes(op)
<1>a. ASSUME NEW X \in SUBSET Ops, Gives(X)
      PROVE  /\ Only(X)
             /\ "spawnTimer" \notin X =>
                  \A a \in Actors : Owed(a, "spawnTimer")' => Owed(a, "spawnTimer")
  BY <1>a, NotGiven, OnlyGiven
<1>0. ASSUME Gives(Harmless) PROVE Sources
  <2>1. Harmless \in SUBSET Ops
    BY DEF Harmless, Ops
  <2> QED
    BY <1>a, <1>0, <2>1 DEF Harmless, Sources, Ops
<1>b. ASSUME Gives({"markRun"}), run' = "done", stopping' = stopping,
             stopping \/ run = "aborted"
      PROVE  Sources
  <2>1. {"markRun"} \in SUBSET Ops
    BY DEF Ops
  <2> QED
    BY <1>a, <1>b, <2>1 DEF Sources, Ops
<1>c. ASSUME Gives({"forceStop"}), ForceAsked PROVE Sources
  <2>1. {"forceStop"} \in SUBSET Ops
    BY DEF Ops
  <2> QED
    BY <1>a, <1>c, <2>1 DEF Sources, Ops
<1>d. ASSUME NEW o \in Owners, StartFails(o), opc[o] \in StartPCs,
             startResult' = startResult
      PROVE  Sources
  <2>1. <<"forceStop">> \in Seq({"forceStop"})
    OBVIOUS
  <2>2. Gives({"forceStop"})
    BY <1>d, <2>1 DEF StartFails, Gives
  <2>3. opc' = [opc EXCEPT ![o] = "waitLock"]
    BY <1>d DEF StartFails, Goto
  <2> QED
    BY <1>c, <1>d, <2>2, <2>3 DEF ForceAsked
<1>1. ASSUME NEW o \in Owners, StartClaim(o) PROVE Sources
  BY <1>0, <1>1 DEF StartClaim, Gives
<1>2. ASSUME NEW o \in Owners, WaitCall(o) PROVE Sources
  BY <1>0, <1>2 DEF WaitCall, Gives
<1>3. ASSUME NEW o \in Owners, BeginGracefulStop(o) PROVE Sources
  <2>1. CASE ~started \/ stopping
    BY <1>0, <1>3, <2>1 DEF BeginGracefulStop, Gives
  <2>2. CASE started /\ ~stopping /\ active > 0
    <3> DEFINE X == {"closeAcceptor", "spawnTimer"}
    <3>1. <<"closeAcceptor">> \in Seq(X) /\ <<"spawnTimer">> \in Seq(X) /\ X \in SUBSET Ops
      BY DEF Ops
    <3>2. If(memberAcceptor, <<"closeAcceptor">>) \o <<"spawnTimer">> \in Seq(X)
      BY <3>1, OpsOf
    <3>3. /\ started' /\ stopping'
          /\ todo' = [todo EXCEPT ![o] =
                       If(memberAcceptor, <<"closeAcceptor">>) \o <<"spawnTimer">>]
      BY <1>3, <2>2 DEF BeginGracefulStop
    <3>4. Gives(X)
      BY <3>2, <3>3 DEF Gives
    <3>5. ASSUME NEW a \in Actors, Owed(a, "spawnTimer")' PROVE Owed(a, "spawnTimer") \/ a = o
      BY <3>3, <3>5 DEF Owed
    <3>6. DrainPlanned(o)
      BY <1>3, <2>2 DEF DrainPlanned
    <3> QED
      BY <1>a, <3>1, <3>3, <3>4, <3>5, <3>6 DEF Sources, Ops
  <2>3. CASE started /\ ~stopping /\ ~(active > 0)
    <3> DEFINE X == {"closeAcceptor", "maybeFinish"}
    <3>1. <<"closeAcceptor">> \in Seq(X) /\ <<"maybeFinish">> \in Seq(X) /\ X \in SUBSET Ops
      BY DEF Ops
    <3>2. If(memberAcceptor, <<"closeAcceptor">>) \o <<"maybeFinish">> \in Seq(X)
      BY <3>1, OpsOf
    <3>3. /\ started' /\ stopping'
          /\ todo' = [todo EXCEPT ![o] =
                       If(memberAcceptor, <<"closeAcceptor">>) \o <<"maybeFinish">>]
      BY <1>3, <2>3 DEF BeginGracefulStop
    <3>4. Gives(X)
      BY <3>2, <3>3 DEF Gives
    <3> QED
      BY <1>a, <3>1, <3>3, <3>4 DEF Sources, Ops
  <2> QED
    BY <2>1, <2>2, <2>3
<1>4. ASSUME NEW o \in Owners, ForceStopCall(o) PROVE Sources
  <2>1. <<"forceStop">> \in Seq({"forceStop"}) /\ stopAsked'
    BY <1>4 DEF ForceStopCall
  <2> QED
    BY <1>c, <1>4, <2>1 DEF ForceStopCall, Gives, ForceAsked
<1>5. ASSUME NEW o \in Owners, CleanUpNow(o) PROVE Sources
  <2>1. <<>> \in Seq(Harmless) /\ Then(o, <<>>) /\ todo[o] # <<>>
    BY <1>5 DEF CleanUpNow, Harmless, Next1
  <2> QED
    BY <1>0, <2>1 DEF Gives
<1>6. ASSUME NEW o \in Owners, StartSpawn(o) PROVE Sources
  <2>1. opc[o] \in StartPCs
    BY <1>6 DEF StartSpawn, At, StartPCs
  <2> QED
    BY <1>0, <1>d, <1>6, <2>1, ZenonT(20) DEF StartSpawn, Gives
<1>7. ASSUME NEW o \in Owners, StartExecutor(o) PROVE Sources
  <2>1. opc[o] \in StartPCs
    BY <1>7 DEF StartExecutor, At, StartPCs
  <2> QED
    BY <1>0, <1>d, <1>7, <2>1, ZenonT(20) DEF StartExecutor, Gives
<1>8. ASSUME NEW o \in Owners, StartThreads(o) PROVE Sources
  BY <1>0, <1>8 DEF StartThreads, Gives
<1>9. ASSUME NEW o \in Owners, StartAbort(o) PROVE Sources
  <2>1. opc[o] \in StartPCs
    BY <1>9 DEF StartAbort, At, StartPCs
  <2> QED
    BY <1>0, <1>d, <1>9, <2>1, ZenonT(20) DEF StartAbort, Gives
<1>10. ASSUME NEW o \in Owners, StartWait(o) PROVE Sources
  <2>1. opc[o] \in StartPCs
    BY <1>10 DEF StartWait, At, StartPCs
  <2> QED
    BY <1>0, <1>d, <1>10, <2>1, ZenonT(20) DEF StartWait, Gives
<1>11. ASSUME NEW o \in Owners, WaitLock(o) PROVE Sources
  BY <1>0, <1>11 DEF WaitLock, Gives
<1>12. ASSUME NEW o \in Owners, WaitStart(o) PROVE Sources
  BY <1>0, <1>12 DEF WaitStart, Gives
<1>13. ASSUME NEW o \in Owners, WaitJoin(o) PROVE Sources
  BY <1>0, <1>13 DEF WaitJoin, Gives
<1>14. ASSUME NEW o \in Owners, WaitThreads(o) PROVE Sources
  BY <1>0, <1>14 DEF WaitThreads, Gives
<1>15. ASSUME NEW o \in Owners, WaitMark(o) PROVE Sources
  <2> DEFINE X(b) == IF b THEN {"closeAcceptorNow", "cancelTimerNow", "closeAllNow"}
                     ELSE {"cancelTimerNow", "closeAllNow"}
  <2>1. /\ If(memberAcceptor, <<"closeAcceptorNow">>) \in Seq(X(memberAcceptor))
        /\ <<"cancelTimerNow">> \in Seq(X(memberAcceptor))
        /\ <<"closeAllNow">> \in Seq(X(memberAcceptor))
        /\ X(memberAcceptor) \in SUBSET Ops
    <3>1. CASE memberAcceptor
      BY <3>1 DEF If, Ops
    <3>2. CASE ~memberAcceptor
      BY <3>2 DEF If, Ops
    <3> QED
      BY <3>1, <3>2
  <2>2. If(memberAcceptor, <<"closeAcceptorNow">>) \o If(timer, <<"cancelTimerNow">>)
          \o <<"closeAllNow">> \in Seq(X(memberAcceptor))
    BY <2>1, OpsOf
  <2>3. Gives(X(memberAcceptor)) /\ started' = started /\ stopping'
    BY <1>15, <2>2 DEF WaitMark, Gives
  <2>4. CASE memberAcceptor
    BY <1>a, <2>1, <2>3, <2>4 DEF Sources, Ops
  <2>5. CASE ~memberAcceptor
    BY <1>a, <2>1, <2>3, <2>5 DEF Sources, Ops
  <2> QED
    BY <2>4, <2>5
<1>16. ASSUME NEW o \in Owners, WaitDrain(o) PROVE Sources
  BY <1>0, <1>16 DEF WaitDrain, Gives
<1>17. ASSUME NEW o \in Owners, WaitDone(o) PROVE Sources
  BY <1>0, <1>17 DEF WaitDone, Gives
<1>18. ASSUME NEW a \in Actors, ForceStop(a) PROVE Sources
  <2>1. CASE ~started
    <3>1. <<>> \in Seq(Harmless) /\ Then(a, <<>>) /\ todo[a] # <<>>
      BY <1>18, <2>1 DEF ForceStop, Next1
    <3> QED
      BY <1>0, <3>1 DEF Gives
  <2>2. CASE started
    <3> DEFINE X == {"cancelTimer", "closeAcceptor", "closeAll", "maybeFinish"}
               ops == If(timer, <<"cancelTimer">>) \o If(memberAcceptor, <<"closeAcceptor">>)
                        \o <<"closeAll", "maybeFinish">>
    <3>1. /\ <<"cancelTimer">> \in Seq(X) /\ <<"closeAcceptor">> \in Seq(X)
          /\ <<"closeAll", "maybeFinish">> \in Seq(X) /\ X \in SUBSET Ops
      BY DEF Ops
    <3>2. ops \in Seq(X)
      BY <3>1, OpsOf
    <3>3. started' /\ stopping' /\ forceStop' /\ Then(a, ops) /\ todo[a] # <<>>
      BY <1>18, <2>2 DEF ForceStop, Next1
    <3> HIDE DEF ops
    <3>4. Gives(X)
      BY <3>2, <3>3 DEF Gives
    <3> QED
      BY <1>a, <3>1, <3>3, <3>4 DEF Sources, Ops
  <2> QED
    BY <2>1, <2>2
<1>19. ASSUME NEW a \in Actors, CancelDrainTimer(a) PROVE Sources
  <2>1. <<>> \in Seq(Harmless) /\ Then(a, <<>>) /\ todo[a] # <<>>
    BY <1>19 DEF CancelDrainTimer, Harmless, Next1
  <2> QED
    BY <1>0, <2>1 DEF Gives
<1>20. ASSUME NEW a \in Actors, CloseAcceptor(a) PROVE Sources
  <2>1. <<>> \in Seq(Harmless) /\ Then(a, <<>>) /\ todo[a] # <<>>
    BY <1>20 DEF CloseAcceptor, Harmless, Next1
  <2> QED
    BY <1>0, <2>1 DEF Gives
<1>21. ASSUME NEW a \in Actors, CloseAll(a) PROVE Sources
  <2>1. <<>> \in Seq(Harmless) /\ Then(a, <<>>) /\ todo[a] # <<>>
    BY <1>21 DEF CloseAll, Harmless, Next1
  <2> QED
    BY <1>0, <2>1 DEF Gives
<1>22. ASSUME NEW a \in Actors, MaybeFinishGracefulStop(a) PROVE Sources
  <2> DEFINE X(b) == IF b THEN {"cancelTimer", "execStop"} ELSE {"cancelTimer"}
             free == Drained /\ ~timerActive
             ops == If(Drained /\ timerActive /\ timer, <<"cancelTimer">>)
                      \o If(free, <<"execStop">>)
  <2>1. /\ <<"cancelTimer">> \in Seq(X(free)) /\ X(free) \in SUBSET Ops
        /\ If(free, <<"execStop">>) \in Seq(X(free))
    <3> HIDE DEF free
    <3>1. CASE free
      BY <3>1 DEF If, Ops
    <3>2. CASE ~free
      BY <3>2 DEF If, Ops
    <3> QED
      BY <3>1, <3>2
  <2>2. ops \in Seq(X(free))
    BY <2>1, OpsOf
  <2>3. Then(a, ops) /\ todo[a] # <<>>
    BY <1>22 DEF MaybeFinishGracefulStop, Next1
  <2>4. Gives(X(free))
    <3> HIDE DEF ops, X
    <3> QED
      BY <2>2, <2>3 DEF Gives
  <2>5. CASE free
    <3>1. Drained' /\ ~timerActive'
      BY <1>22, <2>5 DEF MaybeFinishGracefulStop, Drained, life, drain
    <3> QED
      BY <1>a, <2>1, <2>4, <2>5, <3>1 DEF Sources, Ops
  <2>6. CASE ~free
    BY <1>a, <2>1, <2>4, <2>6 DEF Sources, Ops
  <2> QED
    BY <2>5, <2>6
<1>23. ASSUME NEW a \in Actors, ExecutorStop(a) PROVE Sources
  <2>1. <<>> \in Seq(Harmless) /\ Then(a, <<>>) /\ todo[a] # <<>>
    BY <1>23 DEF ExecutorStop, Harmless, Next1
  <2> QED
    BY <1>0, <2>1 DEF Gives
<1>24. ASSUME NEW a \in Actors, MarkRunComplete(a) PROVE Sources
  <2>1. <<"maybeFinish">> \in Seq(Harmless) /\ Then(a, <<"maybeFinish">>) /\ todo[a] # <<>>
    BY <1>24 DEF MarkRunComplete, Harmless, Next1
  <2> QED
    BY <1>0, <2>1 DEF Gives
<1>25. ASSUME NEW a \in Actors, CompleteDrainTimer(a) PROVE Sources
  <2>1. <<"maybeFinish">> \in Seq(Harmless) /\ Then(a, <<"maybeFinish">>) /\ todo[a] # <<>>
    BY <1>25 DEF CompleteDrainTimer, Harmless, Next1
  <2> QED
    BY <1>0, <2>1 DEF Gives
<1>26. ASSUME NEW a \in Actors, SpawnDrainTimer(a) PROVE Sources
  <2>1. Owes("spawnTimer") /\ todo[a] # <<>>
    BY <1>26, NextIsOwed DEF SpawnDrainTimer, Next1
  <2>2. CASE Then(a, <<>>)
    <3>1. <<>> \in Seq(Harmless)
      OBVIOUS
    <3> QED
      BY <1>0, <2>1, <2>2, <3>1 DEF Gives
  <2>3. CASE Then(a, <<"completeTimer", "forceStop">>)
    <3> DEFINE X == {"completeTimer", "forceStop"}
    <3>1. <<"completeTimer", "forceStop">> \in Seq(X) /\ X \in SUBSET Ops
      BY DEF Ops
    <3>2. Gives(X)
      BY <2>1, <2>3, <3>1 DEF Gives
    <3> QED
      BY <1>a, <1>26, <2>1, <3>1, <3>2 DEF Sources, ForceAsked, Ops
  <2> QED
    BY <1>26, <2>2, <2>3 DEF SpawnDrainTimer
<1>27. ASSUME StrandTask PROVE Sources
  BY <1>0, <1>27 DEF StrandTask, Gives
<1>28. ASSUME RunResume PROVE Sources
  <2>1. CASE todo' = todo
    BY <1>0, <2>1 DEF Gives
  <2>2. CASE RunEnds
    <3>1. stopping' = stopping /\ (stopping \/ run = "aborted")
      BY <1>28, <2>2 DEF RunResume, RunEnds, life
    <3>2. <<"markRun">> \in Seq({"markRun"})
      OBVIOUS
    <3>3. Gives({"markRun"})
      BY <2>2, <3>2 DEF RunEnds, Gives
    <3> QED
      BY <1>b, <2>2, <3>1, <3>3 DEF RunEnds
  <2> QED
    BY <1>28, <2>1, <2>2, Zenon DEF RunResume
<1>29. ASSUME RunPublish PROVE Sources
  BY <1>0, <1>29 DEF RunPublish, Gives
<1>30. ASSUME RunCheckStartup PROVE Sources
  <2>1. CASE todo' = todo
    BY <1>0, <2>1 DEF Gives
  <2>2. CASE RunEnds
    <3>1. stopping' = stopping /\ (stopping \/ run = "aborted")
      BY <1>30, <2>2 DEF RunCheckStartup, RunEnds, life
    <3>2. <<"markRun">> \in Seq({"markRun"})
      OBVIOUS
    <3>3. Gives({"markRun"})
      BY <2>2, <3>2 DEF RunEnds, Gives
    <3> QED
      BY <1>b, <2>2, <3>1, <3>3 DEF RunEnds
  <2> QED
    BY <1>30, <2>1, <2>2, Zenon DEF RunCheckStartup
<1>31. ASSUME RunCheckError PROVE Sources
  <2>1. CASE todo' = todo
    BY <1>0, <2>1 DEF Gives
  <2>2. CASE RunEnds
    <3>1. stopping' = stopping /\ (stopping \/ run = "aborted")
      BY <1>31, <2>2 DEF RunCheckError, RunEnds, life
    <3>2. <<"markRun">> \in Seq({"markRun"})
      OBVIOUS
    <3>3. Gives({"markRun"})
      BY <2>2, <3>2 DEF RunEnds, Gives
    <3> QED
      BY <1>b, <2>2, <3>1, <3>3 DEF RunEnds
  <2> QED
    BY <1>31, <2>1, <2>2, Zenon DEF RunCheckError
<1>32. ASSUME RunCheckStopping PROVE Sources
  <2>1. CASE todo' = todo
    BY <1>0, <2>1 DEF Gives
  <2>2. CASE RunEnds
    <3>1. stopping' = stopping /\ (stopping \/ run = "aborted")
      BY <1>32, <2>2 DEF RunCheckStopping, RunEnds, life
    <3>2. <<"markRun">> \in Seq({"markRun"})
      OBVIOUS
    <3>3. Gives({"markRun"})
      BY <2>2, <3>2 DEF RunEnds, Gives
    <3> QED
      BY <1>b, <2>2, <3>1, <3>3 DEF RunEnds
  <2> QED
    BY <1>32, <2>1, <2>2, Zenon DEF RunCheckStopping
<1>33. ASSUME TryAcquireConnection PROVE Sources
  BY <1>0, <1>33 DEF TryAcquireConnection, Gives
<1>34. ASSUME RunCheckAdmitted PROVE Sources
  <2>1. CASE todo' = todo
    BY <1>0, <2>1 DEF Gives
  <2>2. CASE RunEnds
    <3>1. stopping' = stopping /\ (stopping \/ run = "aborted")
      BY <1>34, <2>2 DEF RunCheckAdmitted, RunEnds, life
    <3>2. <<"markRun">> \in Seq({"markRun"})
      OBVIOUS
    <3>3. Gives({"markRun"})
      BY <2>2, <3>2 DEF RunEnds, Gives
    <3> QED
      BY <1>b, <2>2, <3>1, <3>3 DEF RunEnds
  <2> QED
    BY <1>34, <2>1, <2>2, Zenon DEF RunCheckAdmitted
<1>35. ASSUME LaunchConnection PROVE Sources
  BY <1>0, <1>35 DEF LaunchConnection, Gives
<1>36. ASSUME RunFails PROVE Sources
  <2> DEFINE X == {"cancelTimer", "closeAcceptor", "closeAll", "maybeFinish"}
             ops == If(memberAcceptor, <<"closeAcceptor">>) \o If(timer, <<"cancelTimer">>)
                      \o <<"closeAll", "maybeFinish">>
  <2>1. /\ <<"cancelTimer">> \in Seq(X) /\ <<"closeAcceptor">> \in Seq(X)
        /\ <<"closeAll", "maybeFinish">> \in Seq(X) /\ X \in SUBSET Ops
    BY DEF Ops
  <2>2. ops \in Seq(X)
    BY <2>1, OpsOf
  <2>3. stopping' /\ forceStop' /\ todo' = [todo EXCEPT !["run"] = ops]
    BY <1>36 DEF RunFails
  <2>4. started'
    BY <1>36 DEF RunFails, SpawnInv, LifeTypes
  <2> HIDE DEF ops
  <2>5. Gives(X)
    BY <2>2, <2>3 DEF Gives
  <2> QED
    BY <1>a, <2>1, <2>3, <2>4, <2>5 DEF Sources, Ops
<1>37. ASSUME TimerResume PROVE Sources
  <2>1. CASE todo' = todo
    BY <1>0, <2>1 DEF Gives
  <2>2. CASE timerCo' = "done" /\ todo' # todo
    <3> DEFINE b == timerCo = "expired" /\ ~forceStop
               X(e) == IF e THEN {"forceStop", "completeTimer"} ELSE {"completeTimer"}
               ops == If(b, <<"forceStop">>) \o <<"completeTimer">>
    <3>1. /\ If(b, <<"forceStop">>) \in Seq(X(b)) /\ <<"completeTimer">> \in Seq(X(b))
          /\ X(b) \in SUBSET Ops
      <4> HIDE DEF b
      <4>1. CASE b
        BY <4>1 DEF If, Ops
      <4>2. CASE ~b
        BY <4>2 DEF If, Ops
      <4> QED
        BY <4>1, <4>2
    <3>2. ops \in Seq(X(b))
      BY <3>1, OpsOf
    <3>3. todo' = [todo EXCEPT !["timer"] = ops]
      BY <1>37, <2>2 DEF TimerResume
    <3>4. Gives(X(b))
      <4> HIDE DEF ops, X
      <4> QED
        BY <3>2, <3>3 DEF Gives
    <3>5. CASE b
      BY <1>a, <2>2, <3>1, <3>4, <3>5 DEF Sources, ForceAsked, Ops
    <3>6. CASE ~b
      BY <1>a, <2>2, <3>1, <3>4, <3>6 DEF Sources, Ops
    <3> QED
      BY <3>5, <3>6
  <2> QED
    BY <1>37, <2>1, <2>2 DEF TimerResume
<1>38. ASSUME AcceptCompletes PROVE Sources
  BY <1>0, <1>38 DEF AcceptCompletes, Gives
<1>39. ASSUME TimerExpires PROVE Sources
  BY <1>0, <1>39 DEF TimerExpires, Gives
<1>40. ASSUME NEW c \in Conns, RemoveConnection(c) PROVE Sources
  <2>1. <<>> \in Seq(Harmless) /\ Then(c, <<>>) /\ todo[c] # <<>>
    BY <1>40 DEF RemoveConnection, Harmless, Next1
  <2> QED
    BY <1>0, <2>1 DEF Gives
<1>41. ASSUME NEW c \in Conns, ReleaseConnection(c) PROVE Sources
  <2>1. <<"maybeFinish">> \in Seq(Harmless) /\ Then(c, <<"maybeFinish">>) /\ todo[c] # <<>>
    BY <1>41 DEF ReleaseConnection, Harmless, Next1
  <2> QED
    BY <1>0, <2>1 DEF Gives
<1>42. ASSUME NEW c \in Conns, ConnResume(c) PROVE Sources
  BY <1>0, <1>42 DEF ConnResume, Frame, Gives
<1>43. ASSUME NEW c \in Conns, ConnClose(c) PROVE Sources
  <2>1. <<"remove", "release">> \in Seq(Harmless)
    BY DEF Harmless
  <2> QED
    BY <1>0, <1>43, <2>1 DEF ConnClose, Gives
<1>44. ASSUME NEW c \in Conns, CloseConnection(c) PROVE Sources
  BY <1>0, <1>44 DEF CloseConnection, Frame, Gives
<1>45. ASSUME NEW c \in Conns, IoEnds(c) PROVE Sources
  BY <1>0, <1>45 DEF IoEnds, Frame, Gives
<1>46. ASSUME NEW c \in Conns, HandlerEnds(c) PROVE Sources
  BY <1>0, <1>46 DEF HandlerEnds, Frame, Gives
<1>47. ASSUME UNCHANGED vars PROVE Sources
  BY <1>0, <1>47 DEF vars, Gives
<1> QED
  BY <1>1, <1>2, <1>3, <1>4, <1>5, <1>6, <1>7, <1>8, <1>9, <1>10, <1>11, <1>12,
     <1>13, <1>14, <1>15, <1>16, <1>17, <1>18, <1>19, <1>20, <1>21, <1>22, <1>23,
     <1>24, <1>25, <1>26, <1>27, <1>28, <1>29, <1>30, <1>31, <1>32, <1>33, <1>34,
     <1>35, <1>36, <1>37, <1>38, <1>39, <1>40, <1>41, <1>42, <1>43, <1>44, <1>45,
     <1>46, <1>47
     DEF Next, OwnerCall, OwnerStep, StrandStep, ConnStep, Operation, Actors

\* How the flags, the timer's coroutine and Run may change.
ListenerClosed ==
  stopping \/ Owes("closeAcceptor") \/ Owes("closeAcceptorNow") \/ Queued("closeAcceptor")
FlagMoves ==
  /\ started => started'
  /\ started /\ stopping => stopping'
  /\ started /\ forceStop => forceStop'
  /\ started /\ startComplete => startComplete'
  /\ started /\ startFailure => startFailure'
  /\ started /\ runFailure => runFailure'
  /\ runComplete' => runComplete \/ Owes("markRun") \/ run' = "done"
  /\ ~started /\ started' =>
       ~stopping' /\ ~forceStop' /\ ~startComplete' /\ ~runComplete' /\ timerCo' = timerCo
  /\ startFailure' => startFailure \/ stopping'
  /\ memberAcceptor' => memberAcceptor \/ (run = "publish" /\ ~stopping)
  /\ memberAcceptor /\ ~memberAcceptor' => stopping'
  /\ startComplete' /\ ~startComplete => stopping' \/ (run = "publish" /\ run' = "check0")
  /\ started' /\ stopping' /\ ~stopping =>
       \/ stopAsked' \/ Owes("forceStop") \/ startFailure' \/ runFailure'
       \/ \E o \in Owners : opc[o] = "waitMark"
TimerMoves ==
  /\ timerActive' /\ ~timerActive => started /\ ~stopping /\ stopAsked'
  /\ timerActive /\ ~timerActive' =>
       timerCo' = timerCo /\ (Owes("completeTimer") \/ ~started)
  /\ \/ timerCo' = timerCo
     \/ \E a \in Actors : SpawnDrainTimer(a)
     \/ timerCo = "spawned" /\ timerCo' = "waiting"
     \/ timerCo = "waiting" /\ timerCo' \in {"expired", "cancelled"}
     \/ Queued("timer") /\ timerCo' = "done"
  /\ timerCo' = "waiting" => timerCo = "waiting" \/ Dispatching
  /\ stopAsked => stopAsked'
RunMoves ==
  /\ run = "done" => run' = "done"
  /\ run' = "none" => run = "none"
  /\ run' = "spawned" => run \in {"none", "spawned"}
  /\ run' = "publish" => run = "publish" \/ (run = "spawned" /\ acceptor' = "open")
  /\ run = "publish" /\ run' # "publish" =>
       acceptor' = acceptor /\ (stopping' \/ memberAcceptor') /\ startComplete'
  /\ run' = "done" => run = "done" \/ run = "aborted" \/ stopping'
  /\ run' = "aborted" => run = "aborted" \/ (run = "accepting" /\ ListenerClosed)
  /\ acceptor = "open" /\ acceptor' # "open" => ListenerClosed
  /\ closeTask' # {} => closeTask # {} \/ Owes("closeAll")
  /\ closeTask' \subseteq closeTask \cup registry
  /\ registry' \subseteq registry \/ run = "launch"
  /\ open' \subseteq open \/ run = "accepting"
  /\ run = "none" /\ run' # "none" => \E o \in Owners : opc[o] = "startSpawn"
  /\ active' > active => run = "acquire"
Moves == FlagMoves /\ TimerMoves /\ RunMoves

(* Every step changes them only so.                                        *)
LEMMA MovesHold ==
  ASSUME IInv, [Next]_vars PROVE Moves
<1> USE ServerAssumption
    DEF IInv, TypeInv, LifeTypes, LoopTypes, ConnTypes, QueueTypes, life, listen, loop, drain,
        sockets, exec, calls, Moves, FlagMoves, TimerMoves, RunMoves, ListenerClosed
<1>1. ASSUME NEW o \in Owners, StartClaim(o) PROVE Moves
  BY <1>1 DEF StartClaim, Call, At, Goto
<1>2. ASSUME NEW o \in Owners, WaitCall(o) PROVE Moves
  BY <1>2 DEF WaitCall, Call, At, Goto
<1>3. ASSUME NEW o \in Owners, BeginGracefulStop(o) PROVE Moves
  BY <1>3 DEF BeginGracefulStop, Call, At, Goto, If
<1>4. ASSUME NEW o \in Owners, ForceStopCall(o) PROVE Moves
  BY <1>4 DEF ForceStopCall, Call, At, Goto
<1>5. ASSUME NEW o \in Owners, CleanUpNow(o) PROVE Moves
  <2>1. Next1(o, "closeAcceptorNow") => Owes("closeAcceptorNow")
    BY NextIsOwed DEF Actors
  <2> QED
    BY <1>5, <2>1 DEF CleanUpNow, CloseListener, CancelWait
<1>6. ASSUME NEW o \in Owners, StartSpawn(o) PROVE Moves
  <2>1. run = "none" /\ opc[o] = "startSpawn"
    BY <1>6 DEF StartSpawn, At, SpawnInv
  <2> QED
    BY <1>6, <2>1 DEF StartSpawn
<1>7. ASSUME NEW o \in Owners, StartExecutor(o) PROVE Moves
  BY <1>7 DEF StartExecutor, At, Goto, StartFails
<1>8. ASSUME NEW o \in Owners, StartThreads(o) PROVE Moves
  BY <1>8 DEF StartThreads, At, Goto
<1>9. ASSUME NEW o \in Owners, StartAbort(o) PROVE Moves
  BY <1>9 DEF StartAbort, At, Goto, StartFails
<1>10. ASSUME NEW o \in Owners, StartWait(o) PROVE Moves
  BY <1>10 DEF StartWait, At, Goto, StartFails
<1>11. ASSUME NEW o \in Owners, WaitLock(o) PROVE Moves
  BY <1>11 DEF WaitLock, At, Goto
<1>12. ASSUME NEW o \in Owners, WaitStart(o) PROVE Moves
  BY <1>12 DEF WaitStart, At, Goto
<1>13. ASSUME NEW o \in Owners, WaitJoin(o) PROVE Moves
  BY <1>13 DEF WaitJoin, At, Goto
<1>14. ASSUME NEW o \in Owners, WaitThreads(o) PROVE Moves
  BY <1>14 DEF WaitThreads, At, Goto
<1>15. ASSUME NEW o \in Owners, WaitMark(o) PROVE Moves
  BY <1>15 DEF WaitMark, At, Goto, If
<1>16. ASSUME NEW o \in Owners, WaitDrain(o) PROVE Moves
  BY <1>16 DEF WaitDrain, At, Goto
<1>17. ASSUME NEW o \in Owners, WaitDone(o) PROVE Moves
  <2>1. Holding = {}
    BY <1>17 DEF WaitDone, NoWork, Quiet, StrandIdle, RunSuspended, Holding
  <2>2. active = 0
    BY <2>1, FS_EmptySet DEF CountInv
  <2> QED
    BY <1>17, <2>2 DEF WaitDone
<1>18. ASSUME NEW a \in Actors, ForceStop(a) PROVE Moves
  <2>1. Owes("forceStop")
    BY <1>18, NextIsOwed DEF ForceStop, Actors
  <2> QED
    BY <1>18, <2>1 DEF ForceStop
<1>19. ASSUME NEW a \in Actors, CancelDrainTimer(a) PROVE Moves
  BY <1>19 DEF CancelDrainTimer, Next1, Then, CancelWait
<1>20. ASSUME NEW a \in Actors, CloseAcceptor(a) PROVE Moves
  <2>1. Owes("closeAcceptor")
    BY <1>20, NextIsOwed DEF CloseAcceptor, Actors
  <2> QED
    BY <1>20, <2>1 DEF CloseAcceptor, CloseListener
<1>21. ASSUME NEW a \in Actors, CloseAll(a) PROVE Moves
  <2>1. Owes("closeAll")
    BY <1>21, NextIsOwed DEF CloseAll, Actors
  <2> QED
    BY <1>21, <2>1 DEF CloseAll
<1>22. ASSUME NEW a \in Actors, MaybeFinishGracefulStop(a) PROVE Moves
  BY <1>22 DEF MaybeFinishGracefulStop, Next1, Then, If
<1>23. ASSUME NEW a \in Actors, ExecutorStop(a) PROVE Moves
  BY <1>23 DEF ExecutorStop, Next1, Then
<1>24. ASSUME NEW a \in Actors, MarkRunComplete(a) PROVE Moves
  <2>1. Owes("markRun")
    BY <1>24, NextIsOwed DEF MarkRunComplete, Actors
  <2> QED
    BY <1>24, <2>1 DEF MarkRunComplete
<1>25. ASSUME NEW a \in Actors, CompleteDrainTimer(a) PROVE Moves
  <2>1. Owes("completeTimer")
    BY <1>25, NextIsOwed DEF CompleteDrainTimer, Actors
  <2> QED
    BY <1>25, <2>1 DEF CompleteDrainTimer
<1>26. ASSUME NEW a \in Actors, SpawnDrainTimer(a) PROVE Moves
  <2>1. \E b \in Actors : SpawnDrainTimer(b)
    BY <1>26
  <2> QED
    BY <1>26, <2>1 DEF SpawnDrainTimer
<1>27. ASSUME StrandTask PROVE Moves
  <2>1. Head1("closeAcceptor") => Queued("closeAcceptor")
    BY HeadIsQueued DEF Head1
  <2> QED
    BY <1>27, <2>1 DEF StrandTask, CancelWait, CloseListener
<1>28. ASSUME RunResume PROVE Moves
  BY <1>28 DEF RunResume, Head1, RunEnds
<1>29. ASSUME RunPublish PROVE Moves
  BY <1>29 DEF RunPublish
<1>30. ASSUME RunCheckStartup PROVE Moves
  BY <1>30 DEF RunCheckStartup, RunEnds
<1>31. ASSUME RunCheckError PROVE Moves
  BY <1>31 DEF RunCheckError, RunEnds
<1>32. ASSUME RunCheckStopping PROVE Moves
  BY <1>32 DEF RunCheckStopping, RunEnds, Refuse
<1>33. ASSUME TryAcquireConnection PROVE Moves
  BY <1>33 DEF TryAcquireConnection, Refuse
<1>34. ASSUME RunCheckAdmitted PROVE Moves
  BY <1>34 DEF RunCheckAdmitted, RunEnds, Refuse
<1>35. ASSUME LaunchConnection PROVE Moves
  BY <1>35 DEF LaunchConnection, Refuse
<1>36. ASSUME RunFails PROVE Moves
  BY <1>36 DEF RunFails, If
<1>37. ASSUME TimerResume PROVE Moves
  <2>1. Queued("timer") /\ Dispatching
    BY <1>37, HeadIsQueued DEF TimerResume, Head1
  <2> QED
    BY <1>37, <2>1 DEF TimerResume
<1>38. ASSUME AcceptCompletes PROVE Moves
  BY <1>38 DEF AcceptCompletes
<1>39. ASSUME TimerExpires PROVE Moves
  BY <1>39 DEF TimerExpires
<1>40. ASSUME NEW c \in Conns, RemoveConnection(c) PROVE Moves
  BY <1>40 DEF RemoveConnection, Next1, Then
<1>41. ASSUME NEW c \in Conns, ReleaseConnection(c) PROVE Moves
  BY <1>41 DEF ReleaseConnection, Next1, Then
<1>42. ASSUME NEW c \in Conns, ConnResume(c) PROVE Moves
  BY <1>42 DEF ConnResume, Frame
<1>43. ASSUME NEW c \in Conns, ConnClose(c) PROVE Moves
  BY <1>43 DEF ConnClose, Frame
<1>44. ASSUME NEW c \in Conns, CloseConnection(c) PROVE Moves
  BY <1>44 DEF CloseConnection, Frame, Aborted
<1>45. ASSUME NEW c \in Conns, IoEnds(c) PROVE Moves
  BY <1>45 DEF IoEnds, Frame
<1>46. ASSUME NEW c \in Conns, HandlerEnds(c) PROVE Moves
  BY <1>46 DEF HandlerEnds, Frame
<1>47. ASSUME UNCHANGED vars PROVE Moves
  BY <1>47 DEF vars
<1> HIDE DEF Moves, IInv
<1> QED
  BY <1>1, <1>2, <1>3, <1>4, <1>5, <1>6, <1>7, <1>8, <1>9, <1>10, <1>11, <1>12,
     <1>13, <1>14, <1>15, <1>16, <1>17, <1>18, <1>19, <1>20, <1>21, <1>22, <1>23,
     <1>24, <1>25, <1>26, <1>27, <1>28, <1>29, <1>30, <1>31, <1>32, <1>33, <1>34,
     <1>35, <1>36, <1>37, <1>38, <1>39, <1>40, <1>41, <1>42, <1>43, <1>44, <1>45,
     <1>46, <1>47
     DEF Next, OwnerCall, OwnerStep, StrandStep, ConnStep, Operation, Actors

(* What is queued after the strand's queue moved.                          *)
LEMMA QueueSteps ==
  ASSUME strand \in Seq(Tasks)
  PROVE  /\ strand' = strand => \A t : Queued(t)' <=> Queued(t)
         /\ \A u \in Tasks : strand' = Append(strand, u) =>
              \A t : Queued(t)' <=> Queued(t) \/ t = u
         /\ strand # <<>> /\ strand' = Tail(strand) =>
              \A t : /\ Queued(t)' => Queued(t)
                     /\ Queued(t) /\ Head(strand) # t => Queued(t)'
         /\ \A u \in Tasks : strand # <<>> /\ strand' = Append(Tail(strand), u) =>
              \A t : /\ Queued(t)' => Queued(t) \/ t = u
                     /\ (Queued(t) /\ Head(strand) # t) \/ t = u => Queued(t)'
<1>1. ASSUME NEW u \in Tasks, strand' = Append(strand, u), NEW t
      PROVE  Queued(t)' <=> Queued(t) \/ t = u
  BY <1>1, Appended DEF Queued
<1>2. ASSUME strand # <<>>, NEW t
      PROVE  /\ Tail(strand) \in Seq(Tasks)
             /\ Tail(strand) \notin Seq(Tasks \ {t}) => Queued(t)
             /\ Queued(t) /\ Head(strand) # t => Tail(strand) \notin Seq(Tasks \ {t})
  BY <1>2, TailKeeps, TailQueued DEF Queued
<1>3. ASSUME strand # <<>>, strand' = Tail(strand), NEW t
      PROVE  /\ Queued(t)' => Queued(t)
             /\ Queued(t) /\ Head(strand) # t => Queued(t)'
  BY <1>2, <1>3 DEF Queued
<1>4. ASSUME NEW u \in Tasks, strand # <<>>, strand' = Append(Tail(strand), u), NEW t
      PROVE  /\ Queued(t)' => Queued(t) \/ t = u
             /\ (Queued(t) /\ Head(strand) # t) \/ t = u => Queued(t)'
  <2>1. Append(Tail(strand), u) \in Seq(Tasks \ {t})
          <=> Tail(strand) \in Seq(Tasks \ {t}) /\ u # t
    BY <1>2, <1>4, Appended
  <2> QED
    BY <1>2, <1>4, <2>1 DEF Queued
<1>5. strand' = strand => \A t : Queued(t)' <=> Queued(t)
  BY DEF Queued
<1> QED
  BY <1>1, <1>3, <1>4, <1>5

\* The places from which the strand resumes the timer's coroutine and Run.
Expected  == {"spawned", "expired", "cancelled"}
Resumable == {"spawned", "accepted", "aborted", "acceptError", "retried"}
QueueMoves ==
  /\ Queued("timer")' => Queued("timer") \/ timerCo' \in Expected
  /\ Queued("closeAcceptor")' => Queued("closeAcceptor") \/ Owes("closeAcceptor")
  /\ Queued("timer") /\ ~Queued("timer")' => timerCo' \in {"waiting", "done"}
  /\ Queued("run") /\ ~Queued("run")' => run' \notin Resumable
  /\ timerCo' \in Expected /\ timerCo' # timerCo => Queued("timer")'
  /\ run' \in Resumable /\ run' # run => Queued("run")'

(* Who leaves a place from which he is to be resumed was resumed, and who  *)

(* reaches one is queued.                                                  *)
LEMMA QueueMovesHold ==
  ASSUME IInv, [Next]_vars PROVE QueueMoves
<1> USE DEF IInv, TypeInv, LoopTypes, QueueTypes, loop, drain, calls, exec, QueueMoves,
        Expected, Resumable
<1>a. ASSUME strand' = strand, timerCo' = timerCo, run' = run \/ run' \notin Resumable
      PROVE  QueueMoves
  BY <1>a, QueueSteps
<1>1. ASSUME NEW o \in Owners, StartClaim(o) PROVE QueueMoves
  BY <1>a, <1>1 DEF StartClaim
<1>2. ASSUME NEW o \in Owners, WaitCall(o) PROVE QueueMoves
  BY <1>a, <1>2 DEF WaitCall
<1>3. ASSUME NEW o \in Owners, BeginGracefulStop(o) PROVE QueueMoves
  BY <1>a, <1>3 DEF BeginGracefulStop
<1>4. ASSUME NEW o \in Owners, ForceStopCall(o) PROVE QueueMoves
  BY <1>a, <1>4 DEF ForceStopCall
<1>5. ASSUME NEW o \in Owners, CleanUpNow(o) PROVE QueueMoves
  BY <1>5, QueueSteps DEF CleanUpNow, CloseListener, CancelWait, Tasks
<1>6. ASSUME NEW o \in Owners, StartSpawn(o) PROVE QueueMoves
  BY <1>6, QueueSteps DEF StartSpawn, Tasks
<1>7. ASSUME NEW o \in Owners, StartExecutor(o) PROVE QueueMoves
  BY <1>a, <1>7 DEF StartExecutor
<1>8. ASSUME NEW o \in Owners, StartThreads(o) PROVE QueueMoves
  BY <1>a, <1>8 DEF StartThreads
<1>9. ASSUME NEW o \in Owners, StartAbort(o) PROVE QueueMoves
  BY <1>a, <1>9 DEF StartAbort
<1>10. ASSUME NEW o \in Owners, StartWait(o) PROVE QueueMoves
  BY <1>a, <1>10 DEF StartWait
<1>11. ASSUME NEW o \in Owners, WaitLock(o) PROVE QueueMoves
  BY <1>a, <1>11 DEF WaitLock
<1>12. ASSUME NEW o \in Owners, WaitStart(o) PROVE QueueMoves
  BY <1>a, <1>12 DEF WaitStart
<1>13. ASSUME NEW o \in Owners, WaitJoin(o) PROVE QueueMoves
  BY <1>a, <1>13 DEF WaitJoin
<1>14. ASSUME NEW o \in Owners, WaitThreads(o) PROVE QueueMoves
  BY <1>a, <1>14 DEF WaitThreads
<1>15. ASSUME NEW o \in Owners, WaitMark(o) PROVE QueueMoves
  BY <1>a, <1>15 DEF WaitMark
<1>16. ASSUME NEW o \in Owners, WaitDrain(o) PROVE QueueMoves
  BY <1>a, <1>16 DEF WaitDrain
<1>17. ASSUME NEW o \in Owners, WaitDone(o) PROVE QueueMoves
  BY <1>a, <1>17 DEF WaitDone
<1>18. ASSUME NEW a \in Actors, ForceStop(a) PROVE QueueMoves
  BY <1>a, <1>18 DEF ForceStop
<1>19. ASSUME NEW a \in Actors, CancelDrainTimer(a) PROVE QueueMoves
  BY <1>19, QueueSteps DEF CancelDrainTimer, CancelWait, Tasks
<1>20. ASSUME NEW a \in Actors, CloseAcceptor(a) PROVE QueueMoves
  <2>1. Owes("closeAcceptor")
    BY <1>20, NextIsOwed DEF CloseAcceptor, Actors
  <2> QED
    BY <1>20, <2>1, QueueSteps DEF CloseAcceptor, CloseListener, Tasks
<1>21. ASSUME NEW a \in Actors, CloseAll(a) PROVE QueueMoves
  BY <1>a, <1>21 DEF CloseAll
<1>22. ASSUME NEW a \in Actors, MaybeFinishGracefulStop(a) PROVE QueueMoves
  BY <1>a, <1>22 DEF MaybeFinishGracefulStop
<1>23. ASSUME NEW a \in Actors, ExecutorStop(a) PROVE QueueMoves
  BY <1>a, <1>23 DEF ExecutorStop
<1>24. ASSUME NEW a \in Actors, MarkRunComplete(a) PROVE QueueMoves
  BY <1>a, <1>24 DEF MarkRunComplete
<1>25. ASSUME NEW a \in Actors, CompleteDrainTimer(a) PROVE QueueMoves
  BY <1>a, <1>25 DEF CompleteDrainTimer
<1>26. ASSUME NEW a \in Actors, SpawnDrainTimer(a) PROVE QueueMoves
  BY <1>26, QueueSteps DEF SpawnDrainTimer, Tasks
<1>27. ASSUME StrandTask PROVE QueueMoves
  BY <1>27, QueueSteps DEF StrandTask, Head1, CloseListener, CancelWait, Tasks
<1>28. ASSUME RunResume PROVE QueueMoves
  BY <1>28, QueueSteps DEF RunResume, Head1, RunEnds, Tasks
<1>29. ASSUME RunPublish PROVE QueueMoves
  BY <1>a, <1>29 DEF RunPublish
<1>30. ASSUME RunCheckStartup PROVE QueueMoves
  BY <1>a, <1>30 DEF RunCheckStartup, RunEnds
<1>31. ASSUME RunCheckError PROVE QueueMoves
  BY <1>a, <1>31 DEF RunCheckError, RunEnds
<1>32. ASSUME RunCheckStopping PROVE QueueMoves
  BY <1>a, <1>32 DEF RunCheckStopping, RunEnds
<1>33. ASSUME TryAcquireConnection PROVE QueueMoves
  BY <1>a, <1>33 DEF TryAcquireConnection
<1>34. ASSUME RunCheckAdmitted PROVE QueueMoves
  BY <1>a, <1>34 DEF RunCheckAdmitted, RunEnds
<1>35. ASSUME LaunchConnection PROVE QueueMoves
  BY <1>a, <1>35 DEF LaunchConnection
<1>36. ASSUME RunFails PROVE QueueMoves
  BY <1>a, <1>36 DEF RunFails
<1>37. ASSUME TimerResume PROVE QueueMoves
  BY <1>37, QueueSteps DEF TimerResume, Head1, Tasks
<1>38. ASSUME AcceptCompletes PROVE QueueMoves
  BY <1>38, QueueSteps DEF AcceptCompletes, Tasks
<1>39. ASSUME TimerExpires PROVE QueueMoves
  BY <1>39, QueueSteps DEF TimerExpires, Tasks
<1>40. ASSUME NEW c \in Conns, RemoveConnection(c) PROVE QueueMoves
  BY <1>a, <1>40 DEF RemoveConnection
<1>41. ASSUME NEW c \in Conns, ReleaseConnection(c) PROVE QueueMoves
  BY <1>a, <1>41 DEF ReleaseConnection
<1>42. ASSUME NEW c \in Conns, ConnResume(c) PROVE QueueMoves
  BY <1>a, <1>42 DEF ConnResume, Frame
<1>43. ASSUME NEW c \in Conns, ConnClose(c) PROVE QueueMoves
  BY <1>a, <1>43 DEF ConnClose, Frame
<1>44. ASSUME NEW c \in Conns, CloseConnection(c) PROVE QueueMoves
  BY <1>a, <1>44 DEF CloseConnection, Frame
<1>45. ASSUME NEW c \in Conns, IoEnds(c) PROVE QueueMoves
  BY <1>a, <1>45 DEF IoEnds, Frame
<1>46. ASSUME NEW c \in Conns, HandlerEnds(c) PROVE QueueMoves
  BY <1>a, <1>46 DEF HandlerEnds, Frame
<1>47. ASSUME UNCHANGED vars PROVE QueueMoves
  BY <1>a, <1>47 DEF vars
<1> HIDE DEF QueueMoves, IInv
<1> QED
  BY <1>1, <1>2, <1>3, <1>4, <1>5, <1>6, <1>7, <1>8, <1>9, <1>10, <1>11, <1>12,
     <1>13, <1>14, <1>15, <1>16, <1>17, <1>18, <1>19, <1>20, <1>21, <1>22, <1>23,
     <1>24, <1>25, <1>26, <1>27, <1>28, <1>29, <1>30, <1>31, <1>32, <1>33, <1>34,
     <1>35, <1>36, <1>37, <1>38, <1>39, <1>40, <1>41, <1>42, <1>43, <1>44, <1>45,
     <1>46, <1>47
     DEF Next, OwnerCall, OwnerStep, StrandStep, ConnStep, Operation, Actors

-----------------------------------------------------------------------------
(* The callers and the executor.                                           *)

\* Start has returned normally, or waits for the accept loop to listen.
Serving == startResult = "ok" \/ \E o \in Owners : opc[o] = "startWait"

\* Start has begun and has not yet failed.
LiveStart ==
  \/ startResult = "ok"
  \/ \E o \in Owners :
       opc[o] \in {"startSpawn", "startExecutor", "startThreads", "startWait"}
Draining == \E o \in Owners : opc[o] = "drain"

\* Where the callers are tells how far the executor's life has gone.
CallInv ==
  /\ \A o \in Owners :
       /\ opc[o] \in {"startThreads", "startAbort"} => execLife = "Starting"
       /\ opc[o] = "waitThreads" => execLife \in {"Joining", "Joined"}
       /\ opc[o] \in {"waitMark", "waitClean", "drain"} => execLife = "Joined"
       /\ waitResult[o] # "none" => execLife = "Joined"
  /\ startResult # "none" => started /\ starter = None
  /\ startResult = "failed" => execLife = "Joined"
  /\ started /\ startResult = "none" => starter \in Owners /\ opc[starter] # "idle"
  /\ Serving => execLife \notin {"Created", "Starting"}

\* How the executor's life goes on.
Aborting == \E o \in Owners : opc[o] = "startAbort"
ExecMoves ==
  /\ execLife = "Joined" => execLife' = "Joined"
  /\ execLife' = "Joined" =>
       execLife = "Joined" \/ execLife \in {"Created", "Starting"} \/ iocStopped
  /\ iocStopped' => iocStopped \/ Owes("execStop") \/ Aborting' \/ execLife = "Joined"
  /\ Aborting /\ ~Aborting' => execLife' = "Joined"
  /\ Serving' => Serving \/ execLife' # "Joined"
  /\ LiveStart' => LiveStart \/ ~started
  /\ startResult' = "ok" =>
       startResult = "ok" \/ (started /\ startComplete /\ ~startFailure)
  /\ \/ \E o \in Owners : WaitDone(o)
     \/ /\ waitResult' = waitResult /\ (Draining => Draining')
        /\ startResult' = "failed" => startResult = "failed"

(* Every step keeps it, and moves the executor's life only so.             *)
LEMMA CallStep ==
  ASSUME IInv, CallInv, [Next]_vars PROVE CallInv' /\ ExecMoves
<1> DEFINE Goal == CallInv' /\ ExecMoves
<1> SUFFICES Goal
  OBVIOUS
<1> USE ServerAssumption
    DEF IInv, TypeInv, LifeTypes, LoopTypes, CallTypes, OwnerPCs, SpawnInv, StartPCs, CallInv,
        Serving, LiveStart, Draining, Aborting, ExecMoves, life, exec, calls
<1>a. ASSUME UNCHANGED <<execLife, iocStopped>>, UNCHANGED calls, started => started',
             started' => started
      PROVE  Goal
  BY <1>a
<1>1. ASSUME NEW o \in Owners, StartClaim(o) PROVE Goal
  BY <1>1 DEF StartClaim, Call, At, Goto
<1>2. ASSUME NEW o \in Owners, WaitCall(o) PROVE Goal
  BY <1>2 DEF WaitCall, Call, At, Goto
<1>3. ASSUME NEW o \in Owners, BeginGracefulStop(o) PROVE Goal
  BY <1>3 DEF BeginGracefulStop, Call, At, Goto
<1>4. ASSUME NEW o \in Owners, ForceStopCall(o) PROVE Goal
  BY <1>4 DEF ForceStopCall, Call, At, Goto
<1>5. ASSUME NEW o \in Owners, CleanUpNow(o) PROVE Goal
  BY <1>a, <1>5 DEF CleanUpNow
<1>6. ASSUME NEW o \in Owners, StartSpawn(o) PROVE Goal
  BY <1>6 DEF StartSpawn, At, Goto, StartFails
<1>7. ASSUME NEW o \in Owners, StartExecutor(o) PROVE Goal
  BY <1>7 DEF StartExecutor, At, Goto, StartFails
<1>8. ASSUME NEW o \in Owners, StartThreads(o) PROVE Goal
  BY <1>8 DEF StartThreads, At, Goto
<1>9. ASSUME NEW o \in Owners, StartAbort(o) PROVE Goal
  BY <1>9 DEF StartAbort, At, Goto, StartFails
<1>10. ASSUME NEW o \in Owners, StartWait(o) PROVE Goal
  BY <1>10 DEF StartWait, At, Goto, StartFails
<1>11. ASSUME NEW o \in Owners, WaitLock(o) PROVE Goal
  BY <1>11 DEF WaitLock, At, Goto
<1>12. ASSUME NEW o \in Owners, WaitStart(o) PROVE Goal
  BY <1>12 DEF WaitStart, At, Goto
<1>13. ASSUME NEW o \in Owners, WaitJoin(o) PROVE Goal
  BY <1>13 DEF WaitJoin, At, Goto
<1>14. ASSUME NEW o \in Owners, WaitThreads(o) PROVE Goal
  BY <1>14 DEF WaitThreads, At, Goto
<1>15. ASSUME NEW o \in Owners, WaitMark(o) PROVE Goal
  BY <1>15 DEF WaitMark, At, Goto
<1>16. ASSUME NEW o \in Owners, WaitDrain(o) PROVE Goal
  BY <1>16 DEF WaitDrain, At, Goto
<1>17. ASSUME NEW o \in Owners, WaitDone(o) PROVE Goal
  BY <1>17 DEF WaitDone, At, Goto
<1>18. ASSUME NEW a \in Actors, ForceStop(a) PROVE Goal
  BY <1>a, <1>18 DEF ForceStop
<1>19. ASSUME NEW a \in Actors, CancelDrainTimer(a) PROVE Goal
  BY <1>a, <1>19 DEF CancelDrainTimer
<1>20. ASSUME NEW a \in Actors, CloseAcceptor(a) PROVE Goal
  BY <1>a, <1>20 DEF CloseAcceptor
<1>21. ASSUME NEW a \in Actors, CloseAll(a) PROVE Goal
  BY <1>a, <1>21 DEF CloseAll
<1>22. ASSUME NEW a \in Actors, MaybeFinishGracefulStop(a) PROVE Goal
  BY <1>a, <1>22 DEF MaybeFinishGracefulStop
<1>23. ASSUME NEW a \in Actors, ExecutorStop(a) PROVE Goal
  <2>1. Owes("execStop")
    BY <1>23, NextIsOwed DEF ExecutorStop, Actors, QueueTypes
  <2>2. UNCHANGED calls /\ started' = started
    BY <1>23 DEF ExecutorStop
  <2>3. \/ execLife' = execLife
        \/ execLife \in {"Created", "Running"} /\ execLife' = "Stopping"
    BY <1>23 DEF ExecutorStop
  <2>4. Aborting' <=> Aborting
    BY <2>2
  <2>5. CallInv'
    BY <2>2, <2>3
  <2> QED
    BY <2>1, <2>2, <2>3, <2>4, <2>5
<1>24. ASSUME NEW a \in Actors, MarkRunComplete(a) PROVE Goal
  BY <1>a, <1>24 DEF MarkRunComplete
<1>25. ASSUME NEW a \in Actors, CompleteDrainTimer(a) PROVE Goal
  BY <1>a, <1>25 DEF CompleteDrainTimer
<1>26. ASSUME NEW a \in Actors, SpawnDrainTimer(a) PROVE Goal
  BY <1>a, <1>26 DEF SpawnDrainTimer
<1>27. ASSUME StrandTask PROVE Goal
  BY <1>a, <1>27 DEF StrandTask
<1>28. ASSUME RunResume PROVE Goal
  BY <1>a, <1>28 DEF RunResume, RunEnds
<1>29. ASSUME RunPublish PROVE Goal
  BY <1>a, <1>29 DEF RunPublish
<1>30. ASSUME RunCheckStartup PROVE Goal
  BY <1>a, <1>30 DEF RunCheckStartup, RunEnds
<1>31. ASSUME RunCheckError PROVE Goal
  BY <1>a, <1>31 DEF RunCheckError, RunEnds
<1>32. ASSUME RunCheckStopping PROVE Goal
  BY <1>a, <1>32 DEF RunCheckStopping, RunEnds
<1>33. ASSUME TryAcquireConnection PROVE Goal
  BY <1>a, <1>33 DEF TryAcquireConnection
<1>34. ASSUME RunCheckAdmitted PROVE Goal
  BY <1>a, <1>34 DEF RunCheckAdmitted, RunEnds
<1>35. ASSUME LaunchConnection PROVE Goal
  BY <1>a, <1>35 DEF LaunchConnection
<1>36. ASSUME RunFails PROVE Goal
  BY <1>a, <1>36 DEF RunFails
<1>37. ASSUME TimerResume PROVE Goal
  BY <1>a, <1>37 DEF TimerResume
<1>38. ASSUME AcceptCompletes PROVE Goal
  BY <1>a, <1>38 DEF AcceptCompletes
<1>39. ASSUME TimerExpires PROVE Goal
  BY <1>a, <1>39 DEF TimerExpires
<1>40. ASSUME NEW c \in Conns, RemoveConnection(c) PROVE Goal
  BY <1>a, <1>40 DEF RemoveConnection
<1>41. ASSUME NEW c \in Conns, ReleaseConnection(c) PROVE Goal
  BY <1>a, <1>41 DEF ReleaseConnection
<1>42. ASSUME NEW c \in Conns, ConnResume(c) PROVE Goal
  BY <1>a, <1>42 DEF ConnResume, Frame
<1>43. ASSUME NEW c \in Conns, ConnClose(c) PROVE Goal
  BY <1>a, <1>43 DEF ConnClose, Frame
<1>44. ASSUME NEW c \in Conns, CloseConnection(c) PROVE Goal
  BY <1>a, <1>44 DEF CloseConnection, Frame
<1>45. ASSUME NEW c \in Conns, IoEnds(c) PROVE Goal
  BY <1>a, <1>45 DEF IoEnds, Frame
<1>46. ASSUME NEW c \in Conns, HandlerEnds(c) PROVE Goal
  BY <1>a, <1>46 DEF HandlerEnds, Frame
<1>47. ASSUME UNCHANGED vars PROVE Goal
  BY <1>a, <1>47 DEF vars
<1> HIDE DEF ExecMoves, Goal, IInv, CallInv, TypeInv, LifeTypes, LoopTypes,
   CallTypes, SpawnInv
<1> QED
  BY <1>1, <1>2, <1>3, <1>4, <1>5, <1>6, <1>7, <1>8, <1>9, <1>10, <1>11, <1>12,
     <1>13, <1>14, <1>15, <1>16, <1>17, <1>18, <1>19, <1>20, <1>21, <1>22, <1>23,
     <1>24, <1>25, <1>26, <1>27, <1>28, <1>29, <1>30, <1>31, <1>32, <1>33, <1>34,
     <1>35, <1>36, <1>37, <1>38, <1>39, <1>40, <1>41, <1>42, <1>43, <1>44, <1>45,
     <1>46, <1>47
     DEF Next, OwnerCall, OwnerStep, StrandStep, ConnStep, Operation, Actors

-----------------------------------------------------------------------------
(* The drain timer.                                                        *)

\* An owner works off what it has to do in order; only SpawnDrainTimer takes
\* the spawning of the timer off.
OwnerWorks ==
  \A o \in Owners : todo[o] # <<>> =>
    /\ Head(todo[o]) = "closeAcceptor" => todo'[o] \in {todo[o], Tail(todo[o])}
    /\ Head(todo[o]) = "spawnTimer" => todo'[o] = todo[o] \/ SpawnDrainTimer(o)

(* Every step is so.                                                       *)
LEMMA OwnersWork ==
  ASSUME IInv, [Next]_vars PROVE OwnerWorks
<1> USE ServerAssumption DEF IInv, TypeInv, QueueTypes, Actors, OwnerWorks
<1>1. ASSUME NEW o \in Owners, StartClaim(o) PROVE OwnerWorks
  BY <1>1 DEF StartClaim, Call, At
<1>2. ASSUME NEW o \in Owners, WaitCall(o) PROVE OwnerWorks
  BY <1>2 DEF WaitCall, Call, At
<1>3. ASSUME NEW o \in Owners, BeginGracefulStop(o) PROVE OwnerWorks
  BY <1>3 DEF BeginGracefulStop, Call, At
<1>4. ASSUME NEW o \in Owners, ForceStopCall(o) PROVE OwnerWorks
  BY <1>4 DEF ForceStopCall, Call, At
<1>5. ASSUME NEW o \in Owners, CleanUpNow(o) PROVE OwnerWorks
  BY <1>5 DEF CleanUpNow, Next1, Then
<1>6. ASSUME NEW o \in Owners, StartSpawn(o) PROVE OwnerWorks
  BY <1>6 DEF StartSpawn, At, StartFails
<1>7. ASSUME NEW o \in Owners, StartExecutor(o) PROVE OwnerWorks
  BY <1>7 DEF StartExecutor, At, StartFails
<1>8. ASSUME NEW o \in Owners, StartThreads(o) PROVE OwnerWorks
  BY <1>8 DEF StartThreads, At
<1>9. ASSUME NEW o \in Owners, StartAbort(o) PROVE OwnerWorks
  BY <1>9 DEF StartAbort, At, StartFails
<1>10. ASSUME NEW o \in Owners, StartWait(o) PROVE OwnerWorks
  BY <1>10 DEF StartWait, At, StartFails
<1>11. ASSUME NEW o \in Owners, WaitLock(o) PROVE OwnerWorks
  BY <1>11 DEF WaitLock, At
<1>12. ASSUME NEW o \in Owners, WaitStart(o) PROVE OwnerWorks
  BY <1>12 DEF WaitStart, At
<1>13. ASSUME NEW o \in Owners, WaitJoin(o) PROVE OwnerWorks
  BY <1>13 DEF WaitJoin, At
<1>14. ASSUME NEW o \in Owners, WaitThreads(o) PROVE OwnerWorks
  BY <1>14 DEF WaitThreads, At
<1>15. ASSUME NEW o \in Owners, WaitMark(o) PROVE OwnerWorks
  BY <1>15 DEF WaitMark, At
<1>16. ASSUME NEW o \in Owners, WaitDrain(o) PROVE OwnerWorks
  BY <1>16 DEF WaitDrain, At
<1>17. ASSUME NEW o \in Owners, WaitDone(o) PROVE OwnerWorks
  BY <1>17 DEF WaitDone, At
<1>18. ASSUME NEW a \in Actors, ForceStop(a) PROVE OwnerWorks
  BY <1>18 DEF ForceStop, Next1, Then
<1>19. ASSUME NEW a \in Actors, CancelDrainTimer(a) PROVE OwnerWorks
  BY <1>19 DEF CancelDrainTimer, Next1, Then
<1>20. ASSUME NEW a \in Actors, CloseAcceptor(a) PROVE OwnerWorks
  BY <1>20 DEF CloseAcceptor, Next1, Then
<1>21. ASSUME NEW a \in Actors, CloseAll(a) PROVE OwnerWorks
  BY <1>21 DEF CloseAll, Next1, Then
<1>22. ASSUME NEW a \in Actors, MaybeFinishGracefulStop(a) PROVE OwnerWorks
  BY <1>22 DEF MaybeFinishGracefulStop, Next1, Then
<1>23. ASSUME NEW a \in Actors, ExecutorStop(a) PROVE OwnerWorks
  BY <1>23 DEF ExecutorStop, Next1, Then
<1>24. ASSUME NEW a \in Actors, MarkRunComplete(a) PROVE OwnerWorks
  BY <1>24 DEF MarkRunComplete, Next1, Then
<1>25. ASSUME NEW a \in Actors, CompleteDrainTimer(a) PROVE OwnerWorks
  BY <1>25 DEF CompleteDrainTimer, Next1, Then
<1>26. ASSUME NEW a \in Actors, SpawnDrainTimer(a) PROVE OwnerWorks
  BY <1>26 DEF SpawnDrainTimer, Next1, Then
<1>27. ASSUME StrandTask PROVE OwnerWorks
  BY <1>27 DEF StrandTask
<1>28. ASSUME RunResume PROVE OwnerWorks
  BY <1>28 DEF RunResume, RunEnds
<1>29. ASSUME RunPublish PROVE OwnerWorks
  BY <1>29 DEF RunPublish
<1>30. ASSUME RunCheckStartup PROVE OwnerWorks
  BY <1>30 DEF RunCheckStartup, RunEnds
<1>31. ASSUME RunCheckError PROVE OwnerWorks
  BY <1>31 DEF RunCheckError, RunEnds
<1>32. ASSUME RunCheckStopping PROVE OwnerWorks
  BY <1>32 DEF RunCheckStopping, RunEnds
<1>33. ASSUME TryAcquireConnection PROVE OwnerWorks
  BY <1>33 DEF TryAcquireConnection
<1>34. ASSUME RunCheckAdmitted PROVE OwnerWorks
  BY <1>34 DEF RunCheckAdmitted, RunEnds
<1>35. ASSUME LaunchConnection PROVE OwnerWorks
  BY <1>35 DEF LaunchConnection
<1>36. ASSUME RunFails PROVE OwnerWorks
  BY <1>36 DEF RunFails
<1>37. ASSUME TimerResume PROVE OwnerWorks
  BY <1>37 DEF TimerResume
<1>38. ASSUME AcceptCompletes PROVE OwnerWorks
  BY <1>38 DEF AcceptCompletes
<1>39. ASSUME TimerExpires PROVE OwnerWorks
  BY <1>39 DEF TimerExpires
<1>40. ASSUME NEW c \in Conns, RemoveConnection(c) PROVE OwnerWorks
  BY <1>40 DEF RemoveConnection, Next1, Then
<1>41. ASSUME NEW c \in Conns, ReleaseConnection(c) PROVE OwnerWorks
  BY <1>41 DEF ReleaseConnection, Next1, Then
<1>42. ASSUME NEW c \in Conns, ConnResume(c) PROVE OwnerWorks
  BY <1>42 DEF ConnResume, Frame
<1>43. ASSUME NEW c \in Conns, ConnClose(c) PROVE OwnerWorks
  BY <1>43 DEF ConnClose, Frame
<1>44. ASSUME NEW c \in Conns, CloseConnection(c) PROVE OwnerWorks
  BY <1>44 DEF CloseConnection, Frame
<1>45. ASSUME NEW c \in Conns, IoEnds(c) PROVE OwnerWorks
  BY <1>45 DEF IoEnds, Frame
<1>46. ASSUME NEW c \in Conns, HandlerEnds(c) PROVE OwnerWorks
  BY <1>46 DEF HandlerEnds, Frame
<1>47. ASSUME UNCHANGED vars PROVE OwnerWorks
  BY <1>47 DEF vars
<1> HIDE DEF OwnerWorks, IInv, TypeInv, QueueTypes
<1> QED
  BY <1>1, <1>2, <1>3, <1>4, <1>5, <1>6, <1>7, <1>8, <1>9, <1>10, <1>11, <1>12,
     <1>13, <1>14, <1>15, <1>16, <1>17, <1>18, <1>19, <1>20, <1>21, <1>22, <1>23,
     <1>24, <1>25, <1>26, <1>27, <1>28, <1>29, <1>30, <1>31, <1>32, <1>33, <1>34,
     <1>35, <1>36, <1>37, <1>38, <1>39, <1>40, <1>41, <1>42, <1>43, <1>44, <1>45,
     <1>46, <1>47
     DEF Next, OwnerCall, OwnerStep, StrandStep, ConnStep, Operation, Actors

\* From BeginGracefulStop to the end of the timer's coroutine the timer is
\* outstanding, at most one owner spawns the coroutine, and it completes once.
Spawns == {<<"spawnTimer">>, <<"closeAcceptor", "spawnTimer">>}
Waiting == Expected \cup {"waiting"}
TimerInv ==
  /\ ~started \/ ~stopping =>
       timerCo = "none" /\ ~Owes("spawnTimer") /\ ~Owes("completeTimer")
  /\ Owes("spawnTimer") =>
       timerCo = "none" /\ timerActive /\ stopAsked /\ ~Owes("completeTimer")
  /\ \A a \in Actors : Owed(a, "spawnTimer") =>
       /\ a \in Owners /\ todo[a] \in Spawns
       /\ \A b \in Actors : Owed(b, "spawnTimer") => a = b
  /\ Owes("completeTimer") => timerCo \in {"none", "done"}
  /\ timerCo \in Waiting => timerActive
  /\ timerCo \in Expected => Queued("timer")
  /\ Queued("timer") => timerCo # "none"
  /\ timerCo # "none" => stopAsked

(* Two operations, one after the other.                                    *)
LEMMA Pair ==
  ASSUME NEW x, NEW y PROVE <<x>> \o <<y>> = <<x, y>>
<1> DEFINE S == {x, y}
<1>1. <<x>> \o <<y>> \in Seq(S) /\ <<x, y>> \in Seq(S)
  OBVIOUS
<1>2. Len(<<x>> \o <<y>>) = 2 /\ Len(<<x, y>>) = 2
  OBVIOUS
<1>3. \A i \in 1..2 : (<<x>> \o <<y>>)[i] = <<x, y>>[i]
  OBVIOUS
<1>4. \A s, t \in Seq(S) : Len(s) = Len(t) /\ (\A i \in 1..Len(s) : s[i] = t[i]) => s = t
  OBVIOUS
<1> QED
  BY <1>1, <1>2, <1>3, <1>4

(* The operations of Spawns, and what is left of them.                     *)
LEMMA SpawnShapes ==
  ASSUME NEW s \in Spawns
  PROVE  /\ s # <<>> /\ s \in Seq(Ops)
         /\ Head(s) = "spawnTimer" => s = <<"spawnTimer">> /\ Tail(s) = <<>>
         /\ Head(s) # "spawnTimer" => Head(s) = "closeAcceptor" /\ Tail(s) \in Spawns
<1>1. Tail(<<"spawnTimer">>) = <<>>
  OBVIOUS
<1>2. Tail(<<"closeAcceptor", "spawnTimer">>) = <<"spawnTimer">>
  OBVIOUS
<1>3. <<"spawnTimer">> \in Seq(Ops) /\ <<"closeAcceptor", "spawnTimer">> \in Seq(Ops)
  BY DEF Ops
<1>4. CASE s = <<"spawnTimer">>
  BY <1>1, <1>3, <1>4
<1>5. CASE s = <<"closeAcceptor", "spawnTimer">>
  BY <1>2, <1>3, <1>5 DEF Spawns
<1> QED
  BY <1>4, <1>5 DEF Spawns

(* Every step keeps it.                                                    *)
LEMMA TimerStep ==
  ASSUME IInv, TimerInv, [Next]_vars PROVE TimerInv'
<1> USE DEF Expected, Waiting
<1>1. Sources /\ FlagMoves /\ TimerMoves /\ QueueMoves /\ OwnerWorks
  BY TodoSources, MovesHold, QueueMovesHold, OwnersWork DEF IInv, Moves
<1>2. todo \in [Actors -> Seq(Ops)] /\ Owners \subseteq Actors
  BY DEF IInv, TypeInv, QueueTypes, Actors
<1>3. ASSUME NEW o \in Owners, DrainPlanned(o) PROVE TimerInv'
  <2> DEFINE ops == If(memberAcceptor, <<"closeAcceptor">>) \o <<"spawnTimer">>
  <2>1. /\ started /\ ~stopping /\ started' /\ stopping' /\ timerActive' /\ stopAsked'
        /\ timerCo' = timerCo /\ strand' = strand
        /\ todo' = [todo EXCEPT ![o] = ops]
    BY <1>3 DEF DrainPlanned, BeginGracefulStop, IInv, TypeInv, LifeTypes
  <2>2. ops \in Spawns
    <3>1. <<>> \o <<"spawnTimer">> = <<"spawnTimer">>
      OBVIOUS
    <3>2. <<"closeAcceptor">> \o <<"spawnTimer">> = <<"closeAcceptor", "spawnTimer">>
      BY Pair
    <3> QED
      BY <3>1, <3>2 DEF If, Spawns
  <2>3. ~Owes("spawnTimer") /\ ~Owes("completeTimer") /\ timerCo = "none"
    BY <2>1 DEF TimerInv
  <2>4. \A a \in Actors : Owed(a, "spawnTimer")' => a = o
    BY <2>1, <2>3 DEF Owes, Owed
  <2>5. todo'[o] \in Spawns
    BY <1>2, <2>1, <2>2
  <2>6. ~Owes("completeTimer")'
    <3>1. ~\E a \in Actors : SpawnDrainTimer(a)
      <4>1. ASSUME NEW a \in Actors, SpawnDrainTimer(a) PROVE FALSE
        BY <1>2, <2>3, <4>1, NextIsOwed DEF SpawnDrainTimer
      <4> QED
        BY <4>1
    <3> QED
      BY <1>1, <2>1, <2>3, <3>1 DEF Sources
  <2>7. ~Queued("timer")'
    BY <2>1, <2>3 DEF Queued, TimerInv
  <2> QED
    BY <2>1, <2>3, <2>4, <2>5, <2>6, <2>7 DEF TimerInv
<1>4. ASSUME NEW a \in Actors, SpawnDrainTimer(a) PROVE TimerInv'
  <2>1. Owed(a, "spawnTimer") /\ Owes("spawnTimer") /\ Next1(a, "spawnTimer")
    BY <1>2, <1>4, NextIsOwed DEF SpawnDrainTimer
  <2>2. todo[a] = <<"spawnTimer">> /\ Tail(todo[a]) = <<>>
    BY <2>1, SpawnShapes DEF TimerInv, Next1
  <2>3. /\ timerCo = "none" /\ timerActive /\ stopAsked /\ ~Owes("completeTimer")
        /\ started /\ stopping
    BY <2>1 DEF TimerInv
  <2>4. started' /\ stopping' /\ timerActive' /\ stopAsked'
    BY <1>4, <2>3 DEF SpawnDrainTimer, life, calls
  <2>5. ~Owes("spawnTimer")'
    <3>1. <<>> \in Seq(Ops \ {"spawnTimer"})
          /\ <<"completeTimer", "forceStop">> \in Seq(Ops \ {"spawnTimer"})
      BY DEF Ops
    <3>2. todo'[a] \in {<<>>, <<"completeTimer", "forceStop">>}
          /\ \A b \in Actors \ {a} : todo'[b] = todo[b]
      BY <1>2, <1>4, <2>2 DEF SpawnDrainTimer, Then
    <3>3. ASSUME NEW b \in Actors, Owed(b, "spawnTimer")' PROVE FALSE
      <4>1. b # a
        BY <3>1, <3>2, <3>3 DEF Owed
      <4>2. Owed(b, "spawnTimer")
        BY <3>2, <3>3, <4>1 DEF Owed
      <4> QED
        BY <2>1, <4>1, <4>2 DEF TimerInv
    <3> QED
      BY <3>3 DEF Owes
  <2>6. CASE Then(a, <<>>) /\ timerCo' = "spawned"
    <3>1. ~Owes("completeTimer")'
      <4>1. <<>> \in Seq({})
        OBVIOUS
      <4>2. Gives({})
        BY <2>1, <2>6, <4>1 DEF Gives, Next1
      <4> QED
        BY <1>2, <2>3, <4>2, NotGiven
    <3>2. Queued("timer")'
      BY <1>1, <2>3, <2>6 DEF QueueMoves
    <3> QED
      BY <2>4, <2>5, <2>6, <3>1, <3>2 DEF TimerInv, Owes
  <2>7. CASE UNCHANGED <<strand, timerCo>>
    <3>1. ~Queued("timer")'
      BY <2>3, <2>7 DEF Queued, TimerInv
    <3> QED
      BY <2>3, <2>4, <2>5, <2>7, <3>1 DEF TimerInv, Owes
  <2> QED
    BY <1>4, <2>6, <2>7 DEF SpawnDrainTimer
<1>5. ASSUME ~\E o \in Owners : DrainPlanned(o), ~\E a \in Actors : SpawnDrainTimer(a)
      PROVE  TimerInv'
  <2>1. \A a \in Actors : Owed(a, "spawnTimer")' => Owed(a, "spawnTimer")
    BY <1>1, <1>5 DEF Sources
  <2>2. Owes("spawnTimer")' => Owes("spawnTimer")
    BY <2>1 DEF Owes
  <2>3. Owes("completeTimer")' => Owes("completeTimer") \/ timerCo' = "done"
    BY <1>1, <1>5 DEF Sources
  <2>4. \/ timerCo' = timerCo
        \/ timerCo = "spawned" /\ timerCo' = "waiting"
        \/ timerCo = "waiting" /\ timerCo' \in {"expired", "cancelled"}
        \/ timerCo # "none" /\ timerCo' = "done"
    BY <1>1, <1>5 DEF TimerMoves, TimerInv
  <2>5. started /\ stopping => started' /\ stopping'
    BY <1>1 DEF FlagMoves
  <2>6. timerActive /\ ~timerActive' =>
          timerCo' = timerCo /\ (Owes("completeTimer") \/ ~started)
    BY <1>1 DEF TimerMoves
  <2>7. stopAsked => stopAsked'
    BY <1>1 DEF TimerMoves
  <2>8. ASSUME NEW a \in Actors, Owed(a, "spawnTimer")'
        PROVE  a \in Owners /\ todo'[a] \in Spawns
    <3>1. Owed(a, "spawnTimer") /\ a \in Owners /\ todo[a] \in Spawns
      BY <2>1, <2>8 DEF TimerInv
    <3> QED
      BY <1>1, <1>5, <1>2, <3>1, SpawnShapes DEF OwnerWorks
  <2>9. (~started \/ ~stopping =>
          timerCo = "none" /\ ~Owes("spawnTimer") /\ ~Owes("completeTimer"))'
    BY <2>2, <2>3, <2>4, <2>5 DEF TimerInv
  <2>10. (Owes("spawnTimer") =>
           timerCo = "none" /\ timerActive /\ stopAsked /\ ~Owes("completeTimer"))'
    BY <2>2, <2>3, <2>4, <2>6, <2>7 DEF TimerInv
  <2>11. (Owes("completeTimer") => timerCo \in {"none", "done"})'
    BY <2>3, <2>4 DEF TimerInv
  <2>12. (timerCo \in Waiting => timerActive)'
    BY <2>4, <2>6 DEF TimerInv
  <2>13. (timerCo \in Expected => Queued("timer"))'
    BY <1>1, <2>4 DEF QueueMoves, TimerInv
  <2>14. (Queued("timer") => timerCo # "none")'
    BY <1>1, <2>4 DEF QueueMoves, TimerInv
  <2>15. (timerCo # "none" => stopAsked)'
    BY <2>4, <2>7 DEF TimerInv
  <2>16. ASSUME NEW a \in Actors, NEW b \in Actors,
                Owed(a, "spawnTimer")', Owed(b, "spawnTimer")'
         PROVE  a = b
    <3>1. Owed(a, "spawnTimer") /\ Owed(b, "spawnTimer")
      BY <2>1, <2>16
    <3> QED
      BY <3>1 DEF TimerInv
  <2> QED
    BY <2>8, <2>9, <2>10, <2>11, <2>12, <2>13, <2>14, <2>15, <2>16 DEF TimerInv
<1> QED
  BY <1>3, <1>4, <1>5

-----------------------------------------------------------------------------
(* Stopping.                                                               *)

\* Connections are closed under their clients only once the stop is forced.
ClosingInv == closeTask # {} \/ Owes("closeAll") => started /\ forceStop

(* Every step keeps it.                                                    *)
LEMMA CloseOrderStep ==
  ASSUME IInv, ClosingInv, [Next]_vars PROVE ClosingInv'
  BY TodoSources, MovesHold DEF IInv, Sources, Moves, FlagMoves, RunMoves, ClosingInv

\* Nothing is left for the executor to run: what stops it may not come earlier.
Finished == started /\ stopping /\ run = "done" /\ active = 0 /\ ~timerActive
StopInv ==
  /\ runComplete \/ Owes("markRun") => run = "done"
  /\ Owes("execStop") => Finished
  /\ iocStopped /\ execLife # "Joined" /\ ~Aborting => Finished
  /\ Serving /\ execLife = "Joined" => Finished

(* Without a slot none is given back, and only Run takes one.              *)
LEMMA NoneStays ==
  ASSUME IInv, IInv', active = 0, run # "acquire", Moves PROVE active' = 0
<1>1. Holding' \subseteq Conns
  <2>1. (run \in {"check2", "launch"} => accepted \in Conns)'
    BY DEF IInv, TypeInv, LoopTypes, AcceptInv, Handing
  <2> QED
    BY <2>1 DEF Holding
<1>2. active' \in Nat
  BY <1>1, FS_Subset, FS_CardinalityType, ServerAssumption
     DEF IInv, CountInv, ServerAssumption
<1> QED
  BY <1>2 DEF Moves, RunMoves

(* It stays so.                                                            *)
LEMMA FinishedStays ==
  ASSUME IInv, IInv', Finished, Moves PROVE Finished'
<1>1. active' = 0
  BY NoneStays DEF Finished
<1> QED
  BY <1>1 DEF Finished, Moves, FlagMoves, TimerMoves, RunMoves

(* Every step keeps it.                                                    *)
LEMMA StopStep ==
  ASSUME IInv, IInv', CallInv, CallInv', StopInv, [Next]_vars PROVE StopInv'
<1>1. Sources /\ Moves /\ ExecMoves
  BY TodoSources, MovesHold, CallStep DEF IInv
<1>2. Finished => Finished'
  BY <1>1, FinishedStays
<1>3. (runComplete \/ Owes("markRun") => run = "done")'
  BY <1>1 DEF Sources, Moves, FlagMoves, RunMoves, StopInv
<1>4. (Owes("execStop") => Finished)'
  <2>1. CASE Owes("execStop")
    BY <1>2, <2>1 DEF StopInv
  <2>2. CASE Drained' /\ ~timerActive'
    <3>1. run' = "done"
      BY <1>3, <2>2 DEF Drained
    <3>2. started'
      BY <3>1 DEF IInv, SpawnInv
    <3> QED
      BY <2>2, <3>1, <3>2 DEF Drained, Finished
  <2> QED
    BY <1>1, <2>1, <2>2 DEF Sources
<1>5. (iocStopped /\ execLife # "Joined" /\ ~Aborting => Finished)'
  BY <1>1, <1>2 DEF ExecMoves, StopInv
<1>6. (Serving /\ execLife = "Joined" => Finished)'
  <2>1. Serving /\ ~Aborting /\ iocStopped => execLife = "Joined" \/ Finished
    BY DEF StopInv
  <2>2. Serving => ~Aborting /\ execLife \notin {"Created", "Starting"}
    BY DEF CallInv, Aborting
  <2> QED
    BY <1>1, <1>2, <2>1, <2>2 DEF ExecMoves, StopInv
<1> QED
  BY <1>3, <1>4, <1>5, <1>6 DEF StopInv

-----------------------------------------------------------------------------
(* Sockets.                                                                *)

\* A registered or open connection still holds its slot, but for the one in
\* Run's hands; one that has left the registry closed its socket.
SocketInv ==
  /\ \A c \in registry : Alive(c)
  /\ \A c \in open : Alive(c) \/ c = accepted
  /\ \A c \in Conns : conn[c] = "closing" /\ todo[c] = <<"release">> =>
       c \notin registry /\ c \notin open

(* Other steps leave a closing connection what it still has to do.         *)
LEMMA ClosingWaits ==
  ASSUME IInv, TodoMove, NEW c \in Conns, conn[c] = "closing" PROVE todo'[c] = todo[c]
<1>1. todo[c] \in {<<"remove", "release">>, <<"release">>} /\ c \in Actors
  BY DEF IInv, CloseInv, Actors
<1>2. Head(todo[c]) \notin Slotless
  BY <1>1 DEF Slotless
<1>3. ASSUME NEW a \in Actors, NEW ops \in Seq(Slotless), todo[a] # <<>>,
             Head(todo[a]) \in Slotless, Then(a, ops)
      PROVE  todo'[c] = todo[c]
  BY <1>1, <1>2, <1>3 DEF Then, IInv, TypeInv, QueueTypes
<1>4. ASSUME NEW a \in Actors \ Conns, NEW ops \in Seq(Slotless),
             todo' = [todo EXCEPT ![a] = ops]
      PROVE  todo'[c] = todo[c]
  BY <1>1, <1>4 DEF IInv, TypeInv, QueueTypes
<1> QED
  BY <1>3, <1>4 DEF TodoMove

(* It has its socket's slot to give back, and nothing else, only when it   *)

(* has left the registry.                                                  *)
LEMMA LastOfClosing ==
  ASSUME IInv, [Next]_vars, NEW d \in Conns, conn'[d] = "closing", todo'[d] = <<"release">>
  PROVE  (conn[d] = "closing" /\ todo[d] = <<"release">>) \/ RemoveConnection(d)
<1> USE DEF IInv, TypeInv, ConnTypes, QueueTypes, Actors
<1>1. ASSUME NEW c \in Conns, RemoveConnection(c), c # d
      PROVE  conn[d] = "closing" /\ todo[d] = <<"release">>
  BY <1>1 DEF RemoveConnection, Then
<1>2. ASSUME NEW c \in Conns, ReleaseConnection(c)
      PROVE  conn[d] = "closing" /\ todo[d] = <<"release">>
  BY <1>2 DEF ReleaseConnection, Then
<1>3. ASSUME NEW c \in Conns, ConnClose(c)
      PROVE  conn[d] = "closing" /\ todo[d] = <<"release">>
  <2>1. <<"remove", "release">> # <<"release">>
    <3>1. Len(<<"remove", "release">>) = 2 /\ Len(<<"release">>) = 1
      OBVIOUS
    <3> QED
      BY <3>1
  <2> QED
    BY <1>3, <2>1 DEF ConnClose
<1>4. ASSUME TodoMove, Closings PROVE conn[d] = "closing" /\ todo[d] = <<"release">>
  BY <1>4, ClosingWaits DEF Closings
<1> QED
  BY <1>1, <1>2, <1>3, <1>4, TodoMoves, ClosingStep

(* Every step keeps it.                                                    *)
LEMMA SocketStep ==
  ASSUME IInv, SocketInv, [Next]_vars PROVE SocketInv'
<1> DEFINE Goal ==
      /\ \A c \in registry' : Alive(c)'
      /\ \A c \in open' : Alive(c)' \/ c = accepted'
      /\ \A c \in Conns : /\ conn[c] = "closing" /\ c \notin registry /\ c \notin open =>
                               c \notin registry' /\ c \notin open'
                          /\ RemoveConnection(c) => c \notin registry' /\ c \notin open'
<1> SUFFICES Goal
  BY LastOfClosing DEF SocketInv
<1> USE ServerAssumption
    DEF IInv, TypeInv, LoopTypes, ConnTypes, ConnStates, RunSuspended, RunSteps, AcceptInv,
        Handing, SocketInv, Alive, sockets, loop
<1>a. \A c \in Conns : RemoveConnection(c) => c \notin registry' /\ c \notin open'
  BY DEF RemoveConnection
<1>b. ASSUME UNCHANGED <<registry, open, conn, accepted>> PROVE Goal
  BY <1>a, <1>b
<1>1. ASSUME NEW o \in Owners, StartClaim(o) PROVE Goal
  BY <1>b, <1>1 DEF StartClaim
<1>2. ASSUME NEW o \in Owners, WaitCall(o) PROVE Goal
  BY <1>b, <1>2 DEF WaitCall
<1>3. ASSUME NEW o \in Owners, BeginGracefulStop(o) PROVE Goal
  BY <1>b, <1>3 DEF BeginGracefulStop
<1>4. ASSUME NEW o \in Owners, ForceStopCall(o) PROVE Goal
  BY <1>b, <1>4 DEF ForceStopCall
<1>5. ASSUME NEW o \in Owners, CleanUpNow(o) PROVE Goal
  BY <1>a, <1>5 DEF CleanUpNow, Aborted
<1>6. ASSUME NEW o \in Owners, StartSpawn(o) PROVE Goal
  BY <1>b, <1>6 DEF StartSpawn
<1>7. ASSUME NEW o \in Owners, StartExecutor(o) PROVE Goal
  BY <1>b, <1>7 DEF StartExecutor
<1>8. ASSUME NEW o \in Owners, StartThreads(o) PROVE Goal
  BY <1>b, <1>8 DEF StartThreads
<1>9. ASSUME NEW o \in Owners, StartAbort(o) PROVE Goal
  BY <1>b, <1>9 DEF StartAbort
<1>10. ASSUME NEW o \in Owners, StartWait(o) PROVE Goal
  BY <1>b, <1>10 DEF StartWait
<1>11. ASSUME NEW o \in Owners, WaitLock(o) PROVE Goal
  BY <1>b, <1>11 DEF WaitLock
<1>12. ASSUME NEW o \in Owners, WaitStart(o) PROVE Goal
  BY <1>b, <1>12 DEF WaitStart
<1>13. ASSUME NEW o \in Owners, WaitJoin(o) PROVE Goal
  BY <1>b, <1>13 DEF WaitJoin
<1>14. ASSUME NEW o \in Owners, WaitThreads(o) PROVE Goal
  BY <1>b, <1>14 DEF WaitThreads
<1>15. ASSUME NEW o \in Owners, WaitMark(o) PROVE Goal
  BY <1>b, <1>15 DEF WaitMark
<1>16. ASSUME NEW o \in Owners, WaitDrain(o) PROVE Goal
  BY <1>b, <1>16 DEF WaitDrain
<1>17. ASSUME NEW o \in Owners, WaitDone(o) PROVE Goal
  BY <1>b, <1>17 DEF WaitDone
<1>18. ASSUME NEW a \in Actors, ForceStop(a) PROVE Goal
  BY <1>b, <1>18 DEF ForceStop
<1>19. ASSUME NEW a \in Actors, CancelDrainTimer(a) PROVE Goal
  BY <1>b, <1>19 DEF CancelDrainTimer
<1>20. ASSUME NEW a \in Actors, CloseAcceptor(a) PROVE Goal
  BY <1>b, <1>20 DEF CloseAcceptor
<1>21. ASSUME NEW a \in Actors, CloseAll(a) PROVE Goal
  BY <1>a, <1>21 DEF CloseAll
<1>22. ASSUME NEW a \in Actors, MaybeFinishGracefulStop(a) PROVE Goal
  BY <1>b, <1>22 DEF MaybeFinishGracefulStop
<1>23. ASSUME NEW a \in Actors, ExecutorStop(a) PROVE Goal
  BY <1>b, <1>23 DEF ExecutorStop
<1>24. ASSUME NEW a \in Actors, MarkRunComplete(a) PROVE Goal
  BY <1>b, <1>24 DEF MarkRunComplete
<1>25. ASSUME NEW a \in Actors, CompleteDrainTimer(a) PROVE Goal
  BY <1>b, <1>25 DEF CompleteDrainTimer
<1>26. ASSUME NEW a \in Actors, SpawnDrainTimer(a) PROVE Goal
  BY <1>b, <1>26 DEF SpawnDrainTimer
<1>27. ASSUME StrandTask PROVE Goal
  BY <1>b, <1>27 DEF StrandTask
<1>28. ASSUME RunResume PROVE Goal
  BY <1>a, <1>28 DEF RunResume, RunEnds
<1>29. ASSUME RunPublish PROVE Goal
  BY <1>b, <1>29 DEF RunPublish
<1>30. ASSUME RunCheckStartup PROVE Goal
  BY <1>a, <1>30 DEF RunCheckStartup, RunEnds
<1>31. ASSUME RunCheckError PROVE Goal
  BY <1>a, <1>31 DEF RunCheckError, RunEnds
<1>32. ASSUME RunCheckStopping PROVE Goal
  BY <1>a, <1>32 DEF RunCheckStopping, RunEnds, Refuse
<1>33. ASSUME TryAcquireConnection PROVE Goal
  BY <1>a, <1>33 DEF TryAcquireConnection, Refuse
<1>34. ASSUME RunCheckAdmitted PROVE Goal
  BY <1>a, <1>34 DEF RunCheckAdmitted, RunEnds, Refuse
<1>35. ASSUME LaunchConnection PROVE Goal
  BY <1>a, <1>35 DEF LaunchConnection, Refuse
<1>36. ASSUME RunFails PROVE Goal
  BY <1>b, <1>36 DEF RunFails
<1>37. ASSUME TimerResume PROVE Goal
  BY <1>b, <1>37 DEF TimerResume
<1>38. ASSUME AcceptCompletes PROVE Goal
  BY <1>a, <1>38 DEF AcceptCompletes
<1>39. ASSUME TimerExpires PROVE Goal
  BY <1>b, <1>39 DEF TimerExpires
<1>40. ASSUME NEW c \in Conns, RemoveConnection(c) PROVE Goal
  BY <1>a, <1>40 DEF RemoveConnection
<1>41. ASSUME NEW c \in Conns, ReleaseConnection(c) PROVE Goal
  <2>1. conn[c] = "closing" /\ Head(todo[c]) = "release"
    BY <1>41, ReleaseCloses DEF ReleaseConnection, Next1
  <2>2. todo[c] = <<"release">>
    BY <2>1 DEF CloseInv
  <2>3. c \notin registry /\ c \notin open
    BY <2>1, <2>2
  <2> QED
    BY <1>a, <1>41, <2>3 DEF ReleaseConnection
<1>42. ASSUME NEW c \in Conns, ConnResume(c) PROVE Goal
  BY <1>a, <1>42 DEF ConnResume, Frame
<1>43. ASSUME NEW c \in Conns, ConnClose(c) PROVE Goal
  BY <1>a, <1>43 DEF ConnClose, Frame
<1>44. ASSUME NEW c \in Conns, CloseConnection(c) PROVE Goal
  BY <1>a, <1>44 DEF CloseConnection, Frame, Aborted
<1>45. ASSUME NEW c \in Conns, IoEnds(c) PROVE Goal
  BY <1>a, <1>45 DEF IoEnds, Frame
<1>46. ASSUME NEW c \in Conns, HandlerEnds(c) PROVE Goal
  BY <1>a, <1>46 DEF HandlerEnds, Frame
<1>47. ASSUME UNCHANGED vars PROVE Goal
  BY <1>b, <1>47 DEF vars
<1> HIDE DEF Goal, SocketInv, IInv, TypeInv
<1> QED
  BY <1>1, <1>2, <1>3, <1>4, <1>5, <1>6, <1>7, <1>8, <1>9, <1>10, <1>11, <1>12,
     <1>13, <1>14, <1>15, <1>16, <1>17, <1>18, <1>19, <1>20, <1>21, <1>22, <1>23,
     <1>24, <1>25, <1>26, <1>27, <1>28, <1>29, <1>30, <1>31, <1>32, <1>33, <1>34,
     <1>35, <1>36, <1>37, <1>38, <1>39, <1>40, <1>41, <1>42, <1>43, <1>44, <1>45,
     <1>46, <1>47
     DEF Next, OwnerCall, OwnerStep, StrandStep, ConnStep, Operation, Actors

-----------------------------------------------------------------------------
(* Listening.                                                              *)

\* Until a stop begins nobody closes the listener that Run has published.
ListenInv ==
  /\ memberAcceptor \/ Owes("closeAcceptorNow") => started
  /\ \/ Owes("closeAcceptor") \/ Owes("closeAcceptorNow") \/ Queued("closeAcceptor")
     \/ run = "aborted"
     => started /\ stopping
  /\ run = "publish" /\ ~stopping => acceptor = "open"
  /\ started /\ startComplete /\ ~startFailure /\ ~stopping =>
       /\ acceptor = "open" /\ memberAcceptor
       /\ run \notin {"none", "spawned", "publish", "done"}
  /\ startResult = "ok" => startComplete /\ (startFailure => stopping)

(* Every step keeps it.                                                    *)
LEMMA ListenStep ==
  ASSUME IInv, IInv', CallInv, ListenInv, [Next]_vars PROVE ListenInv'
<1>1. Sources /\ FlagMoves /\ RunMoves /\ QueueMoves /\ ExecMoves
  BY TodoSources, MovesHold, QueueMovesHold, CallStep DEF IInv, Moves
<1>2. started => started' /\ (stopping => stopping')
  BY <1>1 DEF FlagMoves
<1>3. run # "none" => started
  BY DEF IInv, SpawnInv
<1>4. ListenerClosed => stopping
  BY DEF ListenerClosed, ListenInv
<1>5. (memberAcceptor \/ Owes("closeAcceptorNow") => started)'
  BY <1>1, <1>2, <1>3 DEF Sources, FlagMoves, ListenInv
<1>6. (Owes("closeAcceptor") => started /\ stopping)'
  BY <1>1, <1>2 DEF Sources, ListenInv
<1>7. (Owes("closeAcceptorNow") => started /\ stopping)'
  BY <1>1, <1>2 DEF Sources, ListenInv
<1>8. (Queued("closeAcceptor") => started /\ stopping)'
  BY <1>1, <1>2 DEF QueueMoves, ListenInv
<1>9. (run = "aborted" => started /\ stopping)'
  BY <1>1, <1>2, <1>3, <1>4 DEF RunMoves, ListenInv
<1>10. (run = "publish" /\ ~stopping => acceptor = "open")'
  BY <1>1, <1>2, <1>3, <1>4 DEF RunMoves, ListenInv
<1>11. ASSUME started', startComplete', ~startFailure', ~stopping'
       PROVE  /\ acceptor' = "open" /\ memberAcceptor'
              /\ run' \notin {"none", "spawned", "publish", "done"}
  <2>1. started /\ ~stopping /\ ~startFailure
    BY <1>1, <1>11 DEF FlagMoves
  <2>2. CASE startComplete
    <3>1. /\ acceptor = "open" /\ memberAcceptor
          /\ run \notin {"none", "spawned", "publish", "done", "aborted"}
      BY <2>1, <2>2 DEF ListenInv
    <3> QED
      BY <1>1, <1>4, <1>11, <2>1, <3>1 DEF FlagMoves, RunMoves
  <2>3. CASE ~startComplete
    <3>1. run = "publish" /\ run' = "check0"
      BY <1>1, <1>11, <2>3 DEF FlagMoves
    <3> QED
      BY <1>1, <1>11, <2>1, <3>1 DEF RunMoves, ListenInv
  <2> QED
    BY <2>2, <2>3
<1>12. (startResult = "ok" => startComplete /\ (startFailure => stopping))'
  <2>1. ASSUME startResult' = "ok", startResult = "ok"
        PROVE  startComplete' /\ (startFailure' => stopping')
    BY <1>1, <1>2, <2>1 DEF FlagMoves, ListenInv, CallInv
  <2>2. ASSUME startResult' = "ok", startResult # "ok"
        PROVE  startComplete' /\ (startFailure' => stopping')
    <3>1. started /\ startComplete /\ ~startFailure
      BY <1>1, <2>2 DEF ExecMoves
    <3> QED
      BY <1>1, <3>1 DEF FlagMoves
  <2> QED
    BY <2>1, <2>2
<1> QED
  BY <1>5, <1>6, <1>7, <1>8, <1>9, <1>10, <1>11, <1>12 DEF ListenInv

-----------------------------------------------------------------------------
(* Who asked for the stop.                                                 *)

\* A server that Start has brought up, or is still bringing up, is stopped
\* because somebody asked for it, or because it failed.
AskInv ==
  /\ Owes("forceStop") => stopAsked \/ (started /\ ~LiveStart)
  /\ started /\ stopping /\ LiveStart =>
       \/ stopAsked \/ runFailure \/ startFailure
       \/ execLife = "Joined" /\ ~Serving
  /\ \A o \in Owners : waitResult[o] = "ok" /\ Serving => stopAsked

(* Every step keeps it.                                                    *)
LEMMA AskStep ==
  ASSUME IInv, IInv', CallInv, CallInv', TimerInv, StopInv, AskInv, [Next]_vars
  PROVE  AskInv'
<1>1. Sources /\ FlagMoves /\ TimerMoves /\ ExecMoves
  BY TodoSources, MovesHold, CallStep DEF IInv, Moves
<1>2. started => started' /\ (LiveStart' => LiveStart)
  BY <1>1 DEF FlagMoves, ExecMoves
<1>3. stopAsked => stopAsked'
  BY <1>1 DEF TimerMoves
<1>4. execLife = "Joined" /\ ~Serving => (execLife = "Joined" /\ ~Serving)'
  BY <1>1 DEF ExecMoves
<1>5. Serving => LiveStart
  BY DEF Serving, LiveStart
<1>6. (Owes("forceStop") => stopAsked \/ (started /\ ~LiveStart))'
  <2>1. CASE Owes("forceStop")
    BY <1>2, <1>3, <2>1 DEF AskInv
  <2>2. CASE timerCo = "expired" \/ Owes("spawnTimer") \/ stopAsked'
    BY <1>3, <2>2 DEF TimerInv
  <2>3. ASSUME NEW o \in Owners, opc[o] \in StartPCs,
               opc' = [opc EXCEPT ![o] = "waitLock"], startResult' = startResult
        PROVE  started' /\ ~LiveStart'
    <3>1. starter = o /\ started
      BY <2>3, ServerAssumption DEF IInv, SpawnInv, ServerAssumption
    <3>2. startResult # "ok"
      BY <3>1, ServerAssumption DEF CallInv, ServerAssumption
    <3>3. \A p \in Owners : p # o => opc'[p] \notin StartPCs
      BY <2>3, <3>1 DEF IInv, SpawnInv, TypeInv, CallTypes
    <3>4. opc'[o] = "waitLock"
      BY <2>3 DEF IInv, TypeInv, CallTypes
    <3> QED
      BY <1>2, <2>3, <3>1, <3>2, <3>3, <3>4 DEF LiveStart, StartPCs
  <2> QED
    BY <1>1, <2>1, <2>2, <2>3 DEF Sources, ForceAsked
<1>7. ASSUME started', stopping', LiveStart'
      PROVE  (\/ stopAsked \/ runFailure \/ startFailure
              \/ execLife = "Joined" /\ ~Serving)'
  <2>1. CASE ~started
    BY <1>1, <1>7, <2>1 DEF FlagMoves
  <2>2. CASE started /\ stopping
    <3>1. \/ stopAsked \/ runFailure \/ startFailure
          \/ execLife = "Joined" /\ ~Serving
      BY <1>2, <1>7, <2>2 DEF AskInv
    <3> QED
      BY <1>1, <1>3, <1>4, <2>2, <3>1 DEF FlagMoves
  <2>3. CASE started /\ ~stopping
    <3>1. CASE stopAsked' \/ startFailure' \/ runFailure'
      BY <3>1
    <3>2. CASE Owes("forceStop")
      BY <1>2, <1>3, <1>7, <2>3, <3>2 DEF AskInv
    <3>3. ASSUME NEW o \in Owners, opc[o] = "waitMark"
          PROVE  (execLife = "Joined" /\ ~Serving)'
      BY <1>4, <2>3, <3>3 DEF CallInv, StopInv, Finished
    <3> QED
      BY <1>1, <1>7, <2>3, <3>1, <3>2, <3>3 DEF FlagMoves
  <2> QED
    BY <2>1, <2>2, <2>3
<1>8. ASSUME NEW o \in Owners, waitResult'[o] = "ok", Serving' PROVE stopAsked'
  <2>1. CASE waitResult[o] = "ok"
    <3>1. execLife = "Joined"
      BY <2>1 DEF CallInv
    <3>2. Serving
      BY <1>1, <1>8, <3>1 DEF ExecMoves
    <3> QED
      BY <1>3, <2>1, <3>2 DEF AskInv
  <2>2. CASE waitResult[o] # "ok"
    <3>1. PICK p \in Owners : WaitDone(p)
      BY <1>1, <1>8, <2>2 DEF ExecMoves
    <3>2. opc[p] = "drain" /\ execLife = "Joined" /\ ~runFailure /\ ~startFailure
      BY <1>8, <2>2, <3>1 DEF WaitDone, At, CallInv, IInv, TypeInv, CallTypes
    <3>3. Serving
      BY <1>1, <1>8, <3>2 DEF ExecMoves
    <3>4. started /\ stopping
      BY <3>2, <3>3 DEF StopInv, Finished
    <3> QED
      BY <1>3, <1>5, <3>2, <3>3, <3>4 DEF AskInv
  <2> QED
    BY <2>1, <2>2
<1> QED
  BY <1>6, <1>7, <1>8 DEF AskInv

-----------------------------------------------------------------------------
(* The end.                                                                *)

\* No socket is left.
Emptied == registry = {} /\ closeTask = {} /\ open = {}

\* A server that was never started, or could not be, or that somebody has
\* waited for, has no connection any more.
EndInv ==
  /\ run \in Resumable => Queued("run")
  /\ ~started => Emptied /\ active = 0
  /\ startResult = "failed" =>
       /\ Emptied /\ active = 0 /\ run \in {"none", "done"}
       /\ timerCo \in {"waiting", "expired", "cancelled"} => Draining
  /\ Serving /\ (\E o \in Owners : waitResult[o] # "none") => Emptied

(* What the executor has no work for is over.                              *)
LEMMA WorkDone ==
  ASSUME IInv, TimerInv, SocketInv, EndInv, NoWork
  PROVE  Emptied /\ active = 0 /\ run \in {"none", "done"} /\ timerCo \in {"none", "done"}
<1>1. \A t : ~Queued(t)
  BY DEF NoWork, Queued
<1>2. run \in {"none", "done"}
  BY <1>1 DEF NoWork, Quiet, StrandIdle, EndInv, Resumable, RunSuspended
<1>3. timerCo \in {"none", "done"}
  BY <1>1 DEF NoWork, TimerInv, Expected, Waiting, IInv, TypeInv, LifeTypes, TimerStates
<1>4. Holding = {} /\ \A c \in Conns : ~Alive(c)
  BY <1>2 DEF NoWork, Holding
<1>5. active = 0
  BY <1>4, FS_EmptySet DEF IInv, CountInv
<1>6. accepted \notin Conns
  BY <1>2, ServerAssumption DEF IInv, AcceptInv, Handing, ServerAssumption
<1>7. Emptied
  BY <1>4, <1>6 DEF NoWork, SocketInv, Emptied, IInv, TypeInv, ConnTypes
<1> QED
  BY <1>2, <1>3, <1>5, <1>7

(* Every step keeps it.                                                    *)
LEMMA EndStep ==
  ASSUME IInv, IInv', CallInv, CallInv', TimerInv, StopInv, SocketInv, EndInv, [Next]_vars
  PROVE  EndInv'
<1>1. Moves /\ FlagMoves /\ TimerMoves /\ RunMoves /\ QueueMoves /\ ExecMoves
  BY MovesHold, QueueMovesHold, CallStep DEF Moves
<1>2. ASSUME Emptied, run \in {"none", "done"} PROVE Emptied'
  BY <1>1, <1>2 DEF Emptied, RunMoves
<1>3. ASSUME active = 0, run \in {"none", "done"} PROVE active' = 0
  BY <1>1, <1>3, NoneStays
<1>4. (run \in Resumable => Queued("run"))'
  BY <1>1 DEF QueueMoves, EndInv
<1>5. (~started => Emptied /\ active = 0)'
  BY <1>1, <1>2, <1>3 DEF FlagMoves, EndInv, IInv, SpawnInv
<1>6. (startResult = "failed" =>
         /\ Emptied /\ active = 0 /\ run \in {"none", "done"}
         /\ timerCo \in {"waiting", "expired", "cancelled"} => Draining)'
  <2>1. ASSUME NEW o \in Owners, WaitDone(o), startResult' = "failed"
        PROVE  /\ Emptied' /\ active' = 0 /\ run' \in {"none", "done"}
               /\ timerCo' \notin {"waiting", "expired", "cancelled"}
    <3>1. NoWork /\ UNCHANGED <<run, timerCo>>
      BY <2>1 DEF WaitDone, loop, drain
    <3>2. Emptied /\ active = 0 /\ run \in {"none", "done"} /\ timerCo \in {"none", "done"}
      BY <3>1, WorkDone
    <3> QED
      BY <1>2, <1>3, <3>1, <3>2
  <2>2. ASSUME ~\E o \in Owners : WaitDone(o), startResult' = "failed"
        PROVE  /\ Emptied' /\ active' = 0 /\ run' \in {"none", "done"}
               /\ timerCo' \in {"waiting", "expired", "cancelled"} => Draining'
    <3>1. startResult = "failed" /\ (Draining => Draining')
      BY <1>1, <2>2 DEF ExecMoves
    <3>2. /\ Emptied /\ active = 0 /\ run \in {"none", "done"}
          /\ timerCo \in {"waiting", "expired", "cancelled"} => Draining
      BY <3>1 DEF EndInv
    <3>3. run' \in {"none", "done"}
      <4>1. \A o \in Owners : opc[o] # "startSpawn"
        BY <3>1, ServerAssumption DEF CallInv, IInv, SpawnInv, StartPCs, ServerAssumption
      <4> QED
        BY <1>1, <3>2, <4>1 DEF RunMoves
    <3>4. timerCo' \in {"waiting", "expired", "cancelled"} => Draining
      <4>1. Dispatching => Draining
        BY <3>1 DEF Dispatching, CallInv, Draining
      <4>2. \A a \in Actors : SpawnDrainTimer(a) => timerCo' \in {timerCo, "spawned"}
        BY DEF SpawnDrainTimer
      <4> QED
        BY <1>1, <3>2, <4>1, <4>2 DEF TimerMoves
    <3> QED
      BY <1>2, <1>3, <3>1, <3>2, <3>3, <3>4
  <2> QED
    BY <2>1, <2>2
<1>7. ASSUME Serving', NEW o \in Owners, waitResult'[o] # "none" PROVE Emptied'
  <2>1. ASSUME NEW p \in Owners, WaitDone(p) PROVE Emptied'
    <3>1. NoWork
      BY <2>1 DEF WaitDone
    <3> QED
      BY <1>2, <3>1, WorkDone
  <2>2. ASSUME waitResult' = waitResult PROVE Emptied'
    <3>1. execLife = "Joined"
      BY <1>7, <2>2 DEF CallInv
    <3>2. Serving
      BY <1>1, <1>7, <3>1 DEF ExecMoves
    <3>3. run = "done"
      BY <3>1, <3>2 DEF StopInv, Finished
    <3>4. Emptied
      BY <1>7, <2>2, <3>2 DEF EndInv
    <3> QED
      BY <1>2, <3>3, <3>4
  <2> QED
    BY <1>1, <2>1, <2>2 DEF ExecMoves
<1> QED
  BY <1>4, <1>5, <1>6, <1>7 DEF EndInv

-----------------------------------------------------------------------------
(* All of it together.                                                     *)

AllInv ==
  /\ IInv /\ CallInv /\ TimerInv /\ ClosingInv /\ StopInv /\ SocketInv /\ ListenInv
  /\ AskInv /\ EndInv

(* At first nobody has anything to do and nothing is queued.               *)
LEMMA InitAll == Init => AllInv
<1> SUFFICES ASSUME Init PROVE AllInv
  OBVIOUS
<1>1. IInv
  BY InitInv
<1>2. ASSUME NEW op PROVE ~Owes(op) /\ \A a \in Actors : ~Owed(a, op)
  BY DEF Owes, Owed, Init
<1>3. ASSUME NEW t PROVE ~Queued(t)
  BY DEF Queued, Init
<1>4. CallInv
  BY ServerAssumption DEF CallInv, Serving, Init, ServerAssumption
<1>5. TimerInv
  BY <1>2, <1>3 DEF TimerInv, Waiting, Expected, Init
<1>6. ClosingInv
  BY <1>2 DEF ClosingInv, Init
<1>7. StopInv
  BY <1>2 DEF StopInv, Serving, Init
<1>8. SocketInv
  BY DEF SocketInv, Init
<1>9. ListenInv
  BY <1>2, <1>3 DEF ListenInv, Init
<1>10. AskInv
  BY <1>2 DEF AskInv, Serving, Init
<1>11. EndInv
  BY DEF EndInv, Resumable, Serving, Emptied, Init
<1> QED
  BY <1>1, <1>4, <1>5, <1>6, <1>7, <1>8, <1>9, <1>10, <1>11 DEF AllInv

(* Every step keeps it.                                                    *)
LEMMA StepAll == AllInv /\ [Next]_vars => AllInv'
<1> SUFFICES ASSUME AllInv, [Next]_vars PROVE AllInv'
  OBVIOUS
<1>1. /\ IInv /\ CallInv /\ TimerInv /\ ClosingInv /\ StopInv /\ SocketInv /\ ListenInv
      /\ AskInv /\ EndInv
  BY DEF AllInv
<1>2. IInv'
  BY <1>1, StepInv
<1>3. CallInv'
  BY <1>1, CallStep
<1>4. TimerInv'
  BY <1>1, TimerStep
<1>5. ClosingInv'
  BY <1>1, CloseOrderStep
<1>6. StopInv'
  BY <1>1, <1>2, <1>3, StopStep
<1>7. SocketInv'
  BY <1>1, SocketStep
<1>8. ListenInv'
  BY <1>1, <1>2, ListenStep
<1>9. AskInv'
  BY <1>1, <1>2, <1>3, AskStep
<1>10. EndInv'
  BY <1>1, <1>2, <1>3, EndStep
<1> QED
  BY <1>2, <1>3, <1>4, <1>5, <1>6, <1>7, <1>8, <1>9, <1>10 DEF AllInv

(* So it always holds.                                                     *)
LEMMA AllInvariance == Spec => []AllInv
<1>1. Init => AllInv
  BY InitAll
<1>2. AllInv /\ [Next]_vars => AllInv'
  BY StepAll
<1> QED
  BY <1>1, <1>2, PTL DEF Spec

(* When the counter is zero no connection holds a slot.                    *)
LEMMA NobodyHolds == ASSUME IInv, active = 0 PROVE Holding = {}
<1>1. Holding \subseteq Conns
  BY Members DEF IInv, TypeInv
<1>2. IsFiniteSet(Holding)
  BY <1>1, FS_Subset, ServerAssumption DEF ServerAssumption
<1> QED
  BY <1>2, FS_EmptySet DEF IInv, CountInv

(* A graceful stop abandons nobody and cuts nobody off: the executor is    *)

(* stopped only when Run has ended, no connection holds a slot and no      *)
(* timer is outstanding, and connections are closed only once forced.      *)
THEOREM StopsOrderly == Spec => []StopOrderly
<1>1. ASSUME AllInv PROVE StopOrderly
  <2> USE <1>1 DEF AllInv
  <2>1. ASSUME StoppedByServer PROVE StopOnlyDrained
    <3>1. Finished
      BY <2>1 DEF StoppedByServer, CallInv, Aborting, StopInv
    <3>2. Holding = {}
      BY <3>1, NobodyHolds DEF Finished
    <3>3. timerCo \notin {"spawned", "waiting"}
      BY <3>1 DEF Finished, TimerInv, Waiting, Expected
    <3> QED
      BY <3>1, <3>2, <3>3 DEF Finished, StopOnlyDrained
  <2>2. NoCloseBeforeForce
    BY DEF ClosingInv, NoCloseBeforeForce
  <2> QED
    BY <2>1, <2>2 DEF StopOrderly, StopOnlyDrained
<1> QED
  BY <1>1, AllInvariance, PTL

(* What Start and Wait report is true: a Start that returned listens until *)

(* a stop, one that threw has cleaned up, and a Wait that returned says    *)
(* that a stop was asked for.                                              *)
THEOREM ResultsTrue == Spec => []ResultsTruthful
<1>1. ASSUME AllInv PROVE ResultsTruthful
  <2> USE <1>1 DEF AllInv
  <2>1. StartedMeansListening
    <3> SUFFICES ASSUME startResult = "ok", ~stopping
                 PROVE  /\ acceptor = "open" /\ memberAcceptor /\ ~iocStopped
                        /\ run \notin {"none", "spawned", "publish", "done"}
      BY DEF StartedMeansListening
    <3>1. started /\ startComplete /\ ~startFailure
      BY DEF CallInv, ListenInv
    <3>2. Serving /\ ~Finished
      BY DEF Serving, Finished
    <3>3. ~iocStopped
      BY <3>2 DEF CallInv, Aborting, StopInv
    <3> QED
      BY <3>1, <3>3 DEF ListenInv
  <2>2. FailedStartCleansUp
    <3>1. startResult = "failed" => Holding = {}
      BY NobodyHolds DEF EndInv
    <3> QED
      BY <3>1 DEF FailedStartCleansUp, CallInv, EndInv, Emptied
  <2>3. SilentEndMeansStop
    BY DEF SilentEndMeansStop, AskInv, Serving
  <2> QED
    BY <2>1, <2>2, <2>3 DEF ResultsTruthful
<1> QED
  BY <1>1, AllInvariance, PTL

(* When every call has returned, some Wait among them, no coroutine is     *)

(* left that could still serve, no connection and no open socket.          *)
THEOREM WaitLeavesNothingBehind == Spec => []WaitLeavesNothing
<1>1. ASSUME AllInv, Over PROVE NothingLeft
  <2> USE <1>1 DEF AllInv
  <2>1. \A o \in Owners : opc[o] = "idle"
    BY DEF Over, At
  <2>2. execLife = "Joined"
    BY DEF Over, CallInv
  <2>3. CASE ~started
    <3>1. run = "none" /\ timerCo = "none"
      BY <2>3 DEF IInv, SpawnInv, TimerInv
    <3> QED
      BY <2>3, <3>1, NobodyHolds DEF EndInv, Emptied, NothingLeft
  <2>4. CASE startResult = "failed"
    <3>1. timerCo \in {"none", "spawned", "done"}
      BY <2>1, <2>4 DEF EndInv, Draining, IInv, TypeInv, LifeTypes, TimerStates
    <3> QED
      BY <2>4, <3>1, NobodyHolds DEF EndInv, Emptied, NothingLeft, SpawnedTooLate
  <2>5. CASE startResult = "ok"
    <3>1. Serving /\ Finished
      BY <2>2, <2>5 DEF Serving, StopInv
    <3>2. timerCo \in {"none", "done"}
      BY <3>1 DEF Finished, TimerInv, Waiting, Expected, IInv, TypeInv, LifeTypes, TimerStates
    <3>3. Emptied
      BY <3>1 DEF Over, EndInv
    <3> QED
      BY <3>1, <3>2, <3>3, NobodyHolds DEF Finished, Emptied, NothingLeft
  <2> QED
    BY <2>1, <2>3, <2>4, <2>5 DEF CallInv, IInv, TypeInv, CallTypes
<1> QED
  BY <1>1, AllInvariance, PTL DEF WaitLeavesNothing
=============================================================================
