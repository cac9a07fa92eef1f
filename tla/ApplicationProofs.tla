------------------------- MODULE ApplicationProofs -------------------------
(***************************************************************************)
(* Safety of Application for any owners and handlers, any calls they may   *)
(* make and any injected faults: what a published state says about the     *)
(* server behind it.                                                       *)
(***************************************************************************)
EXTENDS Application, TLAPS

(* Where an owner holds MemberLifecycleMutex over several steps: inside    *)
(* the server's start, and inside the server's Wait of a start that failed.*)
StartPCs == {"serverStart", "threads", "abort", "listen"}
WaitPCs  == {"waitLock", "waitStart", "waitJoin", "waitEnd"}
Ended == {"Stopping", "Stopped", "Failed"}

TypeInv == TypeOK /\ pc \in [Actors -> OwnerPCs \cup HandlerPCs]

\* The mutex is held exactly through the server's start and its clean-up, and
\* the state is Starting all that time.
MutexInv ==
  /\ \A o \in Owners : pc[o] \in StartPCs => mutex = o
  /\ mutex # None => pc[mutex] \in StartPCs \cup WaitPCs
  /\ mutex # None => state = "Starting"

\* One owner at most is between the two sections of Start, the server is
\* started by nobody else, and no stop is under way before it was asked for.
StartInv ==
  /\ \A o, p \in Owners : pc[o] = "startValidate" /\ pc[p] = "startValidate" => o = p
  /\ \A o \in Owners : pc[o] = "startValidate" => ~started /\ mutex = None
  /\ \A o \in Owners : pc[o] = "serverStart" => ~started
  /\ state = "Created" => ~started /\ \A o \in Owners : pc[o] # "startValidate"
  /\ \A a \in Actors : pc[a] \in {"graceful", "stopFails"} => state \in Ended
  /\ \A a \in Actors : pc[a] = "stopFails" => "spawn" \in Faults

\* Which threads, listener and handlers there may be, by where Start is.
ServerInv ==
  /\ ~started => listener = "none" /\ threads \in {"none", "joined"} /\ ~startFailure
  /\ started => threads # "none"
  /\ threads = "none" => ~stopped
  /\ threads = "some" => mutex # None /\ pc[mutex] \in {"threads", "abort"}
  /\ \A h \in Handlers : pc[h] \notin {"none", "done"} => threads \in {"some", "all"}
  /\ started /\ ~startComplete =>
       mutex # None /\ pc[mutex] \in {"threads", "abort", "listen"}
  /\ threads = "joined" /\ listener = "open" =>
       mutex # None /\ pc[mutex] \in WaitPCs \ {"waitEnd"}
  /\ threads \in {"some", "all"} /\ mutex = None => listener # "none" /\ ~startFailure
  /\ \A o \in Owners : pc[o] = "waitEnd" => threads = "joined"

\* While Start waits for its listener the server is as it was started, unless
\* the listener has failed.
ListenInv ==
  \A o \in Owners :
    /\ pc[o] \in {"threads", "abort"} => started /\ threads = "some"
    /\ pc[o] = "listen" =>
         started /\ threads \in {"all", "joined"} /\ (threads = "joined" => startFailure)
    /\ pc[o] \in {"threads", "listen"} =>
         \/ startFailure /\ startComplete
         \/ /\ ~startFailure /\ ~stopping /\ ~stopped
            /\ listener = IF startComplete THEN "open" ELSE "none"

\* The destructor runs alone, and waits unless its Stop has thrown.
DestroyInv ==
  /\ destroyer # None =>
       /\ mutex = None
       /\ \A o \in Owners \ {destroyer} : pc[o] = "idle"
       /\ pc[destroyer] \in {"idle", "stopCall", "graceful", "stopFails", "waitCall"}
                            \cup WaitPCs
  /\ destroyed => destroyer # None /\ pc[destroyer] = "idle"
  /\ destroyed /\ "spawn" \notin Faults => Gone

\* Inductive: every step of an owner, a handler or the server keeps it.
IInv == /\ TypeInv /\ MutexInv /\ StartInv /\ ServerInv /\ ListenInv /\ DestroyInv
        /\ StoppedMeansGone /\ RunningMeansServing /\ (state = "Failed" <=> failure)

(* The application is created without a server thread.                     *)
LEMMA InitInv == Init => IInv
<1> SUFFICES ASSUME Init PROVE IInv
  OBVIOUS
<1> USE ApplicationAssumption DEF Init, Actors
<1>1. /\ \A o \in Owners : pc[o] = "idle"
      /\ \A h \in Handlers : pc[h] = "none"
  OBVIOUS
<1>2. pc \in [Actors -> OwnerPCs \cup HandlerPCs]
  BY DEF OwnerPCs, HandlerPCs
<1>3. TypeInv
  BY <1>1, <1>2 DEF TypeInv, TypeOK, States, OwnerPCs, HandlerPCs
<1>4. MutexInv /\ StartInv /\ DestroyInv
  BY <1>1 DEF MutexInv, StartInv, DestroyInv, StartPCs
<1>5. ServerInv /\ ListenInv
  BY <1>1 DEF ServerInv, ListenInv
<1> QED
  BY <1>3, <1>4, <1>5 DEF IInv, StoppedMeansGone, RunningMeansServing

(* Each step of an owner, a handler or the server keeps the invariant.     *)
LEMMA StepInv == IInv /\ [Next]_vars => IInv'
<1> SUFFICES ASSUME IInv, [Next]_vars PROVE IInv'
  OBVIOUS
<1> USE ApplicationAssumption
    DEF IInv, TypeInv, TypeOK, MutexInv, StartInv, ServerInv, ListenInv, DestroyInv,
        StoppedMeansGone, RunningMeansServing, Actors, OwnerPCs, HandlerPCs, States,
        StartPCs, WaitPCs, Ended, Goto, Free, InHandler, Gone, app, server, hist
<1>1. ASSUME NEW o \in Owners, StartCall(o) PROVE IInv'
  BY <1>1 DEF StartCall, Call
<1>2. ASSUME NEW o \in Owners, StopCall(o) PROVE IInv'
  BY <1>2 DEF StopCall, Call
<1>3. ASSUME NEW o \in Owners, WaitCall(o) PROVE IInv'
  BY <1>3 DEF WaitCall, Call
<1>4. ASSUME NEW o \in Owners, DestroyCall(o) PROVE IInv'
  BY <1>4 DEF DestroyCall, Call
<1>5. ASSUME NEW o \in Owners, StartValidate(o) PROVE IInv'
  BY <1>5 DEF StartValidate
<1>6. ASSUME NEW o \in Owners, ServerStart(o) PROVE IInv'
  BY <1>6, ZenonT(40) DEF ServerStart
<1>7. ASSUME NEW o \in Owners, ServerThreads(o) PROVE IInv'
  <2> USE <1>7 DEF ServerThreads
  <2>1. pc' \in [Actors -> OwnerPCs \cup HandlerPCs]
    OBVIOUS
  <2>2. /\ \A p \in Owners : pc'[p] \in OwnerPCs
        /\ \A k \in Handlers : pc'[k] \in HandlerPCs
    OBVIOUS
  <2>3. TypeInv'
    BY ZenonT(30), <2>1, <2>2
  <2>4. MutexInv' /\ StartInv'
    OBVIOUS
  <2>5. ServerInv' /\ ListenInv'
    OBVIOUS
  <2>6. DestroyInv'
    OBVIOUS
  <2>7. StoppedMeansGone' /\ RunningMeansServing' /\ (state' = "Failed" <=> failure')
    OBVIOUS
  <2> QED
    BY <2>3, <2>4, <2>5, <2>6, <2>7
<1>8. ASSUME NEW o \in Owners, ServerAbort(o) PROVE IInv'
  BY <1>8 DEF ServerAbort, ForceStart
<1>9. ASSUME NEW o \in Owners, ServerListens(o) PROVE IInv'
  <2> USE <1>9 DEF ServerListens, ForceStart
  <2>1. pc' \in [Actors -> OwnerPCs \cup HandlerPCs]
    BY ZenonT(40)
  <2>2. /\ \A p \in Owners : pc'[p] \in OwnerPCs
        /\ \A k \in Handlers : pc'[k] \in HandlerPCs
    BY ZenonT(30)
  <2>3. TypeInv'
    BY <2>1, <2>2
  <2>4. MutexInv'
    BY ZenonT(40)
  <2>5. StartInv'
    <3>1. \A a \in Actors : pc[a] \notin {"graceful", "stopFails"}
      OBVIOUS
    <3>2. \A a \in Actors : pc'[a] \notin {"graceful", "stopFails"}
      BY <3>1, ZenonT(40)
    <3>3. /\ state' # "Created" /\ started' = started
          /\ \A p \in Owners : pc'[p] \notin {"startValidate", "serverStart"}
      BY ZenonT(40)
    <3> QED
      BY <3>2, <3>3
  <2>6. ServerInv' /\ ListenInv'
    BY ZenonT(40)
  <2>7. DestroyInv'
    OBVIOUS
  <2>8. StoppedMeansGone' /\ RunningMeansServing' /\ (state' = "Failed" <=> failure')
    OBVIOUS
  <2> QED
    BY <2>3, <2>4, <2>5, <2>6, <2>7, <2>8
<1>10. ASSUME NEW o \in Owners, StartFails(o) PROVE IInv'
  BY <1>10 DEF StartFails
<1>11. ASSUME NEW o \in Owners, Wait(o) PROVE IInv'
  <2> USE <1>11 DEF Wait, WaitReturns
  <2>1. pc' \in [Actors -> OwnerPCs \cup HandlerPCs]
    OBVIOUS
  <2>2. /\ \A p \in Owners : pc'[p] \in OwnerPCs
        /\ \A k \in Handlers : pc'[k] \in HandlerPCs
    OBVIOUS
  <2>3. outcome' \in [Owners -> {"none", "known", "failing", "ok", "threw"}]
    OBVIOUS
  <2>4. TypeInv'
    BY <2>1, <2>2, <2>3, ZenonT(40)
  <2>5. MutexInv' /\ StartInv'
    OBVIOUS
  <2>6. ServerInv' /\ ListenInv'
    OBVIOUS
  <2>7. DestroyInv'
    OBVIOUS
  <2>8. StoppedMeansGone' /\ RunningMeansServing' /\ (state' = "Failed" <=> failure')
    OBVIOUS
  <2> QED
    BY <2>4, <2>5, <2>6, <2>7, <2>8
<1>12. ASSUME NEW o \in Owners, WaitLock(o) PROVE IInv'
  BY <1>12 DEF WaitLock
<1>13. ASSUME NEW o \in Owners, WaitStart(o) PROVE IInv'
  BY <1>13 DEF WaitStart
<1>14. ASSUME NEW o \in Owners, WaitJoin(o) PROVE IInv'
  BY <1>14 DEF WaitJoin
<1>15. ASSUME NEW o \in Owners, WaitEnd(o) PROVE IInv'
  <2> USE <1>15 DEF WaitEnd, WaitReturns
  <2>1. pc' \in [Actors -> OwnerPCs \cup HandlerPCs]
    OBVIOUS
  <2>2. /\ \A p \in Owners : pc'[p] \in OwnerPCs
        /\ \A k \in Handlers : pc'[k] \in HandlerPCs
    OBVIOUS
  <2>3. outcome' \in [Owners -> {"none", "known", "failing", "ok", "threw"}]
    OBVIOUS
  <2>4. TypeInv'
    BY <2>1, <2>2, <2>3, ZenonT(40)
  <2>5. MutexInv' /\ StartInv'
    OBVIOUS
  <2>6. ServerInv' /\ ListenInv'
    OBVIOUS
  <2>7. DestroyInv'
    OBVIOUS
  <2>8. StoppedMeansGone' /\ RunningMeansServing' /\ (state' = "Failed" <=> failure')
    OBVIOUS
  <2> QED
    BY <2>4, <2>5, <2>6, <2>7, <2>8
<1>16. ASSUME NEW a \in Actors, Stop(a) PROVE IInv'
  <2> USE <1>16 DEF Stop, StopReturns, Return
  <2>1. pc' \in [Actors -> OwnerPCs \cup HandlerPCs]
    OBVIOUS
  <2>2. /\ \A p \in Owners : pc'[p] \in OwnerPCs
        /\ \A k \in Handlers : pc'[k] \in HandlerPCs
    OBVIOUS
  <2>3. TypeInv'
    BY <2>1, <2>2, ZenonT(40)
  <2>4. MutexInv' /\ StartInv'
    OBVIOUS
  <2>5. ServerInv' /\ ListenInv'
    OBVIOUS
  <2>6. DestroyInv'
    OBVIOUS
  <2>7. StoppedMeansGone' /\ RunningMeansServing' /\ (state' = "Failed" <=> failure')
    OBVIOUS
  <2> QED
    BY <2>3, <2>4, <2>5, <2>6, <2>7
<1>17. ASSUME NEW a \in Actors, GracefulStop(a) PROVE IInv'
  <2> USE <1>17 DEF GracefulStop, ForceStart, StopReturns, Return
  <2>1. pc' \in [Actors -> OwnerPCs \cup HandlerPCs]
    OBVIOUS
  <2>2. /\ \A p \in Owners : pc'[p] \in OwnerPCs
        /\ \A k \in Handlers : pc'[k] \in HandlerPCs
    OBVIOUS
  <2>3. TypeInv'
    BY <2>1, <2>2, ZenonT(40)
  <2>4. MutexInv' /\ StartInv'
    OBVIOUS
  <2>5. ServerInv' /\ ListenInv'
    OBVIOUS
  <2>6. DestroyInv'
    OBVIOUS
  <2>7. StoppedMeansGone' /\ RunningMeansServing' /\ (state' = "Failed" <=> failure')
    OBVIOUS
  <2> QED
    BY <2>3, <2>4, <2>5, <2>6, <2>7
<1>18. ASSUME NEW a \in Actors, StopFails(a) PROVE IInv'
  <2> USE <1>18 DEF StopFails, StopReturns, Return
  <2>1. pc' \in [Actors -> OwnerPCs \cup HandlerPCs]
    OBVIOUS
  <2>2. /\ \A p \in Owners : pc'[p] \in OwnerPCs
        /\ \A k \in Handlers : pc'[k] \in HandlerPCs
    OBVIOUS
  <2>3. TypeInv'
    BY <2>1, <2>2
  <2>4. MutexInv' /\ StartInv'
    OBVIOUS
  <2>5. ServerInv' /\ ListenInv'
    OBVIOUS
  <2>6. DestroyInv'
    OBVIOUS
  <2>7. StoppedMeansGone' /\ RunningMeansServing' /\ (state' = "Failed" <=> failure')
    OBVIOUS
  <2> QED
    BY <2>3, <2>4, <2>5, <2>6, <2>7
<1>19. ASSUME NEW h \in Handlers, HandlerBegins(h) PROVE IInv'
  BY <1>19 DEF HandlerBegins, Working
<1>20. ASSUME NEW h \in Handlers, HandlerCalls(h) PROVE IInv'
  BY <1>20 DEF HandlerCalls
<1>21. ASSUME NEW h \in Handlers, State(h) PROVE IInv'
  BY <1>21 DEF State, Return
<1>22. ASSUME ListenerOpens PROVE IInv'
  <2> USE <1>22 DEF ListenerOpens, Working
  <2>1. TypeInv' /\ MutexInv' /\ StartInv' /\ DestroyInv'
    OBVIOUS
  <2>2. ServerInv' /\ ListenInv'
    OBVIOUS
  <2>3. StoppedMeansGone' /\ RunningMeansServing' /\ (state' = "Failed" <=> failure')
    OBVIOUS
  <2> QED
    BY <2>1, <2>2, <2>3
<1>23. ASSUME ListenerEnds PROVE IInv'
  BY <1>23 DEF ListenerEnds, Working
<1>24. ASSUME ExecutorStops PROVE IInv'
  BY <1>24 DEF ExecutorStops, Working
<1>25. CASE UNCHANGED vars
  BY <1>25 DEF vars
<1> QED
  BY <1>1, <1>2, <1>3, <1>4, <1>5, <1>6, <1>7, <1>8, <1>9, <1>10, <1>11, <1>12, <1>13,
     <1>14, <1>15, <1>16, <1>17, <1>18, <1>19, <1>20, <1>21, <1>22, <1>23, <1>24, <1>25
     DEF Next, OwnerCall, OwnerStep, HandlerStep, ServerStep, Actors

(* Whatever calls overlap and whatever fails, IInv holds.                  *)
LEMMA Invariance == Spec => []IInv
<1>1. Init => IInv
  BY InitInv
<1>2. IInv /\ [Next]_vars => IInv'
  BY StepInv
<1> QED
  BY <1>1, <1>2, PTL DEF Spec

(* The state of the application and its server is well typed, for any      *)
(* owners, handlers, calls and faults.                                     *)
THEOREM TypeCorrect == Spec => []TypeOK
<1>1. IInv => TypeOK
  BY DEF IInv, TypeInv
<1> QED
  BY <1>1, Invariance, PTL

(* Stopped, published by Start, Stop or Wait, means that no worker thread, *)
(* listener or handler is left.                                            *)
THEOREM StoppedIsGone == Spec => []StoppedMeansGone
<1>1. IInv => StoppedMeansGone
  BY DEF IInv
<1> QED
  BY <1>1, Invariance, PTL

(* Running is published only by a start whose listener is up, and until    *)
(* somebody stops it the server listens on all its threads.                *)
THEOREM RunningServes == Spec => []RunningMeansServing
<1>1. IInv => RunningMeansServing
  BY DEF IInv
<1> QED
  BY <1>1, Invariance, PTL

(* The stored exception and the state Failed go together, and an           *)
(* application whose server's start failed has nothing left when its calls *)
(* are over.                                                               *)
THEOREM FailuresKept == Spec => []FailureKept
<1>1. ASSUME IInv PROVE FailureKept
  <2>1. state = "Failed" <=> failure
    BY <1>1 DEF IInv
  <2>2. ASSUME state = "Failed", startFailure PROVE Gone
    <3>1. started /\ mutex = None /\ threads # "none"
      BY <1>1, <2>2 DEF IInv, MutexInv, ServerInv
    <3>2. threads = "joined"
      BY <1>1, <2>2, <3>1 DEF IInv, TypeInv, TypeOK, ServerInv
    <3>3. listener # "open" /\ InHandler = {}
      BY <1>1, <3>1, <3>2 DEF IInv, ServerInv, InHandler
    <3> QED
      BY <3>2, <3>3 DEF Gone
  <2> QED
    BY <2>1, <2>2 DEF FailureKept
<1> QED
  BY <1>1, Invariance, PTL

(* What the published state says holds of the application.                 *)
THEOREM StatesMeanWhatTheySay == Spec => []StateTruthful
  BY StoppedIsGone, RunningServes, FailuresKept, PTL DEF StateTruthful

(* When the drain timer's coroutine can be spawned, the destructor leaves  *)
(* no thread, listener or handler behind; if it cannot, Stop throws and    *)
(* skips Wait.                                                             *)
THEOREM DestroyedIsGone ==
  ASSUME "spawn" \notin Faults PROVE Spec => []DestroyedMeansGone
<1>1. ASSUME "spawn" \notin Faults, IInv PROVE DestroyedMeansGone
  BY <1>1 DEF IInv, DestroyInv, DestroyedMeansGone, StopFailed
<1> QED
  BY <1>1, Invariance, PTL

-----------------------------------------------------------------------------
(* The moves of the published state.                                       *)

\* An application is starting as long as some Start is under way; a listener
\* that failed is recorded by the Start that waited for it; and only a Wait
\* that found such a failure reports one.
RecordInv ==
  /\ state = "Starting" /\ mutex = None =>
       \E o \in Owners : pc[o] \in {"startValidate", "startFails"}
  /\ startFailure /\ mutex = None =>
       state = "Failed" \/ \E o \in Owners : pc[o] = "startFails"
  /\ \A o \in Owners : outcome[o] = "failing" => startFailure
  /\ \A o \in Owners : pc[o] = "startFails" => state # "Created"

LEMMA RecordInit == Init => RecordInv
<1> QED
  BY ApplicationAssumption DEF Init, RecordInv, Actors

(* What a step may do to the state, the failures and the owners inside     *)
(* Start without another look at RecordInv.                                *)
LEMMA RecordKept ==
  ASSUME RecordInv, mutex' = mutex,
         startFailure => startFailure', startFailure' => startFailure \/ mutex # None,
         state' = "Starting" => state = "Starting", state = "Failed" => state' = "Failed",
         state' = "Created" => state = "Created",
         \A o \in Owners : outcome'[o] = "failing" => outcome[o] = "failing" \/ startFailure,
         \A o \in Owners : pc[o] = "startFails" <=> pc'[o] = "startFails",
         \A o \in Owners : pc[o] = "startValidate" => pc'[o] = "startValidate"
  PROVE  RecordInv'
<1>1. ASSUME state' = "Starting", mutex' = None
      PROVE  \E o \in Owners : pc'[o] \in {"startValidate", "startFails"}
  <2>1. PICK o \in Owners : pc[o] \in {"startValidate", "startFails"}
    BY <1>1 DEF RecordInv
  <2> QED
    BY <2>1
<1>2. ASSUME startFailure', mutex' = None
      PROVE  state' = "Failed" \/ \E o \in Owners : pc'[o] = "startFails"
  <2>1. state = "Failed" \/ \E o \in Owners : pc[o] = "startFails"
    BY <1>2 DEF RecordInv
  <2> QED
    BY <2>1
<1>3. \A o \in Owners : outcome'[o] = "failing" => startFailure'
  BY DEF RecordInv
<1>4. \A o \in Owners : pc'[o] = "startFails" => state' # "Created"
  BY DEF RecordInv
<1> QED
  BY <1>1, <1>2, <1>3, <1>4 DEF RecordInv

(* A step that changes nothing of what RecordInv speaks of but where one   *)
(* actor is, who was not inside Start.                                     *)
LEMMA RecordQuiet ==
  ASSUME RecordInv, IInv, NEW a \in Actors, NEW l, Goto(a, l),
         pc[a] \notin {"startValidate", "startFails"}, l # "startFails",
         UNCHANGED <<state, mutex, startFailure>>,
         \A o \in Owners : outcome'[o] = "failing" => outcome[o] = "failing" \/ startFailure
  PROVE  RecordInv'
<1>1. pc \in [Actors -> OwnerPCs \cup HandlerPCs] /\ Owners \subseteq Actors
  BY DEF IInv, TypeInv, Actors
<1>2. \A o \in Owners : pc'[o] = IF o = a THEN l ELSE pc[o]
  BY <1>1 DEF Goto
<1>3. \A o \in Owners : (pc[o] = "startFails" <=> pc'[o] = "startFails")
                        /\ (pc[o] = "startValidate" => pc'[o] = "startValidate")
  BY <1>2
<1> QED
  BY <1>3, RecordKept

LEMMA RecordStep == IInv /\ RecordInv /\ [Next]_vars => RecordInv'
<1> SUFFICES ASSUME IInv, RecordInv, [Next]_vars PROVE RecordInv'
  OBVIOUS
<1>t. TypeOK /\ pc \in [Actors -> OwnerPCs \cup HandlerPCs]
  BY DEF IInv, TypeInv
<1>i. Owners \subseteq Actors /\ Handlers \subseteq Actors /\ Owners \cap Handlers = {}
      /\ None \notin Owners
  BY ApplicationAssumption DEF Actors
<1>1. ASSUME NEW o \in Owners, StartCall(o) PROVE RecordInv'
  <2>1. UNCHANGED <<mutex, startFailure, outcome>> /\ pc[o] = "idle"
        /\ state' = IF state = "Created" THEN "Starting" ELSE state
    BY <1>1 DEF StartCall, Call, server
  <2>2. \A p \in Owners :
          pc'[p] = IF state = "Created" /\ p = o THEN "startValidate" ELSE pc[p]
    BY <1>1, <1>t, <1>i DEF StartCall, Goto
  <2> QED
    BY <2>1, <2>2 DEF RecordInv
<1>2. ASSUME NEW o \in Owners, StopCall(o) PROVE RecordInv'
  BY <1>2, <1>i, RecordQuiet DEF StopCall, Call, app, server
<1>3. ASSUME NEW o \in Owners, WaitCall(o) PROVE RecordInv'
  <2>1. \A p \in Owners : outcome'[p] = "failing" => outcome[p] = "failing"
    BY <1>3, <1>t DEF WaitCall, TypeOK
  <2> QED
    BY <1>3, <1>i, <2>1, RecordQuiet DEF WaitCall, Call, app, server
<1>4. ASSUME NEW o \in Owners, DestroyCall(o) PROVE RecordInv'
  BY <1>4, <1>i, RecordQuiet DEF DestroyCall, Call, app, server
<1>5. ASSUME NEW o \in Owners, StartValidate(o) PROVE RecordInv'
  BY <1>5, <1>t, <1>i
     DEF StartValidate, Goto, RecordInv, IInv, StartInv, server, hist, Free
<1>6. ASSUME NEW o \in Owners, ServerStart(o) PROVE RecordInv'
  <2>1. mutex = o /\ ~startFailure /\ state = "Starting"
    BY <1>6, <1>i DEF ServerStart, IInv, MutexInv, StartInv, ServerInv, StartPCs
  <2>2. \A p \in Owners : pc'[p] = "startFails" => pc[p] = "startFails"
    BY <1>6, <1>t, <1>i DEF ServerStart, Goto
  <2> QED
    BY <1>6, <1>i, <2>1, <2>2 DEF ServerStart, RecordInv, app, hist
<1>7. ASSUME NEW o \in Owners, ServerThreads(o) PROVE RecordInv'
  BY <1>7, <1>i, RecordQuiet DEF ServerThreads, app, hist
<1>8. ASSUME NEW o \in Owners, ServerAbort(o) PROVE RecordInv'
  <2>1. mutex = o /\ state = "Starting"
    BY <1>8, <1>i DEF ServerAbort, IInv, MutexInv, StartPCs
  <2>2. \A p \in Owners : pc'[p] = "startFails" => pc[p] = "startFails"
    BY <1>8, <1>t, <1>i DEF ServerAbort, Goto
  <2> QED
    BY <1>8, <1>i, <2>1, <2>2 DEF ServerAbort, ForceStart, RecordInv, app, hist
<1>9. ASSUME NEW o \in Owners, ServerListens(o) PROVE RecordInv'
  <2>1. mutex = o /\ state = "Starting"
    BY <1>9, <1>i DEF ServerListens, IInv, MutexInv, StartPCs
  <2>2. \A p \in Owners : pc'[p] = "startFails" => pc[p] = "startFails"
    BY <1>9, <1>t, <1>i DEF ServerListens, Goto
  <2> QED
    BY <1>9, <1>i, <2>1, <2>2 DEF ServerListens, ForceStart, RecordInv, hist
<1>10. ASSUME NEW o \in Owners, StartFails(o) PROVE RecordInv'
  BY <1>10, <1>t, <1>i DEF StartFails, Goto, RecordInv, server, hist
<1>11. ASSUME NEW o \in Owners, Wait(o) PROVE RecordInv'
  <2>1. \A p \in Owners : outcome'[p] = "failing" => outcome[p] = "failing"
    BY <1>11, <1>t DEF Wait, WaitReturns, TypeOK
  <2>2. \A p \in Owners : (pc[p] = "startFails" <=> pc'[p] = "startFails")
                          /\ (pc[p] = "startValidate" => pc'[p] = "startValidate")
    BY <1>11, <1>t, <1>i DEF Wait, WaitReturns, Goto
  <2>3. state' = state \/ (state \in {"Created", "Stopped"} /\ state' = "Stopped")
    BY <1>11, Zenon DEF Wait
  <2>4. mutex' = mutex /\ startFailure' = startFailure
    BY <1>11 DEF Wait, server
  <2> QED
    BY <2>1, <2>2, <2>3, <2>4, RecordKept
<1>12. ASSUME NEW o \in Owners, WaitLock(o) PROVE RecordInv'
  BY <1>12, <1>i, RecordQuiet DEF WaitLock, app, hist
<1>13. ASSUME NEW o \in Owners, WaitStart(o) PROVE RecordInv'
  BY <1>13, <1>i, RecordQuiet DEF WaitStart, app, server, hist
<1>14. ASSUME NEW o \in Owners, WaitJoin(o) PROVE RecordInv'
  <2>1. \A p \in Owners :
          outcome'[p] = "failing" => outcome[p] = "failing" \/ startFailure
    BY <1>14, <1>t DEF WaitJoin, TypeOK
  <2> QED
    BY <1>14, <1>i, <2>1, RecordQuiet DEF WaitJoin, app
<1>15. ASSUME NEW o \in Owners, WaitEnd(o) PROVE RecordInv'
  <2>1. UNCHANGED startFailure
    BY <1>15 DEF WaitEnd, server
  <2>2. CASE mutex = o
    BY <1>15, <1>t, <1>i, <2>1, <2>2 DEF WaitEnd, Goto, RecordInv, IInv, MutexInv
  <2>3. CASE mutex # o
    <3>1. \A p \in Owners : outcome'[p] = "failing" => outcome[p] = "failing"
      BY <1>15, <2>3, <1>t DEF WaitEnd, WaitReturns, TypeOK
    <3>2. \A p \in Owners : (pc[p] = "startFails" <=> pc'[p] = "startFails")
                            /\ (pc[p] = "startValidate" => pc'[p] = "startValidate")
      BY <1>15, <1>t, <1>i, <2>3 DEF WaitEnd, WaitReturns, Goto
    <3>3. /\ mutex' = mutex
          /\ state' = state \/ state' \in {"Stopped", "Failed"}
          /\ state = "Failed" => state' = "Failed"
      BY <1>15, <2>3 DEF WaitEnd
    <3> QED
      BY <2>1, <3>1, <3>2, <3>3, RecordKept
  <2> QED
    BY <2>2, <2>3
<1>16. ASSUME NEW a \in Actors, Stop(a) PROVE RecordInv'
  <2>1. mutex' = mutex /\ startFailure' = startFailure /\ outcome' = outcome
    BY <1>16 DEF Stop
  <2>2. \A p \in Owners : (pc[p] = "startFails" <=> pc'[p] = "startFails")
                          /\ (pc[p] = "startValidate" => pc'[p] = "startValidate")
    BY <1>16, <1>t, <1>i DEF Stop, StopReturns, Return, Goto
  <2>3. state' = state \/ (state # "Failed" /\ state' \in {"Stopped", "Stopping"})
    BY <1>16 DEF Stop
  <2> QED
    BY <2>1, <2>2, <2>3, RecordKept
<1>17. ASSUME NEW a \in Actors, GracefulStop(a) PROVE RecordInv'
  <2>1. /\ state' = state /\ mutex' = mutex /\ outcome' = outcome
        /\ startFailure => startFailure'
        /\ startFailure' => startFailure \/ (started /\ ~startComplete)
    BY <1>17 DEF GracefulStop, ForceStart, app
  <2>2. \A p \in Owners : (pc[p] = "startFails" <=> pc'[p] = "startFails")
                          /\ (pc[p] = "startValidate" => pc'[p] = "startValidate")
    <3>1. pc[a] = "graceful"
      BY <1>17 DEF GracefulStop
    <3>2. \E l : l \notin {"startFails", "startValidate"} /\ Goto(a, l)
      BY <1>17 DEF GracefulStop, StopReturns, Return
    <3>3. PICK l : l \notin {"startFails", "startValidate"} /\ Goto(a, l)
      BY <3>2
    <3>4. \A p \in Owners : pc'[p] = IF p = a THEN l ELSE pc[p]
      BY <1>t, <1>i, <3>3 DEF Goto
    <3> QED
      BY <3>1, <3>3, <3>4
  <2>3. started /\ ~startComplete => mutex # None
    BY DEF IInv, ServerInv
  <2> QED
    BY <2>1, <2>2, <2>3, RecordKept
<1>18. ASSUME NEW a \in Actors, StopFails(a) PROVE RecordInv'
  <2>1. UNCHANGED <<mutex, startFailure, outcome>> /\ state' = "Failed"
    BY <1>18 DEF StopFails, server
  <2> QED
    BY <2>1 DEF RecordInv
<1>19. ASSUME NEW h \in Handlers, HandlerBegins(h) PROVE RecordInv'
  BY <1>19, <1>i, RecordQuiet DEF HandlerBegins, app, server, hist
<1>20. ASSUME NEW h \in Handlers, HandlerCalls(h) PROVE RecordInv'
  BY <1>20, <1>i, RecordQuiet DEF HandlerCalls, app, server, hist
<1>21. ASSUME NEW h \in Handlers, State(h) PROVE RecordInv'
  BY <1>21, <1>i, RecordQuiet DEF State, Return, app, server, hist
<1>22. ASSUME ListenerOpens PROVE RecordInv'
  <2>1. UNCHANGED <<state, mutex, pc, outcome>>
        /\ (startFailure => startFailure')
        /\ (startFailure' => startFailure \/ mutex # None)
    BY <1>22 DEF ListenerOpens, Working, IInv, ServerInv, app, hist
  <2> QED
    BY <2>1 DEF RecordInv
<1>23. ASSUME ListenerEnds \/ ExecutorStops \/ UNCHANGED vars PROVE RecordInv'
  BY <1>23 DEF ListenerEnds, ExecutorStops, RecordInv, vars, app, server, hist
<1> QED
  BY <1>1, <1>2, <1>3, <1>4, <1>5, <1>6, <1>7, <1>8, <1>9, <1>10, <1>11, <1>12, <1>13,
     <1>14, <1>15, <1>16, <1>17, <1>18, <1>19, <1>20, <1>21, <1>22, <1>23
     DEF Next, OwnerCall, OwnerStep, HandlerStep, ServerStep, Actors

LEMMA RecordHolds == Spec => [](IInv /\ RecordInv)
<1>1. Init => IInv /\ RecordInv
  BY InitInv, RecordInit
<1>2. (IInv /\ RecordInv) /\ [Next]_vars => (IInv /\ RecordInv)'
  BY StepInv, RecordStep
<1> QED
  BY <1>1, <1>2, PTL DEF Spec

Move(s, t) ==
  \/ <<s, t>> \in Edges
  \/ <<s, t>> = <<"Starting", "Stopped">> /\ WaitOvertakesStart
  \/ <<s, t>> = <<"Stopped", "Failed">> /\ LateFailure

(* Whatever calls overlap and whatever fails, the state moves along the    *)
(* documented machine, but for a Wait that ends within a Start and a       *)
(* failure recorded after Stopped was published; Failed is final.          *)
THEOREM StateMovesLegally == Spec => LegalTransitions
<1>1. ASSUME IInv, RecordInv, [Next]_vars, state' # state PROVE Move(state, state')
  <2> USE <1>1
  <2>t. state \in States
    BY DEF IInv, TypeInv, TypeOK
  <2>i. Owners \subseteq Actors /\ None \notin Owners
    BY ApplicationAssumption DEF Actors
  <2>1. ASSUME NEW o \in Owners, StartCall(o) PROVE Move(state, state')
    BY <2>1 DEF StartCall, Move, Edges
  <2>2. ASSUME NEW o \in Owners, StartValidate(o) PROVE Move(state, state')
    BY <2>2 DEF StartValidate, Move, Edges
  <2>3. ASSUME NEW o \in Owners, ServerListens(o) PROVE Move(state, state')
    BY <2>3, <2>i DEF ServerListens, Move, Edges, IInv, MutexInv, StartPCs
  <2>4. ASSUME NEW o \in Owners, StartFails(o) PROVE Move(state, state')
    BY <2>4, <2>t, <2>i DEF StartFails, Move, Edges, LateFailure, RecordInv, States
  <2>5. ASSUME NEW o \in Owners, Wait(o) PROVE Move(state, state')
    BY <2>5 DEF Wait, Move, Edges
  <2>6. ASSUME NEW o \in Owners, WaitEnd(o) PROVE Move(state, state')
    <3>1. mutex = None /\ pc[o] = "waitEnd" /\ state # "Failed"
      BY <2>6, <2>t DEF WaitEnd, Free, States
    <3>2. CASE outcome[o] = "failing"
      <4>1. state' = "Failed" /\ startFailure
        BY <2>6, <3>1, <3>2, <2>i DEF WaitEnd, RecordInv
      <4>2. \E p \in Owners : pc[p] = "startFails"
        BY <3>1, <4>1 DEF RecordInv
      <4> QED
        BY <4>1, <4>2, <3>1, <2>t, <2>i DEF Move, Edges, LateFailure, RecordInv, States
    <3>3. CASE outcome[o] # "failing"
      <4>1. state' = "Stopped"
        BY <2>6, <3>1, <3>3, <2>i DEF WaitEnd
      <4>2. state = "Starting" => WaitOvertakesStart
        BY <3>1 DEF RecordInv, WaitOvertakesStart
      <4> QED
        BY <4>1, <4>2, <3>1, <2>t DEF Move, Edges, States
    <3> QED
      BY <3>2, <3>3
  <2>7. ASSUME NEW a \in Actors, Stop(a) PROVE Move(state, state')
    BY <2>7, <2>t DEF Stop, Move, Edges, States
  <2>8. ASSUME NEW a \in Actors, StopFails(a) PROVE Move(state, state')
    BY <2>8, <2>t DEF StopFails, Move, Edges, LateFailure, IInv, StartInv, Ended, States
  <2>9. ASSUME NEW o \in Owners,
               \/ StopCall(o) \/ WaitCall(o) \/ DestroyCall(o) \/ ServerStart(o)
               \/ ServerThreads(o) \/ ServerAbort(o) \/ WaitLock(o) \/ WaitStart(o)
               \/ WaitJoin(o)
        PROVE  FALSE
    BY <2>9 DEF StopCall, WaitCall, DestroyCall, ServerStart, ServerThreads, ServerAbort,
                WaitLock, WaitStart, WaitJoin, app
  <2>10. ASSUME NEW a \in Actors,
                GracefulStop(a) \/ HandlerBegins(a) \/ HandlerCalls(a) \/ State(a)
         PROVE  FALSE
    BY <2>10 DEF GracefulStop, HandlerBegins, HandlerCalls, State, app
  <2>11. ASSUME ListenerOpens \/ ListenerEnds \/ ExecutorStops \/ UNCHANGED vars
         PROVE  FALSE
    BY <2>11 DEF ListenerOpens, ListenerEnds, ExecutorStops, vars, app
  <2> QED
    BY <2>1, <2>2, <2>3, <2>4, <2>5, <2>6, <2>7, <2>8, <2>9, <2>10, <2>11
       DEF Next, OwnerCall, OwnerStep, HandlerStep, ServerStep, Actors
<1>2. IInv /\ RecordInv /\ [Next]_vars =>
        [state' # state =>
           \/ <<state, state'>> \in Edges
           \/ <<state, state'>> = <<"Starting", "Stopped">> /\ WaitOvertakesStart
           \/ <<state, state'>> = <<"Stopped", "Failed">> /\ LateFailure]_state
  BY <1>1 DEF Move
<1> QED
  BY <1>2, RecordHolds, PTL DEF Spec, LegalTransitions
=============================================================================
