-------------------------- MODULE ConnectionProofs --------------------------
(***************************************************************************)
(* Safety of Connection for any finite set of connections, any slot limit  *)
(* and any set of configurations: type correctness, the exact slot count   *)
(* and gauge, the registry, close operations, cancellation, the strand     *)
(* queues, the keep-alive limit, and the refinement of SlotPool.           *)
(***************************************************************************)
EXTENDS Connection, TLAPS, FiniteSetTheorems

Holding  == Launching \cup Pending \cup Resumable \cup {"remove", "sub"}
Gauged   == {"counted"} \cup Pending \cup Resumable \cup Finishing
Tasks    == {"co", "close"}
Socks    == {"none", "open", "closed"}

\* Connections whose place is in P, and what one place adds to their number.
Count(P, f) == Cardinality({c \in Conns : f[c] \in P})

Weight(P, l) == IF l \in P THEN 1 ELSE 0

Has(s, t)  == \E i \in DOMAIN s : s[i] = t
Single(s)  == \A i, j \in DOMAIN s : s[i] = "co" /\ s[j] = "co" => i = j

\* TypeOK, except that the counters may be negative.
TypeInv ==
  /\ config \in Configs
  /\ active \in Int /\ metric \in Int /\ errors \in [Conns -> Nat]
  /\ registry \subseteq Conns /\ taken \subseteq Conns /\ closeAsked \subseteq Conns
  /\ pc \in [Conns -> PCs] /\ result \in [Conns -> Results]
  /\ sock \in [Conns -> Socks]
  /\ handlerActive \in [Conns -> BOOLEAN] /\ cancelled \in [Conns -> BOOLEAN]
  /\ served \in [Conns -> Nat] /\ strand \in [Conns -> Seq(Tasks)]

\* The two counters count what they are meant to.
CountInv ==
  /\ active = Count(Holding, pc)
  /\ metric = IF config.metrics THEN Count(Gauged, pc) ELSE 0

\* Only a connection that was admitted can be asked to close, and from the
\* asking on the request is in taken, on the strand, or carried out.
CloseInv ==
  /\ taken \subseteq closeAsked
  /\ \A c \in registry \cup closeAsked : pc[c] # "none"
  /\ \A c \in Conns :
       /\ Has(strand[c], "close") => c \in closeAsked
       /\ pc[c] \in {"refused", "sub", "dec", "closed"} => sock[c] = "closed"
       /\ c \in closeAsked \ taken /\ ~Has(strand[c], "close") => sock[c] = "closed"

\* The coroutine is queued once while it waits to be resumed.
ResumeInv ==
  \A c \in Conns : /\ Single(strand[c])
                   /\ Has(strand[c], "co") <=> pc[c] \in Resumable

\* While the loop may still go on, the limit is not reached.
LimitInv ==
  \A c \in Conns :
    /\ pc[c] \in Launching \cup {"none"} => served[c] = 0
    /\ pc[c] \in {"start", "handshake", "handshakeDone", "read", "readDone",
                  "handlerStart", "handler", "handlerDone", "write", "writeDone"}
       => IF config.keepAlive THEN served[c] < config.maxRequests ELSE served[c] = 0
    /\ served[c] <= IF config.keepAlive THEN config.maxRequests ELSE 1

IInv == /\ TypeInv /\ CountInv /\ RegistryExact /\ CloseInv /\ CancelHitsHandler
        /\ ResumeInv /\ LimitInv

-----------------------------------------------------------------------------
(* Facts about counting and about the queues.                              *)

LEMMA ConfigFacts ==
  \A k \in Configs : /\ k.tls \in BOOLEAN /\ k.keepAlive \in BOOLEAN
                     /\ k.metrics \in BOOLEAN /\ k.maxRequests \in Nat \ {0}
  BY ConnectionAssumption DEF ConnectionAssumption, ConfigType

LEMMA Places ==
  /\ "none" \in PCs /\ "refused" \in PCs /\ "closed" \in PCs
  /\ "admitted" \in PCs /\ "registered" \in PCs /\ "counted" \in PCs /\ "undo" \in PCs
  /\ "start" \in PCs /\ "handshake" \in PCs /\ "handshakeDone" \in PCs
  /\ "read" \in PCs /\ "readDone" \in PCs /\ "write" \in PCs /\ "writeDone" \in PCs
  /\ "handlerStart" \in PCs /\ "handler" \in PCs /\ "handlerDone" \in PCs
  /\ "shutdown" \in PCs /\ "shutdownDone" \in PCs
  /\ "remove" \in PCs /\ "sub" \in PCs /\ "dec" \in PCs
  /\ "co" \in Tasks /\ "close" \in Tasks
  /\ "none" \in Results /\ "ok" \in Results /\ "eof" \in Results
  /\ "aborted" \in Results /\ "error" \in Results
  /\ "open" \in Socks /\ "closed" \in Socks
  BY DEF PCs, Launching, Pending, Resumable, Finishing, Tasks, Results, Socks

LEMMA ErrorTypes ==
  \A n \in Nat, d \in Conns :
    errors \in [Conns -> Nat] => [errors EXCEPT ![d] = @ + n] \in [Conns -> Nat]
  OBVIOUS

LEMMA DonePlaces ==
  \A l \in {"handshake", "read", "write", "shutdown"} :
    DoneOf(l) \in PCs /\ DoneOf(l) \in Resumable
  BY DEF DoneOf, PCs, Resumable

\* A connection that moves from one place to another changes a count by what
\* it leaves and what it enters.
LEMMA CountMove ==
  ASSUME NEW P, NEW f \in [Conns -> PCs], NEW c \in Conns, NEW l
  PROVE  /\ Count(P, f) \in Nat
         /\ Count(P, [f EXCEPT ![c] = l]) = Count(P, f) + Weight(P, l) - Weight(P, f[c])
<1> DEFINE S == {d \in Conns : f[d] \in P}
           g == [f EXCEPT ![c] = l]
           T == {d \in Conns : g[d] \in P}
<1>1. IsFiniteSet(S)
  BY FS_Subset, ConnectionAssumption DEF ConnectionAssumption
<1>2. Cardinality(S) \in Nat
  BY <1>1, FS_CardinalityType
<1>a. Count(P, f) = Cardinality(S) /\ Count(P, g) = Cardinality(T)
  BY DEF Count
<1>3. CASE l \in P /\ f[c] \notin P
  <2>1. T = S \cup {c} /\ c \notin S
    BY <1>3
  <2>2. Cardinality(T) = Cardinality(S) + 1
    BY <2>1, <1>1, FS_AddElement
  <2> QED
    BY <2>2, <1>2, <1>3, <1>a DEF Weight
<1>4. CASE l \notin P /\ f[c] \in P
  <2>1. T = S \ {c} /\ c \in S
    BY <1>4
  <2>2. Cardinality(T) = Cardinality(S) - 1
    BY <2>1, <1>1, FS_RemoveElement
  <2> QED
    BY <2>2, <1>2, <1>4, <1>a DEF Weight
<1>5. CASE l \in P /\ f[c] \in P
  <2>1. T = S
    BY <1>5
  <2> HIDE DEF S, T
  <2> QED
    BY <2>1, <1>2, <1>5, <1>a DEF Weight
<1>6. CASE l \notin P /\ f[c] \notin P
  <2>1. T = S
    BY <1>6
  <2> HIDE DEF S, T
  <2> QED
    BY <2>1, <1>2, <1>6, <1>a DEF Weight
<1> QED
  BY <1>2, <1>3, <1>4, <1>5, <1>6, <1>a

LEMMA AppendFacts ==
  ASSUME NEW s \in Seq(Tasks), NEW t \in Tasks
  PROVE  /\ Append(s, t) \in Seq(Tasks)
         /\ \A u : Has(Append(s, t), u) <=> Has(s, u) \/ u = t
         /\ Single(s) /\ (t = "co" => ~Has(s, "co")) => Single(Append(s, t))
<1> DEFINE a == Append(s, t)
<1>1. /\ a \in Seq(Tasks) /\ DOMAIN s = 1..Len(s) /\ DOMAIN a = 1..(Len(s) + 1)
      /\ Len(s) \in Nat
      /\ \A i \in 1..Len(s) : a[i] = s[i]
      /\ a[Len(s) + 1] = t
  OBVIOUS
<1>2. \A i \in DOMAIN a : i \in DOMAIN s \/ i = Len(s) + 1
  BY <1>1
<1> HIDE DEF a
<1>3. ASSUME NEW u PROVE Has(a, u) <=> Has(s, u) \/ u = t
  <2>1. Len(s) + 1 \in DOMAIN a /\ DOMAIN s \subseteq DOMAIN a
    BY <1>1
  <2> QED
    BY <1>1, <1>2, <2>1 DEF Has
<1>4. Single(s) /\ (t = "co" => ~Has(s, "co")) => Single(a)
  BY <1>1, <1>2 DEF Single, Has
<1> QED
  BY <1>1, <1>3, <1>4 DEF a

LEMMA TailFacts ==
  ASSUME NEW s \in Seq(Tasks), s # <<>>
  PROVE  /\ Tail(s) \in Seq(Tasks)
         /\ \A u : Has(s, u) <=> Head(s) = u \/ Has(Tail(s), u)
         /\ Single(s) => Single(Tail(s))
         /\ Single(s) /\ Head(s) = "co" => ~Has(Tail(s), "co")
<1> DEFINE r == Tail(s)
<1>1. /\ r \in Seq(Tasks) /\ Len(s) \in Nat \ {0}
      /\ DOMAIN s = 1..Len(s) /\ DOMAIN r = 1..(Len(s) - 1)
      /\ \A i \in 1..(Len(s) - 1) : r[i] = s[i + 1]
      /\ Head(s) = s[1]
  OBVIOUS
<1>2. \A i \in DOMAIN s : i = 1 \/ (i - 1 \in DOMAIN r /\ s[i] = r[i - 1])
  BY <1>1
<1>3. \A i \in DOMAIN r : i + 1 \in DOMAIN s /\ i + 1 # 1 /\ r[i] = s[i + 1] /\ i \in Int
  BY <1>1
<1>4. 1 \in DOMAIN s /\ Head(s) = s[1]
  BY <1>1
<1> HIDE DEF r
<1>5. ASSUME NEW u PROVE Has(s, u) <=> Head(s) = u \/ Has(r, u)
  BY <1>2, <1>3, <1>4 DEF Has
<1>6. Single(s) => Single(r)
  BY <1>3 DEF Single
<1>7. Single(s) /\ Head(s) = "co" => ~Has(r, "co")
  BY <1>3, <1>4 DEF Single, Has
<1> QED
  BY <1>1, <1>5, <1>6, <1>7 DEF r

-----------------------------------------------------------------------------
(* The invariant.                                                          *)

LEMMA InitInv == Init => IInv
<1> SUFFICES ASSUME Init PROVE IInv
  OBVIOUS
<1> USE ConnectionAssumption DEF Init, ConnectionAssumption
<1>1. TypeInv
  <2>1. <<>> \in Seq(Tasks)
    OBVIOUS
  <2> QED
    BY <2>1, Places DEF TypeInv, Socks
<1>2. CountInv
  <2>1. {c \in Conns : pc[c] \in Holding} = {} /\ {c \in Conns : pc[c] \in Gauged} = {}
    BY DEF Holding, Gauged, Launching, Pending, Resumable, Finishing
  <2> QED
    BY <2>1, FS_EmptySet DEF CountInv, Count
<1>3. RegistryExact
  BY DEF RegistryExact, Serves, Pending, Resumable
<1>4. CloseInv
  BY DEF CloseInv, Has
<1>5. CancelHitsHandler
  BY DEF CancelHitsHandler, InHandler
<1>6. ResumeInv
  BY DEF ResumeInv, Single, Has, Resumable
<1>7. LimitInv
  BY ConfigFacts DEF LimitInv
<1> QED
  BY <1>1, <1>2, <1>3, <1>4, <1>5, <1>6, <1>7 DEF IInv

(* Every step keeps the types.                                             *)
LEMMA QueueTypes ==
  ASSUME TypeInv, NEW c \in Conns
  PROVE  /\ strand[c] \in Seq(Tasks)
         /\ Append(strand[c], "co") \in Seq(Tasks)
         /\ Append(strand[c], "close") \in Seq(Tasks)
         /\ strand[c] # <<>> =>
              /\ Tail(strand[c]) \in Seq(Tasks)
              /\ Append(Tail(strand[c]), "co") \in Seq(Tasks)
<1>1. strand[c] \in Seq(Tasks)
  BY DEF TypeInv
<1>2. strand[c] # <<>> => Tail(strand[c]) \in Seq(Tasks)
  BY <1>1
<1>3. \A s \in Seq(Tasks), t \in Tasks : Append(s, t) \in Seq(Tasks)
  OBVIOUS
<1> QED
  BY <1>1, <1>2, <1>3, Places

LEMMA TypeStep == TypeInv /\ [Next]_vars => TypeInv'
<1> USE ConfigFacts, Places DEF TypeInv, Goto, vars, counters, shared, own
<1>1. ASSUME TypeInv, NEW c \in Conns, TryAcquireConnection(c) PROVE TypeInv'
  <2> USE <1>1 DEF TryAcquireConnection
  <2>1. pc' \in [Conns -> PCs]
    BY ZenonT(40)
  <2>2. strand' \in [Conns -> Seq(Tasks)]
    BY QueueTypes
  <2>3. served' \in [Conns -> Nat] /\ errors' \in [Conns -> Nat]
    OBVIOUS
  <2>4. sock' \in [Conns -> Socks] /\ result' \in [Conns -> Results]
    OBVIOUS
  <2>5. handlerActive' \in [Conns -> BOOLEAN] /\ cancelled' \in [Conns -> BOOLEAN]
    OBVIOUS
  <2>6. /\ config' \in Configs /\ active' \in Int /\ metric' \in Int
        /\ registry' \subseteq Conns /\ taken' \subseteq Conns
        /\ closeAsked' \subseteq Conns
    OBVIOUS
  <2> QED
    BY <2>1, <2>2, <2>3, <2>4, <2>5, <2>6
<1>2. ASSUME TypeInv, NEW c \in Conns, RegisterClose(c) PROVE TypeInv'
  BY <1>2 DEF RegisterClose
<1>3. ASSUME TypeInv, NEW c \in Conns, CountConnection(c) PROVE TypeInv'
  BY <1>3 DEF CountConnection, Counted
<1>4. ASSUME TypeInv, NEW c \in Conns, SpawnConnection(c) PROVE TypeInv'
  <2> USE <1>4 DEF SpawnConnection, Counted, CountError
  <2>1. pc' \in [Conns -> PCs]
    BY ZenonT(30)
  <2>2. strand' \in [Conns -> Seq(Tasks)]
    BY QueueTypes
  <2>3. served' \in [Conns -> Nat] /\ errors' \in [Conns -> Nat]
    OBVIOUS
  <2>4. sock' \in [Conns -> Socks] /\ result' \in [Conns -> Results]
    OBVIOUS
  <2>5. handlerActive' \in [Conns -> BOOLEAN] /\ cancelled' \in [Conns -> BOOLEAN]
    OBVIOUS
  <2>6. /\ config' \in Configs /\ active' \in Int /\ metric' \in Int
        /\ registry' \subseteq Conns /\ taken' \subseteq Conns
        /\ closeAsked' \subseteq Conns
    OBVIOUS
  <2> QED
    BY <2>1, <2>2, <2>3, <2>4, <2>5, <2>6
<1>5. ASSUME TypeInv, NEW c \in Conns, UndoLaunch(c) PROVE TypeInv'
  BY <1>5 DEF UndoLaunch
<1>6. ASSUME TypeInv, NEW c \in Conns, CloseConnection(c) PROVE TypeInv'
  <2> USE <1>6 DEF CloseConnection, Task, CloseOperation
  <2>1. pc' \in [Conns -> PCs]
    <3>1. UNCHANGED pc \/ (pc' = [pc EXCEPT ![c] = DoneOf(pc[c])]
                           /\ pc[c] \in {"handshake", "read", "write", "shutdown"})
      OBVIOUS
    <3> QED
      BY ZenonT(30), <3>1, DonePlaces
  <2>2. strand' \in [Conns -> Seq(Tasks)]
    BY QueueTypes
  <2>3. served' \in [Conns -> Nat] /\ errors' \in [Conns -> Nat]
    OBVIOUS
  <2>4. sock' \in [Conns -> Socks] /\ result' \in [Conns -> Results]
    BY ZenonT(40)
  <2>5. handlerActive' \in [Conns -> BOOLEAN] /\ cancelled' \in [Conns -> BOOLEAN]
    OBVIOUS
  <2>6. /\ config' \in Configs /\ active' \in Int /\ metric' \in Int
        /\ registry' \subseteq Conns /\ taken' \subseteq Conns
        /\ closeAsked' \subseteq Conns
    OBVIOUS
  <2> QED
    BY <2>1, <2>2, <2>3, <2>4, <2>5, <2>6
<1>7. ASSUME TypeInv, NEW c \in Conns, Started(c) PROVE TypeInv'
  BY <1>7 DEF Started, Resume, Task
<1>8. ASSUME TypeInv, NEW c \in Conns, Handshaken(c) PROVE TypeInv'
  BY <1>8 DEF Handshaken, Resume, Task, CloseFrom, CountError, Counted
<1>9. ASSUME TypeInv, NEW c \in Conns, RequestRead(c) PROVE TypeInv'
  <2>1. pc' \in [Conns -> PCs]
    BY <1>9, ZenonT(40) DEF RequestRead, CloseFrom
  <2>2. strand' \in [Conns -> Seq(Tasks)]
    BY <1>9, QueueTypes, ZenonT(40) DEF RequestRead, Resume, Task
  <2>3. served' \in [Conns -> Nat] /\ errors' \in [Conns -> Nat]
    <3> DEFINE n == IF result[c] # "eof" THEN Counted(1) ELSE 0
    <3>1. errors' = errors \/ errors' = [errors EXCEPT ![c] = @ + n]
      BY <1>9 DEF RequestRead, CountError
    <3>2. n \in Nat
      BY <1>9 DEF Counted
    <3>3. UNCHANGED served
      BY <1>9 DEF RequestRead
    <3>4. served \in [Conns -> Nat] /\ errors \in [Conns -> Nat]
      BY <1>9
    <3> HIDE DEF n
    <3> QED
      BY <3>1, <3>2, <3>3, <3>4, ErrorTypes
  <2>4. sock' \in [Conns -> Socks] /\ result' \in [Conns -> Results]
    BY <1>9 DEF RequestRead
  <2>5. handlerActive' \in [Conns -> BOOLEAN] /\ cancelled' \in [Conns -> BOOLEAN]
    BY <1>9 DEF RequestRead
  <2>6. /\ config' \in Configs /\ active' \in Int /\ metric' \in Int
        /\ registry' \subseteq Conns /\ taken' \subseteq Conns
        /\ closeAsked' \subseteq Conns
    BY <1>9 DEF RequestRead
  <2> QED
    BY <2>1, <2>2, <2>3, <2>4, <2>5, <2>6
<1>10. ASSUME TypeInv, NEW c \in Conns, HandlerStarts(c) PROVE TypeInv'
  <2> USE <1>10 DEF HandlerStarts, Task
  <2>1. pc' \in [Conns -> PCs]
    OBVIOUS
  <2>2. strand' \in [Conns -> Seq(Tasks)]
    BY ZenonT(30), QueueTypes
  <2>3. served' \in [Conns -> Nat] /\ errors' \in [Conns -> Nat]
    OBVIOUS
  <2>4. sock' \in [Conns -> Socks] /\ result' \in [Conns -> Results]
    OBVIOUS
  <2>5. handlerActive' \in [Conns -> BOOLEAN] /\ cancelled' \in [Conns -> BOOLEAN]
    OBVIOUS
  <2>6. /\ config' \in Configs /\ active' \in Int /\ metric' \in Int
        /\ registry' \subseteq Conns /\ taken' \subseteq Conns
        /\ closeAsked' \subseteq Conns
    OBVIOUS
  <2> QED
    BY <2>1, <2>2, <2>3, <2>4, <2>5, <2>6
<1>11. ASSUME TypeInv, NEW c \in Conns, HandlerEnds(c) PROVE TypeInv'
  BY <1>11 DEF HandlerEnds, Resume, Task, CloseFrom, CountError, Counted
<1>12. ASSUME TypeInv, NEW c \in Conns, ResponseWritten(c) PROVE TypeInv'
  <2>1. pc' \in [Conns -> PCs]
    BY <1>12, ZenonT(40) DEF ResponseWritten, CloseFrom
  <2>2. strand' \in [Conns -> Seq(Tasks)]
    BY <1>12, QueueTypes DEF ResponseWritten, Resume, Task
  <2>3. served' \in [Conns -> Nat] /\ errors' \in [Conns -> Nat]
    <3> DEFINE n == IF TRUE THEN Counted(1) ELSE 0
    <3>1. errors' = errors \/ errors' = [errors EXCEPT ![c] = @ + n]
      BY <1>12 DEF ResponseWritten, CountError
    <3>2. n \in Nat
      BY <1>12 DEF Counted
    <3>3. UNCHANGED served \/ served' = [served EXCEPT ![c] = @ + 1]
      BY <1>12 DEF ResponseWritten
    <3>4. served \in [Conns -> Nat] /\ errors \in [Conns -> Nat]
      BY <1>12
    <3> HIDE DEF n
    <3> QED
      BY <3>1, <3>2, <3>3, <3>4, ErrorTypes
  <2>4. sock' \in [Conns -> Socks] /\ result' \in [Conns -> Results]
    BY <1>12 DEF ResponseWritten
  <2>5. handlerActive' \in [Conns -> BOOLEAN] /\ cancelled' \in [Conns -> BOOLEAN]
    BY <1>12 DEF ResponseWritten
  <2>6. /\ config' \in Configs /\ active' \in Int /\ metric' \in Int
        /\ registry' \subseteq Conns /\ taken' \subseteq Conns
        /\ closeAsked' \subseteq Conns
    BY <1>12 DEF ResponseWritten
  <2> QED
    BY <2>1, <2>2, <2>3, <2>4, <2>5, <2>6
<1>13. ASSUME TypeInv, NEW c \in Conns, ShutDown(c) PROVE TypeInv'
  BY <1>13 DEF ShutDown, Resume, Task, CountError, Counted
<1>14. ASSUME TypeInv, NEW c \in Conns, RemoveConnection(c) PROVE TypeInv'
  BY <1>14 DEF RemoveConnection
<1>15. ASSUME TypeInv, NEW c \in Conns, ReleaseSlot(c) PROVE TypeInv'
  BY <1>15 DEF ReleaseSlot
<1>16. ASSUME TypeInv, NEW c \in Conns, UncountConnection(c) PROVE TypeInv'
  BY <1>16 DEF UncountConnection, Counted
<1>17. ASSUME TypeInv, NEW c \in Conns, DispatchClose(c) PROVE TypeInv'
  BY <1>17 DEF DispatchClose
<1>18. ASSUME TypeInv, NEW c \in Conns, HandlerStops(c) PROVE TypeInv'
  <2> USE <1>18 DEF HandlerStops, Task, CloseOperation
  <2>1. pc' \in [Conns -> PCs]
    OBVIOUS
  <2>2. strand' \in [Conns -> Seq(Tasks)]
    BY QueueTypes
  <2>3. served' \in [Conns -> Nat] /\ errors' \in [Conns -> Nat]
    OBVIOUS
  <2>4. sock' \in [Conns -> Socks] /\ result' \in [Conns -> Results]
    BY ZenonT(40)
  <2>5. handlerActive' \in [Conns -> BOOLEAN] /\ cancelled' \in [Conns -> BOOLEAN]
    OBVIOUS
  <2>6. /\ config' \in Configs /\ active' \in Int /\ metric' \in Int
        /\ registry' \subseteq Conns /\ taken' \subseteq Conns
        /\ closeAsked' \subseteq Conns
    OBVIOUS
  <2> QED
    BY <2>1, <2>2, <2>3, <2>4, <2>5, <2>6
<1>19. ASSUME TypeInv, NEW c \in Conns, IoCompletes(c) PROVE TypeInv'
  BY <1>19 DEF IoCompletes, Complete, DoneOf
<1>20. ASSUME TypeInv, NEW c \in Conns, IoTimesOut(c) PROVE TypeInv'
  BY <1>20 DEF IoTimesOut, Complete, DoneOf
<1>21. ASSUME TypeInv, NEW c \in Conns, HandlerCompletes(c) PROVE TypeInv'
  BY <1>21 DEF HandlerCompletes, Complete
<1>22. ASSUME TypeInv, CloseAll PROVE TypeInv'
  BY <1>22 DEF CloseAll
<1>23. ASSUME TypeInv, UNCHANGED vars PROVE TypeInv'
  BY <1>23
<1> HIDE DEF TypeInv
<1> QED
  BY <1>1, <1>2, <1>3, <1>4, <1>5, <1>6, <1>7, <1>8, <1>9, <1>10, <1>11, <1>12,
     <1>13, <1>14, <1>15, <1>16, <1>17, <1>18, <1>19, <1>20, <1>21, <1>22, <1>23
     DEF Next, Step, Launch, StrandStep

(* A step changes a counter by what it changes of the place it counts.     *)
Balanced(c) ==
  /\ pc' = [pc EXCEPT ![c] = pc'[c]] /\ config' = config
  /\ active' = active + Weight(Holding, pc'[c]) - Weight(Holding, pc[c])
  /\ metric' = metric + Counted(Weight(Gauged, pc'[c]) - Weight(Gauged, pc[c]))

LEMMA BalancedCounts ==
  ASSUME IInv, NEW c \in Conns, Balanced(c) PROVE CountInv'
<1> DEFINE l == pc'[c]
<1>1. pc \in [Conns -> PCs] /\ pc' = [pc EXCEPT ![c] = l]
  BY DEF IInv, TypeInv, Balanced
<1> HIDE DEF l
<1>2. /\ Count(Holding, pc) \in Nat
      /\ Count(Holding, pc') =
           Count(Holding, pc) + Weight(Holding, l) - Weight(Holding, pc[c])
  BY <1>1, CountMove
<1>3. /\ Count(Gauged, pc) \in Nat
      /\ Count(Gauged, pc') =
           Count(Gauged, pc) + Weight(Gauged, l) - Weight(Gauged, pc[c])
  BY <1>1, CountMove
<1>4. /\ Weight(Gauged, l) \in Int /\ Weight(Gauged, pc[c]) \in Int
      /\ Weight(Holding, l) \in Int /\ Weight(Holding, pc[c]) \in Int
  BY DEF Weight
<1>5. /\ active = Count(Holding, pc)
      /\ metric = IF config.metrics THEN Count(Gauged, pc) ELSE 0
      /\ active' = active + Weight(Holding, l) - Weight(Holding, pc[c])
      /\ metric' = metric + Counted(Weight(Gauged, l) - Weight(Gauged, pc[c]))
      /\ config' = config
  BY DEF IInv, CountInv, Balanced, l
<1>6. CASE config.metrics
  BY <1>2, <1>3, <1>4, <1>5, <1>6 DEF CountInv, Counted
<1>7. CASE ~config.metrics
  BY <1>2, <1>4, <1>5, <1>7 DEF CountInv, Counted
<1> QED
  BY <1>6, <1>7

(* The counters are exact.                                                 *)
LEMMA CountStep == IInv /\ [Next]_vars => CountInv'
<1> SUFFICES ASSUME IInv, [Next]_vars PROVE CountInv'
  OBVIOUS
<1> USE ConfigFacts DEF IInv, vars, counters, shared, own, TypeInv, Goto, Counted,
        Weight, Holding, Gauged, Launching, Pending, Resumable, Finishing
<1>1. ASSUME NEW c \in Conns, TryAcquireConnection(c) PROVE Balanced(c)
  BY <1>1 DEF TryAcquireConnection, Balanced
<1>2. ASSUME NEW c \in Conns, RegisterClose(c) PROVE Balanced(c)
  BY <1>2 DEF RegisterClose, Balanced
<1>3. ASSUME NEW c \in Conns, CountConnection(c) PROVE Balanced(c)
  BY <1>3 DEF CountConnection, Counted, Balanced
<1>4. ASSUME NEW c \in Conns, SpawnConnection(c) PROVE Balanced(c)
  BY <1>4 DEF SpawnConnection, Counted, CountError, Balanced
<1>5. ASSUME NEW c \in Conns, UndoLaunch(c) PROVE Balanced(c)
  BY <1>5 DEF UndoLaunch, Balanced
<1>6. ASSUME NEW c \in Conns, CloseConnection(c) PROVE Balanced(c)
  BY <1>6 DEF CloseConnection, Task, CloseOperation, DoneOf, Balanced
<1>7. ASSUME NEW c \in Conns, Started(c) PROVE Balanced(c)
  BY <1>7 DEF Started, Resume, Task, Balanced
<1>8. ASSUME NEW c \in Conns, Handshaken(c) PROVE Balanced(c)
  BY <1>8 DEF Handshaken, Resume, Task, CloseFrom, CountError, Counted, Balanced
<1>9. ASSUME NEW c \in Conns, RequestRead(c) PROVE Balanced(c)
  BY <1>9 DEF RequestRead, Resume, Task, CloseFrom, CountError, Counted, Balanced
<1>10. ASSUME NEW c \in Conns, HandlerStarts(c) PROVE Balanced(c)
  BY <1>10 DEF HandlerStarts, Task, Balanced
<1>11. ASSUME NEW c \in Conns, HandlerEnds(c) PROVE Balanced(c)
  BY <1>11 DEF HandlerEnds, Resume, Task, CloseFrom, CountError, Counted, Balanced
<1>12. ASSUME NEW c \in Conns, ResponseWritten(c) PROVE Balanced(c)
  BY <1>12 DEF ResponseWritten, Resume, Task, CloseFrom, CountError, Counted, Balanced
<1>13. ASSUME NEW c \in Conns, ShutDown(c) PROVE Balanced(c)
  BY <1>13 DEF ShutDown, Resume, Task, CountError, Counted, Balanced
<1>14. ASSUME NEW c \in Conns, RemoveConnection(c) PROVE Balanced(c)
  BY <1>14 DEF RemoveConnection, Balanced
<1>15. ASSUME NEW c \in Conns, ReleaseSlot(c) PROVE Balanced(c)
  BY <1>15 DEF ReleaseSlot, Balanced
<1>16. ASSUME NEW c \in Conns, UncountConnection(c) PROVE Balanced(c)
  BY <1>16 DEF UncountConnection, Counted, Balanced
<1>17. ASSUME NEW c \in Conns, DispatchClose(c) PROVE Balanced(c)
  BY <1>17 DEF DispatchClose, Balanced
<1>18. ASSUME NEW c \in Conns, HandlerStops(c) PROVE Balanced(c)
  BY <1>18 DEF HandlerStops, Task, CloseOperation, Balanced
<1>19. ASSUME NEW c \in Conns, IoCompletes(c) PROVE Balanced(c)
  <2>1. /\ pc[c] \in {"handshake", "read", "write", "shutdown"}
        /\ pc' = [pc EXCEPT ![c] = DoneOf(pc[c])] /\ UNCHANGED <<config, counters>>
    BY <1>19 DEF IoCompletes, Complete
  <2>2. DoneOf(pc[c]) \in Resumable
    BY <2>1, DonePlaces
  <2> QED
    BY <2>1, <2>2 DEF Balanced
<1>20. ASSUME NEW c \in Conns, IoTimesOut(c) PROVE Balanced(c)
  <2>1. /\ pc[c] \in {"handshake", "read", "write", "shutdown"}
        /\ pc' = [pc EXCEPT ![c] = DoneOf(pc[c])] /\ UNCHANGED <<config, counters>>
    BY <1>20 DEF IoTimesOut, Complete
  <2>2. DoneOf(pc[c]) \in Resumable
    BY <2>1, DonePlaces
  <2> QED
    BY <2>1, <2>2 DEF Balanced
<1>21. ASSUME NEW c \in Conns, HandlerCompletes(c) PROVE Balanced(c)
  BY <1>21 DEF HandlerCompletes, Complete, Balanced
<1>22. CASE CloseAll
  BY <1>22 DEF CloseAll, CountInv, Count
<1>23. CASE UNCHANGED vars
  BY <1>23 DEF CountInv, Count
<1> QED
  BY BalancedCounts, <1>1, <1>2, <1>3, <1>4, <1>5, <1>6, <1>7, <1>8, <1>9, <1>10,
     <1>11, <1>12, <1>13, <1>14, <1>15, <1>16, <1>17, <1>18, <1>19, <1>20, <1>21,
     <1>22, <1>23
     DEF Next, Step, Launch, StrandStep 

(* The registry misses nobody.                                             *)
LEMMA RegistryStep == IInv /\ [Next]_vars => RegistryExact'
<1> SUFFICES ASSUME IInv, [Next]_vars PROVE RegistryExact'
  OBVIOUS
<1> USE DEF IInv, vars, counters, shared, own, TypeInv, Goto, RegistryExact,
        Serves, Pending, Resumable
<1>1. ASSUME NEW c \in Conns, TryAcquireConnection(c) PROVE RegistryExact'
  BY <1>1, ZenonT(40) DEF TryAcquireConnection
<1>2. ASSUME NEW c \in Conns, RegisterClose(c) PROVE RegistryExact'
  BY <1>2 DEF RegisterClose
<1>3. ASSUME NEW c \in Conns, CountConnection(c) PROVE RegistryExact'
  BY <1>3 DEF CountConnection, Counted
<1>4. ASSUME NEW c \in Conns, SpawnConnection(c) PROVE RegistryExact'
  BY <1>4 DEF SpawnConnection, Counted, CountError
<1>5. ASSUME NEW c \in Conns, UndoLaunch(c) PROVE RegistryExact'
  BY <1>5 DEF UndoLaunch
<1>6. ASSUME NEW c \in Conns, CloseConnection(c) PROVE RegistryExact'
  BY <1>6, ZenonT(40) DEF CloseConnection, Task, CloseOperation, DoneOf
<1>7. ASSUME NEW c \in Conns, Started(c) PROVE RegistryExact'
  BY <1>7 DEF Started, Resume, Task
<1>8. ASSUME NEW c \in Conns, Handshaken(c) PROVE RegistryExact'
  BY <1>8 DEF Handshaken, Resume, Task, CloseFrom, CountError, Counted
<1>9. ASSUME NEW c \in Conns, RequestRead(c) PROVE RegistryExact'
  BY <1>9 DEF RequestRead, Resume, Task, CloseFrom, CountError, Counted
<1>10. ASSUME NEW c \in Conns, HandlerStarts(c) PROVE RegistryExact'
  BY <1>10 DEF HandlerStarts, Task
<1>11. ASSUME NEW c \in Conns, HandlerEnds(c) PROVE RegistryExact'
  BY <1>11 DEF HandlerEnds, Resume, Task, CloseFrom, CountError, Counted
<1>12. ASSUME NEW c \in Conns, ResponseWritten(c) PROVE RegistryExact'
  BY <1>12, ZenonT(40) DEF ResponseWritten, Resume, Task, CloseFrom, CountError, Counted
<1>13. ASSUME NEW c \in Conns, ShutDown(c) PROVE RegistryExact'
  BY <1>13 DEF ShutDown, Resume, Task, CountError, Counted
<1>14. ASSUME NEW c \in Conns, RemoveConnection(c) PROVE RegistryExact'
  BY <1>14 DEF RemoveConnection
<1>15. ASSUME NEW c \in Conns, ReleaseSlot(c) PROVE RegistryExact'
  BY <1>15 DEF ReleaseSlot
<1>16. ASSUME NEW c \in Conns, UncountConnection(c) PROVE RegistryExact'
  BY <1>16 DEF UncountConnection, Counted
<1>17. ASSUME NEW c \in Conns, DispatchClose(c) PROVE RegistryExact'
  BY <1>17 DEF DispatchClose
<1>18. ASSUME NEW c \in Conns, HandlerStops(c) PROVE RegistryExact'
  BY <1>18 DEF HandlerStops, Task, CloseOperation
<1>19. ASSUME NEW c \in Conns, IoCompletes(c) PROVE RegistryExact'
  BY <1>19 DEF IoCompletes, Complete, DoneOf
<1>20. ASSUME NEW c \in Conns, IoTimesOut(c) PROVE RegistryExact'
  BY <1>20 DEF IoTimesOut, Complete, DoneOf
<1>21. ASSUME NEW c \in Conns, HandlerCompletes(c) PROVE RegistryExact'
  BY <1>21 DEF HandlerCompletes, Complete
<1>22. CASE CloseAll
  BY <1>22 DEF CloseAll
<1>23. CASE UNCHANGED vars
  BY <1>23
<1> QED
  BY <1>1, <1>2, <1>3, <1>4, <1>5, <1>6, <1>7, <1>8, <1>9, <1>10, <1>11, <1>12,
     <1>13, <1>14, <1>15, <1>16, <1>17, <1>18, <1>19, <1>20, <1>21, <1>22, <1>23
     DEF Next, Step, Launch, StrandStep 

(* What the tasks of one strand come to.                                   *)
LEMMA QueueFacts ==
  ASSUME IInv, NEW c \in Conns
  PROVE  LET s == strand[c] IN
         /\ Has(Append(s, "close"), "close") /\ Single(Append(s, "close"))
         /\ Has(Append(s, "close"), "co") <=> Has(s, "co")
         /\ Has(Append(s, "co"), "co")
         /\ Has(Append(s, "co"), "close") <=> Has(s, "close")
         /\ ~Has(s, "co") => Single(Append(s, "co"))
         /\ s # <<>> /\ Head(s) = "co" =>
              /\ ~Has(Tail(s), "co") /\ Single(Tail(s))
              /\ Has(Tail(s), "close") <=> Has(s, "close")
              /\ Has(Append(Tail(s), "co"), "co") /\ Single(Append(Tail(s), "co"))
              /\ Has(Append(Tail(s), "co"), "close") <=> Has(s, "close")
         /\ s # <<>> /\ Head(s) = "close" =>
              /\ Has(s, "close") /\ Single(Tail(s))
              /\ Has(Tail(s), "co") <=> Has(s, "co")
              /\ Has(Append(Tail(s), "co"), "co")
              /\ ~Has(s, "co") => Single(Append(Tail(s), "co"))
<1> DEFINE s == strand[c]
<1>1. s \in Seq(Tasks) /\ Single(s)
  BY DEF IInv, TypeInv, ResumeInv
<1> HIDE DEF s
<1>2. /\ Has(Append(s, "close"), "close") /\ Single(Append(s, "close"))
      /\ Has(Append(s, "close"), "co") <=> Has(s, "co")
      /\ Has(Append(s, "co"), "co")
      /\ Has(Append(s, "co"), "close") <=> Has(s, "close")
      /\ ~Has(s, "co") => Single(Append(s, "co"))
  BY <1>1, AppendFacts, Places
<1>3. ASSUME s # <<>>
      PROVE  /\ Tail(s) \in Seq(Tasks) /\ Single(Tail(s))
             /\ Has(s, "co") <=> Head(s) = "co" \/ Has(Tail(s), "co")
             /\ Has(s, "close") <=> Head(s) = "close" \/ Has(Tail(s), "close")
             /\ Head(s) = "co" => ~Has(Tail(s), "co")
             /\ Has(Append(Tail(s), "co"), "co")
             /\ Has(Append(Tail(s), "co"), "close") <=> Has(Tail(s), "close")
             /\ ~Has(Tail(s), "co") => Single(Append(Tail(s), "co"))
  <2>1. /\ Tail(s) \in Seq(Tasks) /\ Single(Tail(s))
        /\ Has(s, "co") <=> Head(s) = "co" \/ Has(Tail(s), "co")
        /\ Has(s, "close") <=> Head(s) = "close" \/ Has(Tail(s), "close")
        /\ Head(s) = "co" => ~Has(Tail(s), "co")
    BY <1>1, <1>3, TailFacts
  <2>2. /\ Has(Append(Tail(s), "co"), "co")
        /\ Has(Append(Tail(s), "co"), "close") <=> Has(Tail(s), "close")
        /\ ~Has(Tail(s), "co") => Single(Append(Tail(s), "co"))
    BY <2>1, AppendFacts, Places
  <2> QED
    BY <2>1, <2>2
<1> QED
  BY <1>2, <1>3 DEF s

(* A close operation is not lost.                                          *)
LEMMA CloseStep == IInv /\ [Next]_vars => CloseInv'
<1> SUFFICES ASSUME IInv, [Next]_vars PROVE CloseInv'
  OBVIOUS
<1> USE QueueFacts DEF IInv, vars, counters, shared, own, TypeInv, Goto, CloseInv,
        RegistryExact, Serves, Pending, Resumable
<1>1. ASSUME NEW c \in Conns, TryAcquireConnection(c) PROVE CloseInv'
  BY <1>1 DEF TryAcquireConnection
<1>2. ASSUME NEW c \in Conns, RegisterClose(c) PROVE CloseInv'
  BY ZenonT(30), <1>2 DEF RegisterClose
<1>3. ASSUME NEW c \in Conns, CountConnection(c) PROVE CloseInv'
  BY <1>3 DEF CountConnection, Counted
<1>4. ASSUME NEW c \in Conns, SpawnConnection(c) PROVE CloseInv'
  <2>1. CASE strand' = [strand EXCEPT ![c] = Append(@, "co")] /\ UNCHANGED registry
             /\ pc' = [pc EXCEPT ![c] = "start"]
    BY <1>4, <2>1 DEF SpawnConnection
  <2>2. CASE registry' = registry \ {c} /\ UNCHANGED strand
             /\ pc' = [pc EXCEPT ![c] = "undo"]
    BY <1>4, <2>2 DEF SpawnConnection
  <2> QED
    BY <1>4, <2>1, <2>2 DEF SpawnConnection
<1>5. ASSUME NEW c \in Conns, UndoLaunch(c) PROVE CloseInv'
  BY <1>5 DEF UndoLaunch
<1>6. ASSUME NEW c \in Conns, CloseConnection(c) PROVE CloseInv'
  BY <1>6 DEF CloseConnection, Task, CloseOperation, DoneOf
<1>7. ASSUME NEW c \in Conns, Started(c) PROVE CloseInv'
  BY <1>7 DEF Started, Resume, Task
<1>8. ASSUME NEW c \in Conns, Handshaken(c) PROVE CloseInv'
  BY <1>8 DEF Handshaken, Resume, Task, CloseFrom, CountError, Counted
<1>9. ASSUME NEW c \in Conns, RequestRead(c) PROVE CloseInv'
  <2>1. /\ \A d \in Conns : Has(strand'[d], "close") <=> Has(strand[d], "close")
        /\ UNCHANGED <<shared, sock>>
    BY <1>9, ZenonT(40) DEF RequestRead, Resume, Task
  <2>2. /\ pc[c] = "readDone"
        /\ \A d \in Conns : d # c => pc'[d] = pc[d]
        /\ pc'[c] \in {"handlerStart", "write", "shutdown", "remove"}
    BY <1>9 DEF RequestRead, CloseFrom
  <2> QED
    BY <2>1, <2>2
<1>10. ASSUME NEW c \in Conns, HandlerStarts(c) PROVE CloseInv'
  <2>1. /\ \A d \in Conns : Has(strand'[d], "close") <=> Has(strand[d], "close")
        /\ UNCHANGED <<shared, sock>>
    BY <1>10, ZenonT(40) DEF HandlerStarts, Task
  <2>2. /\ pc[c] = "handlerStart" /\ \A d \in Conns : d # c => pc'[d] = pc[d]
        /\ pc'[c] \in {"handler", "handlerDone"}
    BY <1>10 DEF HandlerStarts
  <2> QED
    BY <2>1, <2>2
<1>11. ASSUME NEW c \in Conns, HandlerEnds(c) PROVE CloseInv'
  BY <1>11 DEF HandlerEnds, Resume, Task, CloseFrom, CountError, Counted
<1>12. ASSUME NEW c \in Conns, ResponseWritten(c) PROVE CloseInv'
  BY <1>12 DEF ResponseWritten, Resume, Task, CloseFrom, CountError, Counted
<1>13. ASSUME NEW c \in Conns, ShutDown(c) PROVE CloseInv'
  BY <1>13 DEF ShutDown, Resume, Task, CountError, Counted
<1>14. ASSUME NEW c \in Conns, RemoveConnection(c) PROVE CloseInv'
  BY <1>14 DEF RemoveConnection
<1>15. ASSUME NEW c \in Conns, ReleaseSlot(c) PROVE CloseInv'
  BY <1>15 DEF ReleaseSlot
<1>16. ASSUME NEW c \in Conns, UncountConnection(c) PROVE CloseInv'
  BY <1>16 DEF UncountConnection, Counted
<1>17. ASSUME NEW c \in Conns, DispatchClose(c) PROVE CloseInv'
  BY <1>17 DEF DispatchClose
<1>18. ASSUME NEW c \in Conns, HandlerStops(c) PROVE CloseInv'
  <2>1. /\ registry' = {} /\ taken' = taken \cup (registry \ {c}) /\ closeAsked' = closeAsked \cup registry
        /\ pc[c] = "handlerStart"
    BY <1>18 DEF HandlerStops
  <2>2. strand' = strand /\ pc' = pc
    BY <1>18, <2>1 DEF HandlerStops, CloseOperation
  <2>3. /\ \A d \in Conns : d # c => sock'[d] = sock[d]
        /\ IF c \in registry THEN sock'[c] = "closed" ELSE sock'[c] = sock[c]
    BY <1>18 DEF HandlerStops, CloseOperation
  <2> QED
    BY <2>1, <2>2, <2>3
<1>19. ASSUME NEW c \in Conns, IoCompletes(c) PROVE CloseInv'
  BY <1>19 DEF IoCompletes, Complete, DoneOf
<1>20. ASSUME NEW c \in Conns, IoTimesOut(c) PROVE CloseInv'
  BY <1>20 DEF IoTimesOut, Complete, DoneOf
<1>21. ASSUME NEW c \in Conns, HandlerCompletes(c) PROVE CloseInv'
  BY <1>21 DEF HandlerCompletes, Complete
<1>22. CASE CloseAll
  BY <1>22 DEF CloseAll
<1>23. CASE UNCHANGED vars
  BY <1>23
<1> QED
  BY <1>1, <1>2, <1>3, <1>4, <1>5, <1>6, <1>7, <1>8, <1>9, <1>10, <1>11, <1>12,
     <1>13, <1>14, <1>15, <1>16, <1>17, <1>18, <1>19, <1>20, <1>21, <1>22, <1>23
     DEF Next, Step, Launch, StrandStep 

(* A cancellation stays with its handler.                                  *)
LEMMA CancelStep == IInv /\ [Next]_vars => CancelHitsHandler'
<1> SUFFICES ASSUME IInv, [Next]_vars PROVE CancelHitsHandler'
  OBVIOUS
<1> USE QueueFacts DEF IInv, vars, counters, shared, own, TypeInv, Goto,
        CancelHitsHandler, InHandler, CloseInv, RegistryExact, Serves, Pending,
        Resumable
<1>1. ASSUME NEW c \in Conns, TryAcquireConnection(c) PROVE CancelHitsHandler'
  BY <1>1 DEF TryAcquireConnection
<1>2. ASSUME NEW c \in Conns, RegisterClose(c) PROVE CancelHitsHandler'
  BY <1>2 DEF RegisterClose
<1>3. ASSUME NEW c \in Conns, CountConnection(c) PROVE CancelHitsHandler'
  BY <1>3 DEF CountConnection, Counted
<1>4. ASSUME NEW c \in Conns, SpawnConnection(c) PROVE CancelHitsHandler'
  BY <1>4 DEF SpawnConnection, Counted, CountError
<1>5. ASSUME NEW c \in Conns, UndoLaunch(c) PROVE CancelHitsHandler'
  BY <1>5 DEF UndoLaunch
<1>6. ASSUME NEW c \in Conns, CloseConnection(c) PROVE CancelHitsHandler'
  <2>1. /\ c \in closeAsked /\ sock'[c] = "closed" /\ cancelled'[c] = (cancelled[c] \/ handlerActive[c])
        /\ \A d \in Conns : d # c => sock'[d] = sock[d] /\ cancelled'[d] = cancelled[d] /\ pc'[d] = pc[d]
        /\ UNCHANGED <<shared, handlerActive>>
    BY <1>6 DEF CloseConnection, Task, CloseOperation
  <2>2. InHandler(c)' <=> InHandler(c)
    BY <1>6 DEF CloseConnection, CloseOperation, DoneOf
  <2> QED
    BY <2>1, <2>2
<1>7. ASSUME NEW c \in Conns, Started(c) PROVE CancelHitsHandler'
  BY <1>7 DEF Started, Resume, Task
<1>8. ASSUME NEW c \in Conns, Handshaken(c) PROVE CancelHitsHandler'
  BY <1>8 DEF Handshaken, Resume, Task, CloseFrom, CountError, Counted
<1>9. ASSUME NEW c \in Conns, RequestRead(c) PROVE CancelHitsHandler'
  <2>1. /\ pc[c] = "readDone" /\ ~handlerActive[c] /\ ~cancelled[c]
        /\ UNCHANGED <<shared, sock, cancelled>>
    BY <1>9 DEF RequestRead
  <2>2. \/ /\ pc' = [pc EXCEPT ![c] = "handlerStart"]
           /\ handlerActive' = [handlerActive EXCEPT ![c] = TRUE]
        \/ /\ \A d \in Conns : d # c => pc'[d] = pc[d]
           /\ pc'[c] \in {"write", "shutdown", "remove"} /\ UNCHANGED handlerActive
    BY <1>9 DEF RequestRead, CloseFrom
  <2> QED
    BY <2>1, <2>2
<1>10. ASSUME NEW c \in Conns, HandlerStarts(c) PROVE CancelHitsHandler'
  BY <1>10 DEF HandlerStarts, Task
<1>11. ASSUME NEW c \in Conns, HandlerEnds(c) PROVE CancelHitsHandler'
  BY <1>11 DEF HandlerEnds, Resume, Task, CloseFrom, CountError, Counted
<1>12. ASSUME NEW c \in Conns, ResponseWritten(c) PROVE CancelHitsHandler'
  BY <1>12 DEF ResponseWritten, Resume, Task, CloseFrom, CountError, Counted
<1>13. ASSUME NEW c \in Conns, ShutDown(c) PROVE CancelHitsHandler'
  BY <1>13 DEF ShutDown, Resume, Task, CountError, Counted
<1>14. ASSUME NEW c \in Conns, RemoveConnection(c) PROVE CancelHitsHandler'
  BY <1>14 DEF RemoveConnection
<1>15. ASSUME NEW c \in Conns, ReleaseSlot(c) PROVE CancelHitsHandler'
  BY <1>15 DEF ReleaseSlot
<1>16. ASSUME NEW c \in Conns, UncountConnection(c) PROVE CancelHitsHandler'
  BY <1>16 DEF UncountConnection, Counted
<1>17. ASSUME NEW c \in Conns, DispatchClose(c) PROVE CancelHitsHandler'
  BY <1>17 DEF DispatchClose
<1>18. ASSUME NEW c \in Conns, HandlerStops(c) PROVE CancelHitsHandler'
  BY <1>18 DEF HandlerStops, Task, CloseOperation
<1>19. ASSUME NEW c \in Conns, IoCompletes(c) PROVE CancelHitsHandler'
  BY <1>19 DEF IoCompletes, Complete, DoneOf
<1>20. ASSUME NEW c \in Conns, IoTimesOut(c) PROVE CancelHitsHandler'
  BY <1>20 DEF IoTimesOut, Complete, DoneOf
<1>21. ASSUME NEW c \in Conns, HandlerCompletes(c) PROVE CancelHitsHandler'
  BY <1>21 DEF HandlerCompletes, Complete
<1>22. CASE CloseAll
  BY <1>22 DEF CloseAll
<1>23. CASE UNCHANGED vars
  BY <1>23
<1> QED
  BY <1>1, <1>2, <1>3, <1>4, <1>5, <1>6, <1>7, <1>8, <1>9, <1>10, <1>11, <1>12,
     <1>13, <1>14, <1>15, <1>16, <1>17, <1>18, <1>19, <1>20, <1>21, <1>22, <1>23
     DEF Next, Step, Launch, StrandStep 

(* The coroutine is queued once.                                           *)
LEMMA ResumeStep == IInv /\ [Next]_vars => ResumeInv'
<1> SUFFICES ASSUME IInv, [Next]_vars PROVE ResumeInv'
  OBVIOUS
<1> USE QueueFacts DEF IInv, vars, counters, shared, own, TypeInv, Goto,
        ResumeInv, Pending, Resumable, Finishing
<1>1. ASSUME NEW c \in Conns, TryAcquireConnection(c) PROVE ResumeInv'
  <2>1. /\ pc[c] = "none" /\ strand' = strand /\ \A d \in Conns : d # c => pc'[d] = pc[d]
        /\ pc'[c] \in {"admitted", "refused"}
    BY <1>1 DEF TryAcquireConnection
  <2> QED
    BY <2>1
<1>2. ASSUME NEW c \in Conns, RegisterClose(c) PROVE ResumeInv'
  BY <1>2 DEF RegisterClose
<1>3. ASSUME NEW c \in Conns, CountConnection(c) PROVE ResumeInv'
  BY <1>3 DEF CountConnection, Counted
<1>4. ASSUME NEW c \in Conns, SpawnConnection(c) PROVE ResumeInv'
  BY <1>4, ZenonT(40) DEF SpawnConnection, Counted, CountError
<1>5. ASSUME NEW c \in Conns, UndoLaunch(c) PROVE ResumeInv'
  BY <1>5 DEF UndoLaunch
<1>6. ASSUME NEW c \in Conns, CloseConnection(c) PROVE ResumeInv'
  <2>1. strand[c] # <<>> /\ Head(strand[c]) = "close"
    BY <1>6 DEF CloseConnection, Task
  <2>2. \/ strand' = [strand EXCEPT ![c] = Tail(@)] /\ UNCHANGED pc
        \/ /\ pc[c] \in {"handshake", "read", "write", "shutdown"}
           /\ pc' = [pc EXCEPT ![c] = DoneOf(pc[c])]
           /\ strand' = [strand EXCEPT ![c] = Append(Tail(@), "co")]
    BY <1>6 DEF CloseConnection, CloseOperation
  <2>3. CASE strand' = [strand EXCEPT ![c] = Tail(@)] /\ UNCHANGED pc
    BY <2>1, <2>3
  <2>4. CASE /\ pc[c] \in {"handshake", "read", "write", "shutdown"}
             /\ pc' = [pc EXCEPT ![c] = DoneOf(pc[c])]
             /\ strand' = [strand EXCEPT ![c] = Append(Tail(@), "co")]
    <3>1. pc'[c] \in Resumable
      BY <2>4, DonePlaces
    <3>2. pc[c] \notin Resumable
      BY <2>4
    <3> QED
      BY <2>1, <2>4, <3>1, <3>2
  <2> QED
    BY <2>2, <2>3, <2>4
<1>7. ASSUME NEW c \in Conns, Started(c) PROVE ResumeInv'
  BY <1>7 DEF Started, Resume, Task
<1>8. ASSUME NEW c \in Conns, Handshaken(c) PROVE ResumeInv'
  BY <1>8 DEF Handshaken, Resume, Task, CloseFrom, CountError, Counted
<1>9. ASSUME NEW c \in Conns, RequestRead(c) PROVE ResumeInv'
  <2>1. strand[c] # <<>> /\ Head(strand[c]) = "co" /\ pc[c] = "readDone"
    BY <1>9 DEF RequestRead, Task
  <2>2. \/ UNCHANGED strand /\ pc' = [pc EXCEPT ![c] = "handlerStart"]
        \/ /\ strand' = [strand EXCEPT ![c] = Append(Tail(@), "co")]
           /\ pc' = [pc EXCEPT ![c] = "handlerStart"]
        \/ /\ strand' = [strand EXCEPT ![c] = Tail(@)]
           /\ \A d \in Conns : d # c => pc'[d] = pc[d]
           /\ pc'[c] \in {"write", "shutdown", "remove"}
    BY <1>9 DEF RequestRead, Resume, CloseFrom
  <2> QED
    BY <2>1, <2>2, ZenonT(40)
<1>10. ASSUME NEW c \in Conns, HandlerStarts(c) PROVE ResumeInv'
  BY <1>10, ZenonT(40) DEF HandlerStarts, Task
<1>11. ASSUME NEW c \in Conns, HandlerEnds(c) PROVE ResumeInv'
  BY <1>11 DEF HandlerEnds, Resume, Task, CloseFrom, CountError, Counted
<1>12. ASSUME NEW c \in Conns, ResponseWritten(c) PROVE ResumeInv'
  BY <1>12 DEF ResponseWritten, Resume, Task, CloseFrom, CountError, Counted
<1>13. ASSUME NEW c \in Conns, ShutDown(c) PROVE ResumeInv'
  BY <1>13 DEF ShutDown, Resume, Task, CountError, Counted
<1>14. ASSUME NEW c \in Conns, RemoveConnection(c) PROVE ResumeInv'
  BY <1>14 DEF RemoveConnection
<1>15. ASSUME NEW c \in Conns, ReleaseSlot(c) PROVE ResumeInv'
  BY <1>15 DEF ReleaseSlot
<1>16. ASSUME NEW c \in Conns, UncountConnection(c) PROVE ResumeInv'
  BY <1>16 DEF UncountConnection, Counted
<1>17. ASSUME NEW c \in Conns, DispatchClose(c) PROVE ResumeInv'
  BY <1>17 DEF DispatchClose
<1>18. ASSUME NEW c \in Conns, HandlerStops(c) PROVE ResumeInv'
  BY <1>18 DEF HandlerStops, Task, CloseOperation
<1>19. ASSUME NEW c \in Conns, IoCompletes(c) PROVE ResumeInv'
  BY <1>19 DEF IoCompletes, Complete, DoneOf
<1>20. ASSUME NEW c \in Conns, IoTimesOut(c) PROVE ResumeInv'
  BY <1>20 DEF IoTimesOut, Complete, DoneOf
<1>21. ASSUME NEW c \in Conns, HandlerCompletes(c) PROVE ResumeInv'
  BY <1>21 DEF HandlerCompletes, Complete
<1>22. CASE CloseAll
  BY <1>22 DEF CloseAll
<1>23. CASE UNCHANGED vars
  BY <1>23
<1> QED
  BY <1>1, <1>2, <1>3, <1>4, <1>5, <1>6, <1>7, <1>8, <1>9, <1>10, <1>11, <1>12,
     <1>13, <1>14, <1>15, <1>16, <1>17, <1>18, <1>19, <1>20, <1>21, <1>22, <1>23
     DEF Next, Step, Launch, StrandStep 

(* The loop ends in time.                                                  *)
LEMMA LimitStep == IInv /\ [Next]_vars => LimitInv'
<1> SUFFICES ASSUME IInv, [Next]_vars PROVE LimitInv'
  OBVIOUS
<1> USE ConfigFacts DEF IInv, vars, counters, shared, own, TypeInv, Goto,
        LimitInv, Launching
<1>1. ASSUME NEW c \in Conns, TryAcquireConnection(c) PROVE LimitInv'
  BY <1>1 DEF TryAcquireConnection
<1>2. ASSUME NEW c \in Conns, RegisterClose(c) PROVE LimitInv'
  BY <1>2 DEF RegisterClose
<1>3. ASSUME NEW c \in Conns, CountConnection(c) PROVE LimitInv'
  BY <1>3 DEF CountConnection, Counted
<1>4. ASSUME NEW c \in Conns, SpawnConnection(c) PROVE LimitInv'
  BY <1>4 DEF SpawnConnection, Counted, CountError
<1>5. ASSUME NEW c \in Conns, UndoLaunch(c) PROVE LimitInv'
  BY <1>5 DEF UndoLaunch
<1>6. ASSUME NEW c \in Conns, CloseConnection(c) PROVE LimitInv'
  BY <1>6 DEF CloseConnection, Task, CloseOperation, DoneOf
<1>7. ASSUME NEW c \in Conns, Started(c) PROVE LimitInv'
  BY <1>7 DEF Started, Resume, Task
<1>8. ASSUME NEW c \in Conns, Handshaken(c) PROVE LimitInv'
  BY <1>8 DEF Handshaken, Resume, Task, CloseFrom, CountError, Counted
<1>9. ASSUME NEW c \in Conns, RequestRead(c) PROVE LimitInv'
  BY <1>9 DEF RequestRead, Resume, Task, CloseFrom, CountError, Counted
<1>10. ASSUME NEW c \in Conns, HandlerStarts(c) PROVE LimitInv'
  BY <1>10 DEF HandlerStarts, Task
<1>11. ASSUME NEW c \in Conns, HandlerEnds(c) PROVE LimitInv'
  BY <1>11 DEF HandlerEnds, Resume, Task, CloseFrom, CountError, Counted
<1>12. ASSUME NEW c \in Conns, ResponseWritten(c) PROVE LimitInv'
  <2>1. /\ pc[c] = "writeDone" /\ UNCHANGED config
        /\ \A d \in Conns : d # c => pc'[d] = pc[d] /\ served'[d] = served[d]
        /\ served[c] \in Nat /\ config.maxRequests \in Nat
    BY <1>12 DEF ResponseWritten, Resume
  <2>2. \/ /\ pc'[c] \in {"shutdown", "remove"} /\ served'[c] \in {served[c], served[c] + 1}
        \/ /\ pc'[c] = "read" /\ served'[c] = served[c] + 1
           /\ config.keepAlive /\ served[c] + 1 < config.maxRequests
    BY <1>12 DEF ResponseWritten, CloseFrom
  <2> QED
    BY <2>1, <2>2
<1>13. ASSUME NEW c \in Conns, ShutDown(c) PROVE LimitInv'
  BY <1>13 DEF ShutDown, Resume, Task, CountError, Counted
<1>14. ASSUME NEW c \in Conns, RemoveConnection(c) PROVE LimitInv'
  BY <1>14 DEF RemoveConnection
<1>15. ASSUME NEW c \in Conns, ReleaseSlot(c) PROVE LimitInv'
  BY <1>15 DEF ReleaseSlot
<1>16. ASSUME NEW c \in Conns, UncountConnection(c) PROVE LimitInv'
  BY <1>16 DEF UncountConnection, Counted
<1>17. ASSUME NEW c \in Conns, DispatchClose(c) PROVE LimitInv'
  BY <1>17 DEF DispatchClose
<1>18. ASSUME NEW c \in Conns, HandlerStops(c) PROVE LimitInv'
  BY <1>18 DEF HandlerStops, Task, CloseOperation
<1>19. ASSUME NEW c \in Conns, IoCompletes(c) PROVE LimitInv'
  BY <1>19 DEF IoCompletes, Complete, DoneOf
<1>20. ASSUME NEW c \in Conns, IoTimesOut(c) PROVE LimitInv'
  BY <1>20 DEF IoTimesOut, Complete, DoneOf
<1>21. ASSUME NEW c \in Conns, HandlerCompletes(c) PROVE LimitInv'
  BY <1>21 DEF HandlerCompletes, Complete
<1>22. CASE CloseAll
  BY <1>22 DEF CloseAll
<1>23. CASE UNCHANGED vars
  BY <1>23
<1> QED
  BY <1>1, <1>2, <1>3, <1>4, <1>5, <1>6, <1>7, <1>8, <1>9, <1>10, <1>11, <1>12,
     <1>13, <1>14, <1>15, <1>16, <1>17, <1>18, <1>19, <1>20, <1>21, <1>22, <1>23
     DEF Next, Step, Launch, StrandStep 

LEMMA StepInv == IInv /\ [Next]_vars => IInv'
  BY TypeStep, CountStep, RegistryStep, CloseStep, CancelStep, ResumeStep, LimitStep
     DEF IInv

LEMMA Invariance == Spec => []IInv
  BY InitInv, StepInv, PTL DEF Spec

-----------------------------------------------------------------------------
(* The theorems.                                                           *)

\* Both counters stay natural numbers: no path of the launch or of the
\* clean-up decrements what it has not incremented.
THEOREM TypeCorrect == Spec => []TypeOK
<1>1. IInv => TypeOK
  <2> SUFFICES ASSUME IInv PROVE TypeOK
    OBVIOUS
  <2>1. active \in Nat /\ metric \in Nat
    <3>1. IsFiniteSet({d \in Conns : pc[d] \in Holding})
          /\ IsFiniteSet({d \in Conns : pc[d] \in Gauged})
      BY FS_Subset, ConnectionAssumption DEF ConnectionAssumption
    <3> QED
      BY <3>1, FS_CardinalityType DEF IInv, CountInv, Count
  <2> QED
    BY <2>1 DEF IInv, TypeInv, TypeOK, Socks, Tasks
<1> QED
  BY <1>1, Invariance, PTL

\* The gauge of the metrics is the number of connections counted in and not
\* yet counted out, at every moment and for every interleaving of stops.
THEOREM GaugeExact == Spec => []MetricExact
<1>1. IInv => MetricExact
  BY DEF IInv, CountInv, Count, Gauged, MetricExact
<1> QED
  BY <1>1, Invariance, PTL

\* A stop misses no connection, and no entry outlives its connection.
THEOREM RegistryMissesNobody == Spec => []RegistryExact
<1>1. IInv => RegistryExact
  BY DEF IInv
<1> QED
  BY <1>1, Invariance, PTL

\* A close operation, once dispatched, closes the socket.
THEOREM CloseArrives == Spec => []CloseNotLost
<1>1. IInv => CloseNotLost
  BY DEF IInv, CloseInv, CloseNotLost, Queued, Has
<1> QED
  BY <1>1, Invariance, PTL

\* A cancellation never reaches another request or an open connection.
THEOREM CancellationAimed == Spec => []CancelHitsHandler
<1>1. IInv => CancelHitsHandler
  BY DEF IInv
<1> QED
  BY <1>1, Invariance, PTL

\* The coroutine is queued once while it waits to be resumed, else never.
THEOREM NeverResumedTwice == Spec => []ResumedOnce
<1>1. IInv => ResumedOnce
  <2> SUFFICES ASSUME IInv, NEW c \in Conns
               PROVE  Cardinality({i \in DOMAIN strand[c] : strand[c][i] = "co"})
                        = IF pc[c] \in Resumable THEN 1 ELSE 0
    BY DEF ResumedOnce
  <2> DEFINE S == {i \in DOMAIN strand[c] : strand[c][i] = "co"}
  <2>1. CASE pc[c] \in Resumable
    <3>1. PICK i \in DOMAIN strand[c] : strand[c][i] = "co"
      BY <2>1 DEF IInv, ResumeInv, Has
    <3>2. S = {i}
      BY <3>1 DEF IInv, ResumeInv, Single
    <3> QED
      BY <3>2, <2>1, FS_Singleton
  <2>2. CASE pc[c] \notin Resumable
    <3>1. S = {}
      BY <2>2 DEF IInv, ResumeInv, Has
    <3> QED
      BY <3>1, <2>2, FS_EmptySet
  <2> QED
    BY <2>1, <2>2
<1> QED
  BY <1>1, Invariance, PTL

\* The gauge and the registry count in and out what the code says they do.
THEOREM AccountsKept == Spec => []AccountsExact
  BY GaugeExact, RegistryMissesNobody, PTL DEF AccountsExact

\* A strand loses no close operation and resumes no coroutine twice.
THEOREM StrandKept == Spec => []StrandExact
  BY CloseArrives, NeverResumedTwice, PTL DEF StrandExact

\* No connection serves more requests than the configuration allows.
THEOREM LimitKept == Spec => []KeepAliveLimit
<1>1. IInv => KeepAliveLimit
  BY DEF IInv, LimitInv, KeepAliveLimit
<1> QED
  BY <1>1, Invariance, PTL

(* A step of a connection that keeps its slot, or has none, is a stutter of*)
(* SlotPool; taking a slot, being refused and giving it back are its steps.*)
Given == {"refused", "dec", "closed"}
SamePlace(c) ==
  /\ UNCHANGED active
  /\ \/ UNCHANGED pc
     \/ /\ pc' = [pc EXCEPT ![c] = pc'[c]]
        /\ \/ pc[c] \in Holding /\ pc'[c] \in Holding
           \/ pc[c] \in Given /\ pc'[c] \in Given

LEMMA PlacesApart == Holding \cap Given = {} /\ "none" \notin Holding \cup Given
  BY DEF Holding, Given, Launching, Pending, Resumable

LEMMA StutterSlots ==
  ASSUME IInv, NEW c \in Conns, SamePlace(c) PROVE UNCHANGED Slots!vars
<1>1. pc \in [Conns -> PCs]
  BY DEF IInv, TypeInv
<1>2. \A d \in Conns : /\ pc'[d] \in Holding <=> pc[d] \in Holding
                       /\ pc'[d] \in Given <=> pc[d] \in Given
  BY <1>1, PlacesApart DEF SamePlace
<1> QED
  BY <1>2 DEF Slots!vars, SamePlace, Holding, Given

LEMMA SlotStep == IInv /\ [Next]_vars => [Slots!Next]_Slots!vars
<1> SUFFICES ASSUME IInv, [Next]_vars PROVE [Slots!Next]_Slots!vars
  OBVIOUS
<1>0. pc \in [Conns -> PCs]
  BY DEF IInv, TypeInv
<1> USE DEF Goto, vars, counters, shared, own
<1>1. ASSUME NEW c \in Conns, RegisterClose(c) PROVE SamePlace(c)
  BY <1>0, <1>1 DEF RegisterClose, SamePlace, Holding, Given, Launching, Pending,
     Resumable
<1>2. ASSUME NEW c \in Conns, CountConnection(c) PROVE SamePlace(c)
  BY <1>0, <1>2 DEF CountConnection, SamePlace, Holding, Given, Launching,
     Pending, Resumable
<1>3. ASSUME NEW c \in Conns, SpawnConnection(c) PROVE SamePlace(c)
  BY <1>0, <1>3 DEF SpawnConnection, SamePlace, Holding, Given, Launching,
     Pending, Resumable
<1>4. ASSUME NEW c \in Conns, CloseConnection(c) PROVE SamePlace(c)
  <2>1. /\ UNCHANGED active
        /\ UNCHANGED pc \/ /\ pc[c] \in {"handshake", "read", "write", "shutdown"}
                           /\ pc' = [pc EXCEPT ![c] = DoneOf(pc[c])]
    BY <1>4 DEF CloseConnection, CloseOperation
  <2>2. UNCHANGED pc \/ DoneOf(pc[c]) \in Resumable
    BY <2>1, DonePlaces
  <2> QED
    BY <1>0, <2>1, <2>2 DEF SamePlace, Holding, Pending
<1>5. ASSUME NEW c \in Conns, Started(c) PROVE SamePlace(c)
  BY <1>0, <1>5 DEF Started, Resume, SamePlace, Holding, Given, Launching,
     Pending, Resumable
<1>6. ASSUME NEW c \in Conns, Handshaken(c) PROVE SamePlace(c)
  BY <1>0, <1>6 DEF Handshaken, Resume, CloseFrom, SamePlace, Holding, Given,
     Launching, Pending, Resumable
<1>7. ASSUME NEW c \in Conns, RequestRead(c) PROVE SamePlace(c)
  BY <1>0, <1>7 DEF RequestRead, CloseFrom, SamePlace, Holding, Given, Launching,
     Pending, Resumable
<1>8. ASSUME NEW c \in Conns, HandlerStarts(c) PROVE SamePlace(c)
  BY <1>0, <1>8 DEF HandlerStarts, SamePlace, Holding, Given, Launching, Pending,
     Resumable
<1>9. ASSUME NEW c \in Conns, HandlerEnds(c) PROVE SamePlace(c)
  BY <1>0, <1>9 DEF HandlerEnds, Resume, CloseFrom, SamePlace, Holding, Given,
     Launching, Pending, Resumable
<1>10. ASSUME NEW c \in Conns, ResponseWritten(c) PROVE SamePlace(c)
  BY <1>0, <1>10 DEF ResponseWritten, Resume, CloseFrom, SamePlace, Holding,
     Given, Launching, Pending, Resumable
<1>11. ASSUME NEW c \in Conns, ShutDown(c) PROVE SamePlace(c)
  BY <1>0, <1>11 DEF ShutDown, Resume, SamePlace, Holding, Given, Launching,
     Pending, Resumable
<1>12. ASSUME NEW c \in Conns, RemoveConnection(c) PROVE SamePlace(c)
  BY <1>0, <1>12 DEF RemoveConnection, SamePlace, Holding, Given, Launching,
     Pending, Resumable
<1>13. ASSUME NEW c \in Conns, UncountConnection(c) PROVE SamePlace(c)
  BY <1>0, <1>13 DEF UncountConnection, SamePlace, Holding, Given, Launching,
     Pending, Resumable
<1>14. ASSUME NEW c \in Conns, DispatchClose(c) PROVE SamePlace(c)
  BY <1>0, <1>14 DEF DispatchClose, SamePlace, Holding, Given, Launching, Pending,
     Resumable
<1>15. ASSUME NEW c \in Conns, HandlerStops(c) PROVE SamePlace(c)
  BY <1>0, <1>15 DEF HandlerStops, CloseOperation, SamePlace, Holding, Given,
     Launching, Pending, Resumable
<1>16. ASSUME NEW c \in Conns, IoCompletes(c) PROVE SamePlace(c)
  <2>1. /\ pc[c] \in {"handshake", "read", "write", "shutdown"}
        /\ pc' = [pc EXCEPT ![c] = DoneOf(pc[c])] /\ UNCHANGED active
    BY <1>16 DEF IoCompletes, Complete
  <2>2. DoneOf(pc[c]) \in Resumable
    BY <2>1, DonePlaces
  <2> QED
    BY <1>0, <2>1, <2>2 DEF SamePlace, Holding, Pending
<1>17. ASSUME NEW c \in Conns, IoTimesOut(c) PROVE SamePlace(c)
  <2>1. /\ pc[c] \in {"handshake", "read", "write", "shutdown"}
        /\ pc' = [pc EXCEPT ![c] = DoneOf(pc[c])] /\ UNCHANGED active
    BY <1>17 DEF IoTimesOut, Complete
  <2>2. DoneOf(pc[c]) \in Resumable
    BY <2>1, DonePlaces
  <2> QED
    BY <1>0, <2>1, <2>2 DEF SamePlace, Holding, Pending
<1>18. ASSUME NEW c \in Conns, HandlerCompletes(c) PROVE SamePlace(c)
  BY <1>0, <1>18 DEF HandlerCompletes, Complete, SamePlace, Holding, Given,
     Launching, Pending, Resumable
<1>19. ASSUME NEW c \in Conns, TryAcquireConnection(c) PROVE Slots!Acquire(c) \/ Slots!Refuse(c)
  <2>1. CASE active < MaxConnections
    <3>1. pc' = [pc EXCEPT ![c] = "admitted"] /\ active' = active + 1 /\ pc[c] = "none"
      BY <1>19, <2>1 DEF TryAcquireConnection
    <3> QED
      BY <1>0, <2>1, <3>1 DEF Slots!Acquire, Launching, Pending, Resumable
  <2>2. CASE ~(active < MaxConnections)
    <3>1. pc' = [pc EXCEPT ![c] = "refused"] /\ active' = active /\ pc[c] = "none"
      BY <1>19, <2>2 DEF TryAcquireConnection
    <3> QED
      BY <1>0, <3>1 DEF Slots!Refuse, Launching, Pending, Resumable
  <2> QED
    BY <2>1, <2>2
<1>20. ASSUME NEW c \in Conns, UndoLaunch(c) PROVE Slots!Release(c)
  <2>1. pc' = [pc EXCEPT ![c] = "refused"] /\ active' = active - 1 /\ pc[c] = "undo"
    BY <1>20 DEF UndoLaunch
  <2> QED
    BY <1>0, <2>1 DEF Slots!Release, Launching, Pending, Resumable
<1>21. ASSUME NEW c \in Conns, ReleaseSlot(c) PROVE Slots!Release(c)
  <2>1. pc' = [pc EXCEPT ![c] = "dec"] /\ active' = active - 1 /\ pc[c] = "sub"
    BY <1>21 DEF ReleaseSlot
  <2> QED
    BY <1>0, <2>1 DEF Slots!Release, Launching, Pending, Resumable
<1>22. CASE CloseAll
  BY <1>22 DEF CloseAll, Slots!vars
<1>23. CASE UNCHANGED vars
  BY <1>23 DEF Slots!vars
<1>24. ASSUME NEW c \in Conns, SamePlace(c) PROVE UNCHANGED Slots!vars
  BY <1>24, StutterSlots
<1> QED
  BY <1>1, <1>2, <1>3, <1>4, <1>5, <1>6, <1>7, <1>8, <1>9, <1>10, <1>11, <1>12,
     <1>13, <1>14, <1>15, <1>16, <1>17, <1>18, <1>19, <1>20,
     <1>21, <1>22, <1>23, <1>24 DEF Next, Step, Launch, StrandStep, Slots!Next

\* Every path of a connection takes and gives back exactly one slot.
THEOREM ImplementsSlotPool == Spec => SlotSpec
<1> USE DEF Launching, Pending, Resumable
<1>1. Init => Slots!Init
  BY DEF Init, Slots!Init
<1> QED
  BY <1>1, SlotStep, Invariance, PTL DEF Spec, SlotSpec, Slots!Spec

=============================================================================
