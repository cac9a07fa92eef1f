--------------------------- MODULE ServiceProofs ---------------------------
(***************************************************************************)
(* The session store implements SessionPromise; a chain of middlewares     *)
(* keeps its order and contains errors; a client follows redirects as far  *)
(* and in the way it may.  For any callers, middlewares, URLs and answers. *)
(***************************************************************************)
EXTENDS SessionStore, MiddlewareChain, HttpClient, TLAPS, SequenceTheorems

Session(s) == s = [values |-> s.values, expires |-> s.expires] /\ s.expires \in Nat
Sessions(M) ==
    /\ M = [i \in DOMAIN M |-> M[i]]
    /\ DOMAIN M \subseteq Ids
    /\ \A i \in DOMAIN M : Session(M[i])
Unexpired(M, t) == [i \in {j \in DOMAIN M : ~(t >= M[j].expires)} |-> M[i]]

IInv ==
    /\ clock \in Nat
    /\ creating \in [Callers -> Ttls \union {0}]
    /\ Sessions(MemberSessions)

\* An operation that meets an expired session removes what nobody sees.
LEMMA ExpiredUnseen ==
    ASSUME NEW M, Sessions(M), NEW t \in Nat, NEW i \in DOMAIN M, t >= M[i].expires
    PROVE  Unexpired(Erase(M, i), t) = Unexpired(M, t) /\ Sessions(Erase(M, i))
BY DEF Unexpired, Erase, Sessions

\* Cleaning up keeps what is seen.
LEMMA CleanupUnseen ==
    ASSUME NEW M, Sessions(M), NEW t \in Nat
    PROVE  Unexpired(Unexpired(M, t), t) = Unexpired(M, t) /\ Sessions(Unexpired(M, t))
BY DEF Unexpired, Sessions

\* A new session is seen beside those that were.
LEMMA InsertSeen ==
    ASSUME NEW M, Sessions(M), NEW t \in Nat, NEW i \in Ids, NEW s, Session(s), t < s.expires
    PROVE  /\ Unexpired(Insert(M, i, s), t) = Insert(Unexpired(M, t), i, s)
           /\ Sessions(Insert(M, i, s))
BY DEF Unexpired, Insert, Sessions, Session

\* A deletion is seen as one.
LEMMA EraseSeen ==
    ASSUME NEW M, Sessions(M), NEW t \in Nat, NEW i
    PROVE  /\ Unexpired(Erase(M, i), t) = Erase(Unexpired(M, t), i)
           /\ Sessions(Erase(M, i))
BY DEF Unexpired, Erase, Sessions

LEMMA SameCardinality == ASSUME NEW S PROVE Promise!Cardinality(S) = Cardinality(S)
BY DEF Promise!Cardinality, Cardinality

LEMMA LiveIs == Live = Unexpired(MemberSessions, clock)
BY DEF Live, Unexpired, Expired

LEMMA CleanupIs == CleanupExpiredLocked = Unexpired(MemberSessions, clock)
BY DEF CleanupExpiredLocked, Unexpired, Expired

\* The initial store holds nothing.
LEMMA InitRefines == SessionInit => IInv /\ Promise!Init
<1> SUFFICES ASSUME SessionInit PROVE IInv /\ Promise!Init
    OBVIOUS
<1>1. DOMAIN MemberSessions = {} BY DEF SessionInit, NoSessions
<1>2. IInv BY <1>1 DEF SessionInit, IInv, Sessions, NoSessions
<1>3. Live = [i \in {} |-> 0] BY <1>1 DEF Live
<1> QED BY <1>2, <1>3 DEF SessionInit, Promise!Init

Shown == <<clock, Live, answer>>

\* Every step of the store is a step of the promise, or is not seen.
LEMMA StepRefines ==
    ASSUME IInv, [SessionNext]_sessionVars
    PROVE  IInv' /\ [Promise!Next]_Shown
<1> USE SessionAssumption DEF LimitsValid
<1> DEFINE M == MemberSessions  t == clock
<1>0. /\ Sessions(M) /\ t \in Nat
      /\ Live = Unexpired(M, t) /\ Live' = Unexpired(M', t')
  <2>1. Live' = Unexpired(M', t') BY DEF Live, Unexpired, Expired
  <2> QED BY <2>1, LiveIs DEF IInv
<1>1. CASE Tick
  <2>1. /\ t' \in Nat /\ t < t' /\ M' = M /\ creating' = creating /\ answer' = answer
      BY <1>0, <1>1 DEF Tick, IInv
  <2>2. Live' = [i \in {j \in DOMAIN Live : t' < Live[j].expires} |-> Live[i]]
    BY <1>0, <2>1 DEF Unexpired, Sessions, Session
  <2>3. Promise!Pass BY <1>0, <2>1, <2>2 DEF Promise!Pass
  <2> QED BY <2>1, <2>3, <1>0 DEF IInv, Promise!Next
<1>2. CASE Cleanup
  <2>1. t' = t /\ M' = Live /\ creating' = creating /\ answer' = <<"done">>
      BY <1>0, <1>2, CleanupIs DEF Cleanup
  <2>2. Live' = Live /\ Sessions(M') BY <1>0, <2>1, CleanupUnseen
  <2> QED BY <2>1, <2>2, <1>0 DEF IInv, Promise!Next, Promise!Sweep
<1>3. ASSUME NEW c \in Callers, CreateBegins(c) PROVE IInv' /\ [Promise!Next]_Shown
  <2>1. t' = t /\ M' = M BY <1>3 DEF CreateBegins
  <2>2. creating' \in [Callers -> Ttls \union {0}] BY <1>3 DEF CreateBegins, IInv
  <2>3. Live' = Live BY <1>0, <2>1
  <2>4. answer' = answer \/ Promise!Refuse
      BY <1>3, <2>1, <2>3 DEF CreateBegins, Promise!Refuse
  <2> QED BY <1>0, <2>1, <2>2, <2>3, <2>4 DEF IInv, Shown, Promise!Next
<1>4. ASSUME NEW c \in Callers, CreateLocked(c) PROVE IInv' /\ [Promise!Next]_Shown
  <2> DEFINE ttl == creating[c]
             fresh == [values |-> NoSessions, expires |-> t + ttl]
  <2>1. t' = t /\ ttl \in Ttls /\ ttl \in Nat /\ creating' \in [Callers -> Ttls \union {0}]
      BY <1>4 DEF CreateLocked, IInv
  <2>2. CASE /\ ~IsTtlRepresentable(ttl) /\ answer' = <<"invalid lifetime">> /\ M' = M
    <3>1. Live' = Live BY <1>0, <2>1, <2>2
    <3> QED BY <1>0, <2>1, <2>2, <3>1 DEF IInv, Promise!Next, Promise!Refuse
  <2>3. CASE /\ Cardinality(DOMAIN Live) >= MaxSessions
             /\ answer' = <<"capacity exhausted">> /\ M' = Live
    <3>1. Live' = Live /\ Sessions(M') BY <1>0, <2>1, <2>3, CleanupUnseen
    <3>2. Promise!Open(ttl) BY <2>1, <2>3, <3>1, SameCardinality DEF Promise!Open, Promise!Full
    <3> QED BY <1>0, <2>1, <3>1, <3>2 DEF IInv, Promise!Next
  <2>4. CASE /\ DOMAIN Live # {} /\ answer' = <<"no unique id">> /\ M' = Live
    <3>1. Live' = Live /\ Sessions(M') BY <1>0, <2>1, <2>4, CleanupUnseen
    <3>2. Promise!Open(ttl) BY <2>1, <2>4, <3>1 DEF Promise!Open, Promise!Full
    <3> QED BY <1>0, <2>1, <3>1, <3>2 DEF IInv, Promise!Next
  <2>5. ASSUME ~(Cardinality(DOMAIN Live) >= MaxSessions), IsTtlRepresentable(ttl),
               NEW i \in Ids \ DOMAIN Live, M' = Insert(Live, i, fresh),
               answer' = <<"session", i, fresh>>
        PROVE  IInv' /\ [Promise!Next]_Shown
    <3>1. Session(fresh) /\ t < fresh.expires
        BY <1>0, <2>1, <2>5 DEF Session, IsTtlRepresentable
    <3>2. Sessions(Live) /\ Unexpired(Live, t) = Live BY <1>0, CleanupUnseen
    <3>3. Live' = Insert(Live, i, fresh) /\ Sessions(M')
        BY <1>0, <2>1, <2>5, <3>1, <3>2, InsertSeen
    <3>4. /\ Insert(Live, i, fresh) = Promise!With(Live, i, fresh)
          /\ Insert(Live, i, fresh)[i] = fresh
          /\ NoSessions = Promise!NoValues
        BY DEF Insert, Promise!With, NoSessions, Promise!NoValues
    <3>5. Promise!Open(ttl) BY <2>1, <2>5, <3>3, <3>4, SameCardinality DEF Promise!Open, Promise!Full
    <3> QED BY <1>0, <2>1, <3>3, <3>5 DEF IInv, Promise!Next
  <2> QED BY <1>0, <1>4, <2>2, <2>3, <2>4, <2>5, CleanupIs DEF CreateLocked
<1>5. ASSUME NEW i \in Ids, Get(i) PROVE IInv' /\ [Promise!Next]_Shown
  <2>1. t' = t /\ creating' = creating BY <1>5 DEF Get
  <2>2. Live' = Live /\ Sessions(M')
      BY <1>0, <1>5, <2>1, ExpiredUnseen DEF Get, Expired
  <2>3. answer' = IF i \in DOMAIN Live THEN <<"session", i, Live[i]>> ELSE <<"none">>
      BY <1>0, <1>5 DEF Get, Expired, Unexpired
  <2>4. Promise!Read(i) BY <2>1, <2>2, <2>3 DEF Promise!Read
  <2> QED BY <1>0, <2>1, <2>2, <2>4 DEF IInv, Promise!Next
<1>6. ASSUME NEW i \in Ids, Destroy(i) PROVE IInv' /\ [Promise!Next]_Shown
  <2>1. t' = t /\ creating' = creating /\ answer' = <<"done">> /\ M' = Erase(M, i)
      BY <1>6 DEF Destroy
  <2>2. Live' = Erase(Live, i) /\ Sessions(M') BY <1>0, <2>1, EraseSeen
  <2>3. Promise!Close(i) BY <2>1, <2>2 DEF Promise!Close, Promise!Without, Erase
  <2> QED BY <1>0, <2>1, <2>2, <2>3 DEF IInv, Promise!Next
<1>7. ASSUME NEW i \in Ids, NEW k \in Keys, NEW v \in Values, Set(i, k, v)
      PROVE  IInv' /\ [Promise!Next]_Shown
  <2>1. t' = t /\ creating' = creating BY <1>7 DEF Set
  <2>2. CASE i \notin DOMAIN Live
    <3>1. Live' = Live /\ Sessions(M') /\ answer' = <<"done">>
      <4>1. i \in DOMAIN M => Expired(i) BY <1>0, <2>2 DEF Expired, Unexpired
      <4>2. CASE M' = M /\ answer' = <<"done">> BY <1>0, <2>1, <4>2
      <4>3. CASE i \in DOMAIN M /\ M' = Erase(M, i) /\ answer' = <<"done">>
          BY <1>0, <2>1, <4>1, <4>3, ExpiredUnseen DEF Expired
      <4> QED BY <1>7, <4>1, <4>2, <4>3 DEF Set
    <3>2. Promise!Write(i, k, v) BY <2>1, <2>2, <3>1 DEF Promise!Write
    <3> QED BY <1>0, <2>1, <3>1, <3>2 DEF IInv, Promise!Next
  <2>3. CASE i \in DOMAIN Live
    <3> DEFINE values == Live[i].values
               new == [values |-> Insert(values, k, v), expires |-> Live[i].expires]
    <3>1. /\ i \in DOMAIN M /\ ~Expired(i) /\ Live[i] = M[i] /\ M[i].expires \in Nat
        BY <1>0, <2>3 DEF Unexpired, Expired, Sessions, Session
    <3>2. CASE Promise!Fits(values, k, v)
      <4>1. M' = Insert(M, i, new) /\ answer' = <<"done">>
          BY <1>7, <3>1, <3>2, SameCardinality DEF Set, Promise!Fits
      <4>2. Session(new) /\ t < new.expires BY <1>0, <3>1 DEF Session, Expired
      <4>3. Live' = Insert(Live, i, new) /\ Sessions(M')
          BY <1>0, <2>1, <4>1, <4>2, InsertSeen
      <4>4. /\ Insert(Live, i, new) = Promise!With(Live, i, new)
            /\ Insert(values, k, v) = Promise!With(values, k, v)
          BY DEF Insert, Promise!With
      <4>5. Promise!Write(i, k, v)
          BY <2>1, <2>3, <3>2, <4>1, <4>3, <4>4 DEF Promise!Write
      <4> QED BY <1>0, <2>1, <4>3, <4>5 DEF IInv, Promise!Next
    <3>3. CASE ~Promise!Fits(values, k, v)
      <4>1. M' = M /\ answer' = <<"too much">>
          BY <1>7, <3>1, <3>3, SameCardinality DEF Set, Promise!Fits
      <4>2. Live' = Live BY <1>0, <2>1, <4>1
      <4>3. Promise!Write(i, k, v) BY <2>1, <2>3, <3>3, <4>1, <4>2 DEF Promise!Write
      <4> QED BY <1>0, <2>1, <4>1, <4>2, <4>3 DEF IInv, Promise!Next
    <3> QED BY <3>2, <3>3
  <2> QED BY <2>2, <2>3
<1>8. CASE UNCHANGED sessionVars
  BY <1>0, <1>8 DEF sessionVars, IInv, Shown
<1> QED BY <1>1, <1>2, <1>3, <1>4, <1>5, <1>6, <1>7, <1>8 DEF SessionNext

\* Whatever callers do, in whatever order the mutex admits them, what they are
\* told is what a store of the sessions that have not expired would tell them.
THEOREM StoreKeepsPromise == StoreSpec => SessionSpec
<1>1. StoreSpec => []IInv
  BY InitRefines, StepRefines, PTL DEF StoreSpec
<1> QED
  BY <1>1, InitRefines, StepRefines, PTL DEF StoreSpec, SessionSpec, Promise!Spec, Shown

-----------------------------------------------------------------------------
(***************************************************************************)
(* The chain of middlewares, for any middlewares of the application.       *)
(***************************************************************************)
Places == 0..Len(MemberMiddlewares)
Registered ==
    [fn : {"user", "logging", "cors", "error_handler"}, priority : Int, nexts : Nat,
     throws : BOOLEAN, name : Nat]
\* Of the built-in middlewares none throws, and none was named before it was used.
ListInv ==
    /\ MemberMiddlewares \in Seq(Registered)
    /\ \A i \in DOMAIN MemberMiddlewares :
        /\ MemberMiddlewares[i].fn = "error_handler" => ~MemberMiddlewares[i].throws
        /\ MemberMiddlewares[i].name <= Len(MemberMiddlewares)
    /\ InPriorityOrder

Frames == [at : Places, nexts : Nat]
\* A frame that is not the last one entered, or not on top, has called Next.
WentOn(k) == stack[k].at < Index \/ k < Len(stack) \/ HandlerRuns > 0
FrameInv ==
    /\ stack \in Seq(Frames) /\ Index \in Places
    /\ phase \in {"idle", "running", "answered", "escaped"}
    /\ phase = "running" <=> stack # <<>>
    /\ \A k \in DOMAIN stack :
        /\ stack[k].at <= Index
        /\ stack[k].at = 0 => k = Len(stack) /\ HandlerRuns > 0
        /\ stack[k].at # 0 /\ WentOn(k) => stack[k].nexts > 0

\* What was entered so far: the first middlewares, then the handler.
RanInv ==
    /\ ran \in Seq(Nat) /\ Len(ran) >= Index
    /\ \A i \in DOMAIN ran : ran[i] = IF i <= Index THEN MemberMiddlewares[i].name ELSE 0
    /\ Len(ran) > Index => Index = Len(MemberMiddlewares)
    /\ phase = "idle" => ran = <<>>

\* Whoever was passed has called Next, or somebody outside of it has twice.
PassedInv ==
    /\ \A i \in DOMAIN MemberMiddlewares : i < Index \/ HandlerRuns > 0 =>
        NextsOf(MemberMiddlewares[i]) > 0 \/ RepeatsBefore(i)
    /\ HandlerRuns > 1 => Repeats

\* Down to an error handler that covers the rest, the stack is the chain, and what
\* is thrown is thrown above it.
CoverInv ==
    \A i \in DOMAIN MemberMiddlewares : Covers(i) /\ ran # <<>> =>
        /\ \A k \in DOMAIN stack : k <= i => stack[k].at = k
        /\ thrown => Len(stack) >= i
        /\ phase # "escaped"

\* After an exception nobody goes further in again, so that the answer stays.
FailInv ==
    /\ phase = "answered" => ~thrown
    /\ failed \in BOOLEAN /\ (phase = "idle" => failed = FALSE)
    /\ failed /\ ~Repeats =>
        /\ thrown \/ status = "internal error"
        /\ \A k \in DOMAIN stack : stack[k].at # 0 /\ stack[k].nexts > 0

ChainInv == ListInv /\ FrameInv /\ RanInv /\ PassedInv /\ CoverInv /\ FailInv

HasInserted(S, t, s, p, e) ==
    /\ t \in Seq(S) /\ Len(t) = Len(s) + 1
    /\ \A i \in 1..(Len(s) + 1) :
          t[i] = IF i <= p THEN s[i] ELSE IF i = p + 1 THEN e ELSE s[i - 1]
LEMMA Inserted ==
  ASSUME NEW S, NEW s \in Seq(S), NEW p \in 0..Len(s), NEW e \in S,
         NEW t, t = InsertAt(s, p + 1, e)
  PROVE  HasInserted(S, t, s, p, e)
<1>0. (p + 1) - 1 = p
  OBVIOUS
<1>1. PICK u, v : u = SubSeq(s, 1, p) /\ v = SubSeq(s, p + 1, Len(s))
  OBVIOUS
<1>2. u \in Seq(S) /\ Len(u) = p /\ \A i \in 1..p : u[i] = s[i]
  BY <1>1
<1>3. v \in Seq(S) /\ Len(v) = Len(s) - p /\ \A i \in 1..(Len(s) - p) : v[i] = s[p + i]
  BY <1>1
<1>4. PICK w : w = u \o <<e>>
  OBVIOUS
<1>5. /\ w \in Seq(S) /\ Len(w) = p + 1
      /\ \A i \in 1..(p + 1) : w[i] = IF i <= p THEN s[i] ELSE e
  BY <1>2, <1>4
<1>6. t = w \o v
  BY <1>0, <1>1, <1>4 DEF InsertAt
<1>7. t \in Seq(S) /\ Len(t) = Len(s) + 1
  <2>1. t \in Seq(S) /\ Len(t) = Len(w) + Len(v)
    BY <1>3, <1>5, <1>6, ConcatProperties
  <2>2. Len(s) \in Nat /\ (p + 1) + (Len(s) - p) = Len(s) + 1
    OBVIOUS
  <2> QED BY <1>3, <1>5, <2>1, <2>2
<1>8. ASSUME NEW i \in 1..(Len(s) + 1)
      PROVE  t[i] = IF i <= p THEN s[i] ELSE IF i = p + 1 THEN e ELSE s[i - 1]
  <2>a. w \in Seq(S) /\ v \in Seq(S) /\ i \in 1..(Len(w) + Len(v))
    BY <1>3, <1>5
  <2>1. t[i] = IF i <= Len(w) THEN w[i] ELSE v[i - Len(w)]
    BY <1>6, <2>a
  <2>2. CASE i <= p + 1
    BY <1>5, <2>1, <2>2
  <2>3. CASE i > p + 1
    <3>1. i - (p + 1) \in 1..(Len(s) - p) /\ p + (i - (p + 1)) = i - 1
      BY <2>3
    <3> QED BY <1>3, <1>5, <2>1, <2>3, <3>1
  <2> QED BY <2>2, <2>3
<1> QED BY <1>7, <1>8 DEF HasInserted

\* What is entered keeps the order of priorities, and of registrations within one.
LEMMA UseStep ==
  ASSUME ChainInv, Use PROVE ChainInv'
<1>a. PICK m \in Middlewares : \E p \in Place(m) :
        MemberMiddlewares' = IF MemberFrozen THEN MemberMiddlewares
            ELSE InsertAt(MemberMiddlewares, p + 1, Named(m, Len(MemberMiddlewares) + 1))
  BY DEF Use
<1>1. PICK p \in Place(m) :
        MemberMiddlewares' = IF MemberFrozen THEN MemberMiddlewares
            ELSE InsertAt(MemberMiddlewares, p + 1, Named(m, Len(MemberMiddlewares) + 1))
  BY <1>a
<1>2. stack = <<>> /\ ran = <<>> /\ Index = 0 /\ failed = FALSE /\ phase = "idle"
  <2>1. phase = "idle"
    BY DEF Use
  <2>2. ran = <<>> /\ failed = FALSE
    BY <2>1 DEF ChainInv, RanInv, FailInv
  <2>3. Index = 0
    BY <2>2 DEF ChainInv, FrameInv, RanInv, Places, ListInv
  <2> QED BY <2>1, <2>2, <2>3 DEF ChainInv, FrameInv
<1>3. UNCHANGED <<MemberFrozen, runVars>>
  BY DEF Use
<1>4. CASE MemberFrozen
  BY <1>1, <1>3, <1>4
  DEF ChainInv, ListInv, FrameInv, RanInv, PassedInv, CoverInv, FailInv, runVars, InPriorityOrder,
      HandlerRuns, Repeats, RepeatsBefore, NextsOf, Covers, WentOn, Places, Frames
<1>5. CASE ~MemberFrozen
  <2> DEFINE M == MemberMiddlewares
             e == Named(m, Len(M) + 1)
  <2>1. M \in Seq(Registered) /\ Len(M) \in Nat
    BY DEF ChainInv, ListInv
  <2>2. e \in Registered /\ e.name = Len(M) + 1 /\ (e.fn = "error_handler" => ~e.throws)
    <3>1. /\ m.fn \in {"user", "logging", "cors", "error_handler"}
          /\ m.priority \in Int /\ m.nexts \in Nat /\ m.throws \in BOOLEAN
          /\ m.fn = "error_handler" => ~m.throws
      <4>1. CASE m \in UserMiddlewares
        <5>1. m \in [fn : {"user"}, priority : Int, nexts : Nat, throws : BOOLEAN]
          BY <4>1, ChainAssumption
        <5>2. m.fn = "user"
          BY <5>1
        <5> QED BY <5>1, <5>2
      <4>2. CASE m = LoggingMiddleware
        BY <4>2 DEF LoggingMiddleware
      <4>3. CASE m = CorsMiddleware
        BY <4>3 DEF CorsMiddleware
      <4>4. CASE m = ErrorHandlerMiddleware
        BY <4>4 DEF ErrorHandlerMiddleware
      <4> QED BY <4>1, <4>2, <4>3, <4>4 DEF Middlewares
    <3> QED BY <2>1, <3>1 DEF Registered, Named
  <2>3. p \in 0..Len(M) /\ \A i \in DOMAIN M : i <= p <=> M[i].priority <= e.priority
    BY DEF Place, Named
  <2>4. PICK t : t = InsertAt(M, p + 1, e)
    OBVIOUS
  <2>5. MemberMiddlewares' = t
    BY <1>1, <1>5, <2>4
  <2> HIDE DEF e
  <2> HIDE DEF M
  <2>6. /\ t \in Seq(Registered) /\ Len(t) = Len(M) + 1
        /\ \A i \in 1..(Len(M) + 1) :
              t[i] = IF i <= p THEN M[i] ELSE IF i = p + 1 THEN e ELSE M[i - 1]
    <3>1. M \in Seq(Registered) /\ p \in 0..Len(M) /\ e \in Registered /\ t = InsertAt(M, p + 1, e)
      BY <2>1, <2>2, <2>3, <2>4
    <3>2. HasInserted(Registered, t, M, p, e)
      BY <3>1, Inserted
    <3> QED BY <3>2 DEF HasInserted
  <2>7. \A i \in DOMAIN t : t[i].name <= Len(t) /\ (t[i].fn = "error_handler" => ~t[i].throws)
    <3>1. \A i \in 1..Len(M) : M[i].name <= Len(M) /\ (M[i].fn = "error_handler" => ~M[i].throws)
      BY DEF M, ChainInv, ListInv
    <3> SUFFICES ASSUME NEW i \in DOMAIN t
                 PROVE  t[i].name <= Len(t) /\ (t[i].fn = "error_handler" => ~t[i].throws)
      OBVIOUS
    <3>2. i \in 1..(Len(M) + 1)
      BY <2>1, <2>6
    <3>3. CASE i <= p
      <4>1. t[i] = M[i] /\ i \in 1..Len(M)
        BY <2>1, <2>3, <2>6, <3>2, <3>3
      <4>2. M[i] \in Registered
        BY <2>1, <4>1
      <4>3. M[i].name \in Nat
        BY <4>2 DEF Registered
      <4> QED BY <2>1, <2>6, <3>1, <4>1, <4>3
    <3>4. CASE i = p + 1
      BY <2>1, <2>2, <2>3, <2>6, <3>2, <3>4
    <3>5. CASE i > p + 1
      <4>1. t[i] = M[i - 1] /\ i - 1 \in 1..Len(M)
        BY <2>1, <2>3, <2>6, <3>2, <3>5
      <4>2. M[i - 1] \in Registered
        BY <2>1, <4>1
      <4>3. M[i - 1].name \in Nat
        BY <4>2 DEF Registered
      <4> QED BY <2>1, <2>6, <3>1, <4>1, <4>3
    <3> QED BY <2>3, <3>2, <3>3, <3>4, <3>5
  <2>8. \A i, j \in DOMAIN t : i < j =>
          t[i].priority < t[j].priority \/ (t[i].priority = t[j].priority /\ t[i].name < t[j].name)
    <3>1. \A i, j \in 1..Len(M) : i < j =>
            M[i].priority < M[j].priority \/ (M[i].priority = M[j].priority /\ M[i].name < M[j].name)
      BY <2>1 DEF M, ChainInv, ListInv, InPriorityOrder
    <3>2. \A i \in 1..Len(M) :
            /\ M[i].priority \in Int /\ M[i].name \in Nat /\ M[i].name < e.name
            /\ i <= p <=> M[i].priority <= e.priority
      <4> TAKE i \in 1..Len(M)
      <4>1. M[i] \in Registered
        BY <2>1
      <4>2. M[i].priority \in Int /\ M[i].name \in Nat
        BY <4>1 DEF Registered
      <4>3. M[i].name <= Len(M)
        BY <2>1 DEF M, ChainInv, ListInv
      <4> QED BY <2>1, <2>2, <2>3, <4>2, <4>3
    <3>3. e.priority \in Int
      BY <2>2 DEF Registered
    <3> SUFFICES ASSUME NEW i \in 1..(Len(M) + 1), NEW j \in 1..(Len(M) + 1), i < j
                 PROVE  t[i].priority < t[j].priority
                        \/ (t[i].priority = t[j].priority /\ t[i].name < t[j].name)
      BY <2>1, <2>6
    <3>4. CASE j <= p
      <4>1. t[i] = M[i] /\ t[j] = M[j] /\ i \in 1..Len(M) /\ j \in 1..Len(M)
        BY <2>1, <2>3, <2>6, <3>4
      <4> QED BY <3>1, <4>1
    <3>5. CASE i <= p /\ j = p + 1
      <4>1. t[i] = M[i] /\ t[j] = e /\ i \in 1..Len(M)
        BY <2>1, <2>3, <2>6, <3>5
      <4> QED BY <3>2, <3>3, <3>5, <4>1
    <3>6. CASE i <= p /\ j > p + 1
      <4>1. t[i] = M[i] /\ t[j] = M[j - 1] /\ i \in 1..Len(M) /\ j - 1 \in 1..Len(M) /\ i < j - 1
        BY <2>1, <2>3, <2>6, <3>6
      <4> QED BY <3>1, <4>1
    <3>7. CASE i = p + 1
      <4>1. t[i] = e /\ t[j] = M[j - 1] /\ j - 1 \in 1..Len(M) /\ ~(j - 1 <= p)
        BY <2>1, <2>3, <2>6, <3>7
      <4> QED BY <3>2, <3>3, <4>1
    <3>8. CASE i > p + 1
      <4>1. /\ t[i] = M[i - 1] /\ t[j] = M[j - 1]
            /\ i - 1 \in 1..Len(M) /\ j - 1 \in 1..Len(M) /\ i - 1 < j - 1
        BY <2>1, <2>3, <2>6, <3>8
      <4> QED BY <3>1, <4>1
    <3> QED BY <2>1, <2>3, <3>4, <3>5, <3>6, <3>7, <3>8
  <2>9. ListInv'
    BY <2>5, <2>6, <2>7, <2>8 DEF ListInv, InPriorityOrder
  <2>10. FrameInv' /\ RanInv'
    BY <1>2, <1>3, <2>1, <2>5, <2>6
    DEF FrameInv, RanInv, Frames, Places, ChainInv, runVars, HandlerRuns, WentOn
  <2>11. HandlerRuns' \in Int /\ HandlerRuns' < 0
    BY <1>2, <1>3, <2>1, <2>5, <2>6 DEF HandlerRuns, runVars
  <2>12. PassedInv'
    BY <1>2, <1>3, <2>5, <2>6, <2>11 DEF PassedInv, runVars
  <2>13. CoverInv' /\ FailInv'
    BY <1>2, <1>3 DEF CoverInv, FailInv, runVars
  <2> QED BY <2>9, <2>10, <2>12, <2>13 DEF ChainInv
<1> QED BY <1>4, <1>5

LEMMA ChainBegins == ChainInit => ChainInv
<1> SUFFICES ASSUME ChainInit PROVE ChainInv
  OBVIOUS
<1>1. ListInv /\ FrameInv /\ RanInv
  BY DEF ChainInit, ListInv, FrameInv, RanInv, InPriorityOrder, Places, Frames
<1>2. DOMAIN MemberMiddlewares = {} /\ DOMAIN stack = {} /\ HandlerRuns = 0
  BY DEF ChainInit, HandlerRuns
<1>3. PassedInv /\ CoverInv
  BY <1>2 DEF PassedInv, CoverInv
<1>4. FailInv
  BY DEF ChainInit, FailInv
<1> QED BY <1>1, <1>3, <1>4 DEF ChainInv

\* While a chain runs, there is a frame on top, and what it has for a middleware is one.
LEMMA OnTop ==
  ASSUME ChainInv, phase = "running"
  PROVE  /\ Len(stack) \in Nat \ {0} /\ Top \in Frames /\ Top = stack[Len(stack)]
         /\ Len(MemberMiddlewares) \in Nat /\ Len(ran) \in Nat
         /\ Top.at # 0 => Top.at \in DOMAIN MemberMiddlewares /\ Middleware \in Registered
<1>1. stack \in Seq(Frames) /\ stack # <<>> /\ ran \in Seq(Nat) /\ MemberMiddlewares \in Seq(Registered)
  BY DEF ChainInv, ListInv, FrameInv, RanInv
<1>2. Len(stack) \in Nat \ {0} /\ Len(MemberMiddlewares) \in Nat /\ Len(ran) \in Nat
  BY <1>1
<1>3. Top = stack[Len(stack)] /\ Top \in Frames
  BY <1>1, <1>2 DEF Top
<1>4. ASSUME Top.at # 0 PROVE Top.at \in DOMAIN MemberMiddlewares
  BY <1>1, <1>2, <1>3, <1>4 DEF Frames, Places
<1>5. ASSUME Top.at # 0 PROVE Middleware \in Registered
  BY <1>1, <1>4, <1>5 DEF Middleware
<1> QED BY <1>2, <1>3, <1>4, <1>5

\* One step outwards: what is thrown comes from inside of an error handler that covers
\* the rest, and an answer to an exception stays.
Inside == \A i \in DOMAIN MemberMiddlewares : Covers(i) /\ ran # <<>> => Len(stack) > i
StaysAnswered == failed /\ ~Repeats => status' = "internal error"
LEMMA LeaveStep ==
  ASSUME ChainInv, phase = "running", NEW b \in BOOLEAN, Leave(b),
         b = TRUE => Inside, b = FALSE => StaysAnswered
  PROVE  ChainInv'
<1>1. PICK K \in Nat \ {0} : K = Len(stack)
  BY OnTop
<1>a. stack \in Seq(Frames)
  BY DEF ChainInv, FrameInv
<1>b. stack' = SubSeq(stack, 1, K - 1)
  BY <1>1 DEF Leave, Below
<1>2. /\ stack' \in Seq(Frames) /\ Len(stack') = K - 1
      /\ \A k \in 1..(K - 1) : stack'[k] = stack[k]
  BY <1>1, <1>a, <1>b
<1>3. /\ MemberMiddlewares' = MemberMiddlewares /\ Method' = Method /\ Index' = Index /\ ran' = ran
      /\ thrown' = b /\ failed' = (failed \/ b)
  BY DEF Leave
<1>c. /\ K > 1 => phase' = "running"
      /\ K = 1 /\ b = TRUE => phase' = "escaped"
      /\ K = 1 /\ b = FALSE => phase' = "answered"
  <2>1. CASE b = TRUE
    <3>1. phase' = IF Len(stack) > 1 THEN "running" ELSE "escaped"
      BY <2>1, Zenon DEF Leave
    <3> QED BY <1>1, <2>1, <3>1
  <2>2. CASE b = FALSE
    <3>1. phase' = IF Len(stack) > 1 THEN "running" ELSE "answered"
      BY <2>2, Zenon DEF Leave
    <3> QED BY <1>1, <2>2, <3>1
  <2> QED BY <2>1, <2>2
<1>4. ListInv' /\ RanInv' /\ PassedInv'
  <2>1. ListInv'
    BY <1>3 DEF ChainInv, ListInv, InPriorityOrder
  <2>2. phase' # "idle"
    BY <1>1, <1>c
  <2>3. RanInv'
    BY <1>3, <2>2 DEF ChainInv, RanInv
  <2>4. PassedInv'
    BY <1>3 DEF ChainInv, PassedInv, HandlerRuns, Repeats, RepeatsBefore, NextsOf
  <2> QED BY <2>1, <2>3, <2>4
<1>5. ASSUME NEW k \in 1..(K - 1)
      PROVE  stack[k].at # 0 /\ stack[k].at <= Index /\ stack[k].nexts > 0
  <2>1. k \in DOMAIN stack /\ k < Len(stack) /\ k # Len(stack)
    BY <1>1, <1>a
  <2> QED BY <2>1 DEF ChainInv, FrameInv, WentOn
<1>6. FrameInv'
  <2>1. stack' \in Seq(Frames)' /\ Index' \in Places'
    BY <1>2, <1>3 DEF Frames, Places, ChainInv, FrameInv
  <2>2. phase' \in {"idle", "running", "answered", "escaped"} /\ (phase' = "running" <=> stack' # <<>>)
    BY <1>1, <1>2, <1>c
  <2>3. DOMAIN stack' = 1..(K - 1)
    BY <1>1, <1>2
  <2> QED BY <1>2, <1>3, <1>5, <2>1, <2>2, <2>3 DEF FrameInv
<1>7. CoverInv'
  <2>1. DOMAIN stack' = 1..(K - 1) /\ DOMAIN stack = 1..K
    BY <1>1, <1>2, <1>a
  <2> SUFFICES ASSUME NEW i \in DOMAIN MemberMiddlewares, Covers(i), ran # <<>>
               PROVE  /\ \A k \in DOMAIN stack' : k <= i => stack'[k].at = k
                      /\ thrown' => Len(stack') >= i
                      /\ phase' # "escaped"
    BY <1>3 DEF CoverInv, Covers
  <2>2. i \in Nat \ {0}
    BY OnTop DEF ChainInv, ListInv
  <2>3. \A k \in 1..(K - 1) : k <= i => stack[k].at = k
    BY <1>1, <2>1 DEF ChainInv, CoverInv
  <2>4. b = TRUE => K > i
    BY <1>1 DEF Inside
  <2> QED BY <1>1, <1>2, <1>3, <1>c, <2>1, <2>2, <2>3, <2>4
<1>8. FailInv'
  <2>1. DOMAIN stack' = 1..(K - 1)
    BY <1>1, <1>2
  <2>2. \A k \in DOMAIN stack' : stack'[k].at # 0 /\ stack'[k].nexts > 0
    BY <1>2, <1>5, <2>1
  <2>3. failed' \in BOOLEAN /\ phase' # "idle" /\ (phase' = "answered" => ~thrown')
    <3>1. failed' \in BOOLEAN
      BY <1>3 DEF ChainInv, FailInv
    <3>2. phase' # "idle" /\ (phase' = "answered" => b = FALSE)
      BY <1>1, <1>c
    <3> QED BY <1>3, <3>1, <3>2, Zenon
  <2>4. failed' /\ ~Repeats' => thrown' \/ status' = "internal error"
    BY <1>3 DEF Repeats, StaysAnswered
  <2> QED BY <2>2, <2>3, <2>4 DEF FailInv
<1> QED BY <1>4, <1>6, <1>7, <1>8 DEF ChainInv

\* Where the frame on top of a covered chain is.
LEMMA TopCovered ==
  ASSUME ChainInv, phase = "running",
         NEW i \in DOMAIN MemberMiddlewares, Covers(i), ran # <<>>, Len(stack) <= i
  PROVE  Top.at = Len(stack) /\ Top.at # 0
<1>1. Len(stack) \in DOMAIN stack /\ Len(stack) # 0 /\ Top = stack[Len(stack)]
  BY OnTop DEF ChainInv, FrameInv
<1> QED BY <1>1 DEF ChainInv, CoverInv

\* What is thrown by a frame that is none of a covered chain comes from inside of it.
Outside(i) ==
    /\ Covers(i) /\ ran # <<>> /\ Top.at # 0
    /\ Len(stack) \in 1..i /\ i \in Nat /\ Middleware = MemberMiddlewares[Len(stack)]
LEMMA ThrownInside ==
  ASSUME ChainInv, phase = "running", \A i \in DOMAIN MemberMiddlewares : ~Outside(i)
  PROVE  Inside
<1> SUFFICES ASSUME NEW i \in DOMAIN MemberMiddlewares, Covers(i), ran # <<>>
             PROVE  Len(stack) > i
  BY DEF Inside
<1>1. i \in Nat /\ Len(stack) \in Nat \ {0}
  BY OnTop DEF ChainInv, ListInv
<1> SUFFICES ASSUME Len(stack) <= i PROVE FALSE
  BY <1>1
<1>2. Outside(i)
  BY <1>1, TopCovered DEF Outside, Middleware
<1> QED BY <1>2

\* After an exception the frame on top has called Next.
LEMMA TopFailed ==
  ASSUME ChainInv, phase = "running", failed, ~Repeats
  PROVE  Top.at # 0 /\ Top.nexts > 0
<1>1. Len(stack) \in DOMAIN stack /\ Top = stack[Len(stack)]
  BY OnTop DEF ChainInv, FrameInv
<1> QED BY <1>1 DEF ChainInv, FailInv

LEMMA HandlerEndsStep ==
  ASSUME ChainInv, HandlerEnds PROVE ChainInv'
<1>1. phase = "running" /\ Top.at = 0
  BY DEF HandlerEnds
<1>2. Inside
  BY <1>1, ThrownInside DEF Outside
<1>3. StaysAnswered
  BY <1>1, TopFailed DEF StaysAnswered
<1> QED BY <1>1, <1>2, <1>3, LeaveStep DEF HandlerEnds

LEMMA MiddlewareEndsStep ==
  ASSUME ChainInv, MiddlewareEnds PROVE ChainInv'
<1>1. /\ phase = "running" /\ Top.at # 0 /\ Leave(Middleware.throws)
      /\ status' = IF Middleware.fn = "cors" /\ Top.nexts = 0 THEN "no content" ELSE status
  BY DEF MiddlewareEnds
<1>2. Middleware.throws \in BOOLEAN
  BY <1>1, OnTop DEF Registered
<1>3. Middleware.throws = TRUE => Inside
  <2>1. ASSUME NEW i \in DOMAIN MemberMiddlewares, Outside(i) PROVE Middleware.throws = FALSE
    <3>1. /\ Covers(i) /\ Len(stack) \in 1..i /\ i \in Nat
          /\ Middleware = MemberMiddlewares[Len(stack)]
      BY <2>1 DEF Outside
    <3>2. CASE Len(stack) = i
      <4>1. ~MemberMiddlewares[i].throws
        BY <3>1 DEF Covers, ChainInv, ListInv
      <4> QED BY <1>2, <3>1, <3>2, <4>1, Zenon
    <3>3. CASE Len(stack) # i
      <4>1. Len(stack) \in 1..(i - 1)
        BY <3>1, <3>3
      <4>2. ~MemberMiddlewares[Len(stack)].throws
        BY <3>1, <4>1, Zenon DEF Covers
      <4> QED BY <1>2, <3>1, <4>2, Zenon
    <3> QED BY <3>2, <3>3
  <2> QED BY <1>1, <2>1, ThrownInside
<1>4. Middleware.throws = FALSE => StaysAnswered
  <2>1. ASSUME failed, ~Repeats PROVE status' = "internal error"
    <3>a. Top.nexts > 0
      BY <1>1, <2>1, TopFailed, Zenon
    <3>b. Top.nexts \in Nat
      BY <1>1, OnTop DEF Frames
    <3>1. Top.nexts # 0
      BY <3>a, <3>b
    <3>2. status = "internal error"
      BY <2>1, Zenon DEF MiddlewareEnds, ChainInv, FailInv
    <3> QED BY <1>1, <3>1, <3>2, Zenon
  <2> QED BY <2>1 DEF StaysAnswered
<1> QED BY <1>1, <1>2, <1>3, <1>4, LeaveStep

LEMMA UnwindStep ==
  ASSUME ChainInv, Unwind PROVE ChainInv'
<1> DEFINE caught == Top.at # 0 /\ Middleware.fn = "error_handler"
<1>1. /\ phase = "running" /\ Leave(~caught)
      /\ status' = IF caught THEN "internal error" ELSE status
  BY DEF Unwind
<1>2. (~caught) = TRUE => Inside
  <2>1. ASSUME NEW i \in DOMAIN MemberMiddlewares, Outside(i) PROVE caught
    <3>1. /\ Covers(i) /\ ran # <<>> /\ Len(stack) \in 1..i /\ i \in Nat /\ Top.at # 0
          /\ Middleware = MemberMiddlewares[Len(stack)]
      BY <2>1 DEF Outside
    <3>2. Len(stack) >= i
      BY <3>1 DEF Unwind, ChainInv, CoverInv
    <3>3. Len(stack) = i
      BY <3>1, <3>2
    <3> QED BY <3>1, <3>3 DEF Covers
  <2> HIDE DEF caught
  <2> QED BY <1>1, <2>1, ThrownInside, Zenon
<1>3. (~caught) = FALSE => StaysAnswered
  BY <1>1 DEF StaysAnswered
<1>4. (~caught) \in BOOLEAN
  OBVIOUS
<1> HIDE DEF caught
<1> QED BY <1>1, <1>2, <1>3, <1>4, LeaveStep

\* The first call of Next.
LEMMA RunStep ==
  ASSUME ChainInv, NEW m, RunChain(m) PROVE ChainInv'
<1>1. PICK N \in Nat : N = Len(MemberMiddlewares) /\ DOMAIN MemberMiddlewares = 1..N
  BY DEF ChainInv, ListInv
<1>2. /\ UNCHANGED <<MemberMiddlewares, MemberFrozen>> /\ phase' = "running"
      /\ thrown' = FALSE /\ failed' = FALSE /\ CallNext(<<>>, 0, <<>>)
  BY DEF RunChain
<1>3. PICK g, n : /\ g = [at |-> IF 0 < N THEN 1 ELSE 0, nexts |-> 0]
                  /\ n = IF 0 < N THEN MemberMiddlewares[1].name ELSE 0
  OBVIOUS
<1>4. /\ Index' = IF 0 < N THEN 1 ELSE 0
      /\ stack' = Append(<<>>, g) /\ ran' = Append(<<>>, n)
  BY <1>1, <1>2, <1>3 DEF CallNext
<1>5. stack' = <<g>> /\ ran' = <<n>>
  BY <1>4
<1>6. n \in Nat
  <2>1. CASE 0 < N
    <3>1. MemberMiddlewares[1] \in Registered
      BY <1>1, <2>1 DEF ChainInv, ListInv
    <3> QED BY <1>3, <2>1, <3>1 DEF Registered
  <2> QED BY <1>3, <2>1
<1>7. HandlerRuns' = 1 - N
  BY <1>1, <1>2, <1>5 DEF HandlerRuns
<1>8. ListInv'
  BY <1>2 DEF ChainInv, ListInv, InPriorityOrder
<1>9. FrameInv'
  <2>1. stack' \in Seq(Frames)' /\ Index' \in Places'
    BY <1>1, <1>2, <1>3, <1>4, <1>5 DEF Frames, Places
  <2>2. \A k \in DOMAIN stack' : k = 1 /\ stack'[k] = g
    BY <1>5
  <2> QED BY <1>1, <1>2, <1>3, <1>4, <1>5, <1>7, <2>1, <2>2 DEF FrameInv, WentOn
<1>10. RanInv'
  BY <1>1, <1>2, <1>3, <1>4, <1>5, <1>6 DEF RanInv
<1>11. PassedInv'
  BY <1>1, <1>2, <1>4, <1>7 DEF PassedInv
<1>12. CoverInv'
  BY <1>1, <1>2, <1>3, <1>5 DEF CoverInv
<1>13. FailInv'
  BY <1>2 DEF FailInv
<1> QED BY <1>8, <1>9, <1>10, <1>11, <1>12, <1>13 DEF ChainInv

LEMMA NotFoundStep ==
  ASSUME ChainInv, NEW m, AnswerNotFound(m) PROVE ChainInv'
<1>1. PICK N \in Nat : N = Len(MemberMiddlewares) /\ DOMAIN MemberMiddlewares = 1..N
  BY DEF ChainInv, ListInv
<1>2. /\ UNCHANGED <<MemberMiddlewares, MemberFrozen>> /\ phase' = "answered" /\ stack' = <<>>
      /\ thrown' = FALSE /\ failed' = FALSE /\ Index' = 0 /\ ran' = <<>>
  BY DEF AnswerNotFound
<1>3. HandlerRuns' = -N
  BY <1>1, <1>2 DEF HandlerRuns
<1>4. ListInv'
  BY <1>2 DEF ChainInv, ListInv, InPriorityOrder
<1>5. FrameInv' /\ RanInv'
  BY <1>1, <1>2 DEF FrameInv, RanInv, Frames, Places
<1>6. PassedInv'
  BY <1>1, <1>2, <1>3 DEF PassedInv
<1>7. CoverInv' /\ FailInv'
  BY <1>2 DEF CoverInv, FailInv
<1> QED BY <1>4, <1>5, <1>6, <1>7 DEF ChainInv

LEMMA StartServingStep ==
  ASSUME ChainInv, StartServing PROVE ChainInv'
<1>1. UNCHANGED <<MemberMiddlewares, Method, phase, stack, Index, ran, status, thrown, failed>>
  BY DEF StartServing, runVars
<1> QED BY <1>1 DEF ChainInv, ListInv, FrameInv, RanInv, PassedInv, CoverInv, FailInv,
      InPriorityOrder, HandlerRuns, Repeats, RepeatsBefore, NextsOf, Covers, WentOn, Places, Frames

LEMMA AtMostItsNexts ==
  ASSUME NEW m \in Registered PROVE NextsOf(m) \in Nat /\ NextsOf(m) <= m.nexts /\ m.nexts \in Nat
BY DEF NextsOf, Registered

\* A further call of Next, by the frame on top.
LEMMA CallsNextStep ==
  ASSUME ChainInv, MiddlewareCallsNext PROVE ChainInv'
<1> DEFINE M == MemberMiddlewares
<1>0. PICK N, K, a, r : N = Len(M) /\ K = Len(stack) /\ a = Top.at /\ r = Len(ran)
  OBVIOUS
<1>1. /\ phase = "running" /\ thrown = FALSE /\ a # 0 /\ Top.nexts < NextsOf(Middleware)
      /\ CallNext([stack EXCEPT ![Len(stack)].nexts = @ + 1], Index, ran)
      /\ UNCHANGED <<MemberMiddlewares, MemberFrozen, Method, phase, status, thrown, failed>>
  BY <1>0 DEF MiddlewareCallsNext
<1>2. /\ K \in Nat \ {0} /\ Top = stack[K] /\ Top.nexts \in Nat /\ N \in Nat /\ r \in Nat
      /\ a \in 1..N /\ Middleware = M[a] /\ Middleware \in Registered
  BY <1>0, <1>1, OnTop DEF Frames, Middleware, ChainInv, ListInv
<1>3. /\ stack \in Seq(Frames) /\ DOMAIN stack = 1..K /\ Index \in 0..N /\ a <= Index
      /\ DOMAIN M = 1..N
  BY <1>0, <1>2 DEF ChainInv, FrameInv, ListInv, Places
<1>4. PICK t : t = [stack EXCEPT ![Len(stack)].nexts = @ + 1]
  OBVIOUS
<1>5. /\ t \in Seq(Frames) /\ Len(t) = K
      /\ \A k \in 1..K : t[k].at = stack[k].at /\ (k # K => t[k] = stack[k])
      /\ t[K].nexts = Top.nexts + 1
  <2>1. stack[K] \in Frames
    BY <1>2, <1>3
  <2>2. PICK f : f = [stack[K] EXCEPT !.nexts = @ + 1]
    OBVIOUS
  <2>3. f \in Frames /\ f.at = stack[K].at /\ f.nexts = Top.nexts + 1
    BY <1>2, <2>1, <2>2 DEF Frames
  <2>4. t = [stack EXCEPT ![K] = f]
    BY <1>0, <1>4, <2>2
  <2> QED BY <1>0, <1>2, <1>3, <2>3, <2>4
<1>6. PICK g, n : /\ g = [at |-> IF Index < N THEN Index + 1 ELSE 0, nexts |-> 0]
                  /\ n = IF Index < N THEN M[Index + 1].name ELSE 0
  OBVIOUS
<1>7. /\ Index' = IF Index < N THEN Index + 1 ELSE Index
      /\ stack' = Append(t, g) /\ ran' = Append(ran, n)
  BY <1>0, <1>1, <1>4, <1>6 DEF CallNext
<1>a. Places = 0..N
  BY <1>0 DEF Places
<1>8. g \in Frames /\ n \in Nat
  <2>1. CASE Index < N
    <3>1. M[Index + 1] \in Registered
      BY <1>2, <1>3, <2>1 DEF ChainInv, ListInv
    <3> QED BY <1>2, <1>3, <1>6, <1>a, <2>1, <3>1 DEF Frames, Registered
  <2> QED BY <1>2, <1>3, <1>6, <1>a, <2>1 DEF Frames
<1>9. /\ stack' \in Seq(Frames) /\ Len(stack') = K + 1 /\ stack'[K + 1] = g
      /\ \A k \in 1..K : stack'[k] = t[k]
  BY <1>2, <1>5, <1>7, <1>8
<1>10. /\ ran' \in Seq(Nat) /\ Len(ran') = r + 1 /\ ran'[r + 1] = n
       /\ \A i \in 1..r : ran'[i] = ran[i]
  BY <1>0, <1>2, <1>7, <1>8 DEF ChainInv, RanInv
<1>11. r >= Index /\ (r > Index => Index = N)
  BY <1>0 DEF ChainInv, RanInv
<1>b. \A i \in 1..r : ran[i] = IF i <= Index THEN M[i].name ELSE 0
  BY <1>0 DEF ChainInv, RanInv
<1>c. HandlerRuns = r - N /\ HandlerRuns' = r + 1 - N
  BY <1>0, <1>1, <1>10 DEF HandlerRuns
<1>12. Index < N => r = Index
  BY <1>2, <1>3, <1>11
<1>13. a < Index \/ HandlerRuns > 0 => M[a].nexts > 1
  <2> SUFFICES ASSUME a < Index \/ HandlerRuns > 0 PROVE M[a].nexts > 1
    OBVIOUS
  <2>1. Top.nexts > 0
    BY <1>0, <1>2, <1>3 DEF ChainInv, FrameInv, WentOn
  <2> QED BY <1>1, <1>2, <2>1, AtMostItsNexts
<1>14. ListInv'
  BY <1>1 DEF ChainInv, ListInv, InPriorityOrder
<1>15. FrameInv'
  <2>1. stack' \in Seq(Frames)' /\ Index' \in Places'
    <3>1. Places' = Places /\ Frames' = Frames
      BY <1>1 DEF Frames, Places
    <3> QED BY <1>2, <1>3, <1>7, <1>9, <1>a, <3>1
  <2>2. DOMAIN stack' = 1..(K + 1)
    BY <1>2, <1>9
  <2>3. ASSUME NEW k \in 1..K
        PROVE  stack'[k].at # 0 /\ stack'[k].at <= Index' /\ stack'[k].nexts > 0
    <3>b. k \in DOMAIN stack /\ stack'[k].at = stack[k].at
      BY <1>3, <1>5, <1>9
    <3>c. stack[k] \in Frames
      BY <1>0, <1>2, <1>3, <2>3
    <3>1. k \in DOMAIN stack /\ stack'[k].at = stack[k].at /\ stack[k].at \in Places
      BY <3>b, <3>c DEF Frames
    <3>2. stack[k].at # 0 /\ stack[k].at <= Index
      BY <1>0, <1>1, <1>2, <3>1 DEF ChainInv, FrameInv
    <3>a. stack'[k].at # 0 /\ stack'[k].at <= Index'
      BY <1>2, <1>3, <1>7, <1>a, <3>1, <3>2
    <3>3. CASE k = K
      BY <1>2, <1>5, <1>9, <3>a, <3>3
    <3>4. CASE k # K
      <4>1. stack'[k] = stack[k]
        BY <1>5, <1>9, <3>4
      <4>2. stack[k].nexts > 0
        <5>1. k < Len(stack)
          BY <1>0, <1>2, <3>4
        <5> QED BY <3>1, <3>2, <5>1 DEF ChainInv, FrameInv, WentOn
      <4> QED BY <3>a, <4>1, <4>2
    <3> QED BY <3>3, <3>4
  <2>4. /\ g.at <= Index' /\ (g.at # 0 => ~(g.at < Index') /\ ~(HandlerRuns' > 0))
        /\ g.at = 0 => HandlerRuns' > 0
    BY <1>2, <1>3, <1>6, <1>7, <1>11, <1>12, <1>c
  <2>5. phase' = "running" /\ stack' # <<>>
    BY <1>1, <1>2, <1>9
  <2> QED BY <1>2, <1>9, <2>1, <2>2, <2>3, <2>4, <2>5 DEF FrameInv, WentOn
<1>16. RanInv'
  <2>1. DOMAIN ran' = 1..(r + 1)
    BY <1>2, <1>10
  <2>2. ASSUME NEW i \in 1..(r + 1) PROVE ran'[i] = IF i <= Index' THEN M[i].name ELSE 0
    <3>1. CASE i = r + 1
      <4>1. ran'[i] = n
        BY <1>10, <3>1
      <4>2. i <= Index' <=> Index < N
        BY <1>2, <1>3, <1>7, <1>11, <1>12, <3>1
      <4>3. Index < N => i = Index + 1
        BY <1>12, <3>1
      <4> QED BY <1>6, <4>1, <4>2, <4>3
    <3>2. CASE i # r + 1
      <4>1. i \in 1..r
        BY <1>2, <3>2
      <4>2. i <= Index' <=> i <= Index
        BY <1>2, <1>3, <1>7, <1>11, <1>12, <4>1
      <4> QED BY <1>10, <1>b, <4>1, <4>2
    <3> QED BY <3>1, <3>2
  <2>3. Len(ran') >= Index' /\ (Len(ran') > Index' => Index' = N)
    BY <1>2, <1>3, <1>7, <1>10, <1>11, <1>12
  <2>4. MemberMiddlewares' = M /\ N = Len(MemberMiddlewares') /\ phase' # "idle"
    BY <1>0, <1>1
  <2>5. \A i \in DOMAIN ran' : ran'[i] = IF i <= Index' THEN MemberMiddlewares'[i].name ELSE 0
    BY <2>1, <2>2, <2>4
  <2>6. ran' \in Seq(Nat)
    BY <1>10
  <2> HIDE DEF M
  <2> QED BY <2>3, <2>4, <2>5, <2>6 DEF RanInv
<1>17. PassedInv'
  <2>1. ASSUME NEW i \in 1..N, i < Index' \/ HandlerRuns' > 0
        PROVE  NextsOf(M[i]) > 0 \/ RepeatsBefore(i)
    <3>1. CASE i < Index
      BY <1>3, <3>1 DEF ChainInv, PassedInv
    <3>2. CASE i = Index /\ i = a
      BY <1>1, <1>2, <3>2, AtMostItsNexts
    <3>3. CASE i = Index /\ a < i
      BY <1>2, <1>3, <1>13, <3>3 DEF RepeatsBefore
    <3>4. i <= Index
      BY <1>2, <1>3, <1>7, <1>11, <1>12, <1>c, <2>1
    <3> QED BY <1>2, <1>3, <3>1, <3>2, <3>3, <3>4
  <2>2. HandlerRuns' > 1 => Repeats
    <3> SUFFICES ASSUME HandlerRuns' > 1 PROVE Repeats
      OBVIOUS
    <3>1. HandlerRuns > 0
      BY <1>2, <1>c
    <3> QED BY <1>2, <1>3, <1>13, <3>1 DEF Repeats
  <2> QED BY <1>1, <1>3, <2>1, <2>2 DEF PassedInv, NextsOf, RepeatsBefore, Repeats
<1>18. CoverInv'
  <2> SUFFICES ASSUME NEW i \in 1..N, Covers(i)
               PROVE  \A k \in 1..(K + 1) : k <= i => stack'[k].at = k
    BY <1>1, <1>2, <1>3, <1>9 DEF CoverInv, Covers
  <2>1. ran # <<>> /\ r >= a
    <3>1. r >= a /\ r # 0
      BY <1>2, <1>3, <1>11
    <3> QED BY <1>0, <3>1
  <2>2. \A k \in 1..K : k <= i => stack'[k].at = k
    <3>1. \A k \in 1..K : k <= i => stack[k].at = k
      BY <1>3, <2>1 DEF ChainInv, CoverInv
    <3> QED BY <1>5, <1>9, <3>1
  <2>3. K + 1 <= i => g.at = K + 1
    <3> SUFFICES ASSUME K + 1 <= i PROVE g.at = K + 1
      OBVIOUS
    <3>1. a = K
      <4>1. stack[K].at = K
        BY <1>2, <1>3, <2>1 DEF ChainInv, CoverInv
      <4> QED BY <1>0, <1>2, <4>1
    <3>2. ~(M[a].nexts > 1)
      <4>1. a \in 1..(i - 1)
        BY <1>2, <3>1
      <4>2. M[a].nexts <= 1
        BY <4>1, Zenon DEF Covers
      <4>3. M[a].nexts \in Nat
        BY <1>2 DEF Registered
      <4> QED BY <4>2, <4>3
    <3>3. Index = K /\ K < N
      BY <1>2, <1>3, <1>13, <3>1, <3>2
    <3> QED BY <1>6, <3>3
  <2> QED BY <1>2, <1>9, <2>2, <2>3
<1>19. FailInv'
  <2>1. failed => Repeats
    <3> SUFFICES ASSUME failed, ~Repeats PROVE FALSE
      OBVIOUS
    <3>1. Top.nexts > 0
      BY <1>1, TopFailed, Zenon
    <3>2. M[a].nexts <= 1
      BY <1>2, <1>3, AtMostItsNexts DEF Repeats
    <3> QED BY <1>1, <1>2, <3>1, <3>2, AtMostItsNexts
  <2> QED BY <1>1, <2>1 DEF FailInv, ChainInv, Repeats
<1> QED BY <1>14, <1>15, <1>16, <1>17, <1>18, <1>19 DEF ChainInv

LEMMA ChainStep ==
  ASSUME ChainInv, [ChainNext]_chainVars PROVE ChainInv'
<1>1. CASE Use
  BY <1>1, UseStep
<1>2. CASE StartServing
  BY <1>2, StartServingStep
<1>3. CASE HandlerEnds
  BY <1>3, HandlerEndsStep
<1>4. CASE MiddlewareCallsNext
  BY <1>4, CallsNextStep
<1>5. CASE MiddlewareEnds
  BY <1>5, MiddlewareEndsStep
<1>6. CASE Unwind
  BY <1>6, UnwindStep
<1>7. CASE \E q \in Requests : RunChain(q[1]) \/ AnswerNotFound(q[1])
  BY <1>7, RunStep, NotFoundStep
<1>8. CASE UNCHANGED chainVars
  <2>1. UNCHANGED <<MemberMiddlewares, Method, phase, stack, Index, ran, status, thrown, failed>>
    BY <1>8 DEF chainVars, runVars
  <2> QED BY <2>1 DEF ChainInv, ListInv, FrameInv, RanInv, PassedInv, CoverInv, FailInv,
        InPriorityOrder, HandlerRuns, Repeats, RepeatsBefore, NextsOf, Covers, WentOn, Places, Frames
<1> QED BY <1>1, <1>2, <1>3, <1>4, <1>5, <1>6, <1>7, <1>8 DEF ChainNext, ChainRuns

LEMMA ChainInvHolds == ChainSpec => []ChainInv
BY ChainBegins, ChainStep, PTL DEF ChainSpec

\* ChainRight for any middlewares of the application, whatever priorities they have,
\* however often they call Next and whether they throw (Middleware.hpp:69-122).
THEOREM ChainIsRight == ChainSpec => []ChainRight
<1>1. ASSUME ChainInv PROVE ChainRight
  <2>1. InPriorityOrder /\ HandlerInside
    BY <1>1 DEF ChainInv, ListInv, PassedInv, HandlerInside, RanInv, FrameInv, Places
  <2>2. EnteredInOrder
    <3> SUFFICES ASSUME NEW i \in DOMAIN ran
                 PROVE  ran[i] = IF i <= Len(MemberMiddlewares) THEN MemberMiddlewares[i].name ELSE 0
      BY DEF EnteredInOrder
    <3>1. i \in 1..Len(ran) /\ Len(ran) \in Nat /\ ran[i] = IF i <= Index THEN MemberMiddlewares[i].name ELSE 0
      BY <1>1 DEF ChainInv, RanInv
    <3>2. Index \in 0..Len(MemberMiddlewares) /\ Len(MemberMiddlewares) \in Nat
      BY <1>1 DEF ChainInv, ListInv, FrameInv, Places
    <3>3. Len(ran) > Index => Index = Len(MemberMiddlewares)
      BY <1>1 DEF ChainInv, RanInv
    <3> QED BY <3>1, <3>2, <3>3
  <2>3. ErrorsContained
    BY <1>1, Zenon DEF ChainInv, CoverInv, FailInv, ErrorsContained
  <2> QED BY <2>1, <2>2, <2>3 DEF ChainRight, ChainOrdered
<1> QED BY <1>1, ChainInvHolds, PTL

\* The hosts and ports that occur, and the URLs made of them.
Refs  == UNION {UrlsOf[c] : c \in Calls}
Hosts == {u.host : u \in Refs}
Ports == {u.port : u \in Refs} \cup {"80", "443"}
Urls  == [scheme : Schemes, userinfo : BOOLEAN, host : Hosts, port : Ports]

\* Where a request may go: ParseHttpUrl accepts nothing else.
Targets ==
    [scheme : {"http", "https"}, host : Hosts, port : Ports,
     authority : Hosts \X Ports, hostHeader : Hosts \X (Ports \cup {"absent"})]
Sendable == [method : {"get", "post"}, to : Targets, body : BOOLEAN]

Before == {"resolve", "connect", "handshake"}
After  == {"write", "read", "shutdown"}
Phases == {"idle", "done", "failed"} \cup Before \cup After
CallRecords ==
    [phase : Phases, method : {"none", "get", "post"}, to : Targets \cup {NoUrl}, body : BOOLEAN,
     redirects : Nat, limit : Int, deadline : BOOLEAN,
     response : [status : Statuses \cup {0}, location : Urls \cup {NoUrl}],
     sent : Seq(Sendable)]

\* The connection is made to the host and port that the Host header names.
Addressed(to) ==
    /\ to.hostHeader[1] = to.host /\ to.authority[1] = to.host
    /\ to.authority[2] \in {to.port, "absent"}
    /\ to.authority[2] = "absent" => to.port = IF to.scheme = "https" THEN "443" ELSE "80"
Allowed(from, to) == from.scheme = "https" /\ to.scheme = "http" => AllowInsecureRedirects

\* What has been sent, and what the next request may be after it.
SentRight(s) ==
    \A i \in DOMAIN s :
        /\ (s[i].body <=> s[i].method = "post") /\ Addressed(s[i].to)
        /\ \A j \in 1..(i - 1) : (s[i].body => s[j].body) /\ Allowed(s[j].to, s[i].to)
NextRight(r) ==
    /\ r.method \in {"get", "post"} /\ (r.body <=> r.method = "post")
    /\ r.to \in Targets /\ Addressed(r.to)
    /\ \A j \in DOMAIN r.sent : (r.body => r.sent[j].body) /\ Allowed(r.sent[j].to, r.to)

\* The current request is not yet, or is already, among the sent ones.
Counted(r) ==
    /\ r.phase \in Before => Len(r.sent) = r.redirects /\ r.redirects <= r.limit
    /\ r.phase \in After \cup {"done"} =>
        /\ Len(r.sent) = r.redirects + 1 /\ r.redirects <= r.limit
        /\ r.sent[Len(r.sent)].to = r.to
    /\ r.sent # <<>> => Len(r.sent) <= r.limit + 1

\* A redirect is given back only where it could not be followed.
Target(r) ==
    IF r.response.location = NoUrl THEN NoUrl ELSE ResolveRedirect(r.to, r.response.location)
GivenBack(r) ==
    r.response.status \in Redirects /\ r.redirects < r.limit =>
        Target(r) = NoUrl \/ (r.to.scheme = "https" /\ Target(r).scheme = "http")

Sound(r) ==
    /\ r \in CallRecords /\ SentRight(r.sent) /\ Counted(r)
    /\ r.phase \in Before \cup After => NextRight(r)
    /\ r.phase = "done" => GivenBack(r)

ClientIInv ==
    /\ tlsContexts \in {0, 1}
    /\ DOMAIN call = Calls /\ \A c \in Calls : Sound(call[c])

-----------------------------------------------------------------------------
\* What is asked for and answered with are URLs of these.
LEMMA UrlsTyped == ASSUME NEW c \in Calls, NEW u \in UrlsOf[c] PROVE u \in Urls
<1>1. u \in [scheme : Schemes, userinfo : BOOLEAN, host : {u.host}, port : {u.port}]
  BY ClientAssumption DEF IsUrl
<1>2. u.host \in Hosts /\ u.port \in Ports
  BY DEF Hosts, Ports, Refs
<1> QED
  BY <1>1, <1>2 DEF Urls

\* A URL that is accepted tells a host and a port.
LEMMA ParseRight ==
    ASSUME NEW u \in Urls, ParseHttpUrl(u) # NoUrl
    PROVE  ParseHttpUrl(u) \in Targets /\ Addressed(ParseHttpUrl(u))
<1> DEFINE p == IF u.port # "absent" THEN u.port ELSE IF u.scheme = "https" THEN "443" ELSE "80"
           t == [scheme |-> u.scheme, host |-> u.host, port |-> p,
                 authority |-> <<u.host, u.port>>, hostHeader |-> <<u.host, u.port>>]
<1>1. ParseHttpUrl(u) = t /\ u.scheme \in {"http", "https"}
  BY DEF ParseHttpUrl
<1>2. u.host \in Hosts /\ u.port \in Ports /\ p \in Ports
  BY DEF Urls, Ports
<1>3. t \in Targets
  BY <1>1, <1>2 DEF Targets
<1>4. Addressed(t)
  BY <1>2 DEF Addressed
<1> QED
  BY <1>1, <1>3, <1>4

\* Whether there is a timer, and whether there is a body, are Boolean.
LEMMA TimedType == Timed \in BOOLEAN
  BY DEF Timed

LEMMA HasBodyType ==
    ASSUME NEW m PROVE HasBody(m) \in BOOLEAN /\ (HasBody(m) <=> m = "post")
  BY DEF HasBody

\* So does a reference, whatever it leaves out.
LEMMA ResolveRight ==
    ASSUME NEW to \in Targets, NEW ref \in Urls, ResolveRedirect(to, ref) # NoUrl
    PROVE  ResolveRedirect(to, ref) \in Targets /\ Addressed(ResolveRedirect(to, ref))
<1> DEFINE full == [ref EXCEPT !.scheme = to.scheme]
           same == [scheme |-> to.scheme, userinfo |-> FALSE,
                    host |-> to.authority[1], port |-> to.authority[2]]
<1>1. full \in Urls /\ same \in Urls
  BY DEF Urls, Targets, Schemes
<1> HIDE DEF full, same
<1>2. ResolveRedirect(to, ref) \in
        {ParseHttpUrl(ref), ParseHttpUrl(full), ParseHttpUrl(same), NoUrl}
  BY DEF ResolveRedirect, full, same
<1> QED
  BY <1>1, <1>2, ParseRight

-----------------------------------------------------------------------------
\* A call has sent nothing at first.
LEMMA IdleSound == Sound(Idle) /\ Idle.phase = "idle" /\ Idle.sent = <<>> /\ Idle.redirects = 0
<1>1. NoResponse \in [status : Statuses \cup {0}, location : Urls \cup {NoUrl}]
  BY DEF NoResponse
<1>2. <<>> \in Seq(Sendable) /\ SentRight(<<>>)
  BY DEF SentRight
<1>3. Idle \in CallRecords
  BY <1>1, <1>2 DEF Idle, CallRecords, Phases
<1>4. Idle.phase = "idle" /\ Idle.sent = <<>> /\ Idle.redirects = 0
  BY DEF Idle
<1> QED
  BY <1>2, <1>3, <1>4 DEF Sound, Counted, Before, After

\* It begins, or is refused for its limit.
LEMMA BeginSound ==
    ASSUME NEW m \in {"get", "post"}, NEW to \in Targets, Addressed(to), NEW limit \in Int,
           NEW b \in BOOLEAN, b <=> m = "post", NEW d \in BOOLEAN
    PROVE  /\ Sound([Idle EXCEPT !.phase = "failed", !.limit = limit])
           /\ limit >= 0 =>
                Sound([Idle EXCEPT !.phase = "resolve", !.method = m, !.to = to,
                          !.body = b, !.limit = limit, !.deadline = d])
<1> DEFINE f == [Idle EXCEPT !.phase = "failed", !.limit = limit]
           y == [Idle EXCEPT !.phase = "resolve", !.method = m, !.to = to,
                    !.body = b, !.limit = limit, !.deadline = d]
<1>1. /\ Idle \in CallRecords /\ SentRight(Idle.sent)
      /\ Idle.sent = <<>> /\ Idle.redirects = 0
  BY IdleSound DEF Sound
<1>2. f \in CallRecords /\ f.phase = "failed" /\ f.sent = Idle.sent
  BY <1>1 DEF CallRecords, Phases
<1>3. y \in CallRecords
  BY <1>1 DEF CallRecords, Phases, Before
<1>4. /\ y.phase = "resolve" /\ y.sent = Idle.sent /\ y.redirects = Idle.redirects
      /\ y.limit = limit /\ y.method = m /\ y.to = to /\ y.body = b
  BY <1>1 DEF CallRecords
<1> HIDE DEF f, y
<1>5. Sound(f)
  BY <1>1, <1>2 DEF Sound, Counted, Before, After
<1>6. limit >= 0 => Sound(y)
  BY <1>1, <1>3, <1>4 DEF Sound, Counted, NextRight, Before, After
<1> QED
  BY <1>5, <1>6 DEF f, y

\* A call that fails has sent what it had sent.
LEMMA FailSound ==
    ASSUME NEW r, Sound(r)
    PROVE  Sound([r EXCEPT !.phase = "failed", !.deadline = FALSE])
<1> DEFINE y == [r EXCEPT !.phase = "failed", !.deadline = FALSE]
<1>1. y \in CallRecords
  BY DEF Sound, CallRecords, Phases
<1>2. y.phase = "failed" /\ y.sent = r.sent /\ y.limit = r.limit
  BY DEF Sound, CallRecords
<1> QED
  BY <1>1, <1>2 DEF Sound, Counted, Before, After

\* A step to the next await, before the request is sent or after it.
LEMMA GoOnSound ==
    ASSUME NEW r, Sound(r), NEW p, NEW d \in BOOLEAN,
           (r.phase \in Before /\ p \in Before) \/ (r.phase \in After /\ p \in After)
    PROVE  Sound([r EXCEPT !.phase = p, !.deadline = d])
<1> DEFINE y == [r EXCEPT !.phase = p, !.deadline = d]
<1>1. y \in CallRecords
  BY DEF Sound, CallRecords, Phases
<1>2. /\ y.phase = p /\ y.sent = r.sent /\ y.limit = r.limit /\ y.redirects = r.redirects
      /\ y.to = r.to /\ y.method = r.method /\ y.body = r.body
  BY DEF Sound, CallRecords
<1> QED
  BY <1>1, <1>2 DEF Sound, Counted, NextRight, Before, After

\* The response is there.
LEMMA ResponseSound ==
    ASSUME NEW r, Sound(r), r.phase \in After,
           NEW a \in [status : Statuses \cup {0}, location : Urls \cup {NoUrl}]
    PROVE  Sound([r EXCEPT !.response = a]) /\ [r EXCEPT !.response = a].phase = r.phase
<1> DEFINE y == [r EXCEPT !.response = a]
<1>1. y \in CallRecords
  BY DEF Sound, CallRecords
<1>2. /\ y.phase = r.phase /\ y.sent = r.sent /\ y.limit = r.limit
      /\ y.redirects = r.redirects /\ y.to = r.to /\ y.method = r.method /\ y.body = r.body
  BY DEF Sound, CallRecords
<1> QED
  BY <1>1, <1>2 DEF Sound, Counted, NextRight, Before, After

\* The request is sent after the ones before it.
LEMMA WritingSound ==
    ASSUME NEW r, Sound(r), r.phase \in Before, NEW d \in BOOLEAN
    PROVE  Sound([r EXCEPT !.phase = "write", !.deadline = d,
                     !.sent = Append(r.sent, [method |-> r.method, to |-> r.to,
                                              body |-> r.body])])
<1> DEFINE q == [method |-> r.method, to |-> r.to, body |-> r.body]
           s == Append(r.sent, q)
           y == [r EXCEPT !.phase = "write", !.deadline = d, !.sent = s]
<1>2. q \in Sendable
  BY DEF Sound, CallRecords, NextRight, Sendable
<1>3. /\ r.sent \in Seq(Sendable) /\ s \in Seq(Sendable) /\ Len(s) = Len(r.sent) + 1
      /\ s[Len(s)] = q /\ \A i \in DOMAIN r.sent : s[i] = r.sent[i]
      /\ DOMAIN s = DOMAIN r.sent \cup {Len(s)} /\ s # <<>>
  BY <1>2 DEF Sound, CallRecords
<1>4. y \in CallRecords
  BY <1>3 DEF Sound, CallRecords, Phases, After
<1>5. /\ y.phase = "write" /\ y.sent = s /\ y.limit = r.limit /\ y.redirects = r.redirects
      /\ y.to = r.to /\ y.method = r.method /\ y.body = r.body
  BY DEF Sound, CallRecords
<1>6. q.method = r.method /\ q.to = r.to /\ q.body = r.body
  OBVIOUS
<1> HIDE DEF q, s, y
<1>7. SentRight(s)
  <2> SUFFICES ASSUME NEW i \in DOMAIN s
               PROVE  /\ (s[i].body <=> s[i].method = "post") /\ Addressed(s[i].to)
                      /\ \A j \in 1..(i - 1) :
                            (s[i].body => s[j].body) /\ Allowed(s[j].to, s[i].to)
    BY DEF SentRight
  <2>1. CASE i = Len(s)
    <3>1. 1..(i - 1) = DOMAIN r.sent
      BY <1>3, <2>1
    <3> QED
      BY <1>3, <1>6, <2>1, <3>1 DEF Sound, NextRight
  <2>2. CASE i \in DOMAIN r.sent
    <3>1. 1..(i - 1) \subseteq DOMAIN r.sent
      BY <1>3, <2>2
    <3> QED
      BY <1>3, <2>2, <3>1 DEF Sound, SentRight
  <2> QED
    BY <1>3, <2>1, <2>2
<1>8. NextRight(y)
  <2>1. ASSUME NEW j \in DOMAIN s
        PROVE  (y.body => s[j].body) /\ Allowed(s[j].to, y.to)
    <3>1. CASE j = Len(s)
      BY <1>3, <1>5, <1>6, <3>1 DEF Allowed, Sound, CallRecords, NextRight, Targets
    <3>2. CASE j \in DOMAIN r.sent
      BY <1>3, <1>5, <3>2 DEF Sound, NextRight
    <3> QED
      BY <1>3, <3>1, <3>2
  <2> QED
    BY <1>5, <2>1 DEF Sound, NextRight
<1>9. Counted(y)
  <2>1. r.redirects \in Nat /\ r.limit \in Int
    BY DEF Sound, CallRecords
  <2>2. Len(r.sent) = r.redirects /\ r.redirects <= r.limit
    BY DEF Sound, Counted, Before
  <2>3. Len(s) = y.redirects + 1 /\ y.redirects <= y.limit /\ Len(s) <= y.limit + 1
    BY <1>3, <1>5, <2>1, <2>2
  <2>4. s[Len(s)].to = y.to /\ y.phase \notin Before
    BY <1>3, <1>5, <1>6 DEF Before
  <2> QED
    BY <1>5, <2>3, <2>4 DEF Counted
<1>10. Sound(y)
  BY <1>4, <1>5, <1>7, <1>8, <1>9 DEF Sound
<1> QED
  BY <1>10 DEF y, s, q

\* The end of the chain.
LEMMA EndSound ==
    ASSUME NEW r, Sound(r), r.phase \in After, GivenBack(r)
    PROVE  Sound([r EXCEPT !.phase = "done", !.deadline = FALSE])
<1> DEFINE y == [r EXCEPT !.phase = "done", !.deadline = FALSE]
<1>1. y \in CallRecords
  BY DEF Sound, CallRecords, Phases
<1>2. /\ y.phase = "done" /\ y.sent = r.sent /\ y.limit = r.limit
      /\ y.redirects = r.redirects /\ y.to = r.to /\ y.response = r.response
  BY DEF Sound, CallRecords
<1> HIDE DEF y
<1>3. GivenBack(y)
  BY <1>2 DEF GivenBack, Target
<1>4. Counted(y)
  BY <1>2 DEF Sound, Counted, Before, After
<1>5. Sound(y)
  BY <1>1, <1>2, <1>3, <1>4 DEF Sound, Before, After
<1> QED
  BY <1>5 DEF y

\* The next request of the chain; b says whether it keeps the body.
LEMMA RedirectedSound ==
    ASSUME NEW r, Sound(r), r.phase \in After, r.redirects < r.limit,
           NEW to \in Targets, Addressed(to), Allowed(r.to, to),
           NEW m \in {"get", "post"}, NEW b \in BOOLEAN, b <=> m = "post", b => r.body,
           NEW d \in BOOLEAN
    PROVE  Sound([r EXCEPT !.phase = "resolve", !.deadline = d, !.to = to, !.method = m,
                     !.body = b, !.redirects = r.redirects + 1, !.response = NoResponse])
<1> DEFINE y == [r EXCEPT !.phase = "resolve", !.deadline = d, !.to = to, !.method = m,
                     !.body = b, !.redirects = r.redirects + 1, !.response = NoResponse]
<1>1. r.redirects \in Nat /\ r.limit \in Int
  BY DEF Sound, CallRecords
<1>2. NoResponse \in [status : Statuses \cup {0}, location : Urls \cup {NoUrl}]
  BY DEF NoResponse
<1>3. y \in CallRecords
  <2>1. r \in CallRecords /\ r.redirects + 1 \in Nat
    BY <1>1 DEF Sound
  <2> QED
    BY <1>2, <2>1 DEF CallRecords, Phases, Before
<1>4. /\ y.phase = "resolve" /\ y.sent = r.sent /\ y.limit = r.limit
      /\ y.redirects = r.redirects + 1 /\ y.to = to /\ y.method = m /\ y.body = b
  BY DEF Sound, CallRecords
<1>5. ASSUME NEW j \in DOMAIN r.sent
      PROVE  (b => r.sent[j].body) /\ Allowed(r.sent[j].to, to)
  <2>1. /\ r.body => r.sent[j].body
        /\ Allowed(r.sent[j].to, r.to) /\ r.to.scheme \in {"http", "https"}
    BY DEF Sound, NextRight, Targets
  <2> QED
    BY <2>1 DEF Allowed
<1> HIDE DEF y
<1>6. NextRight(y)
  BY <1>4, <1>5 DEF NextRight
<1>7. Counted(y)
  BY <1>1, <1>4 DEF Sound, Counted, Before, After
<1>8. Sound(y)
  BY <1>3, <1>4, <1>6, <1>7 DEF Sound
<1> QED
  BY <1>8 DEF y

\* DoRequest decides between the two.
LEMMA AnsweredSound ==
    ASSUME NEW r, Sound(r), r.phase \in After
    PROVE  Sound(Answered(r))
<1> DEFINE to == Target(r)
           stop == \/ r.response.status \notin Redirects \/ r.redirects >= r.limit
                   \/ to = NoUrl
                   \/ (r.to.scheme = "https" /\ to.scheme = "http" /\ ~AllowInsecureRedirects)
<1>1. Answered(r) = IF stop THEN [r EXCEPT !.phase = "done", !.deadline = FALSE]
                    ELSE Redirected(r, to)
  BY DEF Answered, Target
<1>2. /\ r.response.location \in Urls \cup {NoUrl} /\ r.redirects \in Nat /\ r.limit \in Int
      /\ r.body \in BOOLEAN
  BY DEF Sound, CallRecords
<1>3. CASE stop
  <2>1. GivenBack(r)
    BY <1>2, <1>3 DEF GivenBack
  <2>2. Answered(r) = [r EXCEPT !.phase = "done", !.deadline = FALSE]
    BY <1>1, <1>3
  <2> QED
    BY <2>1, <2>2, EndSound, Zenon
<1>4. CASE ~stop
  <2> DEFINE m == IF Rewritten(r) THEN "get" ELSE r.method
             b == IF Rewritten(r) THEN FALSE ELSE r.body
  <2>1. to \in Targets /\ Addressed(to)
    BY <1>2, <1>4, ResolveRight DEF Sound, NextRight, Target
  <2>2. Allowed(r.to, to) /\ r.redirects < r.limit
    BY <1>2, <1>4 DEF Allowed
  <2>3. m \in {"get", "post"} /\ b \in BOOLEAN /\ (b <=> m = "post") /\ (b => r.body)
    <3>1. r.method \in {"get", "post"} /\ (r.body <=> r.method = "post")
      BY DEF Sound, NextRight
    <3>2. CASE Rewritten(r)
      BY <3>2
    <3>3. CASE ~Rewritten(r)
      BY <1>2, <3>1, <3>3
    <3> QED
      BY <3>2, <3>3
  <2>5. Redirected(r, to) =
          [r EXCEPT !.phase = "resolve", !.deadline = Timed, !.to = to, !.method = m,
              !.body = b, !.redirects = r.redirects + 1, !.response = NoResponse]
    BY DEF Redirected
  <2> HIDE DEF m, b, to
  <2>6. Sound([r EXCEPT !.phase = "resolve", !.deadline = Timed, !.to = to,
                  !.method = m, !.body = b, !.redirects = r.redirects + 1,
                  !.response = NoResponse])
    BY <2>1, <2>2, <2>3, TimedType, RedirectedSound, Zenon
  <2> QED
    BY <1>1, <1>4, <2>5, <2>6
<1> QED
  BY <1>3, <1>4

-----------------------------------------------------------------------------
\* Nothing was sent yet.
LEMMA ClientInitInv == ClientInit => ClientIInv
<1> SUFFICES ASSUME ClientInit PROVE ClientIInv
  OBVIOUS
<1>1. tlsContexts = 0 /\ DOMAIN call = Calls /\ \A c \in Calls : call[c] = Idle
  BY DEF ClientInit
<1> QED
  BY <1>1, IdleSound DEF ClientIInv

\* Every step keeps the invariant.
LEMMA ClientStepInv == ClientIInv /\ [ClientNext]_clientVars => ClientIInv'
<1> SUFFICES ASSUME ClientIInv, [ClientNext]_clientVars PROVE ClientIInv'
  OBVIOUS
<1>1. ASSUME NEW c \in Calls, NEW y, Sound(y), Becomes(c, y), tlsContexts' \in {0, 1}
      PROVE  ClientIInv'
  BY <1>1 DEF ClientIInv, Becomes
<1>2. \A c \in Calls : Sound(call[c])
  BY DEF ClientIInv
<1>3. ASSUME NEW c \in Calls, Fails(c), tlsContexts' \in {0, 1} PROVE ClientIInv'
  <2>1. Sound([call[c] EXCEPT !.phase = "failed", !.deadline = FALSE])
    BY <1>2, FailSound, Zenon
  <2> QED
    BY <1>1, <1>3, <2>1, Zenon DEF Fails
<1>4. ASSUME NEW c \in Calls, NEW m \in {"get", "post"}, NEW to \in Targets, Addressed(to),
             NEW limit \in LimitsOf[c], DoRequest(c, m, to, limit), tlsContexts' = tlsContexts
      PROVE  ClientIInv'
  <2>1. limit \in Int
    BY ClientAssumption
  <2>0. /\ Sound([Idle EXCEPT !.phase = "failed", !.limit = limit])
        /\ limit >= 0 =>
             Sound([Idle EXCEPT !.phase = "resolve", !.method = m, !.to = to,
                       !.body = HasBody(m), !.limit = limit, !.deadline = Timed])
    BY <1>4, <2>1, BeginSound, TimedType, HasBodyType, Zenon
  <2>2. tlsContexts' \in {0, 1}
    BY <1>4 DEF ClientIInv
  <2>3. CASE limit < 0
    BY <1>1, <1>4, <2>0, <2>2, <2>3, Zenon DEF DoRequest
  <2>4. CASE ~(limit < 0)
    <3>1. limit >= 0
      BY <2>1, <2>4
    <3> QED
      BY <1>1, <1>4, <2>0, <2>2, <2>4, <3>1, Zenon DEF DoRequest
  <2> QED
    BY <2>3, <2>4
<1>5. ASSUME NEW c \in Calls, GetOrPost(c) PROVE ClientIInv'
  <2>1. PICK m \in {"get", "post"}, limit \in LimitsOf[c], u \in UrlsOf[c] :
          /\ u.port # "absent"
          /\ DoRequest(c, m, [scheme |-> "http", host |-> u.host, port |-> u.port,
                              authority |-> <<u.host, u.port>>, hostHeader |-> <<u.host, "absent">>],
                       limit)
    BY <1>5 DEF GetOrPost
  <2> DEFINE to == [scheme |-> "http", host |-> u.host, port |-> u.port,
                    authority |-> <<u.host, u.port>>, hostHeader |-> <<u.host, "absent">>]
  <2>2. u.host \in Hosts /\ u.port \in Ports
    BY UrlsTyped DEF Urls
  <2>3. to \in Targets /\ Addressed(to)
    BY <2>1, <2>2 DEF Targets, Addressed
  <2>4. tlsContexts' = tlsContexts
    BY <1>5 DEF GetOrPost
  <2> HIDE DEF to
  <2> QED
    BY <1>4, <2>1, <2>3, <2>4 DEF to
<1>6. ASSUME NEW c \in Calls, DoAbsoluteUrlRequest(c) PROVE ClientIInv'
  <2>1. PICK m \in {"get", "post"}, limit \in LimitsOf[c], u \in UrlsOf[c] :
          IF ParseHttpUrl(u) = NoUrl THEN Fails(c)
          ELSE DoRequest(c, m, ParseHttpUrl(u), limit)
    BY <1>6 DEF DoAbsoluteUrlRequest
  <2>2. u \in Urls
    BY UrlsTyped
  <2>3. tlsContexts' = tlsContexts /\ tlsContexts' \in {0, 1}
    BY <1>6 DEF DoAbsoluteUrlRequest, ClientIInv
  <2> QED
    BY <1>3, <1>4, <2>1, <2>2, <2>3, ParseRight
<1>7. ASSUME NEW c \in Calls, Resolved(c) PROVE ClientIInv'
  <2>1. call[c].phase = "resolve" /\ tlsContexts' \in {0, 1}
    BY <1>7 DEF Resolved, GetTlsContext, ClientIInv
  <2>2. Sound(Connecting(call[c]))
    <3>1. call[c].phase \in Before /\ "connect" \in Before
      BY <2>1 DEF Before
    <3> QED
      BY <1>2, <3>1, GoOnSound, TimedType, Zenon DEF Connecting
  <2> QED
    BY <1>1, <1>3, <1>7, <2>1, <2>2 DEF Resolved, GetTlsContext
<1>8. ASSUME NEW c \in Calls, Connected(c) PROVE ClientIInv'
  <2>1. call[c].phase = "connect" /\ tlsContexts' \in {0, 1}
    BY <1>8 DEF Connected, ClientIInv
  <2>2. Sound(Writing(call[c]))
    <3>1. call[c].phase \in Before
      BY <2>1 DEF Before
    <3> QED
      BY <1>2, <3>1, WritingSound, TimedType, Zenon DEF Writing
  <2>3. Sound([call[c] EXCEPT !.phase = "handshake", !.deadline = Timed])
    <3>1. call[c].phase \in Before /\ "handshake" \in Before
      BY <2>1 DEF Before
    <3> QED
      BY <1>2, <3>1, GoOnSound, TimedType, Zenon
  <2> QED
    BY <1>1, <1>3, <1>8, <2>1, <2>2, <2>3 DEF Connected
<1>9. ASSUME NEW c \in Calls, Handshaken(c) PROVE ClientIInv'
  <2>1. call[c].phase = "handshake" /\ tlsContexts' \in {0, 1}
    BY <1>9 DEF Handshaken, ClientIInv
  <2>2. Sound(Writing(call[c]))
    <3>1. call[c].phase \in Before
      BY <2>1 DEF Before
    <3> QED
      BY <1>2, <3>1, WritingSound, TimedType, Zenon DEF Writing
  <2> QED
    BY <1>1, <1>9, <2>1, <2>2 DEF Handshaken
<1>10. ASSUME NEW c \in Calls, Written(c) PROVE ClientIInv'
  <2>1. call[c].phase = "write" /\ tlsContexts' \in {0, 1}
    BY <1>10 DEF Written, ClientIInv
  <2>2. Sound([call[c] EXCEPT !.phase = "read", !.deadline = Timed])
    <3>1. call[c].phase \in After /\ "read" \in After
      BY <2>1 DEF After
    <3> QED
      BY <1>2, <3>1, GoOnSound, TimedType, Zenon
  <2> QED
    BY <1>1, <1>10, <2>1, <2>2 DEF Written
<1>11. ASSUME NEW c \in Calls, Received(c) PROVE ClientIInv'
  <2>1. call[c].phase = "read" /\ tlsContexts' \in {0, 1}
    BY <1>11 DEF Received, ClientIInv
  <2>2. PICK s \in Statuses, u \in UrlsOf[c] \cup {NoUrl} :
          LET r == [call[c] EXCEPT !.response = [status |-> s, location |-> u]]
          IN  Becomes(c, IF r.to.scheme = "https"
                         THEN [r EXCEPT !.phase = "shutdown", !.deadline = Timed]
                         ELSE Answered(r))
    BY <1>11, Zenon DEF Received
  <2> DEFINE a == [status |-> s, location |-> u]
             r == [call[c] EXCEPT !.response = a]
  <2>3. a \in [status : Statuses \cup {0}, location : Urls \cup {NoUrl}]
    BY UrlsTyped
  <2> HIDE DEF a
  <2>4. Sound(r) /\ r.phase \in After
    BY <1>2, <2>1, <2>3, ResponseSound DEF After
  <2> HIDE DEF r
  <2>5. Sound([r EXCEPT !.phase = "shutdown", !.deadline = Timed]) /\ Sound(Answered(r))
    <3>1. "shutdown" \in After
      BY DEF After
    <3> QED
      BY <2>4, <3>1, GoOnSound, AnsweredSound, TimedType, Zenon
  <2>6. Becomes(c, IF r.to.scheme = "https"
                   THEN [r EXCEPT !.phase = "shutdown", !.deadline = Timed]
                   ELSE Answered(r))
    BY <2>2 DEF r, a
  <2> QED
    BY <1>1, <2>1, <2>5, <2>6
<1>12. ASSUME NEW c \in Calls, TlsShutdown(c) PROVE ClientIInv'
  <2>1. call[c].phase = "shutdown" /\ tlsContexts' \in {0, 1}
    BY <1>12 DEF TlsShutdown, ClientIInv
  <2>2. Sound(Answered(call[c]))
    BY <1>2, <2>1, AnsweredSound DEF After
  <2> QED
    BY <1>1, <1>12, <2>1, <2>2 DEF TlsShutdown
<1>13. ASSUME NEW c \in Calls, OperationFails(c) \/ TimesOut(c) PROVE ClientIInv'
  <2>1. tlsContexts' \in {0, 1}
    BY <1>13 DEF OperationFails, TimesOut, ClientIInv
  <2> QED
    BY <1>3, <1>13, <2>1 DEF OperationFails, TimesOut
<1>14. CASE UNCHANGED clientVars
  BY <1>14 DEF ClientIInv, clientVars
<1> QED
  BY <1>5, <1>6, <1>7, <1>8, <1>9, <1>10, <1>11, <1>12, <1>13, <1>14 DEF ClientNext

\* Whatever URLs, statuses and references the servers answer with: the limit of
\* redirects holds, https is left only where that is allowed, a body that was dropped
\* is not sent again, every request goes where its Host header says, and only a
\* redirect that could not be followed is given back (Client.hpp:380-450).
THEOREM ChainsFollowed == ClientInit /\ [][ClientNext]_clientVars => []RedirectsFollowed
<1>1. ASSUME ClientIInv PROVE RedirectsFollowed
  <2>1. tlsContexts <= 1
    <3>1. tlsContexts \in {0, 1}
      BY <1>1 DEF ClientIInv
    <3> QED
      BY <3>1
  <2>2. ASSUME NEW c \in Calls
        PROVE  LET r == call[c]  s == r.sent IN
          /\ s # <<>> => Len(s) <= r.limit + 1
          /\ \A i \in DOMAIN s :
              /\ (s[i].body <=> s[i].method = "post")
              /\ s[i].to.hostHeader[1] = s[i].to.host /\ s[i].to.authority[1] = s[i].to.host
              /\ s[i].to.authority[2] \in {s[i].to.port, "absent"}
              /\ s[i].to.authority[2] = "absent" =>
                  s[i].to.port = IF s[i].to.scheme = "https" THEN "443" ELSE "80"
              /\ \A j \in 1..(i - 1) :
                  /\ s[i].body => s[j].body
                  /\ s[j].to.scheme = "https" /\ s[i].to.scheme = "http" =>
                        AllowInsecureRedirects
          /\ r.phase = "done" /\ r.response.status \in Redirects /\ Len(s) <= r.limit =>
              LET at == r.response.location
                  to == IF at = NoUrl THEN NoUrl ELSE ResolveRedirect(r.to, at)
              IN  to = NoUrl \/ (s[Len(s)].to.scheme = "https" /\ to.scheme = "http")
    <3> DEFINE r == call[c]
    <3>1. Sound(r)
      BY <1>1 DEF ClientIInv
    <3>2. r.redirects \in Nat /\ r.limit \in Int /\ r.sent \in Seq(Sendable)
      BY <3>1 DEF Sound, CallRecords
    <3> HIDE DEF r
    <3>3. r.sent # <<>> => Len(r.sent) <= r.limit + 1
      BY <3>1 DEF Sound, Counted
    <3>4. SentRight(r.sent)
      BY <3>1 DEF Sound
    <3>5. ASSUME r.phase = "done", r.response.status \in Redirects, Len(r.sent) <= r.limit
          PROVE  \/ Target(r) = NoUrl
                 \/ (r.sent[Len(r.sent)].to.scheme = "https" /\ Target(r).scheme = "http")
      <4>1. Len(r.sent) = r.redirects + 1 /\ r.sent[Len(r.sent)].to = r.to /\ GivenBack(r)
        BY <3>1, <3>5 DEF Sound, Counted
      <4> QED
        BY <3>2, <3>5, <4>1 DEF GivenBack
    <3>6. ASSUME NEW i \in DOMAIN r.sent
          PROVE  LET s == r.sent IN
            /\ (s[i].body <=> s[i].method = "post")
            /\ s[i].to.hostHeader[1] = s[i].to.host /\ s[i].to.authority[1] = s[i].to.host
            /\ s[i].to.authority[2] \in {s[i].to.port, "absent"}
            /\ s[i].to.authority[2] = "absent" =>
                s[i].to.port = IF s[i].to.scheme = "https" THEN "443" ELSE "80"
            /\ \A j \in 1..(i - 1) :
                /\ s[i].body => s[j].body
                /\ s[j].to.scheme = "https" /\ s[i].to.scheme = "http" =>
                      AllowInsecureRedirects
      BY <3>4 DEF SentRight, Addressed, Allowed
    <3> QED
      BY <3>3, <3>5, <3>6, Zenon DEF r, Target
  <2> QED
    BY <2>1, <2>2 DEF RedirectsFollowed
<1> QED
  BY <1>1, ClientInitInv, ClientStepInv, PTL

=============================================================================
