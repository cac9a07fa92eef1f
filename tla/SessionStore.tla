---------------------------- MODULE SessionStore ----------------------------
(***************************************************************************)
(* Web/Session/Session.hpp.  Every operation is one section under the      *)
(* store's mutex, except that Create looks at its lifetime before it       *)
(* waits for the mutex.  Expired sessions stay in the map until somebody   *)
(* comes across them.  MaxTime stands for the last time_point.             *)
(***************************************************************************)
EXTENDS Naturals, FiniteSets

CONSTANTS
    Callers,                \* the threads that create sessions
    Ids, Keys, Values,
    Oversized,              \* keys and values beyond MaxKeySize and MaxValueSize
    Ttls, MaxSessions, MaxValuesPerSession, MaxTime

VARIABLES clock, MemberSessions, creating, answer
sessionVars == <<clock, MemberSessions, creating, answer>>

\* ValidateConfiguration, and lifetimes that are numbers.
LimitsValid == MaxSessions > 0 /\ MaxValuesPerSession > 0
ASSUME SessionAssumption ==
    /\ MaxSessions \in Nat /\ MaxValuesPerSession \in Nat /\ LimitsValid
    /\ Ttls \subseteq Nat /\ MaxTime \in Nat

NoSessions == [i \in {} |-> 0]
SessionInit ==
    /\ clock = 0
    /\ MemberSessions = NoSessions
    /\ creating = [c \in Callers |-> 0]
    /\ answer = <<"none">>

Tick ==
    /\ clock < MaxTime
    /\ clock' = clock + 1
    /\ UNCHANGED <<MemberSessions, creating, answer>>

Insert(f, x, y) == [z \in DOMAIN f \union {x} |-> IF z = x THEN y ELSE f[z]]
Erase(f, x) == [z \in DOMAIN f \ {x} |-> f[z]]
Expired(i) == clock >= MemberSessions[i].expires

\* Mutant: a session lives through the instant at which it expires.
CleanupExpiredLate ==
    [i \in {j \in DOMAIN MemberSessions : clock <= MemberSessions[j].expires} |-> MemberSessions[i]]

CleanupExpiredLocked == [i \in {j \in DOMAIN MemberSessions : ~Expired(j)} |-> MemberSessions[i]]

IsTtlRepresentable(ttl) == ttl > 0 /\ ttl <= MaxTime - clock

\* Create up to the lock.
CreateBegins(c) ==
    /\ creating[c] = 0
    /\ \E ttl \in Ttls :
        IF IsTtlRepresentable(ttl)
        THEN creating' = [creating EXCEPT ![c] = ttl] /\ UNCHANGED answer
        ELSE answer' = <<"invalid lifetime">> /\ UNCHANGED creating
    /\ UNCHANGED <<clock, MemberSessions>>

\* Create from the lock on.  Sixteen random identifiers may all be taken.
CreateLocked(c) ==
    /\ creating[c] # 0
    /\ creating' = [creating EXCEPT ![c] = 0]
    /\ \/ /\ ~IsTtlRepresentable(creating[c])
          /\ answer' = <<"invalid lifetime">>
          /\ UNCHANGED MemberSessions
       \/ /\ IsTtlRepresentable(creating[c])
          /\ LET kept == CleanupExpiredLocked
                 full == Cardinality(DOMAIN kept) >= MaxSessions
                 fresh == [values |-> NoSessions, expires |-> clock + creating[c]]
             IN  \/ /\ full
                    /\ answer' = <<"capacity exhausted">>
                    /\ MemberSessions' = kept
                 \/ /\ ~full
                    /\ \E i \in Ids \ DOMAIN kept :
                        /\ MemberSessions' = Insert(kept, i, fresh)
                        /\ answer' = <<"session", i, fresh>>
                 \/ /\ ~full /\ DOMAIN kept # {}
                    /\ answer' = <<"no unique id">>
                    /\ MemberSessions' = kept
    /\ UNCHANGED clock

Get(i) ==
    /\ \/ /\ i \notin DOMAIN MemberSessions
          /\ answer' = <<"none">>
          /\ UNCHANGED MemberSessions
       \/ /\ i \in DOMAIN MemberSessions /\ Expired(i)
          /\ MemberSessions' = Erase(MemberSessions, i)
          /\ answer' = <<"none">>
       \/ /\ i \in DOMAIN MemberSessions /\ ~Expired(i)
          /\ answer' = <<"session", i, MemberSessions[i]>>
          /\ UNCHANGED MemberSessions
    /\ UNCHANGED <<clock, creating>>

Set(i, k, v) ==
    /\ \/ /\ i \notin DOMAIN MemberSessions
          /\ answer' = <<"done">>
          /\ UNCHANGED MemberSessions
       \/ /\ i \in DOMAIN MemberSessions /\ Expired(i)
          /\ MemberSessions' = Erase(MemberSessions, i)
          /\ answer' = <<"done">>
       \/ /\ i \in DOMAIN MemberSessions /\ ~Expired(i)
          /\ LET values == MemberSessions[i].values
                 refused == \/ k \in Oversized \/ v \in Oversized
                            \/ /\ k \notin DOMAIN values
                               /\ Cardinality(DOMAIN values) >= MaxValuesPerSession
             IN  \/ /\ refused
                    /\ answer' = <<"too much">>
                    /\ UNCHANGED MemberSessions
                 \/ /\ ~refused
                    /\ MemberSessions' = Insert(MemberSessions, i,
                           [values |-> Insert(values, k, v), expires |-> MemberSessions[i].expires])
                    /\ answer' = <<"done">>
    /\ UNCHANGED <<clock, creating>>

Destroy(i) ==
    /\ MemberSessions' = Erase(MemberSessions, i)
    /\ answer' = <<"done">>
    /\ UNCHANGED <<clock, creating>>

Cleanup ==
    /\ MemberSessions' = CleanupExpiredLocked
    /\ answer' = <<"done">>
    /\ UNCHANGED <<clock, creating>>

SessionNext ==
    \/ Tick \/ Cleanup
    \/ \E c \in Callers : CreateBegins(c) \/ CreateLocked(c)
    \/ \E i \in Ids : Get(i) \/ Destroy(i) \/ \E k \in Keys, v \in Values : Set(i, k, v)

StoreSpec == SessionInit /\ [][SessionNext]_sessionVars

-----------------------------------------------------------------------------
Live == [i \in {j \in DOMAIN MemberSessions : ~Expired(j)} |-> MemberSessions[i]]
Promise == INSTANCE SessionPromise WITH live <- Live

\* A session that has expired is not seen again, not even one that is still in
\* the map, and takes no place from a new one; a write, a deletion and a sweep
\* by different threads in any order change only what they name.
SessionSpec == Promise!Spec
=============================================================================
