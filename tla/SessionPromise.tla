--------------------------- MODULE SessionPromise ---------------------------
(***************************************************************************)
(* What users of the session store rely on: the sessions that have not     *)
(* expired, and nothing else.  An expired session is gone at once, gives   *)
(* its place back at once and never returns.                               *)
(***************************************************************************)
EXTENDS Naturals, FiniteSets

CONSTANTS Ids, Keys, Values, Oversized, Ttls, MaxSessions, MaxValuesPerSession, MaxTime

VARIABLES clock, live, answer

NoValues == [k \in {} |-> 0]
With(f, x, y) == [z \in DOMAIN f \union {x} |-> IF z = x THEN y ELSE f[z]]
Without(f, x) == [z \in DOMAIN f \ {x} |-> f[z]]
Fits(values, k, v) ==
    /\ {k, v} \intersect Oversized = {}
    /\ k \in DOMAIN values \/ ~(Cardinality(DOMAIN values) >= MaxValuesPerSession)

Full == Cardinality(DOMAIN live) >= MaxSessions

Init == clock = 0 /\ live = [i \in {} |-> 0] /\ answer = <<"none">>

Pass ==
    /\ clock' \in Nat /\ clock < clock'
    /\ live' = [i \in {j \in DOMAIN live : clock' < live[j].expires} |-> live[i]]
    /\ UNCHANGED answer

\* A creation asks for a lifetime; it fails when the store is full of live sessions.
Open(ttl) ==
    /\ \/ /\ ~Full
          /\ \E i \in Ids \ DOMAIN live :
                /\ live' = With(live, i, [values |-> NoValues, expires |-> clock + ttl])
                /\ answer' = <<"session", i, live'[i]>>
       \/ /\ Full
          /\ answer' = <<"capacity exhausted">>
          /\ UNCHANGED live
       \/ /\ DOMAIN live # {}
          /\ answer' = <<"no unique id">>
          /\ UNCHANGED live
    /\ UNCHANGED clock

Refuse == answer' = <<"invalid lifetime">> /\ UNCHANGED <<clock, live>>

Read(i) ==
    /\ answer' = IF i \in DOMAIN live THEN <<"session", i, live[i]>> ELSE <<"none">>
    /\ UNCHANGED <<clock, live>>

Write(i, k, v) ==
    /\ \/ /\ i \in DOMAIN live /\ Fits(live[i].values, k, v)
          /\ live' = With(live, i, [values |-> With(live[i].values, k, v),
                                    expires |-> live[i].expires])
          /\ answer' = <<"done">>
       \/ /\ i \in DOMAIN live /\ ~Fits(live[i].values, k, v)
          /\ answer' = <<"too much">>
          /\ UNCHANGED live
       \/ /\ i \notin DOMAIN live
          /\ answer' = <<"done">>
          /\ UNCHANGED live
    /\ UNCHANGED clock

Close(i) ==
    /\ live' = Without(live, i)
    /\ answer' = <<"done">>
    /\ UNCHANGED clock

Sweep == answer' = <<"done">> /\ UNCHANGED <<clock, live>>

Next ==
    \/ Pass \/ Refuse \/ Sweep
    \/ \E t \in Ttls : Open(t)
    \/ \E i \in Ids : Read(i) \/ Close(i) \/ \E k \in Keys, v \in Values : Write(i, k, v)

Spec == Init /\ [][Next]_<<clock, live, answer>>
=============================================================================
