----------------------------- MODULE LogPromise -----------------------------
(***************************************************************************)
(* What users of the log rely on.  The text of a log file is a sequence of *)
(* volumes, the archives and last the file that is written.  A call adds   *)
(* its record at the end, once, or the beginning of it when it fails;      *)
(* text disappears only volume by volume from the front, and only as far   *)
(* as the limit of archives asks.                                          *)
(***************************************************************************)
EXTENDS Naturals, Sequences

CONSTANTS Callers, Paths, Records, Limits

VARIABLES volumes, limit, writing, answer

Idle == [path |-> <<>>, record |-> <<>>, outcome |-> "none"]

Init ==
    /\ volumes = [p \in Paths |-> << <<>> >>]
    /\ limit = 0
    /\ writing = [c \in Callers |-> Idle]
    /\ answer = [c \in Callers |-> "none"]

\* A new volume begins, and the oldest archives beyond the limit go.
Pruned(v) ==
    IF limit = 0 \/ Len(v) - 1 <= limit THEN v ELSE SubSeq(v, Len(v) - limit, Len(v))
Rolled(p) == [volumes EXCEPT ![p] = Pruned(Append(@, <<>>))]

Begin(c, p, r) ==
    /\ writing[c] = Idle
    /\ volumes' \in {volumes, Rolled(p)}
    /\ \/ /\ writing' = [writing EXCEPT ![c] = [path |-> p, record |-> r, outcome |-> "none"]]
          /\ UNCHANGED answer
       \/ /\ \E a \in {"nothing written", "exception"} : answer' = [answer EXCEPT ![c] = a]
          /\ UNCHANGED writing
    /\ UNCHANGED limit

Store(c, k) ==
    /\ writing[c] # Idle /\ writing[c].outcome = "none"
    /\ LET w == writing[c]
           written == SubSeq(w.record, 1, k)
           answered == IF k = Len(w.record) THEN "written" ELSE "nothing written"
       IN  /\ volumes' = [volumes EXCEPT ![w.path][Len(volumes[w.path])] = @ \o written]
           /\ writing' = [writing EXCEPT ![c].outcome = answered]
    /\ UNCHANGED <<limit, answer>>

Return(c) ==
    /\ writing[c].outcome # "none"
    /\ writing' = [writing EXCEPT ![c] = Idle]
    /\ answer' = [answer EXCEPT ![c] = writing[c].outcome]
    /\ UNCHANGED <<volumes, limit>>

SetLimit == limit' \in Limits /\ UNCHANGED <<volumes, writing, answer>>

\* The process ends, at any moment, and another one goes on with the files.
Restart ==
    /\ limit' = 0
    /\ writing' = [c \in Callers |-> Idle]
    /\ answer' = [c \in Callers |-> "none"]
    /\ UNCHANGED volumes

Next ==
    \/ SetLimit \/ Restart
    \/ \E c \in Callers :
        \/ Return(c)
        \/ \E k \in 0..Len(writing[c].record) : Store(c, k)
        \/ \E p \in Paths, r \in Records : Begin(c, p, r)

Spec == Init /\ [][Next]_<<volumes, limit, writing, answer>>
=============================================================================
