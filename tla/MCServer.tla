------------------------------ MODULE MCServer ------------------------------
(* Instances of Server for TLC.                                            *)
EXTENDS Server, TLC

CONSTANTS o1, o2

\* One owner starts and waits; the other stops, gracefully and by force.
StartAndStop == o1 :> {"Start", "Wait"} @@ o2 :> {"Graceful", "Force"}

\* ... and waits as well.
StartStopWait == o1 :> {"Start", "Wait"} @@ o2 :> {"Graceful", "Force", "Wait"}

\* A forced stop alone.
StartAndForce == o1 :> {"Start", "Wait"} @@ o2 :> {"Force"}

Symmetric == Permutations(Conns)
=============================================================================
