--------------------------- MODULE MCApplication ---------------------------
(* Instances of Application for TLC.                                       *)
EXTENDS Application, TLC

CONSTANTS o1, o2

\* The owner starts, waits and destroys; another thread stops
\* and waits, also while the first is starting.
OwnerWaits == o1 :> {"Start", "Wait", "Destroy"} @@ o2 :> {"Stop", "Wait"}
=============================================================================
