----------------------------- MODULE WorkerPool -----------------------------
(***************************************************************************)
(* What the executor of Wan/Web/Core/Executor.hpp promises to its owners,  *)
(* without a mutex, a vector or a call stack: threads are started, they    *)
(* take work while the pool is open, none leaves before the pool is        *)
(* halted, a halt is never undone, and the pool is closed only when no     *)
(* thread is left.                                                         *)
(***************************************************************************)
CONSTANT Workers

VARIABLES
  phase,    \* "open", "halted" or "closed"
  started,  \* the threads ever started
  live,     \* the threads still running
  busy      \* the threads executing a handler

poolVars == <<phase, started, live, busy>>

Init == phase = "open" /\ started = {} /\ live = {} /\ busy = {}

\* A thread starts, at most once; a pool halted while it starts may still
\* start the rest of its threads, a closed pool starts none.
Start(w) ==
  /\ phase # "closed" /\ w \notin started
  /\ started' = started \cup {w} /\ live' = live \cup {w}
  /\ UNCHANGED <<phase, busy>>

Take(w) ==
  /\ phase = "open" /\ w \in live \ busy
  /\ busy' = busy \cup {w}
  /\ UNCHANGED <<phase, started, live>>

Finish(w) ==
  /\ w \in busy
  /\ busy' = busy \ {w}
  /\ UNCHANGED <<phase, started, live>>

Halt ==
  /\ phase = "open"
  /\ phase' = "halted"
  /\ UNCHANGED <<started, live, busy>>

\* An idle thread leaves; a thread that failed halts the pool as it leaves.
Leave(w) ==
  /\ phase \in {"open", "halted"} /\ w \in live \ busy
  /\ phase' = "halted"
  /\ live' = live \ {w}
  /\ UNCHANGED <<started, busy>>

Close ==
  /\ phase # "closed" /\ live = {}
  /\ phase' = "closed"
  /\ UNCHANGED <<started, live, busy>>

Next ==
  \/ \E w \in Workers : Start(w) \/ Take(w) \/ Finish(w) \/ Leave(w)
  \/ Halt \/ Close

Spec == Init /\ [][Next]_poolVars
=============================================================================
