------------------------------ MODULE SlotPool ------------------------------
(***************************************************************************)
(* What the server promises about connection slots, without the how: a     *)
(* connection takes one of MaxConnections slots at most once, gives it     *)
(* back at most once, and the counter moves by one with each of the two    *)
(* and never otherwise.  Connection.tla and Server.tla both implement it.  *)
(***************************************************************************)
EXTENDS Integers, FiniteSets

CONSTANTS Conns, MaxConnections

VARIABLES
  held,   \* connections that hold a slot
  spent,  \* connections that have given it back, or were refused one
  count   \* MemberActiveConnections

vars == <<held, spent, count>>

Init == held = {} /\ spent = {} /\ count = 0

Acquire(c) ==
  /\ c \notin held \cup spent /\ count < MaxConnections
  /\ held' = held \cup {c} /\ count' = count + 1 /\ UNCHANGED spent

Refuse(c) ==
  /\ c \notin held \cup spent
  /\ spent' = spent \cup {c} /\ UNCHANGED <<held, count>>

Release(c) ==
  /\ c \in held
  /\ held' = held \ {c} /\ spent' = spent \cup {c} /\ count' = count - 1

Next == \E c \in Conns : Acquire(c) \/ Refuse(c) \/ Release(c)

Spec == Init /\ [][Next]_vars
=============================================================================
