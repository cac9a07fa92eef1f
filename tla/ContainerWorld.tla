--------------------------- MODULE ContainerWorld ---------------------------
(***************************************************************************)
(* The objects of one container type that a program holds.  A behaviour is *)
(* about one type, its kind, and the containers that the names refer to.   *)
(* leaked says what was dropped without being freed: a node that no copy   *)
(* had linked yet, or any other node.                                      *)
(***************************************************************************)
CONSTANT Names

VARIABLES kind, obj, leaked

vars == <<kind, obj, leaked>>
=============================================================================
