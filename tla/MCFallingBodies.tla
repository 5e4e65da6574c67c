--------------------------- MODULE MCFallingBodies --------------------------
(* Gravity for the column of FallingBodies, a velocity unit for each tick. *)
EXTENDS FallingBodies

Down == -1
=============================================================================
