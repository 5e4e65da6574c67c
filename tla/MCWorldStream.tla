--------------------------- MODULE MCWorldStream ---------------------------
(* WorldStream with one peer. *)
EXTENDS WorldStream

CONSTANTS p1

OnePeer == {p1}
===========================================================================
