-------------------------- MODULE ReplicatedWorld --------------------------
(***************************************************************************)
(* What world replication promises, without messages: the authority's      *)
(* world goes through versions 1, 2, 3, ...; every client shows no world   *)
(* yet (0) or one of the versions the authority has been through, and      *)
(* never goes back to an earlier one.  A version is named by the sequence  *)
(* number of the delta that leads out of it.                               *)
(***************************************************************************)
EXTENDS Naturals

CONSTANT Peers

VARIABLES
  authority,  \* the version of the authoritative world
  view        \* view[p]: the version peer p shows

vars == <<authority, view>>

NoWorld == 0

Init ==
  /\ authority = 1
  /\ view = [p \in Peers |-> NoWorld]

Commit ==
  /\ authority' = authority + 1
  /\ UNCHANGED view

Follow(p) ==
  /\ \E version \in view[p] + 1 .. authority :
       view' = [view EXCEPT ![p] = version]
  /\ UNCHANGED authority

Next == Commit \/ \E p \in Peers : Follow(p)

Spec == Init /\ [][Next]_vars
===========================================================================
