--------------------------- MODULE MCTurnedBodies ---------------------------
(***************************************************************************)
(* A bar of three voxels on a post, beside a stub: when the post is shot   *)
(* the bar comes off and turns a quarter over the stub.                    *)
(***************************************************************************)
EXTENDS DamageCommits

Stone == {"stone"}
Toughness == [m \in Stone |-> 1]

Post == {CellAt2(0, 0), CellAt2(0, 1)}
Bar == {CellAt2(x, 2) : x \in 0..2}
Stub == {CellAt2(1, 0)}

OneScene ==
  {[world |-> [c \in Plane |-> IF c \in Post \cup Bar \cup Stub THEN Whole("stone") ELSE Nothing],
    limits |-> [changes |-> 6, component |-> 12, visits |-> 24, seeds |-> 12, islands |-> 3,
                spawned |-> 6, bodyVoxels |-> 6, lastBody |-> 9, bodies |-> 3,
                activeVoxels |-> 9, payload |-> 18, radius |-> 1]]}

Quarter == {[AtSpawn EXCEPT !.turned = TRUE]}
=============================================================================
