--------------------------- MODULE MCReplication ----------------------------
(***************************************************************************)
(* What keeps the world whole and a replica like the authority, in four    *)
(* parts that share no state: the stream of deltas and snapshots, the      *)
(* transactions the deltas come from, the runtime that assesses the        *)
(* structure, and the wire formats.  Which of them a behaviour belongs to  *)
(* is chosen at the start.                                                 *)
(***************************************************************************)
EXTENDS WorldStream, DamageCommits, StructuralRuntime, WireCodecs

CONSTANTS p1

VARIABLE part

OnePeer == {p1}

Stones == {"stone", "soil"}
Resists == [m \in Stones |-> IF m = "stone" THEN 2 ELSE 1]
SmallBlasts == {[radius |-> 1, energy |-> 2], [radius |-> 2, energy |-> 1]}

Plan(stone, soil) ==
  [c \in Plane |-> IF c \in stone THEN Whole("stone")
                   ELSE IF c \in soil THEN Whole("soil") ELSE Nothing]
Bridge == Plan({1, 2, 4, 6}, {})
Crown == Plan({3, 4}, {2, 6})

WideLimits ==
  [changes |-> 6, component |-> 6, visits |-> 9, seeds |-> 6, islands |-> 2, spawned |-> 6,
   bodyVoxels |-> 5, lastBody |-> 9, bodies |-> 4, activeVoxels |-> 8, payload |-> 12,
   radius |-> 2]
FewScenes ==
  {[world |-> Crown, limits |-> WideLimits],
   [world |-> Bridge, limits |-> [WideLimits EXCEPT !.component = 3, !.payload = 5, !.bodies = 1]],
   [world |-> Crown, limits |-> [WideLimits EXCEPT !.islands = 1, !.bodies = 1]]}

(* A body stays where it was cut out, or falls by a level and turns. *)
FewPoses == {[AtSpawn EXCEPT !.dy = -1, !.turned = TRUE]}

(* A bridge 2 3 between the piers 1 and 4, with room for a load 5 on it:   *)
(*                             5                                           *)
(*                           1 2 3 4                                       *)
(* The load lies in a chunk of its own, which exists only while it stands. *)
SpanNeighbors == << {2}, {1, 3, 5}, {2, 4}, {3}, {2} >>
SpanPiers == {1, 4}
SpanChunks == <<1, 1, 1, 1, 2>>
SpanSeed == <<2>>

replicationVars == <<part, vars, DamageVars, RuntimeVars, WireVars>>

ReplicationInit ==
  /\ part \in {"stream", "damage", "structure", "wire"}
  /\ Init /\ DamageInit /\ RuntimeInit /\ WireInit
  /\ part # "damage" => authority.world = Crown /\ limits = WideLimits

ReplicationNext ==
  /\ UNCHANGED part
  /\ \/ part = "stream" /\ Next /\ UNCHANGED <<DamageVars, RuntimeVars, WireVars>>
     \/ part = "damage" /\ DamageNext /\ UNCHANGED <<vars, RuntimeVars, WireVars>>
     \/ part = "structure" /\ RuntimeNext /\ UNCHANGED <<vars, DamageVars, WireVars>>
     \/ part = "wire" /\ WireNext /\ UNCHANGED <<vars, DamageVars, RuntimeVars>>

ReplicationSpec == ReplicationInit /\ [][ReplicationNext]_replicationVars
=============================================================================
