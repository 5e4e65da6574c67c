--------------------------- MODULE DamageCommits ---------------------------
(***************************************************************************)
(* The transactions of the authority and the replica that follows them     *)
(* (src/replication.rs, src/destruction.rs, src/structural.rs,             *)
(* src/replication/structural_failure.rs): a blast or a shot damages the   *)
(* world, what lost its support detaches as bodies, and either everything  *)
(* is committed as one delta or all of it is taken back; a                 *)
(* build and a structural failure commit likewise; the replica rebuilds    *)
(* the bodies from the delta, checks all of it and applies it.             *)
(*                                                                         *)
(* The world is a plane of cells, numbered in the order of IVec3.  A       *)
(* fingerprint is the state it stands for.  Where a body comes to lie, and *)
(* which way it has turned, is left open: nothing here assumes that it     *)
(* keeps clear of what is static.  How bodies move is the subject of       *)
(* FallingBodies.  Where a player has to stand to build is left open too.  *)
(***************************************************************************)
EXTENDS Integers, Sequences, FiniteSets, FiniteSetsExt, Functions, Queues

CONSTANTS
  Columns, Levels,   \* the plane: x and y of its cells
  Matter,            \* the solid materials
  Resistance,        \* of a material to a blast,
  BuildCost,         \* and its price in construction units
  FullIntegrity,     \* u8::MAX
  Blasts,            \* the profiles of a blast, [radius, energy]
  Scenes,            \* the worlds to begin with, and the limits in each
  Poses,             \* where bodies may come to lie, from where they were cut out
  UnitsAtStart,      \* DEFAULT_CONSTRUCTION_UNITS
  MaxCommands        \* bound of the model: commands that were executed

ASSUME DamageAssumption ==
  /\ Columns \in Nat \ {0} /\ Levels \in Nat \ {0}
  /\ FullIntegrity \in Nat \ {0} /\ MaxCommands \in Nat
  /\ Resistance \in [Matter -> Nat \ {0}] /\ BuildCost \in [Matter -> Nat]
  /\ Blasts \subseteq [radius : Nat, energy : Nat] /\ UnitsAtStart \in Nat
  /\ Poses \subseteq [dx : Int, dy : Int, turned : BOOLEAN, pushed : BOOLEAN]

VARIABLES
  limits,            \* StructuralLimits, BodyLimits and those of replication.rs
  authority,         \* AuthoritativeServer
  delta,             \* the delta packet on its way, if there is one
  before, published, \* its public state before and after that
  mirror,            \* ClientReplica
  rejected,          \* the replica has refused a packet
  finding            \* the answer of the structural worker, with the world it is about

DamageVars == <<limits, authority, delta, before, published, mirror, rejected, finding>>

-----------------------------------------------------------------------------
Plane == 1..Columns * Levels
ColumnOf(c) == (c - 1) \div Levels
LevelOf(c) == (c - 1) % Levels
CellAt2(x, y) == x * Levels + y + 1
Anchored == {c \in Plane : LevelOf(c) = 0}      \* foundation_plane(0)

(* NEIGHBORS: what is below comes first. *)
Neighbors2(c) ==
  (IF LevelOf(c) > 0 THEN <<c - 1>> ELSE <<>>) \o (IF ColumnOf(c) > 0 THEN <<c - Levels>> ELSE <<>>)
    \o (IF ColumnOf(c) < Columns - 1 THEN <<c + Levels>> ELSE <<>>)
    \o (IF LevelOf(c) < Levels - 1 THEN <<c + 1>> ELSE <<>>)

Below == INSTANCE Structure WITH
  Voxels <- Plane, Anchors <- Anchored,
  Neighbors <- [c \in Plane |-> Range(Neighbors2(c))], ChunkOf <- [c \in Plane |-> 0]

Nothing == [material |-> "air", integrity |-> 0]
Whole(m) == [material |-> m, integrity |-> FullIntegrity]
Solid(v) == v # Nothing
SolidIn(w) == {c \in Plane : Solid(w[c])}

Substance == {Nothing} \cup [material : Matter, integrity : 1..FullIntegrity]

ASSUME SceneAssumption ==
  \A start \in Scenes :
    /\ start.world \in [Plane -> Substance]
    /\ start.limits.spawned \in Nat /\ start.limits.bodies \in Nat
    /\ start.limits.activeVoxels \in Nat /\ start.limits.lastBody \in Nat \ {0}

NoBodies == [id \in {} |-> Nothing]
AtSpawn == [dx |-> 0, dy |-> 0, turned |-> FALSE, pushed |-> FALSE]

VoxelCount(bodies) ==
  Cardinality(UNION {{<<id, c>> : c \in DOMAIN bodies[id]} : id \in DOMAIN bodies})

-----------------------------------------------------------------------------
(* World::apply_explosion and the changes it reports, by position. *)
Square(n) == n * n
Distance2(c, d) == Square(ColumnOf(c) - ColumnOf(d)) + Square(LevelOf(c) - LevelOf(d))

DamageAt(v, blast, d2) ==
  LET r2 == Square(blast.radius)
      delivered == (blast.energy * (r2 - d2 + 1)) \div (r2 + 1)
  IN  Min({FullIntegrity, (delivered * FullIntegrity) \div Resistance[v.material]})

Damaged(v, damage) ==
  IF damage >= v.integrity THEN Nothing ELSE [v EXCEPT !.integrity = @ - damage]

BlastChanges(w, center, blast) ==
  LET hit == {c \in SolidIn(w) :
                /\ Distance2(c, center) <= Square(blast.radius)
                /\ DamageAt(w[c], blast, Distance2(c, center)) > 0}
  IN  [c \in hit |->
         [before |-> w[c], after |-> Damaged(w[c], DamageAt(w[c], blast, Distance2(c, center)))]]

Changed(w, changes) == [c \in Plane |-> IF c \in DOMAIN changes THEN changes[c].after ELSE w[c]]

KeptChanges(w, changes) == w
RolledBack(w, changes) ==
  [c \in Plane |-> IF c \in DOMAIN changes THEN changes[c].before ELSE w[c]]

-----------------------------------------------------------------------------
(* analyze_structural_changes; every solid material bears load. *)
AffectedWithoutNeighbors(w, changes) ==
  {c \in SolidIn(w) \cap DOMAIN changes : Solid(changes[c].before) # Solid(changes[c].after)}

AffectedSeeds(w, changes) ==
  LET turned == {c \in DOMAIN changes : Solid(changes[c].before) # Solid(changes[c].after)}
  IN  {c \in SolidIn(w) : c \in turned \/ \E d \in turned : c \in Range(Neighbors2(d))}

(* classify_component: breadth first until something that is supported.    *)
(* order is the queue with what was taken from it; the neighbours of a     *)
(* cell are looked at in turn, known says which components are supported   *)
(* already.                                                                *)
TooManyCells(n, visited) == n > limits.component \/ visited + n > limits.visits

Supporting(known) == {c \in DOMAIN known : known[c]}

(* The neighbours that are looked at: none after the first supported one.  *)
LookedAt(next, known) ==
  SubSeq(next, 1,
         Min({i \in DOMAIN next : next[i] \in Supporting(known)} \cup {Len(next) + 1}) - 1)

Visit(w, s, n, known, visited) ==
  LET here == s.order[n]
      next == Neighbors2(here)
      fresh == Kept(LookedAt(next, known), SolidIn(w) \ (DOMAIN known \cup Range(s.order)))
      queues == here \notin Anchored /\ fresh # <<>>
  IN  IF \/ TooManyCells(n, visited)
         \/ queues /\ TooManyCells(Len(s.order) + Len(fresh), visited)
      THEN [s EXCEPT !.end = "error"]
      ELSE IF here \in Anchored \/ Range(next) \cap Supporting(known) # {}
      THEN [order |-> SubSeq(s.order, 1, n), end |-> "supported"]
      ELSE [s EXCEPT !.order = @ \o fresh]

Advanced(w, s, n, known, visited) ==
  IF s.end = "open" /\ n <= Len(s.order) THEN Visit(w, s, n, known, visited) ELSE s

ClassifyComponent(w, seed, known, visited) ==
  LET state[n \in 0..Columns * Levels] ==
        IF n = 0 THEN [order |-> <<seed>>, end |-> "open"]
        ELSE Advanced(w, state[n - 1], n, known, visited)
  IN  state[Columns * Levels]

(* A search that nothing ended has found an island. *)
Learnt(sofar, s) ==
  IF s.end = "error" \/ (s.end = "open" /\ Cardinality(sofar.islands) = limits.islands)
  THEN [sofar EXCEPT !.error = TRUE]
  ELSE [error |-> FALSE,
        known |-> [c \in Range(s.order) \cup DOMAIN sofar.known |->
                     IF c \in Range(s.order) THEN s.end = "supported" ELSE sofar.known[c]],
        visited |-> sofar.visited + Len(s.order),
        islands |-> sofar.islands \cup IF s.end = "open" THEN {Range(s.order)} ELSE {}]

Classified(w, sofar, seed) ==
  IF sofar.error \/ seed \in DOMAIN sofar.known THEN sofar
  ELSE Learnt(sofar, ClassifyComponent(w, seed, sofar.known, sofar.visited))

NothingKnown == [error |-> FALSE, known |-> [c \in {} |-> TRUE], visited |-> 0, islands |-> {}]

(* The seeds in the order of their positions. *)
Analysis(w, changes) ==
  LET seeds == AffectedSeeds(w, changes)
      tooMany == Cardinality(DOMAIN changes) > limits.changes \/ Cardinality(seeds) > limits.seeds
      sofar[n \in 0..Columns * Levels] ==
        IF n = 0 THEN [NothingKnown EXCEPT !.error = tooMany]
        ELSE IF n \in seeds THEN Classified(w, sofar[n - 1], n) ELSE sofar[n - 1]
  IN  sofar[Columns * Levels]

(* The orders of the islands by their corners.                             *)
Least(island) ==
  CellAt2(Min({ColumnOf(c) : c \in island}), Min({LevelOf(c) : c \in island}))
Greatest(island) ==
  CellAt2(Max({ColumnOf(c) : c \in island}), Max({LevelOf(c) : c \in island}))
Precedes(i, j) ==
  \/ Least(i) < Least(j)
  \/ Least(i) = Least(j) /\ Greatest(i) < Greatest(j)
InOrder(islands) ==
  {q \in Bijection(1..Cardinality(islands), islands) :
     \A i, j \in 1..Cardinality(islands) : i < j => ~Precedes(q[j], q[i])}

-----------------------------------------------------------------------------
(* prepare_detached_bodies, and the limits commit_damage looks at next.    *)
(* Where there is no error islands are the detached ones; order is theirs. *)
VoxelsOf(w, island) == [c \in island |-> w[c]]
VoxelsInOrder(w, order) == [i \in DOMAIN order |-> VoxelsOf(w, order[i])]

FitsLimits(a, bodies) ==
  /\ VoxelCount(bodies) <= limits.spawned
  /\ \A i \in DOMAIN bodies : Cardinality(DOMAIN bodies[i]) <= limits.bodyVoxels
  /\ a.nextBody + Len(bodies) <= limits.lastBody
  /\ Cardinality(DOMAIN a.bodies) + Len(bodies) <= limits.bodies
  /\ a.activeVoxels + VoxelCount(bodies) <= limits.activeVoxels

PreparedBodies(a, w, analysis, order) ==
  LET bodies == VoxelsInOrder(w, order)
  IN  IF analysis.error \/ ~FitsLimits(a, bodies)
      THEN [error |-> TRUE, bodies |-> <<>>] ELSE [error |-> FALSE, bodies |-> bodies]

(* merged_detachment_changes *)
ForgottenDamage(w, changes, bodies) ==
  [c \in UNION {DOMAIN bodies[i] : i \in DOMAIN bodies} \cup DOMAIN changes |->
     IF c \in DOMAIN changes THEN changes[c] ELSE [before |-> w[c], after |-> Nothing]]
MergedChanges(w, changes, bodies) ==
  LET detached == UNION {DOMAIN bodies[i] : i \in DOMAIN bodies}
  IN  [c \in detached \cup DOMAIN changes |->
         [before |-> IF c \in DOMAIN changes THEN changes[c].before ELSE w[c],
          after |-> IF c \in detached THEN Nothing ELSE changes[c].after]]

FitsProtocol(changes, bodies, updates) ==
  Cardinality(DOMAIN changes) + VoxelCount(bodies) + Cardinality(DOMAIN updates) <= limits.payload

(* The bodies a transaction adds, under the next ids. *)
Added(a, bodies) == a.nextBody..a.nextBody + Len(bodies) - 1
Spawned(a, bodies, state) ==
  [id \in Added(a, bodies) |-> [voxels |-> bodies[id - a.nextBody + 1], state |-> state[id]]]
AtRest(a, bodies) == [id \in Added(a, bodies) |-> AtSpawn]

With(old, new) ==
  [id \in DOMAIN old \cup DOMAIN new |-> IF id \in DOMAIN new THEN new[id] ELSE old[id]]

PublicState(a) == [world |-> a.world, bodies |-> a.bodies, nextBody |-> a.nextBody]

DeltaPacket(a, b, changes, assigned, updates) ==
  [base |-> a.world, final |-> b.world,
   baseBodies |-> a.bodies, finalBodies |-> b.bodies,
   changes |-> changes, assigned |-> assigned, updates |-> updates]

(* A refusal leaves the authority a; a commit gives b and sends the        *)
(* packet.  The next packet follows when the replica has this one: the     *)
(* sequence numbers, and the order in which packets arrive, are the        *)
(* subject of WorldStream and InboxFeed.                                   *)
Refuse(a) ==
  /\ authority' = a
  /\ UNCHANGED <<delta, before, published>>

Accept(b, packet) ==
  /\ delta = <<>>
  /\ authority' = b
  /\ delta' = packet
  /\ before' = published /\ published' = PublicState(b)

(* What commit_damage makes of a when p are the bodies, w the damaged      *)
(* world; state says how the impulse of the blast moved each body.         *)
Committed(a, w, p, command, state) ==
  LET detached == UNION {DOMAIN p.bodies[i] : i \in DOMAIN p.bodies}
  IN  [a EXCEPT !.world = [c \in Plane |-> IF c \in detached THEN Nothing ELSE w[c]],
                !.bodies = With(@, Spawned(a, p.bodies, state)),
                !.nextBody = @ + Len(p.bodies),
                !.activeVoxels = @ + VoxelCount(p.bodies),
                !.lastCommand = command]

CommitBodies(a, w, changes, p, command, state) ==
  LET all == MergedChanges(w, changes, p.bodies)
      updates == [id \in {i \in DOMAIN state : state[i] # AtSpawn} |-> state[id]]
      b == Committed(a, w, p, command, state)
  IN  IF p.error \/ ~FitsProtocol(all, p.bodies, updates)
      THEN Refuse([a EXCEPT !.world = RolledBack(w, changes)])
      ELSE Accept(b, DeltaPacket(a, b, all, Spawned(a, p.bodies, AtRest(a, p.bodies)), updates))

(* commit_damage; a is the authority before the damage.  Which impulses    *)
(* the bodies receive is left open.                                        *)
CommitDamage(a, changes, command, Impulses) ==
  \E w \in {Changed(a.world, changes)} :
    \E analysis \in {Analysis(w, changes)} :
      \E order \in InOrder(analysis.islands) :
        \E p \in {PreparedBodies(a, w, analysis, order)} :
          \E state \in [Added(a, p.bodies) -> Impulses] :
            CommitBodies(a, w, changes, p, command, state)

-----------------------------------------------------------------------------
DamageInit ==
  /\ \E start \in Scenes :
       LET w == start.world
       IN  /\ limits = start.limits
           /\ authority = [world |-> w, bodies |-> NoBodies, activeVoxels |-> 0, nextBody |-> 1,
                           lastCommand |-> 0, units |-> UnitsAtStart]
           /\ mirror = [world |-> w, bodies |-> NoBodies, activeVoxels |-> 0, nextBody |-> 1]
           /\ published = [world |-> w, bodies |-> NoBodies, nextBody |-> 1]
  /\ before = published
  /\ delta = <<>> /\ rejected = FALSE
  /\ finding = [world |-> <<>>, bodies |-> <<>>]

IsFresh(command) == command > authority.lastCommand

(* execute_explosion *)
ExecuteExplosion ==
  /\ \E center \in Plane, blast \in Blasts, command \in 1..MaxCommands :
       /\ blast.radius \in 1..limits.radius /\ IsFresh(command)
       /\ CommitDamage(authority, BlastChanges(authority.world, center, blast), command,
                       {AtSpawn, [AtSpawn EXCEPT !.pushed = TRUE]})
  /\ UNCHANGED <<limits, mirror, rejected, finding>>

(* apply_rifle: the shot breaks what it meets until one voxel holds, worn  *)
(* or not, or until nothing follows; it may meet nothing.  Here it follows *)
(* a row or a column, and how far its energy takes it is left open.        *)
Lanes ==
  {{d \in Plane : ColumnOf(d) = ColumnOf(c)} : c \in Plane} \cup
  {{d \in Plane : LevelOf(d) = LevelOf(c)} : c \in Plane}

Met(w, lane, from, to) == {d \in lane \cap SolidIn(w) : d \in from..to \cup to..from}

Broken(w, cells, worn, wear) ==
  [d \in cells \cup worn |->
     [before |-> w[d], after |-> IF d \in cells THEN Nothing ELSE Damaged(w[d], wear)]]

Shots(w) ==
  {Broken(w, {}, {}, 0)} \cup
  UNION {UNION {{Broken(w, Met(w, lane, from, to), {}, 0)} \cup
                {Broken(w, Met(w, lane, from, to) \ {to}, {to}, wear) :
                   wear \in 1..FullIntegrity - 1}
                : from, to \in lane \cap SolidIn(w)}
         : lane \in Lanes}

ExecuteRifle ==
  /\ \E shot \in Shots(authority.world), command \in 1..MaxCommands :
       IsFresh(command) /\ CommitDamage(authority, shot, command, {AtSpawn})
  /\ UNCHANGED <<limits, mirror, rejected, finding>>

(* execute_reload commits that nothing changed. *)
ExecuteReload ==
  /\ \E command \in 1..MaxCommands :
       IsFresh(command) /\ CommitDamage(authority, [d \in {} |-> Nothing], command, {AtSpawn})
  /\ UNCHANGED <<limits, mirror, rejected, finding>>

(* body_overlaps_voxel: where the body is, as wide and as high as it was   *)
(* when it was cut out.                                                    *)
ColumnsOf(body) == {ColumnOf(c) : c \in DOMAIN body.voxels}
LevelsOf(body) == {LevelOf(c) : c \in DOMAIN body.voxels}

BoxOf(body) ==
  {c \in Plane : /\ ColumnOf(c) - body.state.dx \in Min(ColumnsOf(body))..Max(ColumnsOf(body))
                 /\ LevelOf(c) - body.state.dy \in Min(LevelsOf(body))..Max(LevelsOf(body))}

ExecuteBuild ==
  /\ \E c \in Plane, m \in Matter, command \in 1..MaxCommands :
       /\ IsFresh(command)
       /\ ~Solid(authority.world[c])
       /\ \E d \in Range(Neighbors2(c)) : Solid(authority.world[d])
       /\ \A id \in DOMAIN authority.bodies : c \notin BoxOf(authority.bodies[id])
       /\ BuildCost[m] <= authority.units
       /\ LET b == [authority EXCEPT !.world[c] = Whole(m), !.lastCommand = command,
                                     !.units = @ - BuildCost[m]]
          IN  Accept(b, DeltaPacket(authority, b,
                                    [d \in {c} |-> [before |-> Nothing, after |-> Whole(m)]],
                                    NoBodies, NoBodies))
  /\ UNCHANGED <<limits, mirror, rejected, finding>>

(* The worker finds that a voxel of the domain of a seed fails. *)
WorkerFinds ==
  /\ \E c \in SolidIn(authority.world) \ Anchored :
       LET domain == Below!LoadDomain(SolidIn(authority.world), c)
       IN  \E order \in InOrder(Below!Debris(domain, c)) :
             finding' = [world |-> authority.world,
                         bodies |-> VoxelsInOrder(authority.world, order)]
  /\ finding.bodies = <<>>
  /\ UNCHANGED <<limits, authority, delta, before, published, mirror, rejected>>

(* commit_structural_failure: every check comes before the first change.  *)
CommitPlan(a, bodies) ==
  LET all == MergedChanges(a.world, [c \in {} |-> Nothing], bodies)
      added == Spawned(a, bodies, AtRest(a, bodies))
      b == [a EXCEPT !.world = Changed(@, all), !.bodies = With(@, added),
                     !.nextBody = @ + Len(bodies), !.activeVoxels = @ + VoxelCount(bodies)]
  IN  IF /\ finding.world = a.world
         /\ Len(bodies) <= 7
         /\ FitsLimits(a, bodies)
         /\ FitsProtocol(all, bodies, NoBodies)
      THEN Accept(b, DeltaPacket(a, b, all, added, NoBodies))
      ELSE Refuse(a)

CommitFailure ==
  /\ finding.bodies # <<>>
  /\ CommitPlan(authority, finding.bodies)
  /\ finding' = [world |-> <<>>, bodies |-> <<>>]
  /\ UNCHANGED <<limits, mirror, rejected>>

(* advance_physics: a body moves. *)
Moves(id) == Poses \ {authority.bodies[id].state}

AdvancePhysics ==
  /\ \E id \in DOMAIN authority.bodies :
       \E s \in Moves(id) :
         LET b == [authority EXCEPT !.bodies[id].state = s]
         IN  Accept(b, DeltaPacket(authority, b, [c \in {} |-> Nothing], NoBodies,
                                   [i \in {id} |-> s]))
  /\ UNCHANGED <<limits, mirror, rejected, finding>>

-----------------------------------------------------------------------------
(* ClientReplica::receive *)
Removes(changes, c, v) ==
  /\ c \in DOMAIN changes
  /\ ~Solid(changes[c].after)
  /\ changes[c].before.material = v.material /\ changes[c].before.integrity >= v.integrity

Connected(cells) ==
  \A c \in cells : cells \subseteq Below!Reached(cells, c, cells)

BodyVoxelsIn(bodies) == [id \in DOMAIN bodies |-> bodies[id].voxels]

Rebuilds(r, p) ==
  /\ VoxelCount(BodyVoxelsIn(p.assigned)) <= limits.spawned
  /\ \A id \in DOMAIN p.assigned :
       LET voxels == p.assigned[id].voxels
       IN  /\ id \notin DOMAIN r.bodies
           /\ \A c \in DOMAIN voxels : Removes(p.changes, c, voxels[c])
           /\ Cardinality(DOMAIN voxels) <= limits.bodyVoxels /\ Connected(DOMAIN voxels)

FinalBodies(r, p) ==
  LET all == With(r.bodies, p.assigned)
  IN  [id \in DOMAIN all |->
         IF id \in DOMAIN p.updates THEN [all[id] EXCEPT !.state = p.updates[id]] ELSE all[id]]

Takes(r, p) ==
  LET added == Cardinality(DOMAIN p.assigned)
  IN  /\ p.base = r.world /\ p.baseBodies = r.bodies
      /\ Rebuilds(r, p)
      /\ DOMAIN p.assigned = r.nextBody..r.nextBody + added - 1
      /\ r.nextBody + added <= limits.lastBody
      /\ Cardinality(DOMAIN r.bodies) + added <= limits.bodies
      /\ r.activeVoxels + VoxelCount(BodyVoxelsIn(p.assigned)) <= limits.activeVoxels
      /\ DOMAIN p.updates \subseteq DOMAIN r.bodies \cup DOMAIN p.assigned
      /\ FinalBodies(r, p) = p.finalBodies
      /\ \A c \in DOMAIN p.changes : r.world[c] = p.changes[c].before
      /\ Changed(r.world, p.changes) = p.final

(* The inbox offers no packet beyond the one that is expected, and what    *)
(* is older is dropped.                                                    *)
ReceiveDeltaPacket ==
  /\ delta # <<>>
  /\ IF Takes(mirror, delta)
     THEN /\ mirror' = [world |-> Changed(mirror.world, delta.changes),
                         bodies |-> FinalBodies(mirror, delta),
                         activeVoxels |-> mirror.activeVoxels
                                            + VoxelCount(BodyVoxelsIn(delta.assigned)),
                         nextBody |-> mirror.nextBody + Cardinality(DOMAIN delta.assigned)]
          /\ delta' = <<>> /\ before' = published
          /\ UNCHANGED rejected
     ELSE rejected' = TRUE /\ UNCHANGED <<delta, before, mirror>>
  /\ UNCHANGED <<limits, authority, published, finding>>

(* install_snapshot of what the authority has now, if validate_snapshot    *)
(* finds no voxel where a body was cut out.                                *)
InstallWorld ==
  /\ \A id \in DOMAIN authority.bodies :
       \A c \in DOMAIN authority.bodies[id].voxels : ~Solid(authority.world[c])
  /\ mirror' = [world |-> authority.world, bodies |-> authority.bodies,
                 activeVoxels |-> VoxelCount(BodyVoxelsIn(authority.bodies)),
                 nextBody |-> authority.nextBody]
  /\ delta' = <<>> /\ before' = published
  /\ UNCHANGED <<limits, authority, published, rejected, finding>>

DamageNext ==
  \/ ExecuteExplosion \/ ExecuteRifle \/ ExecuteReload \/ ExecuteBuild
  \/ WorkerFinds \/ CommitFailure \/ AdvancePhysics \/ ReceiveDeltaPacket \/ InstallWorld

DamageSpec == DamageInit /\ [][DamageNext]_DamageVars

-----------------------------------------------------------------------------
(* The replica takes every delta that follows what it has, and then has    *)
(* what the authority had: world, bodies, their states and the next id     *)
(* (replication.rs: merged_detachment_changes, ClientReplica::receive,     *)
(* rebuild_replicated_bodies, install_snapshot).                           *)
ReplicaMirrorsAuthority ==
  /\ ~rejected
  /\ [world |-> mirror.world, bodies |-> mirror.bodies, nextBody |-> mirror.nextBody]
       = IF delta = <<>> THEN published ELSE before

(* What is static stands on the foundation after every transaction,        *)
(* whatever detached with it or was built since (structural.rs:            *)
(* classify_component; replication.rs: commit_damage, execute_build;       *)
(* structural_failure.rs: commit_structural_failure).                      *)
StaticIsSupported ==
  LET static == SolidIn(authority.world)
  IN  \A c \in static : Below!Reached(static, c, static) \cap Anchored # {}

(* A transaction that is refused leaves nothing behind, wherever it        *)
(* fails: the authority shows what its last delta left.  In one that       *)
(* commits nothing appears or is lost: a voxel that was static is static   *)
(* still, or part of exactly one new body, or the damage broke it          *)
(* (replication.rs: commit_damage, rollback_changes,                       *)
(* prepare_detached_bodies, merged_detachment_changes).                    *)
Worn(a, b) == a.material = b.material /\ a.integrity <= b.integrity

AllOrNothing ==
  /\ PublicState(authority) = published
  /\ authority.activeVoxels = VoxelCount(BodyVoxelsIn(authority.bodies))
  /\ delta # <<>> =>
       LET new == DOMAIN published.bodies \ DOMAIN before.bodies
           In(c) == {id \in new : c \in DOMAIN published.bodies[id].voxels}
       IN  \A c \in Plane :
             LET v == before.world[c]  w == published.world[c]
             IN  IF ~Solid(v) THEN In(c) = {}
                 ELSE \/ In(c) = {} /\ ~Solid(w) /\ ~Solid(delta.changes[c].after)
                      \/ In(c) = {} /\ Solid(w) /\ Worn(w, v)
                      \/ /\ Cardinality(In(c)) = 1 /\ ~Solid(w)
                         /\ \A id \in In(c) : Worn(published.bodies[id].voxels[c], v)

-----------------------------------------------------------------------------
(* Where the voxels of a body are once it has turned about its middle, a   *)
(* quarter or not at all.  The middle of its box stands for its centre of  *)
(* mass; coordinates are halves of a cell.                                 *)
Extent(values) == Max(values) - Min(values) + 1

CentreOf(body, c) ==
  LET width == Extent(ColumnsOf(body))
      height == Extent(LevelsOf(body))
      x == 2 * (ColumnOf(c) - Min(ColumnsOf(body))) + 1 - width
      y == 2 * (LevelOf(c) - Min(LevelsOf(body))) + 1 - height
  IN  <<2 * (Min(ColumnsOf(body)) + body.state.dx) + width + IF body.state.turned THEN -y ELSE x,
        2 * (Min(LevelsOf(body)) + body.state.dy) + height + IF body.state.turned THEN x ELSE y>>

Meets(body, d) ==
  \E c \in DOMAIN body.voxels :
    /\ CentreOf(body, c)[1] - (2 * ColumnOf(d) + 1) \in -1..1
    /\ CentreOf(body, c)[2] - (2 * LevelOf(d) + 1) \in -1..1

(* Nothing is built where a body is, however it lies: one that was clear   *)
(* of what is static is clear of it after the build (replication.rs:       *)
(* execute_build, body_overlaps_voxel).                                    *)
IsClear(body, w) == \A d \in SolidIn(w) : ~Meets(body, d)

BuildsAvoidBodies ==
  [][\A id \in DOMAIN authority.bodies :
       LET body == authority.bodies[id]
       IN  IsClear(body, authority.world) => IsClear(body, authority'.world)]_DamageVars
=============================================================================
