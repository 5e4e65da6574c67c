---------------------------- MODULE FallingBodies ----------------------------
(***************************************************************************)
(* Rigid bodies over one column of the world: step_rigid_bodies of         *)
(* src/physics.rs, as advance_physics of src/replication.rs calls it every *)
(* tick, between the blasts that free bodies at rest (commit_damage,       *)
(* replication/structural_failure.rs) and the voxels that players place.   *)
(*                                                                         *)
(* Heights and velocities are integers, as in the code, in Scale units to  *)
(* a voxel.  A body is a run of voxels of the column, so all contacts are  *)
(* vertical and nothing rotates: of a lateral contact only the waking      *)
(* remains, and torque, friction and the impulse that an explosion gives   *)
(* to the bodies it makes are left out.                                    *)
(***************************************************************************)
EXTENDS Integers, FiniteSets, SequencesExt

CONSTANTS
  Falling,           \* body ids
  Top,               \* highest cell of the column; cell 0 is bedrock
  Scale,             \* MICROMETERS_PER_VOXEL
  Hz,                \* SERVER_PHYSICS_HZ
  Gravity,           \* GRAVITY_UM_PER_SECOND_SQUARED / SERVER_PHYSICS_HZ
  Restitution,       \* of a body and a surface together, per mille
  MinBounce,         \* MIN_BOUNCE_SPEED_UM_PER_SECOND
  SleepTicks,        \* SLEEP_TICKS
  MaxPairs,          \* MAX_BROAD_PHASE_PAIRS
  MaxEdits           \* bound of the blasts and placements

ASSUME FallingAssumption ==
  /\ Falling \subseteq Nat /\ IsFiniteSet(Falling)
  /\ {Top, Scale, Hz, MinBounce, SleepTicks} \subseteq Nat \ {0}
  /\ Gravity \in Int /\ Gravity < 0
  /\ Restitution \in 0..1000
  /\ {MaxPairs, MaxEdits} \subseteq Nat

VARIABLES
  solid,             \* the solid cells of the column
  body,              \* the state of each body
  edits,
  undermined         \* bodies whose ground went while they slept (auxiliary)

FallingVars == <<solid, body, edits, undermined>>

NoBody == [born |-> 0, high |-> 0, y |-> 0, v |-> 0, rem |-> 0, rest |-> 0,
           sleeping |-> FALSE]

There == {b \in Falling : body[b].high # 0}

TopOf(s) == s.y + s.high * Scale

FallingInit ==
  /\ solid \in {s \in SUBSET (0..Top) : 0 \in s}
  /\ body = [b \in Falling |-> NoBody]
  /\ edits = 0
  /\ undermined = {}

-----------------------------------------------------------------------------
(* sweep_static_axis, along the column                                     *)
SweptDown(from, to) == {c \in solid : c >= (to - 1) \div Scale /\ c <= (from - 1) \div Scale}
SweptUp(from, to) == {c \in solid : c >= from \div Scale /\ c <= (to - 1) \div Scale}

(* Where the body stops, or where it was going to.                         *)
Swept(s, to) ==
  LET below == SweptDown(s.y, to)
      above == SweptUp(TopOf(s), to + s.high * Scale)
  IN  CASE to < s.y /\ below # {} -> [hit |-> TRUE, y |-> (Max(below) + 1) * Scale]
        [] to > s.y /\ above # {} -> [hit |-> TRUE, y |-> (Min(above) - s.high) * Scale]
        [] OTHER -> [hit |-> FALSE, y |-> to]

Supported(s) == Swept(s, s.y - 1).hit

(* reflected_velocity: the quotient is truncated                           *)
Reflected(v) ==
  IF v > -MinBounce /\ v < MinBounce THEN 0
  ELSE IF v < 0 THEN (-v * Restitution) \div 1000 ELSE -((v * Restitution) \div 1000)

Rested(rest) == IF rest + 1 < SleepTicks THEN rest + 1 ELSE SleepTicks

(* step_rigid_body                                                         *)
Integrated(s) ==
  LET v == s.v + Gravity
      sweep == Swept(s, s.y + (v + s.rem) \div Hz)
      moved == [s EXCEPT !.y = sweep.y,
                         !.v = IF sweep.hit THEN Reflected(v) ELSE v,
                         !.rem = IF sweep.hit THEN 0 ELSE (v + s.rem) % Hz]
      still == Supported(moved) /\ moved.v = 0
  IN  IF s.sleeping THEN s
      ELSE [moved EXCEPT !.rem = IF still THEN 0 ELSE @,
                         !.rest = IF still THEN Rested(@) ELSE 0,
                         !.sleeping = still /\ Rested(s.rest) = SleepTicks]

-----------------------------------------------------------------------------
(* broad_phase_between: bodies whose ways overlap or touch, unless both    *)
(* sleep                                                                   *)
Smaller(x, y) == IF x < y THEN x ELSE y
Larger(x, y) == IF x > y THEN x ELSE y

Near(a, b, next) ==
  /\ Smaller(body[a].y, next[a].y) <= Larger(TopOf(body[b]), TopOf(next[b]))
  /\ Smaller(body[b].y, next[b].y) <= Larger(TopOf(body[a]), TopOf(next[a]))

BothSleep(a, b, next) ==
  body[a].sleeping /\ next[a].sleeping /\ body[b].sleeping /\ next[b].sleeping

Pairs(next) ==
  {p \in SUBSET There : Cardinality(p) = 2 /\
     \A a, b \in p : a # b => Near(a, b, next) /\ ~BothSleep(a, b, next)}

RestsOn(s, support) == s.y = TopOf(support)

(* propagate_waking: a sleeper is woken by what it rests on                *)
Wakes(b, support, pairs) ==
  /\ {b, support} \in pairs
  /\ body[b].sleeping /\ RestsOn(body[b], body[support])

Moving(pairs) ==
  LET moving[n \in 0..Cardinality(Falling)] ==
        IF n = 0 THEN {b \in There : ~body[b].sleeping}
        ELSE moving[n - 1] \cup
             {b \in There : \E support \in moving[n - 1] : Wakes(b, support, pairs)}
  IN  moving[Cardinality(Falling)]

NobodyWoken(pairs, next) == next

Woken(pairs, next) ==
  LET moving == Moving(pairs)
  IN  [b \in Falling |-> IF b \in moving /\ body[b].sleeping
                         THEN [next[b] EXCEPT !.sleeping = FALSE, !.rest = 0]
                         ELSE next[b]]

-----------------------------------------------------------------------------
(* resolve_vertical_body_contacts, from the lowest body upwards            *)
Catches(b, support, next) ==
  /\ next[b].y < body[b].y
  /\ body[b].y >= TopOf(body[support])
  /\ next[b].y < TopOf(next[support])

(* settle_on_dynamic_support                                               *)
Settled(b, s, y, stable) ==
  [s EXCEPT !.y = y, !.v = 0, !.rem = 0,
            !.rest = IF stable THEN Rested(body[b].rest) ELSE 0,
            !.sleeping = stable /\ Rested(body[b].rest) = SleepTicks]

Caught(done, b) ==
  LET supports == {s \in done.those : {b, s} \in done.pairs /\ Catches(b, s, done.next)}
      y == Max({TopOf(done.next[s]) : s \in supports})
      stable == \A s \in supports : TopOf(done.next[s]) = y => done.next[s].sleeping
  IN  [done EXCEPT !.those = @ \cup {b},
                   !.next = IF supports = {} THEN @
                            ELSE [@ EXCEPT ![b] = Settled(b, @, y, stable)]]

ById(next) == SetToSortSeq(There, <)

Upwards(next) ==
  SetToSortSeq(There, LAMBDA a, b : next[a].y < next[b].y \/ (next[a].y = next[b].y /\ a < b))

(* resolve_lateral_body_contacts, as far as the column shows it: a body    *)
(* that something hits from the side is awake.                             *)
Struck(struck, next) ==
  [b \in Falling |-> IF b \in struck THEN [next[b] EXCEPT !.sleeping = FALSE, !.rest = 0]
                     ELSE next[b]]

(* step_rigid_bodies: too many pairs, and the tick changes nothing.        *)
PhysicsTick(struck) ==
  LET stepped == [b \in Falling |-> IF b \in There THEN Integrated(body[b]) ELSE NoBody]
      pairs == Pairs(stepped)
      next == Struck(struck, Woken(pairs, stepped))
  IN  /\ body' = IF Cardinality(pairs) > MaxPairs THEN body
                 ELSE FoldLeft(Caught, [those |-> {}, pairs |-> pairs, next |-> next],
                               Upwards(next)).next
      /\ UNCHANGED <<solid, edits>>
      /\ undermined' = {b \in undermined : body'[b].sleeping}

-----------------------------------------------------------------------------
(* A cell is destroyed.  The cells that it held up come down as one body,  *)
(* or others hold them.  A body that sleeps on the cell is not told.       *)
HeldUp(c) == {d \in solid : d > c /\ \A e \in c + 1..d : e \in solid}

NewBody(cells) == [NoBody EXCEPT !.born = Min(cells), !.high = Cardinality(cells),
                                 !.y = Min(cells) * Scale]

SleepsOn(c) == {b \in There : body[b].sleeping /\ body[b].y = (c + 1) * Scale}

Destroy(c) ==
  /\ edits < MaxEdits /\ c # 0
  /\ edits' = edits + 1
  /\ undermined' = undermined \cup SleepsOn(c)
  /\ \/ /\ solid' = solid \ {c}
        /\ UNCHANGED body
     \/ \E b \in Falling \ There :
          /\ \A other \in Falling \ There : b <= other
          /\ HeldUp(c) # {}
          /\ solid' = solid \ ({c} \cup HeldUp(c))
          /\ body' = [body EXCEPT ![b] = NewBody(HeldUp(c))]

(* execute_build keeps clear of the bodies.                                *)
Place(c) ==
  /\ edits < MaxEdits
  /\ \A b \in There : body[b].y >= (c + 1) * Scale \/ TopOf(body[b]) <= c * Scale
  /\ solid' = solid \cup {c}
  /\ edits' = edits + 1
  /\ UNCHANGED <<body, undermined>>

-----------------------------------------------------------------------------
FallingNext ==
  \/ PhysicsTick({})
  \/ \E b \in There : PhysicsTick({b})
  \/ \E c \in solid : Destroy(c)
  \/ \E c \in 0..Top \ solid : Place(c)

FallingSpec == FallingInit /\ [][FallingNext]_FallingVars

-----------------------------------------------------------------------------
FallingTypeOK ==
  /\ solid \subseteq 0..Top
  /\ \A b \in Falling : /\ {body[b].born, body[b].high} \subseteq 0..Top
                        /\ body[b].y \in 0..Top * Scale
                        /\ body[b].rem \in 0..Hz - 1
                        /\ body[b].rest \in 0..SleepTicks
                        /\ (body[b].sleeping <=> body[b].rest = SleepTicks)
                        /\ body[b].sleeping => body[b].v = 0 /\ body[b].rem = 0

(* Bodies that are freed at rest, over and under each other and in any     *)
(* order, never overlap each other, whichever of them falls, bounces,      *)
(* sleeps or wakes.  One that sleeps is outside the cells of the world and *)
(* on something, and is awake as soon as that is not where it was; except  *)
(* that nothing wakes what sleeps on a cell that is destroyed (physics.rs: *)
(* step_rigid_body, resolve_vertical_body_contacts, propagate_waking,      *)
(* settle_on_dynamic_support).                                             *)
BodiesKeepApart ==
  \A a \in There :
    /\ \A b \in There \ {a} : body[a].y >= TopOf(body[b]) \/ body[b].y >= TopOf(body[a])
    /\ body[a].sleeping =>
         /\ \A c \in solid : body[a].y >= (c + 1) * Scale \/ TopOf(body[a]) <= c * Scale
         /\ \/ \E c \in solid : body[a].y = (c + 1) * Scale
            \/ \E s \in There \ {a} : RestsOn(body[a], body[s])
            \/ a \in undermined

(* The state can be installed: validate_snapshot compares the world with   *)
(* the cells that the body was made from, wherever it is now.              *)
SnapshotInstalls ==
  \A b \in There : \A c \in solid : ~(c >= body[b].born /\ c < body[b].born + body[b].high)
=============================================================================
