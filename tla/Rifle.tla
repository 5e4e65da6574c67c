------------------------------- MODULE Rifle --------------------------------
(***************************************************************************)
(* The rifle of a session (RifleState in src/ballistics.rs): a magazine, a *)
(* finite reserve, a cadence and a timed reload, all against the ticks of  *)
(* the authority's simulation.  A reload that has run its time takes       *)
(* effect only when the state is looked at (At).                           *)
(***************************************************************************)
EXTENDS Integers

CONSTANTS
  Magazine,      \* RIFLE_MAGAZINE
  Reserve,       \* RIFLE_RESERVE
  Cadence,       \* RIFLE_CADENCE_TICKS
  ReloadTicks    \* RIFLE_RELOAD_TICKS

ASSUME RifleAssumption ==
  {Magazine, Reserve, Cadence, ReloadTicks} \subseteq Nat \ {0}

NoReload == 0    \* reload_complete_tick = None: ticks begin at 1

Rifles ==
  [magazine: 0..Magazine, reserve: 0..Reserve, nextFire: Nat, reloaded: Nat]

NewRifle ==
  [magazine |-> Magazine, reserve |-> Reserve,
   nextFire |-> 0, reloaded |-> NoReload]

Reloads(r, tick) == r.reloaded # NoReload /\ tick < r.reloaded

Transferred(r) ==
  IF Magazine - r.magazine <= r.reserve THEN Magazine - r.magazine
  ELSE r.reserve

AtFullReserve(r, tick) ==
  IF r.reloaded = NoReload \/ tick < r.reloaded THEN r
  ELSE [r EXCEPT !.magazine = @ + Transferred(r), !.reloaded = NoReload]

At(r, tick) ==
  IF r.reloaded = NoReload \/ tick < r.reloaded THEN r
  ELSE [r EXCEPT !.magazine = @ + Transferred(r),
                 !.reserve = @ - Transferred(r),
                 !.reloaded = NoReload]

CanShoot(r, tick) ==
  /\ ~Reloads(r, tick)
  /\ tick >= r.nextFire
  /\ At(r, tick).magazine > 0

AfterShotUntimed(r, tick) ==
  [At(r, tick) EXCEPT !.magazine = @ - 1]

AfterShot(r, tick) ==
  [At(r, tick) EXCEPT !.magazine = @ - 1, !.nextFire = tick + Cadence]

CanReload(r, tick) ==
  /\ ~Reloads(r, tick)
  /\ At(r, tick).magazine < Magazine
  /\ At(r, tick).reserve > 0

AfterReload(r, tick) == [At(r, tick) EXCEPT !.reloaded = tick + ReloadTicks]
=============================================================================
