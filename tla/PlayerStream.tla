---------------------------- MODULE PlayerStream ----------------------------
(***************************************************************************)
(* Character motion between the authority and one graphical client.        *)
(*   authority  AuthoritativePlayer (src/character.rs), with simulate_     *)
(*              players, recover_player and broadcast_player_states of     *)
(*              src/network.rs                                             *)
(*   client     ClientPrediction (src/prediction.rs), PlayerInterpolation- *)
(*              Buffer (src/player_replication.rs), and fixed_tick,        *)
(*              receive_player_state and receive_snapshot of               *)
(*              bin/multiplayer_demo.rs                                    *)
(*   network    inputs and states are lost, duplicated and reordered       *)
(*                                                                         *)
(* A character stands on a cell of a line and moves by one cell a tick; a  *)
(* world is its solid cells, one at most.  The other player moves by the   *)
(* same distance every tick, and comes and goes.                           *)
(***************************************************************************)
EXTENDS Integers, Sequences, FiniteSets

CONSTANTS
  Cells,             \* where a character can stand
  Spawns,            \* declared spawn slots
  Hold,              \* MAX_PLAYER_INPUT_HOLD_TICKS
  Broadcast,         \* PLAYER_STATE_BROADCAST_INTERVAL_TICKS
  MaxPending,        \* MAX_PENDING_PREDICTED_INPUTS
  MaxViews,          \* MAX_PLAYER_INTERPOLATION_PACKETS
  Subticks,          \* parts of a tick that a sample can ask for (1000)
  MaxPlayerTick,     \* bounds of the ticks, the inputs,
  MaxInput,
  MaxWorlds,         \* the worlds there will have been
  MaxVisits          \* and the comings and goings of the other player

ASSUME PlayerAssumption ==
  /\ Cells \subseteq Int /\ Spawns \subseteq Cells /\ Spawns # {}
  /\ {Hold, Broadcast, MaxPending, MaxViews, Subticks} \subseteq Nat \ {0}
  /\ {MaxPlayerTick, MaxInput, MaxWorlds, MaxVisits} \subseteq Nat

VARIABLES
  playerTick,
  worlds,            \* the authority's worlds so far, the last is current
  player,            \* the authority's player
  other,             \* whether the other player is there, and its visits
  inputs, states,    \* datagrams that were sent; any may arrive at any time
  known,             \* how many of the worlds the client has followed
  synchronised,      \* whether the client has a world: SnapshotPhase::Ready
  fresh,             \* latest_state_received_at.is_some()
  prediction,        \* ClientPrediction, once there is one
  nextInput,         \* next_input_sequence
  views,             \* PlayerInterpolationBuffer
  failure            \* the error that ended the client

authority == <<playerTick, worlds, player, other>>
PlayerVars == <<authority, inputs, states, known, synchronised, fresh,
                prediction, nextInput, views, failure>>

WorldStates == {{}} \cup {{c} : c \in Cells}

Moves == {-1, 0, 1}
Still == 0
States == [cell: Cells, last: 0..MaxInput]
Players == [state: States, held: Moves, age: 0..Hold]

(* AuthoritativePlayer::new and restore_authoritative_state hold nothing.  *)
Standing(state) == [state |-> state, held |-> Still, age |-> Hold]

-----------------------------------------------------------------------------
(* AuthoritativePlayer                                                     *)

(* accept_input retains the newest input.                                  *)
Accepts(p, sequence) == sequence > p.state.last

Accept(p, input) ==
  [state |-> [p.state EXCEPT !.last = input.sequence],
   held |-> input.move, age |-> 0]

(* A step fails, and changes nothing, in a world that covers the player.   *)
Overlaps(p, world) == p.state.cell \in world

Target(p) == p.state.cell + (IF p.age < Hold THEN p.held ELSE Still)

Step(p, world) ==
  [state |-> [p.state EXCEPT !.cell = IF Target(p) \in Cells \ world
                                      THEN Target(p) ELSE @],
   held |-> p.held,
   age |-> IF p.age < Hold THEN p.age + 1 ELSE Hold]

Current == worlds[Len(worlds)]

(* Ticks of the server are not zero.                                       *)
NoPrediction == [player |-> Standing([cell |-> CHOOSE c \in Spawns : TRUE, last |-> 0]),
                 pending |-> <<>>, tick |-> 0, acknowledged |-> 0, produced |-> 0]
Predicting == prediction.tick # 0

-----------------------------------------------------------------------------
PlayerInit ==
  /\ playerTick = 0
  /\ worlds = <<{}>>
  /\ player \in {Standing([cell |-> c, last |-> 0]) : c \in Spawns}
  /\ other = [here |-> FALSE, visits |-> 0]
  /\ inputs = {}
  /\ states = {}
  /\ known = 1
  /\ synchronised = TRUE
  /\ fresh = FALSE
  /\ prediction = NoPrediction
  /\ nextInput = 1
  /\ views = <<>>
  /\ failure = "none"

-----------------------------------------------------------------------------
(* The authority                                                           *)

ClientAndNetwork == UNCHANGED <<inputs, states, known, synchronised, fresh,
                                prediction, nextInput, views, failure>>

AcceptPlayerInput(input) ==
  /\ Accepts(player, input.sequence)
  /\ player' = Accept(player, input)
  /\ UNCHANGED <<playerTick, worlds, other>> /\ ClientAndNetwork

(* Somebody builds, or breaks what was built.                              *)
ChangeWorld ==
  /\ Len(worlds) < MaxWorlds
  /\ \E world \in WorldStates \ {Current} : worlds' = Append(worlds, world)
  /\ UNCHANGED <<playerTick, player, other>> /\ ClientAndNetwork

ComeOrGo ==
  /\ other.visits < MaxVisits
  /\ other' = [here |-> ~other.here, visits |-> other.visits + 1]
  /\ UNCHANGED <<playerTick, worlds, player>> /\ ClientAndNetwork

(* recover_player: a clear spawn slot, else the player waits.  What the    *)
(* player had accepted stays accepted.                                     *)
ForgetfulRecovered(p, c) == Standing([cell |-> c, last |-> 0])

Recovered(p, c) == Standing([cell |-> c, last |-> p.state.last])

Clear(world) == Spawns \ world

AfterStep(p) ==
  CASE ~Overlaps(p, Current) -> {Step(p, Current)}
    [] Overlaps(p, Current) /\ Clear(Current) # {} ->
         {Recovered(p, c) : c \in Clear(Current)}
    [] OTHER -> {p}

View == [tick |-> playerTick', own |-> player'.state, other |-> other.here]

(* simulate_players and broadcast_player_states                            *)
SimulateAndBroadcast ==
  /\ playerTick < MaxPlayerTick
  /\ playerTick' = playerTick + 1
  /\ player' \in AfterStep(player)
  /\ states' = IF playerTick' % Broadcast = 0 THEN states \cup {View} ELSE states
  /\ UNCHANGED <<worlds, other, inputs, known, synchronised, fresh, prediction,
                 nextInput, views, failure>>

-----------------------------------------------------------------------------
(* The client                                                              *)

AuthorityOnly == UNCHANGED <<authority, states>>

Running == failure = "none"
ClientWorld == worlds[known]

(* Deltas arrive in their order; a snapshot is of some world since.        *)
FollowWorld ==
  /\ Running /\ synchronised /\ known < Len(worlds)
  /\ known' = known + 1
  /\ UNCHANGED <<inputs, synchronised, fresh, prediction, nextInput, views, failure>>
  /\ AuthorityOnly

(* request_snapshot                                                        *)
RequestSnapshot ==
  /\ Running /\ synchronised
  /\ synchronised' = FALSE
  /\ UNCHANGED <<inputs, known, fresh, prediction, nextInput, views, failure>>
  /\ AuthorityOnly

(* receive_snapshot keeps the inputs in flight and their numbers.          *)
InstallSnapshot ==
  /\ Running /\ ~synchronised
  /\ known' \in known..Len(worlds)
  /\ synchronised' = TRUE
  /\ views' = <<>>
  /\ fresh' = FALSE
  /\ UNCHANGED <<inputs, prediction, nextInput, failure>> /\ AuthorityOnly

(* predict, in fixed_tick: a player inside a wall waits for a correction.  *)
Produced == prediction.produced

Predict(input) ==
  /\ Running /\ synchronised /\ fresh /\ Predicting
  /\ input = [sequence |-> nextInput, move |-> input.move]
  /\ IF nextInput # Produced + 1
     THEN failure' = "sequence" /\ UNCHANGED <<inputs, prediction, nextInput>>
     ELSE IF Len(prediction.pending) >= MaxPending
     THEN failure' = "limit" /\ UNCHANGED <<inputs, prediction, nextInput>>
     ELSE /\ ~Overlaps(prediction.player, ClientWorld)
          /\ prediction' = [prediction EXCEPT
                              !.player = Step(Accept(@, input), ClientWorld),
                              !.pending = Append(@, input),
                              !.produced = nextInput]
          /\ inputs' = inputs \cup {input}
          /\ nextInput' = nextInput + 1
          /\ UNCHANGED failure
  /\ UNCHANGED <<known, synchronised, fresh, views>> /\ AuthorityOnly

(* PlayerInterpolationBuffer::push                                         *)
Newer(view) == views # <<>> => view.tick > views[Len(views)].tick

Pushed(view) ==
  Append(IF Len(views) = MaxViews THEN Tail(views) ELSE views, view)

(* reconcile                                                               *)
FromState(view) ==
  [player |-> Standing(view.own), pending |-> <<>>, tick |-> view.tick,
   acknowledged |-> view.own.last, produced |-> view.own.last]

Unacknowledged(view) ==
  SelectSeq(prediction.pending, LAMBDA input : input.sequence > view.own.last)

(* Replay[n]: the player after the first n unacknowledged inputs.          *)
Replays(view) ==
  LET left == Unacknowledged(view)
      replay[n \in 0..Len(left)] ==
        IF n = 0 THEN Standing(view.own)
        ELSE Step(Accept(replay[n - 1], left[n]), ClientWorld)
  IN  replay

Blocked(view) ==
  \E n \in DOMAIN Replays(view) \ {Len(Unacknowledged(view))} :
    Overlaps(Replays(view)[n], ClientWorld)

Refusal(view) ==
  CASE view.own.last < prediction.acknowledged -> "stale acknowledgement"
    [] view.own.last > prediction.produced -> "unknown acknowledgement"
    [] OTHER -> "none"

Reconcile(view) ==
  /\ Predicting /\ view.tick > prediction.tick
  /\ failure' = Refusal(view)
  /\ IF Refusal(view) # "none" \/ Blocked(view)
     THEN UNCHANGED <<prediction, fresh>>
     ELSE /\ prediction' =
               [player |-> Replays(view)[Len(Unacknowledged(view))],
                pending |-> Unacknowledged(view), tick |-> view.tick,
                acknowledged |-> view.own.last, produced |-> prediction.produced]
          /\ fresh' = TRUE
  /\ UNCHANGED nextInput

(* receive_player_state drops what comes while there is no world; a view   *)
(* that is not newer than the last one, or than the last one reconciled,   *)
(* changes nothing further.                                                *)
ReceiveState(view) ==
  /\ Running /\ synchronised /\ Newer(view)
  /\ views' = Pushed(view)
  /\ \/ Reconcile(view)
     \/ /\ Predicting /\ view.tick <= prediction.tick
        /\ UNCHANGED <<prediction, fresh, nextInput, failure>>
     \/ /\ ~Predicting
        /\ prediction' = FromState(view)
        /\ nextInput' = view.own.last + 1
        /\ fresh' = TRUE
        /\ UNCHANGED failure
  /\ UNCHANGED <<inputs, known, synchronised>> /\ AuthorityOnly

-----------------------------------------------------------------------------
PlayerNext ==
  \/ \E input \in inputs : AcceptPlayerInput(input)
  \/ ChangeWorld \/ ComeOrGo \/ SimulateAndBroadcast
  \/ FollowWorld \/ RequestSnapshot \/ InstallSnapshot
  \/ nextInput <= MaxInput /\
       \E move \in Moves : Predict([sequence |-> nextInput, move |-> move])
  \/ \E view \in states : ReceiveState(view)

PlayerSpec == PlayerInit /\ [][PlayerNext]_PlayerVars

-----------------------------------------------------------------------------
(* PlayerInterpolationBuffer::sample, at a time in subticks                *)

At(view) == view.tick * Subticks

(* Where the other player of a view is, in subticks of its way.            *)
Between(older, newer, time) ==
  At(older) + ((At(newer) - At(older)) * (time - At(older)))
                 \div (At(newer) - At(older))

Clamped(view) == [from |-> view.tick, to |-> view.tick, here |-> view.other,
                  place |-> At(view)]

InterpolatedEarly(older, newer, time) ==
  [from |-> older.tick, to |-> newer.tick, here |-> newer.other,
   place |-> IF newer.other THEN Between(older, newer, time) ELSE At(older)]

Interpolated(older, newer, time) ==
  [from |-> older.tick, to |-> newer.tick,
   here |-> IF time >= At(newer) THEN newer.other ELSE older.other,
   place |-> IF time >= At(newer) THEN At(newer)
             ELSE IF newer.other THEN Between(older, newer, time) ELSE At(older)]

Holds(i, time) == time <= At(views[i + 1]) /\ time \div Subticks >= views[i].tick

Sample(time) ==
  LET first == views[1]
      last == views[Len(views)]
      pair == CHOOSE i \in 1..Len(views) - 1 :
                Holds(i, time) /\ \A j \in 1..i - 1 : ~Holds(j, time)
  IN  IF time <= At(first) THEN Clamped(first)
      ELSE IF time \div Subticks >= last.tick THEN Clamped(last)
      ELSE Interpolated(views[pair], views[pair + 1], time)

-----------------------------------------------------------------------------
PlayerTypeOK ==
  /\ playerTick \in 0..MaxPlayerTick
  /\ worlds \in Seq(WorldStates) /\ known \in 1..Len(worlds)
  /\ player \in Players
  /\ inputs \subseteq [sequence: 1..MaxInput, move: Moves]
  /\ synchronised \in BOOLEAN /\ fresh \in BOOLEAN
  /\ nextInput \in 1..MaxInput + 1
  /\ Len(views) <= MaxViews
  /\ Predicting =>
       /\ prediction.player \in Players
       /\ Len(prediction.pending) <= MaxPending

(* However states are lost, duplicated or reordered around worlds that     *)
(* change, snapshots and recoveries, the client never takes a state of its *)
(* authority for an impossible one, nor numbers an input twice: only the   *)
(* limit of its pending inputs ends it (prediction.rs: reconcile, predict; *)
(* multiplayer_demo.rs: receive_player_state, fixed_tick).                 *)
OnlyTheLimitEnds == failure \in {"none", "limit"}
=============================================================================
