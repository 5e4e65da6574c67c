------------------------- MODULE AuthoritySessions --------------------------
(***************************************************************************)
(* Sessions and gameplay commands of one AuthorityCore (src/network.rs)    *)
(* behind the loopback adapter DedicatedServer: the handshake, the idle    *)
(* limit, spawn slots and the recovery of players, the queues that hold a  *)
(* session's work, and what the AuthoritativeServer (src/replication.rs)   *)
(* keeps per session: replay watermark, rifle, construction units.         *)
(*                                                                         *)
(* One tick prunes idle peers, ingests datagrams, serves queued recovery   *)
(* requests, steps the players and recovers those that are stuck, and      *)
(* executes queued commands.  A datagram is lost, repeated or delayed at   *)
(* will, since any datagram a client ever sends may arrive in any tick.    *)
(* What recovery requests do to a transfer is the matter of WorldStream;   *)
(* here they start and end transfers.                                      *)
(***************************************************************************)
EXTENDS Rifle, Queues, FiniteSetsExt

CONSTANTS
  Sources,             \* addresses datagrams come from
  Nonces,              \* of the processes that use an address in turn
  Commands,            \* the commands a client may send: id -> kind
  MaxPeers,            \* MAX_SERVER_PEERS, also the number of spawn slots
  MaxIdleTicks,        \* MAX_PEER_IDLE_TICKS
  DatagramsPerTick,    \* MAX_RECEIVED_DATAGRAMS_PER_TICK
  MaxQueuedCommands,   \* MAX_QUEUED_COMMANDS
  MaxQueuedRepairs,    \* MAX_QUEUED_REPAIRS
  CommandsPerTick,     \* MAX_SIMULATED_COMMANDS_PER_TICK
  RepairsPerTick,      \* MAX_REPAIRS_PER_TICK
  Units,               \* DEFAULT_CONSTRUCTION_UNITS
  Cost,                \* build_material_cost: material -> units
  MaxSessions,         \* bound: sessions granted
  MaxInput,            \* bound: last input a client sends
  MaxTick              \* bound: ticks

Placements == DOMAIN Cost
Kinds == {"rifle", "reload", "explosion"} \cup Placements

ASSUME SessionsAssumption ==
  /\ Cost \in [Placements -> Nat \ {0}]
  /\ Placements \cap {"rifle", "reload", "explosion"} = {}
  /\ Commands \in Seq(Kinds)
  /\ {MaxPeers, DatagramsPerTick, CommandsPerTick, RepairsPerTick} \subseteq Nat \ {0}
  /\ {MaxIdleTicks, MaxQueuedCommands, MaxQueuedRepairs} \subseteq Nat
  /\ {Units, MaxSessions, MaxInput, MaxTick} \subseteq Nat

VARIABLES
  tick,
  stage,         \* where the tick is
  served,        \* datagrams, then recovery requests, then commands of this tick
  peers,         \* by source; session 0 where there is none
  nextSession,   \* next_session_id
  players,       \* by session
  accounts,      \* by session: last_command_id, rifles, construction_units
  commands,      \* the queue of [session, id]
  repairs,       \* the queue of [source, session]
  transfers,     \* by source: the session a transfer was begun for, or 0
  blocked,       \* spawn slots the static world leaves no room in
  stuck,         \* sessions whose player waits for recovery in this tick
  applied        \* history, by session: the commands applied, in order

queues == <<commands, repairs, transfers>>
owned == <<peers, nextSession, players, accounts>>

vars == <<tick, stage, served, owned, queues, blocked, stuck, applied>>

Sessions == 1..MaxSessions
Slots == 1..MaxPeers

Peer == [nonce: Nonces, session: Sessions, seen: Nat, slot: Slots]
NoPeer == [session |-> 0]

Player == [alive: BOOLEAN, input: Nat]
NoPlayer == [alive |-> FALSE, input |-> 0]
NewPlayer == [alive |-> TRUE, input |-> 0]

Account == [last: Nat, rifle: Rifles, units: 0..Units]
NewAccount == [last |-> 0, rifle |-> NewRifle, units |-> Units]

Queued == [session: Sessions, id: DOMAIN Commands]
Requests == [source: Sources, session: Sessions]

Applied == [id: DOMAIN Commands, at: Nat]

-----------------------------------------------------------------------------
Present(source) == peers[source].session # 0

Speaks(source, session) == Present(source) /\ peers[source].session = session

(* remove_peer_state, for the sources in gone and their sessions.          *)
SessionsOf(gone) == {peers[p].session : p \in {q \in gone : Present(q)}}

PeersWithout(gone) == [p \in Sources |-> IF p \in gone THEN NoPeer ELSE peers[p]]

PlayersWithout(ended) ==
  [s \in Sessions |-> IF s \in ended THEN NoPlayer ELSE players[s]]

AccountsWithout(ended) ==
  [s \in Sessions |-> IF s \in ended THEN NewAccount ELSE accounts[s]]

CommandsKept(gone) == commands

CommandsWithout(gone) ==
  Kept(commands, [session: Sessions \ SessionsOf(gone), id: DOMAIN Commands])

RepairsWithout(gone) ==
  Kept(repairs, [source: Sources \ gone, session: Sessions \ SessionsOf(gone)])

DropWork(gone) ==
  /\ commands' = CommandsWithout(gone)
  /\ repairs' = RepairsWithout(gone)
  /\ transfers' = [p \in Sources |-> IF p \in gone THEN 0 ELSE transfers[p]]

AnyOpenSlots(except) == Slots \ blocked

(* available_player_spawn_slot and the search of recover_player: the first *)
(* slot with room that no peer but those in except owns.                   *)
OpenSlots(except) ==
  {k \in Slots \ blocked :
     \A p \in Sources \ except : Present(p) => peers[p].slot # k}

IsFirst(k, S) == k \in S /\ \A j \in S : k <= j

-----------------------------------------------------------------------------
Init ==
  /\ tick = 0
  /\ stage = "idle"
  /\ served = 0
  /\ peers = [p \in Sources |-> NoPeer]
  /\ nextSession = 1
  /\ players = [s \in Sessions |-> NoPlayer]
  /\ accounts = [s \in Sessions |-> NewAccount]
  /\ commands = <<>>
  /\ repairs = <<>>
  /\ transfers = [p \in Sources |-> 0]
  /\ blocked = {}
  /\ stuck = {}
  /\ applied = [s \in Sessions |-> <<>>]

(* begin_tick and prune_idle_peers                                         *)
Idle(now) == {p \in Sources : Present(p) /\ peers[p].seen + MaxIdleTicks < now}

BeginTick ==
  /\ stage = "idle" /\ tick < MaxTick
  /\ tick' = tick + 1
  /\ stage' = "ingest"
  /\ LET gone == Idle(tick + 1)
     IN /\ peers' = PeersWithout(gone)
        /\ players' = PlayersWithout(SessionsOf(gone))
        /\ accounts' = AccountsWithout(SessionsOf(gone))
        /\ DropWork(gone)
  /\ served' = 0
  /\ UNCHANGED <<nextSession, blocked, stuck, applied>>

-----------------------------------------------------------------------------
(* ingest_datagram: one beyond the limit of the tick is dropped, as is one *)
(* of a source or a session that is not known.                             *)

Ingests ==
  /\ stage = "ingest" /\ served < DatagramsPerTick
  /\ served' = served + 1
  /\ UNCHANGED <<tick, stage, blocked, stuck, applied>>

(* accept_hello of the process that is known: a repeated Hello.            *)
RenewHello(source, nonce) ==
  /\ Ingests
  /\ Present(source) /\ peers[source].nonce = nonce
  /\ peers' = [peers EXCEPT ![source].seen = tick]
  /\ UNCHANGED <<nextSession, players, accounts, queues>>

Full(source) == Cardinality({p \in Sources \ {source} : Present(p)}) >= MaxPeers

(* accept_hello of another process: the session of the old one ends, also  *)
(* where the new one finds no slot.                                        *)
RefuseHello(source, nonce) ==
  /\ Ingests
  /\ Present(source) => peers[source].nonce # nonce
  /\ Full(source) \/ OpenSlots({source}) = {}
  /\ peers' = PeersWithout({source})
  /\ players' = PlayersWithout(SessionsOf({source}))
  /\ accounts' = AccountsWithout(SessionsOf({source}))
  /\ DropWork({source})
  /\ UNCHANGED nextSession

AcceptHello(source, nonce) ==
  /\ Ingests
  /\ Present(source) => peers[source].nonce # nonce
  /\ nextSession \in Sessions
  /\ ~Full(source)
  /\ \E slot \in Slots :
       /\ IsFirst(slot, OpenSlots({source}))
       /\ peers' = [peers EXCEPT ![source] =
                      [nonce |-> nonce, session |-> nextSession,
                       seen |-> tick, slot |-> slot]]
  /\ players' = [PlayersWithout(SessionsOf({source}))
                   EXCEPT ![nextSession] = NewPlayer]
  /\ accounts' = AccountsWithout(SessionsOf({source}))
  /\ DropWork({source})
  /\ nextSession' = nextSession + 1

Seen(source) == [peers EXCEPT ![source].seen = tick]

(* accept_player_input: a sequence that is not newer is refused.           *)
ReceiveInput(source, session, sequence) ==
  /\ Ingests
  /\ Speaks(source, session)
  /\ peers' = Seen(source)
  /\ players' = IF sequence <= players[session].input THEN players
                ELSE [players EXCEPT ![session].input = sequence]
  /\ UNCHANGED <<nextSession, accounts, queues>>

(* enqueue_command and enqueue_recovery: a full queue drops.               *)
Enqueued(queue, item, bound) ==
  IF Len(queue) >= bound THEN queue ELSE Append(queue, item)

ReceiveCommand(source, session, id) ==
  /\ Ingests
  /\ Speaks(source, session)
  /\ peers' = Seen(source)
  /\ commands' =
       Enqueued(commands, [session |-> session, id |-> id], MaxQueuedCommands)
  /\ UNCHANGED <<nextSession, players, accounts, repairs, transfers>>

ReceiveRepair(source, session) ==
  /\ Ingests
  /\ Speaks(source, session)
  /\ peers' = Seen(source)
  /\ repairs' =
       Enqueued(repairs, [source |-> source, session |-> session],
                MaxQueuedRepairs)
  /\ UNCHANGED <<nextSession, players, accounts, commands, transfers>>

Ingest ==
  \E source \in Sources :
    \/ \E nonce \in Nonces : \/ RenewHello(source, nonce)
                             \/ RefuseHello(source, nonce)
                             \/ AcceptHello(source, nonce)
    \/ \E session \in Sessions :
         \/ \E sequence \in 1..MaxInput : ReceiveInput(source, session, sequence)
         \/ \E id \in DOMAIN Commands : ReceiveCommand(source, session, id)
         \/ ReceiveRepair(source, session)

-----------------------------------------------------------------------------
(* complete_tick                                                           *)

EndIngest ==
  /\ stage = "ingest"
  /\ stage' = "repairs"
  /\ served' = 0
  /\ UNCHANGED <<tick, owned, queues, blocked, stuck, applied>>

(* process_repairs: the request of a session that is gone is dropped, any  *)
(* other may begin a transfer for its peer.                                *)
ServeRepair ==
  /\ stage = "repairs"
  /\ repairs # <<>> /\ served < RepairsPerTick
  /\ served' = served + 1
  /\ repairs' = Tail(repairs)
  /\ LET r == Head(repairs)
     IN IF ~Speaks(r.source, r.session) THEN UNCHANGED transfers
        ELSE \E begun \in {transfers[r.source], r.session} :
               transfers' = [transfers EXCEPT ![r.source] = begun]
  /\ UNCHANGED <<tick, stage, owned, commands, blocked, stuck, applied>>

Live == {s \in Sessions : players[s].alive}

(* service_snapshot_transfers completes some transfers; simulate_players:  *)
(* the step of some players fails, in whatever geometry they are.          *)
StepPlayers ==
  /\ stage = "repairs"
  /\ repairs = <<>> \/ served = RepairsPerTick
  /\ stuck' \in SUBSET Live
  /\ \E done \in SUBSET Sources :
       transfers' = [p \in Sources |-> IF p \in done THEN 0 ELSE transfers[p]]
  /\ stage' = "players"
  /\ UNCHANGED <<tick, served, owned, commands, repairs, blocked, applied>>

(* recover_player, in the order of the sessions: the player begins again   *)
(* at the first slot that has room and no other owner, and keeps the       *)
(* sequence of its last input.                                             *)
RecoveredFresh(player) == NewPlayer

Recovered(player) == [NewPlayer EXCEPT !.input = player.input]

Recover(session) ==
  LET owners == {p \in Sources : Speaks(p, session)}
  IN /\ stage = "players"
     /\ IsFirst(session, stuck)
     /\ stuck' = stuck \ {session}
     /\ IF OpenSlots(owners) = {} THEN UNCHANGED <<peers, players>>
        ELSE \E slot \in Slots :
               /\ IsFirst(slot, OpenSlots(owners))
               /\ peers' = [p \in Sources |->
                              IF p \in owners THEN [peers[p] EXCEPT !.slot = slot]
                              ELSE peers[p]]
               /\ players' = [players EXCEPT ![session] = Recovered(@)]
     /\ UNCHANGED <<tick, stage, served, nextSession, accounts, queues, blocked,
                    applied>>

EndPlayers ==
  /\ stage = "players" /\ stuck = {}
  /\ stage' = "commands"
  /\ served' = 0
  /\ UNCHANGED <<tick, owned, queues, blocked, stuck, applied>>

(* simulate_commands, and what the AuthoritativeServer does with each kind *)
(* of command.                                                             *)
FreshUnlessOlder(session, id) == id >= accounts[session].last

Fresh(session, id) == id > accounts[session].last

Allowed(session, id) ==
  LET account == accounts[session]
      kind == Commands[id]
  IN /\ kind = "rifle" => CanShoot(account.rifle, tick)
     /\ kind = "reload" => CanReload(account.rifle, tick)
     /\ kind \in Placements => account.units >= Cost[kind]

Charged(account, id) ==
  LET kind == Commands[id]
  IN [last |-> id,
      rifle |-> CASE kind = "rifle" -> AfterShot(account.rifle, tick)
                  [] kind = "reload" -> AfterReload(account.rifle, tick)
                  [] OTHER -> account.rifle,
      units |-> IF kind \in Placements THEN account.units - Cost[kind]
                ELSE account.units]

(* Damage may clear a slot, a placement may fill one.                      *)
Reshaped(kind) ==
  CASE kind \in Placements -> {b \in SUBSET Slots : blocked \subseteq b}
    [] kind = "reload" -> {blocked}
    [] OTHER -> SUBSET blocked

Takes(session, id) ==
  /\ stage = "commands"
  /\ commands # <<>> /\ served < CommandsPerTick
  /\ Head(commands) = [session |-> session, id |-> id]
  /\ served' = served + 1
  /\ commands' = Tail(commands)
  /\ UNCHANGED <<tick, stage, peers, nextSession, players, repairs, transfers,
                 stuck>>

Apply(session, id) ==
  /\ Takes(session, id)
  /\ players[session].alive
  /\ Fresh(session, id)
  /\ Allowed(session, id)
  /\ accounts' = [accounts EXCEPT ![session] = Charged(@, id)]
  /\ applied' = [applied EXCEPT ![session] =
                   Append(@, [id |-> id, at |-> tick])]
  /\ blocked' \in Reshaped(Commands[id])

(* A command is refused without a trace: it is stale, not allowed, or the  *)
(* world's transaction fails and is rolled back.  A reload has none.       *)
Reject(session, id) ==
  /\ Takes(session, id)
  /\ \/ ~players[session].alive
     \/ ~Fresh(session, id)
     \/ ~Allowed(session, id)
     \/ Commands[id] # "reload"
  /\ UNCHANGED <<accounts, blocked, applied>>

(* The structural runtime may still make room.                             *)
EndTick ==
  /\ stage = "commands"
  /\ commands = <<>> \/ served = CommandsPerTick
  /\ stage' = "idle"
  /\ served' = 0
  /\ blocked' \in SUBSET blocked
  /\ UNCHANGED <<tick, owned, queues, stuck, applied>>

Next ==
  \/ BeginTick \/ Ingest \/ EndIngest
  \/ ServeRepair \/ StepPlayers \/ (\E session \in Sessions : Recover(session))
  \/ EndPlayers
  \/ \E session \in Sessions, id \in DOMAIN Commands :
       Apply(session, id) \/ Reject(session, id)
  \/ EndTick

Spec == Init /\ [][Next]_vars

-----------------------------------------------------------------------------
TypeOK ==
  /\ tick \in 0..MaxTick
  /\ stage \in {"idle", "ingest", "repairs", "players", "commands"}
  /\ served \in Nat
  /\ peers \in [Sources -> Peer \cup {NoPeer}]
  /\ nextSession \in 1..MaxSessions + 1
  /\ players \in [Sessions -> Player]
  /\ accounts \in [Sessions -> Account]
  /\ commands \in Seq(Queued)
  /\ Len(commands) <= MaxQueuedCommands
  /\ repairs \in Seq(Requests)
  /\ Len(repairs) <= MaxQueuedRepairs
  /\ transfers \in [Sources -> 0..MaxSessions]
  /\ blocked \subseteq Slots
  /\ stuck \subseteq Sessions
  /\ applied \in [Sessions -> Seq(Applied)]

(* Whatever the order of handshakes, replacements, expiries and recoveries *)
(* no two peers share a session or a spawn slot, and exactly the sessions  *)
(* of the peers have a player (network.rs: accept_hello, prune_idle_peers, *)
(* recover_player).                                                        *)
OneOwnerEach ==
  /\ \A p, q \in Sources :
       Present(p) /\ Present(q) /\ p # q =>
         peers[p].session # peers[q].session /\ peers[p].slot # peers[q].slot
  /\ Live = SessionsOf(Sources)

(* A session that was replaced or expired leaves no work behind: what is   *)
(* queued belongs to the present session of its peer, so that nothing acts *)
(* on the session that comes after it, and its accounts start afresh       *)
(* (network.rs: remove_peer_state, prune_idle_peers).                      *)
QueuedWorkHasOwner ==
  /\ \A i \in DOMAIN commands : commands[i].session \in Live
  /\ \A i \in DOMAIN repairs : Speaks(repairs[i].source, repairs[i].session)
  /\ \A p \in Sources : transfers[p] # 0 => Speaks(p, transfers[p])
  /\ \A s \in Sessions \ Live : accounts[s] = NewAccount

(* However datagrams are repeated, reordered or delayed, over the end of   *)
(* the session too, each command of a session is applied at most once and  *)
(* never after a later one (replication.rs: validate_fresh_command).       *)
CommandsInOrder ==
  \A s \in Sessions : \A i, j \in DOMAIN applied[s] :
    i < j => applied[s][i].id < applied[s][j].id

KindOf(s, i) == Commands[applied[s][i].id]

Shots(s) == Cardinality({i \in DOMAIN applied[s] : KindOf(s, i) = "rifle"})

(* Every round is in the magazine, in the reserve or was fired by a        *)
(* command that was applied (replication/rifle.rs: execute_rifle).         *)
RoundsAccounted ==
  \A s \in Live :
    accounts[s].rifle.magazine + accounts[s].rifle.reserve + Shots(s)
      = Magazine + Reserve

(* Shots of a session keep the cadence, and none falls into a reload, nor  *)
(* a reload into another (ballistics.rs: after_shot, after_reload).        *)
CadenceKept ==
  \A s \in Sessions : \A i, j \in DOMAIN applied[s] :
    LET apart == applied[s][j].at - applied[s][i].at
    IN i < j =>
         /\ KindOf(s, i) = "rifle" /\ KindOf(s, j) = "rifle" => apart >= Cadence
         /\ KindOf(s, i) = "reload" /\ KindOf(s, j) \in {"rifle", "reload"} =>
              apart >= ReloadTicks

(* What a session has been told was received is never taken back while it  *)
(* lives, also when its player is put to another place: neither its last   *)
(* command nor its last input (network.rs: recover_player; the client      *)
(* ends on "weapon acknowledgement regressed").                            *)
NothingTakenBack ==
  \A s \in Live \cap Live' : /\ players'[s].input >= players[s].input
                            /\ accounts'[s].last >= accounts[s].last

AcknowledgementsStay == [][NothingTakenBack]_vars
=============================================================================
