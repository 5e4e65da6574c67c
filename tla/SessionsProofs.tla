-------------------------- MODULE SessionsProofs ---------------------------
(***************************************************************************)
(* Proofs about the sessions and commands of one AuthorityCore, for every  *)
(* number of addresses, sessions, slots and commands and every value of    *)
(* the limits.                                                             *)
(*                                                                         *)
(* OwnersInv says who owns sessions, slots and players; CommandsInv says   *)
(* what the accounts of a session owe to the commands applied for it, and  *)
(* needs OwnersInv, because accounts are given up with their session and   *)
(* must not be found afresh under a session that goes on.                  *)
(***************************************************************************)
EXTENDS AuthoritySessions, QueueProofs, FiniteSetTheorems

OwnerTypes ==
  /\ tick \in Nat
  /\ peers \in [Sources -> Peer \cup {NoPeer}]
  /\ nextSession \in 1..MaxSessions + 1
  /\ players \in [Sessions -> Player]

(* Session numbers are not granted again.                                  *)
GrantedInOrder ==
  \A p \in Sources : Present(p) => peers[p].session < nextSession

(* Recovery is not owed to a session that ended.                           *)
StuckAreLive ==
  /\ stuck \subseteq Live
  /\ stage # "players" => stuck = {}

OwnersInv ==
  /\ OwnerTypes
  /\ OneOwnerEach
  /\ GrantedInOrder
  /\ StuckAreLive

-----------------------------------------------------------------------------
LEMMA Bounds ==
  /\ MaxSessions \in Nat /\ MaxPeers \in Nat /\ MaxIdleTicks \in Nat
  /\ Sessions \subseteq Nat \ {0} /\ Slots \subseteq Nat
  BY SessionsAssumption DEF Sessions, Slots

(* A present peer has a session and a slot.                                *)
LEMMA OwnerOf ==
  ASSUME OwnerTypes, NEW p \in Sources
  PROVE  /\ Present(p) => peers[p] \in Peer
         /\ Present(p) => peers[p].session \in Sessions /\ peers[p].slot \in Slots
         /\ ~Present(p) => peers[p] = NoPeer
  BY Bounds DEF OwnerTypes, Peer, NoPeer, Present

LEMMA LiveOwned ==
  ASSUME OneOwnerEach, NEW s \in Sessions
  PROVE  players[s].alive <=> \E p \in Sources : Present(p) /\ peers[p].session = s
  BY DEF OneOwnerEach, Live, SessionsOf

LEMMA OwnersStart == Init => OwnersInv
  <1> SUFFICES ASSUME Init PROVE OwnersInv
    OBVIOUS
  <1>1. \A p \in Sources : ~Present(p)
    BY DEF Init, Present, NoPeer
  <1>2. OwnerTypes
    BY Bounds DEF Init, OwnerTypes, NoPlayer, Player
  <1>3. Live = {} /\ SessionsOf(Sources) = {}
    BY <1>1 DEF Init, Live, SessionsOf, NoPlayer
  <1> QED
    BY <1>1, <1>2, <1>3 DEF OwnersInv, OneOwnerEach, GrantedInOrder, StuckAreLive, Init

(* Peers end together with their sessions.                                 *)
LEMMA EndingPeers ==
  ASSUME OwnersInv, NEW gone \in SUBSET Sources, tick' \in Nat,
         peers' = PeersWithout(gone),
         players' = PlayersWithout(SessionsOf(gone)),
         nextSession' = nextSession
  PROVE  OwnerTypes' /\ OneOwnerEach' /\ GrantedInOrder'
  <1>1. \A p \in Sources : /\ Present(p)' <=> Present(p) /\ p \notin gone
                           /\ Present(p)' => peers'[p] = peers[p]
    BY DEF PeersWithout, Present, NoPeer
  <1>2. \A s \in Sessions :
          players'[s].alive <=> players[s].alive /\ s \notin SessionsOf(gone)
    BY DEF OwnersInv, OwnerTypes, PlayersWithout, NoPlayer
  <1>3. OwnerTypes'
    <2>1. peers' \in [Sources -> Peer \cup {NoPeer}]
      BY DEF OwnersInv, OwnerTypes, PeersWithout
    <2>2. players' \in [Sessions -> Player]
      BY DEF OwnersInv, OwnerTypes, PlayersWithout, NoPlayer, Player
    <2> QED
      BY <2>1, <2>2 DEF OwnersInv, OwnerTypes
  <1>4. \A p, q \in Sources :
          Present(p)' /\ Present(q)' /\ p # q =>
            peers'[p].session # peers'[q].session /\ peers'[p].slot # peers'[q].slot
    BY <1>1 DEF OwnersInv, OneOwnerEach
  <1>5. GrantedInOrder'
    BY <1>1 DEF OwnersInv, GrantedInOrder
  <1>6. Live' = SessionsOf(Sources)'
    <2>1. ASSUME NEW s \in Sessions
          PROVE  players'[s].alive <=>
                   \E p \in Sources : Present(p)' /\ peers'[p].session = s
      <3>1. players[s].alive <=> \E p \in Sources : Present(p) /\ peers[p].session = s
        BY LiveOwned DEF OwnersInv
      <3>2. s \in SessionsOf(gone) <=>
              \E p \in gone : Present(p) /\ peers[p].session = s
        BY DEF SessionsOf
      <3>3. \A p, q \in Sources :
              Present(p) /\ Present(q) /\ peers[p].session = peers[q].session => p = q
        BY DEF OwnersInv, OneOwnerEach
      <3> QED
        BY <1>1, <1>2, <3>1, <3>2, <3>3
    <2>2. \A p \in Sources : Present(p)' => peers'[p].session \in Sessions
      BY <1>1, OwnerOf DEF OwnersInv
    <2> QED
      BY <2>1, <2>2 DEF Live, SessionsOf
  <1> QED
    BY <1>3, <1>4, <1>5, <1>6 DEF OneOwnerEach

(* One peer is renewed or given a slot nobody else has; players stay.      *)
LEMMA KeptSessions ==
  ASSUME OwnersInv, tick' \in Nat, nextSession' = nextSession,
         peers' \in [Sources -> Peer \cup {NoPeer}],
         \A p \in Sources : peers'[p].session = peers[p].session,
         \A p, q \in Sources : Present(p) /\ Present(q) /\ p # q =>
                                 peers'[p].slot # peers'[q].slot,
         players' \in [Sessions -> Player],
         \A s \in Sessions : players'[s].alive = players[s].alive
  PROVE  OwnerTypes' /\ OneOwnerEach' /\ GrantedInOrder'
  <1>1. \A p \in Sources : Present(p)' <=> Present(p)
    BY DEF Present
  <1>2. Live' = Live
    BY DEF Live
  <1>3. SessionsOf(Sources)' = SessionsOf(Sources)
    BY <1>1 DEF SessionsOf
  <1> QED
    BY <1>1, <1>2, <1>3 DEF OwnersInv, OwnerTypes, OneOwnerEach, GrantedInOrder

-----------------------------------------------------------------------------
LEMMA OwnersBeginTick ==
  ASSUME OwnersInv, BeginTick
  PROVE  OwnersInv'
  <1>1. /\ stage = "idle" /\ stage' = "ingest" /\ tick' = tick + 1
        /\ peers' = PeersWithout(Idle(tick + 1))
        /\ players' = PlayersWithout(SessionsOf(Idle(tick + 1)))
        /\ nextSession' = nextSession /\ stuck' = stuck
    BY DEF BeginTick
  <1>2. tick' \in Nat /\ Idle(tick + 1) \in SUBSET Sources
    BY <1>1 DEF OwnersInv, OwnerTypes, Idle
  <1>3. OwnerTypes' /\ OneOwnerEach' /\ GrantedInOrder'
    BY <1>1, <1>2, EndingPeers
  <1>4. StuckAreLive'
    BY <1>1 DEF OwnersInv, StuckAreLive
  <1> QED
    BY <1>3, <1>4 DEF OwnersInv

LEMMA OwnersRenewed ==
  ASSUME OwnersInv, NEW source \in Sources, Present(source),
         Ingests, peers' = Seen(source), nextSession' = nextSession,
         players' \in [Sessions -> Player],
         \A s \in Sessions : players'[s].alive = players[s].alive
  PROVE  OwnersInv'
  <1>1. /\ tick' = tick /\ stage' = stage /\ stuck' = stuck
    BY DEF Ingests
  <1>2. peers[source] \in Peer /\ tick \in Nat
    BY OwnerOf DEF OwnersInv, OwnerTypes
  <1>3. [peers[source] EXCEPT !.seen = tick] \in Peer
    BY <1>2 DEF Peer
  <1>4. peers' \in [Sources -> Peer \cup {NoPeer}]
    BY <1>3 DEF Seen, OwnersInv, OwnerTypes
  <1>5. \A p \in Sources : p # source => peers'[p] = peers[p]
    BY DEF Seen, OwnersInv, OwnerTypes
  <1>6. peers'[source] = [peers[source] EXCEPT !.seen = tick]
    BY DEF Seen, OwnersInv, OwnerTypes
  <1>7. /\ peers'[source].session = peers[source].session
        /\ peers'[source].slot = peers[source].slot
    BY <1>2, <1>6 DEF Peer
  <1>8. OwnerTypes' /\ OneOwnerEach' /\ GrantedInOrder'
    <2>1. \A p \in Sources : peers'[p].session = peers[p].session
      BY <1>5, <1>7
    <2>2. \A p, q \in Sources : Present(p) /\ Present(q) /\ p # q =>
                                  peers'[p].slot # peers'[q].slot
      BY <1>5, <1>7 DEF OwnersInv, OneOwnerEach
    <2> QED
      BY <1>1, <1>2, <1>4, <2>1, <2>2, KeptSessions
  <1>9. Live' = Live
    BY DEF Live
  <1> QED
    BY <1>1, <1>8, <1>9 DEF OwnersInv, StuckAreLive

LEMMA OwnersRefuseHello ==
  ASSUME OwnersInv, NEW source \in Sources, NEW nonce \in Nonces,
         RefuseHello(source, nonce)
  PROVE  OwnersInv'
  <1>1. /\ stage' = stage /\ stage = "ingest" /\ tick' = tick /\ stuck' = stuck
        /\ peers' = PeersWithout({source})
        /\ players' = PlayersWithout(SessionsOf({source}))
        /\ nextSession' = nextSession
    BY DEF RefuseHello, Ingests
  <1>2. tick' \in Nat
    BY <1>1 DEF OwnersInv, OwnerTypes
  <1>3. OwnerTypes' /\ OneOwnerEach' /\ GrantedInOrder'
    BY <1>1, <1>2, EndingPeers
  <1>4. StuckAreLive'
    BY <1>1 DEF OwnersInv, StuckAreLive
  <1> QED
    BY <1>3, <1>4 DEF OwnersInv

LEMMA OwnersAcceptHello ==
  ASSUME OwnersInv, NEW source \in Sources, NEW nonce \in Nonces,
         AcceptHello(source, nonce)
  PROVE  OwnersInv'
  <1>1. /\ stage' = stage /\ stage = "ingest" /\ tick' = tick /\ stuck' = stuck
        /\ players' = [PlayersWithout(SessionsOf({source}))
                         EXCEPT ![nextSession] = NewPlayer]
        /\ nextSession' = nextSession + 1
        /\ nextSession \in Sessions
    BY DEF AcceptHello, Ingests
  <1>2. PICK slot \in Slots :
          /\ IsFirst(slot, OpenSlots({source}))
          /\ peers' = [peers EXCEPT ![source] =
                         [nonce |-> nonce, session |-> nextSession,
                          seen |-> tick, slot |-> slot]]
    BY DEF AcceptHello
  <1> DEFINE new == [nonce |-> nonce, session |-> nextSession,
                     seen |-> tick, slot |-> slot]
  <1>3. new \in Peer /\ new.session = nextSession /\ new.slot = slot
    BY <1>1 DEF OwnersInv, OwnerTypes, Peer
  <1>4. /\ peers'[source] = new
        /\ \A p \in Sources : p # source => peers'[p] = peers[p]
    BY <1>2 DEF OwnersInv, OwnerTypes
  <1>5. /\ Present(source)'
        /\ \A p \in Sources : p # source => (Present(p)' <=> Present(p))
    BY <1>1, <1>3, <1>4, Bounds DEF Present
  <1>6. \A p \in Sources : p # source /\ Present(p) =>
          /\ peers[p].slot # slot
          /\ peers[p].session # nextSession
    BY <1>1, <1>2, Bounds, OwnerOf DEF IsFirst, OpenSlots, OwnersInv, GrantedInOrder
  <1>7. OwnerTypes'
    <2>1. peers' \in [Sources -> Peer \cup {NoPeer}]
      BY <1>2, <1>3 DEF OwnersInv, OwnerTypes
    <2>2. PlayersWithout(SessionsOf({source})) \in [Sessions -> Player]
      BY DEF OwnersInv, OwnerTypes, PlayersWithout, NoPlayer, Player
    <2>3. players' \in [Sessions -> Player]
      BY <1>1, <2>2 DEF NewPlayer, Player
    <2>4. nextSession' \in 1..MaxSessions + 1
      BY <1>1, Bounds DEF Sessions
    <2> QED
      BY <1>1, <2>1, <2>3, <2>4 DEF OwnersInv, OwnerTypes
  <1>8. \A p, q \in Sources :
          Present(p)' /\ Present(q)' /\ p # q =>
            peers'[p].session # peers'[q].session /\ peers'[p].slot # peers'[q].slot
    BY <1>3, <1>4, <1>5, <1>6 DEF OwnersInv, OneOwnerEach
  <1>9. GrantedInOrder'
    <2>1. \A p \in Sources : Present(p) => peers[p].session \in Nat
      BY OwnerOf, Bounds DEF OwnersInv
    <2> QED
      BY <1>1, <1>3, <1>4, <1>5, <2>1, Bounds DEF OwnersInv, GrantedInOrder
  <1>10. \A s \in Sessions :
           players'[s].alive <=> \/ s = nextSession
                                 \/ players[s].alive /\ s \notin SessionsOf({source})
    <2>1. \A s \in Sessions :
            PlayersWithout(SessionsOf({source}))[s].alive <=>
              players[s].alive /\ s \notin SessionsOf({source})
      BY DEF OwnersInv, OwnerTypes, PlayersWithout, NoPlayer
    <2>2. NewPlayer.alive /\ PlayersWithout(SessionsOf({source})) \in [Sessions -> Player]
      BY DEF OwnersInv, OwnerTypes, PlayersWithout, NoPlayer, NewPlayer, Player
    <2> QED
      BY <1>1, <2>1, <2>2
  <1>11. Live' = SessionsOf(Sources)'
    <2>1. ASSUME NEW s \in Sessions
          PROVE  players'[s].alive <=>
                   \E p \in Sources : Present(p)' /\ peers'[p].session = s
      <3>1. players[s].alive <=> \E p \in Sources : Present(p) /\ peers[p].session = s
        BY LiveOwned DEF OwnersInv
      <3>2. s \in SessionsOf({source}) <=> Present(source) /\ peers[source].session = s
        BY DEF SessionsOf
      <3>3. \A p, q \in Sources :
              Present(p) /\ Present(q) /\ peers[p].session = peers[q].session => p = q
        BY DEF OwnersInv, OneOwnerEach
      <3> HIDE DEF new
      <3> QED
        BY <1>3, <1>4, <1>5, <1>10, <3>1, <3>2, <3>3
    <2>2. \A p \in Sources : Present(p)' => peers'[p].session \in Sessions
      BY <1>1, <1>3, <1>4, <1>5, OwnerOf DEF OwnersInv
    <2> QED
      BY <2>1, <2>2 DEF Live, SessionsOf
  <1>12. StuckAreLive'
    BY <1>1 DEF OwnersInv, StuckAreLive
  <1> QED
    BY <1>7, <1>8, <1>9, <1>11, <1>12 DEF OwnersInv, OneOwnerEach

LEMMA OwnersReceive ==
  ASSUME OwnersInv, NEW source \in Sources,
         \/ \E nonce \in Nonces : RenewHello(source, nonce)
         \/ \E session \in Sessions :
              \/ \E sequence \in 1..MaxInput : ReceiveInput(source, session, sequence)
              \/ \E id \in DOMAIN Commands : ReceiveCommand(source, session, id)
              \/ ReceiveRepair(source, session)
  PROVE  OwnersInv'
  <1>1. players \in [Sessions -> Player]
    BY DEF OwnersInv, OwnerTypes
  <1>2. CASE \E nonce \in Nonces : RenewHello(source, nonce)
    <2>1. /\ Ingests /\ Present(source) /\ peers' = Seen(source)
          /\ nextSession' = nextSession /\ players' = players
      BY <1>2 DEF RenewHello, Seen
    <2> QED
      BY <1>1, <2>1, OwnersRenewed
  <1>3. ASSUME NEW session \in Sessions, NEW sequence \in 1..MaxInput,
               ReceiveInput(source, session, sequence)
        PROVE  OwnersInv'
    <2>1. /\ Ingests /\ Present(source) /\ peers' = Seen(source)
          /\ nextSession' = nextSession
      BY <1>3 DEF ReceiveInput, Speaks
    <2>2. players' \in {players, [players EXCEPT ![session].input = sequence]}
      BY <1>3 DEF ReceiveInput
    <2>3. sequence \in Nat
      OBVIOUS
    <2>4. /\ players' \in [Sessions -> Player]
          /\ \A s \in Sessions : players'[s].alive = players[s].alive
      BY <1>1, <2>2, <2>3 DEF Player
    <2> QED
      BY <2>1, <2>4, OwnersRenewed
  <1>4. CASE \E session \in Sessions :
               \/ \E id \in DOMAIN Commands : ReceiveCommand(source, session, id)
               \/ ReceiveRepair(source, session)
    <2>1. /\ Ingests /\ Present(source) /\ peers' = Seen(source)
          /\ nextSession' = nextSession /\ players' = players
      BY <1>4 DEF ReceiveCommand, ReceiveRepair, Speaks
    <2> QED
      BY <1>1, <2>1, OwnersRenewed
  <1> QED
    BY <1>2, <1>3, <1>4

LEMMA OwnersRecover ==
  ASSUME OwnersInv, NEW session \in Sessions, Recover(session)
  PROVE  OwnersInv'
  <1> DEFINE owners == {p \in Sources : Speaks(p, session)}
  <1>1. /\ stage = "players" /\ stage' = stage /\ tick' = tick
        /\ nextSession' = nextSession
        /\ session \in stuck /\ stuck' = stuck \ {session}
    BY DEF Recover, IsFirst
  <1>2. players[session].alive
    BY <1>1 DEF OwnersInv, StuckAreLive, Live
  <1>3. tick' \in Nat /\ players \in [Sessions -> Player]
        /\ peers \in [Sources -> Peer \cup {NoPeer}]
    BY <1>1 DEF OwnersInv, OwnerTypes
  <1>4. CASE OpenSlots(owners) = {}
    <2>1. peers' = peers /\ players' = players
      BY <1>4 DEF Recover
    <2>2. OwnerTypes' /\ OneOwnerEach' /\ GrantedInOrder'
      BY <1>1, <1>3, <2>1, KeptSessions DEF OwnersInv, OneOwnerEach
    <2>3. StuckAreLive'
      BY <1>1, <2>1 DEF OwnersInv, StuckAreLive, Live
    <2> QED
      BY <2>2, <2>3 DEF OwnersInv
  <1>5. CASE OpenSlots(owners) # {}
    <2>1. PICK slot \in Slots :
            /\ IsFirst(slot, OpenSlots(owners))
            /\ peers' = [p \in Sources |->
                           IF p \in owners THEN [peers[p] EXCEPT !.slot = slot]
                           ELSE peers[p]]
            /\ players' = [players EXCEPT ![session] = Recovered(@)]
      BY <1>5 DEF Recover
    <2>2. \A p \in owners : Present(p) /\ peers[p].session = session /\ peers[p] \in Peer
      BY OwnerOf DEF Speaks, OwnersInv
    <2>3. \A p \in owners : /\ peers'[p] \in Peer
                            /\ peers'[p].session = peers[p].session
                            /\ peers'[p].slot = slot
      BY <2>1, <2>2 DEF Peer
    <2>4. \A p \in Sources \ owners : peers'[p] = peers[p]
      BY <2>1
    <2>5. peers' \in [Sources -> Peer \cup {NoPeer}]
      BY <1>3, <2>1, <2>3, <2>4
    <2>6. \A p \in Sources \ owners : Present(p) => peers[p].slot # slot
      BY <2>1 DEF IsFirst, OpenSlots
    <2>7. \A p, q \in owners : p = q
      BY <2>2 DEF OwnersInv, OneOwnerEach
    <2> HIDE DEF owners
    <2>8. \A p, q \in Sources : Present(p) /\ Present(q) /\ p # q =>
                                  peers'[p].slot # peers'[q].slot
      BY <2>3, <2>4, <2>6, <2>7 DEF OwnersInv, OneOwnerEach
    <2>9. \A p \in Sources : peers'[p].session = peers[p].session
      BY <2>3, <2>4
    <2>10. /\ players' \in [Sessions -> Player]
           /\ \A s \in Sessions : players'[s].alive = players[s].alive
      BY <1>2, <1>3, <2>1 DEF Recovered, NewPlayer, Player
    <2>11. OwnerTypes' /\ OneOwnerEach' /\ GrantedInOrder'
      BY <1>1, <1>3, <2>5, <2>8, <2>9, <2>10, KeptSessions
    <2>12. StuckAreLive'
      BY <1>1, <2>10 DEF OwnersInv, StuckAreLive, Live
    <2> QED
      BY <2>11, <2>12 DEF OwnersInv
  <1> QED
    BY <1>4, <1>5

(* The other steps leave peers, players and granted sessions alone.        *)
LEMMA OwnersElsewhere ==
  ASSUME OwnersInv,
         \/ EndIngest \/ ServeRepair \/ StepPlayers \/ EndPlayers \/ EndTick
         \/ \E session \in Sessions, id \in DOMAIN Commands :
              Apply(session, id) \/ Reject(session, id)
         \/ UNCHANGED vars
  PROVE  OwnersInv'
  <1>1. /\ peers' = peers /\ players' = players
        /\ nextSession' = nextSession /\ tick' = tick
    BY DEF EndIngest, ServeRepair, StepPlayers, EndPlayers, EndTick, Apply, Reject,
           Takes, vars, owned
  <1>2. OwnerTypes' /\ OneOwnerEach' /\ GrantedInOrder'
    BY <1>1 DEF OwnersInv, OwnerTypes, OneOwnerEach, GrantedInOrder, Present, Live,
                SessionsOf
  <1>3. Live' = Live
    BY <1>1 DEF Live
  <1>4. StuckAreLive'
    BY <1>3 DEF OwnersInv, StuckAreLive, EndIngest, ServeRepair, StepPlayers,
                EndPlayers, EndTick, Apply, Reject, Takes, vars
  <1> QED
    BY <1>2, <1>4 DEF OwnersInv

LEMMA OwnersStep == OwnersInv /\ [Next]_vars => OwnersInv'
  <1> SUFFICES ASSUME OwnersInv, [Next]_vars PROVE OwnersInv'
    OBVIOUS
  <1>1. CASE BeginTick
    BY <1>1, OwnersBeginTick
  <1>2. CASE Ingest
    <2>1. PICK source \in Sources :
            \/ \E nonce \in Nonces : \/ RenewHello(source, nonce)
                                     \/ RefuseHello(source, nonce)
                                     \/ AcceptHello(source, nonce)
            \/ \E session \in Sessions :
                 \/ \E sequence \in 1..MaxInput :
                      ReceiveInput(source, session, sequence)
                 \/ \E id \in DOMAIN Commands : ReceiveCommand(source, session, id)
                 \/ ReceiveRepair(source, session)
      BY <1>2 DEF Ingest
    <2> QED
      BY <2>1, OwnersReceive, OwnersRefuseHello, OwnersAcceptHello
  <1>3. CASE \E session \in Sessions : Recover(session)
    BY <1>3, OwnersRecover
  <1> QED
    BY <1>1, <1>2, <1>3, OwnersElsewhere DEF Next

(* No two peers ever share a session or a spawn slot, and exactly the      *)
(* sessions of the peers have a player (accept_hello, prune_idle_peers,    *)
(* recover_player).                                                        *)
THEOREM OwnersAreUnique == Spec => []OneOwnerEach
  <1>1. OwnersInv => OneOwnerEach
    BY DEF OwnersInv
  <1> QED
    BY <1>1, OwnersStart, OwnersStep, PTL DEF Spec

-----------------------------------------------------------------------------
(* The rifle.                                                              *)

LEMMA RifleLooked ==
  ASSUME NEW r \in Rifles, NEW t \in Nat
  PROVE  /\ At(r, t) \in Rifles
         /\ At(r, t).nextFire = r.nextFire
         /\ At(r, t).magazine + At(r, t).reserve = r.magazine + r.reserve
  <1>1. /\ Transferred(r) \in Nat
        /\ r.magazine + Transferred(r) \in 0..Magazine
        /\ r.reserve - Transferred(r) \in 0..Reserve
    BY RifleAssumption DEF Rifles, Transferred
  <1>2. CASE r.reloaded = NoReload \/ t < r.reloaded
    BY <1>2 DEF At
  <1>3. CASE ~(r.reloaded = NoReload \/ t < r.reloaded)
    <2> DEFINE moved == Transferred(r)
    <2>1. At(r, t) = [r EXCEPT !.magazine = r.magazine + moved,
                               !.reserve = r.reserve - moved,
                               !.reloaded = NoReload]
      BY <1>3 DEF At
    <2>2. /\ moved \in Nat /\ r.magazine + moved \in 0..Magazine
          /\ r.reserve - moved \in 0..Reserve
      BY <1>1
    <2> HIDE DEF moved
    <2>3. At(r, t) = [magazine |-> r.magazine + moved,
                      reserve |-> r.reserve - moved,
                      nextFire |-> r.nextFire, reloaded |-> NoReload]
      BY <2>1 DEF Rifles
    <2>4. r.magazine \in Int /\ r.reserve \in Int /\ r.nextFire \in Nat
      BY RifleAssumption DEF Rifles
    <2> QED
      BY <2>2, <2>3, <2>4 DEF Rifles, NoReload
  <1> QED
    BY <1>2, <1>3

LEMMA RifleShot ==
  ASSUME NEW r \in Rifles, NEW t \in Nat, CanShoot(r, t)
  PROVE  /\ AfterShot(r, t) \in Rifles
         /\ AfterShot(r, t).nextFire = t + Cadence
         /\ AfterShot(r, t).magazine + AfterShot(r, t).reserve + 1
              = r.magazine + r.reserve
  <1>1. /\ At(r, t) \in Rifles /\ At(r, t).magazine > 0
        /\ At(r, t).magazine + At(r, t).reserve = r.magazine + r.reserve
    BY RifleLooked DEF CanShoot
  <1>2. PICK l \in Rifles : l = At(r, t)
    BY <1>1
  <1>3. AfterShot(r, t) = [magazine |-> l.magazine - 1, reserve |-> l.reserve,
                           nextFire |-> t + Cadence, reloaded |-> l.reloaded]
    <2>1. AfterShot(r, t) = [l EXCEPT !.magazine = l.magazine - 1,
                                      !.nextFire = t + Cadence]
      BY <1>2 DEF AfterShot
    <2> QED
      BY <2>1 DEF Rifles
  <1>4. /\ l.magazine \in 0..Magazine /\ l.magazine > 0
        /\ l.reserve \in 0..Reserve /\ l.reloaded \in Nat
        /\ r.magazine \in Int /\ r.reserve \in Int
        /\ l.magazine + l.reserve = r.magazine + r.reserve
    BY <1>1, <1>2 DEF Rifles
  <1>5. Cadence \in Nat /\ Magazine \in Nat /\ Reserve \in Nat
    BY RifleAssumption
  <1> QED
    BY <1>3, <1>4, <1>5 DEF Rifles

LEMMA RifleReloaded ==
  ASSUME NEW r \in Rifles, NEW t \in Nat
  PROVE  /\ AfterReload(r, t) \in Rifles
         /\ AfterReload(r, t).nextFire = r.nextFire
         /\ AfterReload(r, t).reloaded = t + ReloadTicks
         /\ t + ReloadTicks # NoReload
         /\ AfterReload(r, t).magazine + AfterReload(r, t).reserve
              = r.magazine + r.reserve
  <1>1. PICK l \in Rifles : /\ l = At(r, t) /\ l.nextFire = r.nextFire
                            /\ l.magazine + l.reserve = r.magazine + r.reserve
    BY RifleLooked
  <1>2. ReloadTicks \in Nat \ {0}
    BY RifleAssumption
  <1>3. AfterReload(r, t) = [l EXCEPT !.reloaded = t + ReloadTicks]
    BY <1>1 DEF AfterReload
  <1> QED
    BY <1>1, <1>2, <1>3 DEF Rifles, NoReload

(* What a command that is executed takes from the account.                 *)
LEMMA AccountCharged ==
  ASSUME NEW session \in Sessions, NEW id \in DOMAIN Commands, tick \in Nat,
         accounts[session] \in Account, Allowed(session, id)
  PROVE  Charged(accounts[session], id) \in Account
  <1> DEFINE kind == Commands[id]
  <1>1. id \in Nat /\ kind \in Kinds
    BY SessionsAssumption
  <1>2. /\ accounts[session].rifle \in Rifles /\ accounts[session].units \in 0..Units
    BY DEF Account
  <1>3. CASE kind = "rifle"
    <2>1. kind \notin Placements /\ kind # "reload"
      BY <1>3, SessionsAssumption
    <2>2. AfterShot(accounts[session].rifle, tick) \in Rifles
      BY <1>2, <1>3, RifleShot DEF Allowed
    <2>3. Charged(accounts[session], id)
            = [last |-> id, rifle |-> AfterShot(accounts[session].rifle, tick),
               units |-> accounts[session].units]
      BY <1>3, <2>1 DEF Charged
    <2> QED
      BY <1>1, <1>2, <2>2, <2>3 DEF Account
  <1>4. CASE kind = "reload"
    <2>1. kind \notin Placements /\ kind # "rifle"
      BY <1>4, SessionsAssumption
    <2>2. AfterReload(accounts[session].rifle, tick) \in Rifles
      BY <1>2, RifleReloaded
    <2>3. Charged(accounts[session], id)
            = [last |-> id, rifle |-> AfterReload(accounts[session].rifle, tick),
               units |-> accounts[session].units]
      BY <1>4, <2>1 DEF Charged
    <2> QED
      BY <1>1, <1>2, <2>2, <2>3 DEF Account
  <1>5. CASE kind # "rifle" /\ kind # "reload"
    <2>1. Charged(accounts[session], id)
            = [last |-> id, rifle |-> accounts[session].rifle,
               units |-> IF kind \in Placements
                         THEN accounts[session].units - Cost[kind]
                         ELSE accounts[session].units]
      BY <1>5 DEF Charged
    <2>2. kind \in Placements =>
            /\ accounts[session].units >= Cost[kind]
            /\ Cost[kind] \in Nat
      BY SessionsAssumption DEF Allowed
    <2>3. Units \in Nat
      BY SessionsAssumption
    <2> HIDE DEF kind
    <2>4. (IF kind \in Placements THEN accounts[session].units - Cost[kind]
           ELSE accounts[session].units) \in 0..Units
      BY <1>2, <2>2, <2>3
    <2> QED
      BY <1>1, <1>2, <2>1, <2>4 DEF Account
  <1> QED
    BY <1>3, <1>4, <1>5

-----------------------------------------------------------------------------
AccountTypes ==
  /\ accounts \in [Sessions -> Account]
  /\ applied \in [Sessions -> Seq(Applied)]

(* What was applied for a session was applied after the session was        *)
(* granted, and its account remembers it: the watermark is not below it,   *)
(* the rifle fires no sooner than its cadence after it, and a reload has   *)
(* ended or is still to end in its time.                                   *)
Remembered(s, i) ==
  /\ applied[s][i].id <= accounts[s].last
  /\ KindOf(s, i) = "rifle" =>
       applied[s][i].at + Cadence <= accounts[s].rifle.nextFire
  /\ KindOf(s, i) = "reload" =>
       \/ applied[s][i].at + ReloadTicks <= tick
       \/ /\ accounts[s].rifle.reloaded # NoReload
          /\ applied[s][i].at + ReloadTicks <= accounts[s].rifle.reloaded

AppliedWhenGranted ==
  \A s \in Sessions : applied[s] # <<>> => s < nextSession

AccountsRemember ==
  \A s \in Sessions : players[s].alive =>
    \A i \in DOMAIN applied[s] : Remembered(s, i)

(* The accounts of a session that ended, or was not granted yet, are new.  *)
AccountsEnd ==
  \A s \in Sessions : ~players[s].alive => accounts[s] = NewAccount

CommandsInv ==
  /\ AccountTypes
  /\ AppliedWhenGranted
  /\ AccountsRemember
  /\ AccountsEnd
  /\ CommandsInOrder
  /\ CadenceKept
  /\ RoundsAccounted

LEMMA FreshAccount ==
  /\ NewAccount \in Account
  /\ NewAccount.rifle.magazine + NewAccount.rifle.reserve = Magazine + Reserve
  <1>1. NewRifle \in Rifles /\ NewRifle.magazine + NewRifle.reserve = Magazine + Reserve
    BY RifleAssumption DEF NewRifle, Rifles, NoReload
  <1> QED
    BY <1>1, SessionsAssumption DEF NewAccount, Account

LEMMA AppliedEntry ==
  ASSUME AccountTypes, NEW s \in Sessions, NEW i \in DOMAIN applied[s]
  PROVE  /\ applied[s][i].id \in Nat /\ applied[s][i].at \in Nat
         /\ applied[s] # <<>>
  <1>1. applied[s] \in Seq(Applied)
    BY DEF AccountTypes
  <1>2. applied[s][i] \in Applied /\ applied[s] # <<>>
    BY <1>1
  <1>3. DOMAIN Commands \subseteq Nat
    BY SessionsAssumption
  <1> QED
    BY <1>2, <1>3 DEF Applied

LEMMA CommandsStart == Init => CommandsInv
  <1> SUFFICES ASSUME Init PROVE CommandsInv
    OBVIOUS
  <1>1. /\ \A s \in Sessions : accounts[s] = NewAccount /\ applied[s] = <<>>
        /\ Live = {}
    BY DEF Init, Live, NoPlayer
  <1>2. AccountTypes
    BY FreshAccount DEF Init, AccountTypes
  <1>3. \A s \in Sessions : DOMAIN applied[s] = {}
    BY <1>1
  <1> QED
    BY <1>1, <1>2, <1>3 DEF CommandsInv, AppliedWhenGranted, AccountsRemember,
       AccountsEnd, CommandsInOrder, CadenceKept, RoundsAccounted

(* Steps that apply no command: sessions go on with their account, end, or *)
(* begin with a new one.                                                   *)
LEMMA AccountsCarried ==
  ASSUME OwnersInv, CommandsInv, OwnerTypes',
         applied' = applied, tick <= tick', nextSession <= nextSession',
         accounts' \in [Sessions -> Account],
         \A s \in Sessions : players'[s].alive =>
           \/ players[s].alive /\ accounts'[s] = accounts[s]
           \/ s = nextSession /\ accounts'[s] = NewAccount,
         \A s \in Sessions : ~players'[s].alive => accounts'[s] = NewAccount
  PROVE  CommandsInv'
  <1>1. AccountTypes' /\ AccountsEnd'
    BY DEF CommandsInv, AccountTypes, AccountsEnd
  <1>2. CommandsInOrder' /\ CadenceKept'
    BY DEF CommandsInv, CommandsInOrder, CadenceKept, KindOf
  <1>3. nextSession \in Nat /\ nextSession' \in Nat
    BY DEF OwnersInv, OwnerTypes
  <1>4. AppliedWhenGranted'
    BY <1>3, Bounds DEF CommandsInv, AppliedWhenGranted
  <1>5. \A s \in Sessions : s = nextSession => applied[s] = <<>>
    BY <1>3 DEF CommandsInv, AppliedWhenGranted
  <1>6. AccountsRemember'
    <2> SUFFICES ASSUME NEW s \in Sessions, players'[s].alive,
                        NEW i \in DOMAIN applied[s]
                 PROVE  Remembered(s, i)'
      BY DEF AccountsRemember
    <2>1. players[s].alive /\ accounts'[s] = accounts[s]
      BY <1>5
    <2>2. Remembered(s, i)
      BY <2>1 DEF CommandsInv, AccountsRemember
    <2>3. applied[s][i].at \in Nat /\ ReloadTicks \in Nat /\ tick \in Nat /\ tick' \in Nat
      BY AppliedEntry, RifleAssumption DEF CommandsInv, OwnersInv, OwnerTypes
    <2> QED
      BY <2>1, <2>2, <2>3 DEF Remembered, KindOf
  <1>7. RoundsAccounted'
    <2> SUFFICES ASSUME NEW s \in Sessions, players'[s].alive
                 PROVE  accounts'[s].rifle.magazine + accounts'[s].rifle.reserve
                          + Shots(s)' = Magazine + Reserve
      BY DEF RoundsAccounted, Live
    <2>1. Shots(s)' = Shots(s)
      BY DEF Shots, KindOf
    <2>2. CASE players[s].alive /\ accounts'[s] = accounts[s]
      BY <2>1, <2>2 DEF CommandsInv, RoundsAccounted, Live
    <2>3. CASE s = nextSession /\ accounts'[s] = NewAccount
      <3>1. applied[s] = <<>>
        BY <1>5, <2>3
      <3>2. {i \in DOMAIN applied[s] : KindOf(s, i) = "rifle"} = {}
        BY <3>1
      <3>3. Shots(s) = 0
        BY <3>2, FS_EmptySet DEF Shots
      <3> QED
        BY <2>1, <2>3, <3>3, FreshAccount, RifleAssumption
    <2> QED
      BY <2>2, <2>3
  <1> QED
    BY <1>1, <1>2, <1>4, <1>6, <1>7 DEF CommandsInv

(* What the account says once a command is executed.                       *)
LEMMA ChargedSays ==
  ASSUME NEW session \in Sessions, NEW id \in DOMAIN Commands, tick \in Nat,
         accounts[session] \in Account, Allowed(session, id),
         NEW old, old = accounts[session].rifle,
         NEW new, new = Charged(accounts[session], id).rifle
  PROVE  /\ Charged(accounts[session], id).last = id
         /\ Commands[id] = "rifle" =>
              /\ old.nextFire <= tick /\ new.nextFire = tick + Cadence
              /\ new.magazine + new.reserve + 1 = old.magazine + old.reserve
         /\ Commands[id] = "reload" =>
              /\ new.nextFire = old.nextFire
              /\ new.reloaded = tick + ReloadTicks /\ new.reloaded # NoReload
              /\ new.magazine + new.reserve = old.magazine + old.reserve
         /\ Commands[id] \in {"rifle", "reload"} =>
              old.reloaded = NoReload \/ old.reloaded <= tick
         /\ Commands[id] \notin {"rifle", "reload"} => new = old
  <1>1. old \in Rifles
    BY DEF Account
  <1>2. old.reloaded \in Nat /\ old.nextFire \in Nat
    BY <1>1 DEF Rifles
  <1>3. Commands[id] = "rifle" => CanShoot(old, tick) /\ new = AfterShot(old, tick)
    BY DEF Allowed, Charged
  <1>4. Commands[id] = "reload" => CanReload(old, tick) /\ new = AfterReload(old, tick)
    BY DEF Allowed, Charged
  <1>5. Commands[id] \notin {"rifle", "reload"} => new = old
    BY DEF Charged
  <1>6. Commands[id] \in {"rifle", "reload"} =>
          old.reloaded = NoReload \/ old.reloaded <= tick
    BY <1>2, <1>3, <1>4 DEF CanShoot, CanReload, Reloads
  <1>7. Commands[id] = "rifle" =>
          /\ old.nextFire <= tick /\ new.nextFire = tick + Cadence
          /\ new.magazine + new.reserve + 1 = old.magazine + old.reserve
    BY <1>1, <1>2, <1>3, RifleShot DEF CanShoot
  <1>8. Commands[id] = "reload" =>
          /\ new.nextFire = old.nextFire
          /\ new.reloaded = tick + ReloadTicks /\ new.reloaded # NoReload
          /\ new.magazine + new.reserve = old.magazine + old.reserve
    BY <1>1, <1>4, RifleReloaded
  <1> QED
    BY <1>5, <1>6, <1>7, <1>8 DEF Charged

LEMMA CommandApplied ==
  ASSUME OwnersInv, CommandsInv,
         NEW session \in Sessions, NEW id \in DOMAIN Commands,
         Apply(session, id)
  PROVE  CommandsInv'
  <1> DEFINE x == [id |-> id, at |-> tick]
             old == accounts[session].rifle
             new == accounts'[session].rifle
             kind == Commands[id]
  <1>1. /\ accounts' = [accounts EXCEPT ![session] = Charged(@, id)]
        /\ applied' = [applied EXCEPT ![session] = Append(@, x)]
        /\ tick' = tick /\ players' = players /\ nextSession' = nextSession
        /\ players[session].alive
        /\ accounts[session].last < id
        /\ Allowed(session, id)
    BY DEF Apply, Takes, Fresh
  <1>2. /\ accounts \in [Sessions -> Account] /\ applied \in [Sessions -> Seq(Applied)]
        /\ tick \in Nat /\ nextSession \in Nat
        /\ accounts[session] \in Account
        /\ id \in Nat /\ x \in Applied
    <2>1. id \in Nat
      BY SessionsAssumption
    <2>2. /\ accounts \in [Sessions -> Account]
          /\ applied \in [Sessions -> Seq(Applied)]
          /\ tick \in Nat /\ nextSession \in Nat
      BY DEF CommandsInv, AccountTypes, OwnersInv, OwnerTypes
    <2> QED
      BY <2>1, <2>2 DEF Applied
  <1>3. /\ Cadence \in Nat /\ ReloadTicks \in Nat
        /\ Magazine \in Nat /\ Reserve \in Nat
    BY RifleAssumption
  <1>4. /\ accounts'[session] = Charged(accounts[session], id)
        /\ \A s \in Sessions : s # session => accounts'[s] = accounts[s]
        /\ applied'[session] = Append(applied[session], x)
        /\ \A s \in Sessions : s # session => applied'[s] = applied[s]
    BY <1>1, <1>2
  <1>5. PICK n \in Nat :
        /\ DOMAIN applied[session] = 1..n
        /\ DOMAIN applied'[session] = 1..n + 1
        /\ \A i \in 1..n : applied'[session][i] = applied[session][i]
        /\ applied'[session][n + 1] = x
        /\ applied'[session] \in Seq(Applied)
    <2>1. /\ applied[session] \in Seq(Applied) /\ Len(applied[session]) \in Nat
          /\ DOMAIN applied[session] = 1..Len(applied[session])
      BY <1>2
    <2>2. /\ Append(applied[session], x) \in Seq(Applied)
          /\ Len(Append(applied[session], x)) = Len(applied[session]) + 1
          /\ \A i \in 1..Len(applied[session]) :
               Append(applied[session], x)[i] = applied[session][i]
          /\ Append(applied[session], x)[Len(applied[session]) + 1] = x
      BY <1>2, AppendProperties
    <2> HIDE DEF x
    <2>3. DOMAIN Append(applied[session], x) = 1..Len(applied[session]) + 1
      BY <2>2
    <2> QED
      BY <1>4, <2>1, <2>2, <2>3
  <1>6. accounts'[session] \in Account
    BY <1>1, <1>2, <1>4, AccountCharged
  <1>7. AccountTypes'
    <2>1. accounts' \in [Sessions -> Account]
      BY <1>1, <1>2, <1>4, <1>6
    <2>2. applied' \in [Sessions -> Seq(Applied)]
      BY <1>1, <1>2, <1>4, <1>5
    <2> QED
      BY <2>1, <2>2 DEF AccountTypes
  <1>8. /\ accounts'[session].last = id
        /\ kind = "rifle" =>
             /\ old.nextFire <= tick /\ new.nextFire = tick + Cadence
             /\ new.magazine + new.reserve + 1 = old.magazine + old.reserve
        /\ kind = "reload" =>
             /\ new.nextFire = old.nextFire
             /\ new.reloaded = tick + ReloadTicks /\ new.reloaded # NoReload
             /\ new.magazine + new.reserve = old.magazine + old.reserve
        /\ kind \in {"rifle", "reload"} =>
             old.reloaded = NoReload \/ old.reloaded <= tick
        /\ kind \notin {"rifle", "reload"} => new = old
    BY <1>1, <1>2, <1>4, ChargedSays
  <1>9. old \in Rifles /\ new \in Rifles /\ accounts[session].last \in Nat
    BY <1>2, <1>6 DEF Account
  <1>10. /\ old.nextFire \in Nat /\ old.reloaded \in Nat
         /\ old.magazine \in Int /\ old.reserve \in Int
         /\ new.nextFire \in Nat /\ new.reloaded \in Nat
         /\ new.magazine \in Int /\ new.reserve \in Int
    BY <1>3, <1>9 DEF Rifles
  <1>11. \A i \in 1..n : /\ Remembered(session, i)
                         /\ applied[session][i].id \in Nat
                         /\ applied[session][i].at \in Nat
    BY <1>1, <1>5, AppliedEntry DEF CommandsInv, AccountsRemember
  <1>12. \A i \in 1..n : KindOf(session, i)' = KindOf(session, i)
    BY <1>5 DEF KindOf
  <1>13. x.id = id /\ x.at = tick
    OBVIOUS
  <1> HIDE DEF x
  <1>14. KindOf(session, n + 1)' = kind
    BY <1>5, <1>13 DEF KindOf
  <1> HIDE DEF old, new, kind
  <1>15. \A i \in 1..n :
           /\ applied[session][i].id < id
           /\ kind = "rifle" /\ KindOf(session, i) = "rifle" =>
                applied[session][i].at + Cadence <= tick
           /\ kind \in {"rifle", "reload"} /\ KindOf(session, i) = "reload" =>
                applied[session][i].at + ReloadTicks <= tick
    <2> SUFFICES ASSUME NEW i \in 1..n
                 PROVE  /\ applied[session][i].id < id
                        /\ kind = "rifle" /\ KindOf(session, i) = "rifle" =>
                             applied[session][i].at + Cadence <= tick
                        /\ kind \in {"rifle", "reload"}
                           /\ KindOf(session, i) = "reload" =>
                             applied[session][i].at + ReloadTicks <= tick
      OBVIOUS
    <2>1. /\ applied[session][i].id <= accounts[session].last
          /\ KindOf(session, i) = "rifle" =>
               applied[session][i].at + Cadence <= old.nextFire
          /\ KindOf(session, i) = "reload" =>
               \/ applied[session][i].at + ReloadTicks <= tick
               \/ /\ old.reloaded # NoReload
                  /\ applied[session][i].at + ReloadTicks <= old.reloaded
      BY <1>11 DEF Remembered, old
    <2>2. applied[session][i].id < id
      BY <1>1, <1>2, <1>9, <1>11, <2>1
    <2>3. tick \in Nat
      BY <1>2
    <2>4. ASSUME kind = "rifle", KindOf(session, i) = "rifle"
          PROVE  applied[session][i].at + Cadence <= tick
      <3>1. old.nextFire <= tick
        BY <1>8, <2>4
      <3>2. applied[session][i].at + Cadence <= old.nextFire
        BY <2>1, <2>4
      <3> QED
        <4>1. applied[session][i].at \in Nat
          BY <1>11
        <4>2. applied[session][i].at + Cadence \in Nat
          BY <4>1, <1>3
        <4>3. old.nextFire \in Nat
          BY <1>10
        <4> QED
          BY <3>1, <3>2, <4>2, <4>3, <2>3
    <2>5. ASSUME kind \in {"rifle", "reload"}, KindOf(session, i) = "reload"
          PROVE  applied[session][i].at + ReloadTicks <= tick
      <3>1. old.reloaded = NoReload \/ old.reloaded <= tick
        BY <1>8, <2>5
      <3>2. \/ applied[session][i].at + ReloadTicks <= tick
            \/ /\ old.reloaded # NoReload
               /\ applied[session][i].at + ReloadTicks <= old.reloaded
        BY <2>1, <2>5
      <3>3. applied[session][i].at \in Nat
        BY <1>11
      <3>4. applied[session][i].at + ReloadTicks \in Nat
        BY <3>3, <1>3
      <3>5. old.reloaded \in Nat
        BY <1>10
      <3> QED
        BY <3>1, <3>2, <3>4, <3>5, <2>3
    <2> QED
      BY <2>2, <2>4, <2>5
  <1>16. AppliedWhenGranted'
    <2>1. session < nextSession
      <3>1. PICK p \in Sources : Present(p) /\ peers[p].session = session
        BY <1>1, LiveOwned DEF OwnersInv
      <3> QED
        BY <3>1 DEF OwnersInv, GrantedInOrder
    <2> QED
      BY <1>1, <1>4, <2>1 DEF CommandsInv, AppliedWhenGranted
  <1>17. AccountsEnd'
    BY <1>1, <1>4 DEF CommandsInv, AccountsEnd
  <1>18. CommandsInOrder'
    <2> SUFFICES ASSUME NEW s \in Sessions, NEW i \in DOMAIN applied'[s],
                        NEW j \in DOMAIN applied'[s], i < j
                 PROVE  applied'[s][i].id < applied'[s][j].id
      BY DEF CommandsInOrder
    <2>1. CASE s # session
      BY <1>4, <2>1 DEF CommandsInv, CommandsInOrder
    <2>2. CASE s = session /\ j \in 1..n
      <3>1. i \in 1..n
        BY <1>5, <2>2
      <3> QED
        BY <1>5, <2>2, <3>1 DEF CommandsInv, CommandsInOrder
    <2>3. CASE s = session /\ j = n + 1
      <3>1. i \in 1..n
        BY <1>5, <2>3
      <3> QED
        BY <1>5, <1>13, <1>15, <2>3, <3>1
    <2> QED
      BY <1>5, <2>1, <2>2, <2>3
  <1>19. CadenceKept'
    <2> SUFFICES ASSUME NEW s \in Sessions, NEW i \in DOMAIN applied'[s],
                        NEW j \in DOMAIN applied'[s], i < j
                 PROVE  /\ KindOf(s, i)' = "rifle" /\ KindOf(s, j)' = "rifle" =>
                             applied'[s][j].at - applied'[s][i].at >= Cadence
                        /\ KindOf(s, i)' = "reload"
                           /\ KindOf(s, j)' \in {"rifle", "reload"} =>
                             applied'[s][j].at - applied'[s][i].at >= ReloadTicks
      BY DEF CadenceKept
    <2>1. CASE s # session
      BY <1>4, <2>1 DEF CommandsInv, CadenceKept, KindOf
    <2>2. CASE s = session /\ j \in 1..n
      <3>1. i \in 1..n
        BY <1>5, <2>2
      <3> QED
        BY <1>5, <1>12, <2>2, <3>1 DEF CommandsInv, CadenceKept
    <2>3. CASE s = session /\ j = n + 1
      <3>1. i \in 1..n
        BY <1>5, <2>3
      <3> QED
        <4>1. /\ applied'[s][j].at = tick /\ applied'[s][i].at = applied[session][i].at
              /\ KindOf(s, j)' = kind /\ KindOf(s, i)' = KindOf(session, i)
          BY <1>5, <1>12, <1>13, <1>14, <2>3, <3>1
        <4>2. applied[session][i].at \in Nat
          BY <1>11, <3>1
        <4> QED
          BY <1>2, <1>3, <1>15, <3>1, <4>1, <4>2
    <2> QED
      BY <1>5, <2>1, <2>2, <2>3
  <1>20. AccountsRemember'
    <2> SUFFICES ASSUME NEW s \in Sessions, players[s].alive,
                        NEW i \in DOMAIN applied'[s]
                 PROVE  Remembered(s, i)'
      BY <1>1 DEF AccountsRemember
    <2>1. CASE s # session
      <3>1. Remembered(s, i)
        BY <1>4, <2>1 DEF CommandsInv, AccountsRemember
      <3> QED
        BY <1>1, <1>4, <2>1, <3>1 DEF Remembered, KindOf
    <2>2. CASE s = session /\ i \in 1..n
      <3>1. /\ applied'[s][i] = applied[session][i]
            /\ KindOf(s, i)' = KindOf(session, i)
            /\ applied[session][i].id \in Nat /\ applied[session][i].at \in Nat
        BY <1>5, <1>11, <1>12, <2>2
      <3>2. /\ KindOf(session, i) = "rifle" =>
                 applied[session][i].at + Cadence <= old.nextFire
            /\ KindOf(session, i) = "reload" =>
                 \/ applied[session][i].at + ReloadTicks <= tick
                 \/ /\ old.reloaded # NoReload
                    /\ applied[session][i].at + ReloadTicks <= old.reloaded
        BY <1>11, <2>2 DEF Remembered, old
      <3>3. applied[session][i].id <= accounts'[session].last
        BY <1>2, <1>8, <1>15, <2>2, <3>1
      <3>4. KindOf(session, i) = "rifle" =>
              applied[session][i].at + Cadence <= new.nextFire
        <4>1. CASE kind = "rifle"
          <5>1. old.nextFire <= tick /\ new.nextFire = tick + Cadence
            BY <1>8, <4>1
          <5>2. applied[session][i].at + Cadence \in Nat
            BY <1>3, <3>1
          <5>3. old.nextFire \in Nat /\ tick \in Nat /\ tick + Cadence \in Nat
                /\ tick <= tick + Cadence
            BY <1>2, <1>3, <1>10, SMTT(40)
          <5> QED
            BY <3>2, <5>1, <5>2, <5>3
        <4>2. CASE kind # "rifle"
          <5>1. new.nextFire = old.nextFire
            BY <1>8, <4>2
          <5> QED
            BY <3>2, <5>1
        <4> QED
          BY <4>1, <4>2
      <3>5. KindOf(session, i) = "reload" =>
              \/ applied[session][i].at + ReloadTicks <= tick
              \/ /\ new.reloaded # NoReload
                 /\ applied[session][i].at + ReloadTicks <= new.reloaded
        BY <1>8, <1>15, <2>2, <3>2
      <3> QED
        BY <1>1, <2>2, <3>1, <3>3, <3>4, <3>5 DEF Remembered, new
    <2>3. CASE s = session /\ i = n + 1
      <3>1. applied'[session][i].id <= accounts'[session].last
        BY <1>2, <1>5, <1>8, <1>13, <2>3
      <3>2. applied'[session][i].at = tick /\ KindOf(session, i)' = kind
        BY <1>5, <1>13, <1>14, <2>3
      <3>3. kind = "rifle" => tick + Cadence <= new.nextFire
        BY <1>2, <1>3, <1>8
      <3>4. kind = "reload" => /\ new.reloaded # NoReload
                               /\ tick + ReloadTicks <= new.reloaded
        BY <1>2, <1>3, <1>8
      <3> QED
        BY <2>3, <3>1, <3>2, <3>3, <3>4 DEF Remembered, new
    <2> QED
      BY <1>5, <2>1, <2>2, <2>3
  <1>21. RoundsAccounted'
    <2> SUFFICES ASSUME NEW s \in Sessions, players[s].alive
                 PROVE  accounts'[s].rifle.magazine + accounts'[s].rifle.reserve
                          + Shots(s)' = Magazine + Reserve
      BY <1>1 DEF RoundsAccounted, Live
    <2>1. CASE s # session
      <3>1. Shots(s)' = Shots(s)
        BY <1>4, <2>1 DEF Shots, KindOf
      <3> QED
        BY <1>4, <2>1, <3>1 DEF CommandsInv, RoundsAccounted, Live
    <2>2. CASE s = session
      <3> DEFINE fired == {i \in 1..n : KindOf(session, i) = "rifle"}
      <3>1. Shots(session) = Cardinality(fired)
        BY <1>5 DEF Shots
      <3>2. IsFiniteSet(fired) /\ n + 1 \notin fired
        <4>1. IsFiniteSet(1..n)
          BY <1>5, FS_Interval
        <4>2. fired \subseteq 1..n /\ n + 1 \notin 1..n
          BY <1>5
        <4> QED
          BY <4>1, <4>2, FS_Subset
      <3>3. Shots(session)' = Cardinality(IF kind = "rifle" THEN fired \cup {n + 1}
                                          ELSE fired)
        <4>1. {i \in 1..n + 1 : KindOf(session, i)' = "rifle"}
                = (IF kind = "rifle" THEN fired \cup {n + 1} ELSE fired)
          <5>1. 1..n + 1 = (1..n) \cup {n + 1}
            BY <1>5
          <5> QED
            BY <1>12, <1>14, <5>1
        <4> QED
          BY <1>5, <4>1 DEF Shots
      <3>4. Cardinality(fired \cup {n + 1}) = Cardinality(fired) + 1
        BY <3>2, FS_AddElement
      <3>5. Cardinality(fired) \in Nat
        BY <3>2, FS_CardinalityType
      <3>6. old.magazine + old.reserve + Cardinality(fired) = Magazine + Reserve
        BY <1>1, <3>1 DEF CommandsInv, RoundsAccounted, Live, old
      <3>7. IF kind = "rifle"
            THEN new.magazine + new.reserve + 1 = old.magazine + old.reserve
            ELSE new.magazine + new.reserve = old.magazine + old.reserve
        BY <1>8
      <3> HIDE DEF fired
      <3>8. new.magazine + new.reserve + Shots(session)' = Magazine + Reserve
        BY <1>3, <1>10, <3>3, <3>4, <3>5, <3>6, <3>7
      <3> QED
        BY <2>2, <3>8 DEF new
    <2> QED
      BY <2>1, <2>2
  <1> QED
    BY <1>7, <1>16, <1>17, <1>18, <1>19, <1>20, <1>21 DEF CommandsInv

(* The sessions of the peers that stay keep their accounts, and those of   *)
(* the peers that go begin afresh.                                         *)
LEMMA EndingAccounts ==
  ASSUME OwnersInv, CommandsInv, NEW gone \in SUBSET Sources
  PROVE  /\ AccountsWithout(SessionsOf(gone)) \in [Sessions -> Account]
         /\ \A s \in Sessions :
              /\ s \in SessionsOf(gone) =>
                   AccountsWithout(SessionsOf(gone))[s] = NewAccount
              /\ s \notin SessionsOf(gone) =>
                   AccountsWithout(SessionsOf(gone))[s] = accounts[s]
         /\ \A s \in Sessions :
              PlayersWithout(SessionsOf(gone))[s].alive <=>
                players[s].alive /\ s \notin SessionsOf(gone)
         /\ PlayersWithout(SessionsOf(gone)) \in [Sessions -> Player]
  <1>1. accounts \in [Sessions -> Account]
    BY DEF CommandsInv, AccountTypes
  <1>2. players \in [Sessions -> Player]
    BY DEF OwnersInv, OwnerTypes
  <1>3. AccountsWithout(SessionsOf(gone)) \in [Sessions -> Account]
    BY <1>1, FreshAccount DEF AccountsWithout
  <1>4. PlayersWithout(SessionsOf(gone)) \in [Sessions -> Player]
    BY <1>2 DEF PlayersWithout, NoPlayer, Player
  <1> QED
    BY <1>2, <1>3, <1>4 DEF AccountsWithout, PlayersWithout, NoPlayer

LEMMA CommandsAtEnds ==
  ASSUME OwnersInv, CommandsInv, OwnersInv',
         \/ BeginTick
         \/ \E source \in Sources, nonce \in Nonces : RefuseHello(source, nonce)
  PROVE  CommandsInv'
  <1>1. PICK gone \in SUBSET Sources :
          /\ players' = PlayersWithout(SessionsOf(gone))
          /\ accounts' = AccountsWithout(SessionsOf(gone))
    <2>1. CASE BeginTick
      <3>1. Idle(tick + 1) \in SUBSET Sources
        BY DEF Idle
      <3> QED
        BY <2>1, <3>1 DEF BeginTick
    <2>2. CASE \E source \in Sources, nonce \in Nonces : RefuseHello(source, nonce)
      BY <2>2 DEF RefuseHello
    <2> QED
      BY <2>1, <2>2
  <1>2. /\ applied' = applied /\ nextSession' = nextSession
        /\ tick' \in {tick, tick + 1}
    BY DEF BeginTick, RefuseHello, Ingests
  <1>3. tick <= tick' /\ nextSession <= nextSession'
    BY <1>2 DEF OwnersInv, OwnerTypes
  <1>4. \A s \in Sessions : ~players[s].alive => accounts[s] = NewAccount
    BY DEF CommandsInv, AccountsEnd
  <1>5. /\ accounts' \in [Sessions -> Account]
        /\ \A s \in Sessions : players'[s].alive =>
             players[s].alive /\ accounts'[s] = accounts[s]
        /\ \A s \in Sessions : ~players'[s].alive => accounts'[s] = NewAccount
    BY <1>1, <1>4, EndingAccounts
  <1> QED
    BY <1>2, <1>3, <1>5, AccountsCarried DEF OwnersInv

LEMMA CommandsAtAccept ==
  ASSUME OwnersInv, CommandsInv, OwnersInv',
         NEW source \in Sources, NEW nonce \in Nonces, AcceptHello(source, nonce)
  PROVE  CommandsInv'
  <1> DEFINE ended == SessionsOf({source})
  <1>1. /\ players' = [PlayersWithout(ended) EXCEPT ![nextSession] = NewPlayer]
        /\ accounts' = AccountsWithout(ended)
        /\ nextSession' = nextSession + 1 /\ nextSession \in Sessions
        /\ applied' = applied /\ tick' = tick
    BY DEF AcceptHello, Ingests
  <1>2. tick <= tick' /\ nextSession <= nextSession'
    BY <1>1 DEF OwnersInv, OwnerTypes
  <1>3. \A s \in Sessions : ~players[s].alive => accounts[s] = NewAccount
    BY DEF CommandsInv, AccountsEnd
  <1>4. /\ AccountsWithout(ended) \in [Sessions -> Account]
        /\ \A s \in Sessions :
             /\ s \in ended => AccountsWithout(ended)[s] = NewAccount
             /\ s \notin ended => AccountsWithout(ended)[s] = accounts[s]
        /\ \A s \in Sessions :
             PlayersWithout(ended)[s].alive <=> players[s].alive /\ s \notin ended
        /\ PlayersWithout(ended) \in [Sessions -> Player]
    BY EndingAccounts
  <1>5. ~players[nextSession].alive
    <2> SUFFICES ASSUME players[nextSession].alive PROVE FALSE
      OBVIOUS
    <2>1. PICK p \in Sources : Present(p) /\ peers[p].session = nextSession
      BY <1>1, LiveOwned DEF OwnersInv
    <2> QED
      BY <2>1 DEF OwnersInv, OwnerTypes, GrantedInOrder
  <1> HIDE DEF ended
  <1>6. \A s \in Sessions : s # nextSession =>
          players'[s] = PlayersWithout(ended)[s]
    BY <1>1, <1>4
  <1>7. players'[nextSession].alive
    BY <1>1, <1>4 DEF NewPlayer
  <1>8. \A s \in Sessions : players'[s].alive =>
          \/ players[s].alive /\ accounts'[s] = accounts[s]
          \/ s = nextSession /\ accounts'[s] = NewAccount
    BY <1>1, <1>3, <1>4, <1>5, <1>6
  <1>9. \A s \in Sessions : ~players'[s].alive => accounts'[s] = NewAccount
    BY <1>1, <1>3, <1>4, <1>6, <1>7
  <1> QED
    BY <1>1, <1>2, <1>4, <1>8, <1>9, AccountsCarried DEF OwnersInv

(* The other steps touch no account and end no session.                    *)
LEMMA CommandsElsewhere ==
  ASSUME OwnersInv, CommandsInv, OwnersInv',
         \/ EndIngest \/ ServeRepair \/ StepPlayers \/ EndPlayers \/ EndTick
         \/ \E session \in Sessions : Recover(session)
         \/ \E source \in Sources :
              \/ \E nonce \in Nonces : RenewHello(source, nonce)
              \/ \E session \in Sessions :
                   \/ \E sequence \in 1..MaxInput :
                        ReceiveInput(source, session, sequence)
                   \/ \E id \in DOMAIN Commands : ReceiveCommand(source, session, id)
                   \/ ReceiveRepair(source, session)
         \/ \E session \in Sessions, id \in DOMAIN Commands : Reject(session, id)
         \/ UNCHANGED vars
  PROVE  CommandsInv'
  <1>1. /\ accounts' = accounts /\ applied' = applied
        /\ tick' = tick /\ nextSession' = nextSession
    BY DEF EndIngest, ServeRepair, StepPlayers, EndPlayers, EndTick, Recover,
           RenewHello, ReceiveInput, ReceiveCommand, ReceiveRepair, Ingests, Reject,
           Takes, vars, owned
  <1>2. /\ players \in [Sessions -> Player] /\ tick \in Nat /\ nextSession \in Nat
        /\ accounts \in [Sessions -> Account]
    BY DEF OwnersInv, OwnerTypes, CommandsInv, AccountTypes
  <1>3. \A s \in Sessions : players'[s].alive = players[s].alive
    <2>1. CASE players' = players
      BY <2>1
    <2>2. ASSUME NEW source \in Sources, NEW session \in Sessions,
                 NEW sequence \in 1..MaxInput, ReceiveInput(source, session, sequence)
          PROVE  \A s \in Sessions : players'[s].alive = players[s].alive
      <3>1. players' \in {players, [players EXCEPT ![session].input = sequence]}
        BY <2>2 DEF ReceiveInput
      <3> QED
        BY <1>2, <3>1 DEF Player
    <2>3. ASSUME NEW session \in Sessions, Recover(session)
          PROVE  \A s \in Sessions : players'[s].alive = players[s].alive
      <3>1. players' \in {players, [players EXCEPT ![session] = Recovered(@)]}
        BY <2>3 DEF Recover
      <3>2. players[session].alive
        BY <2>3 DEF Recover, IsFirst, OwnersInv, StuckAreLive, Live
      <3> QED
        BY <1>2, <3>1, <3>2 DEF Recovered, NewPlayer, Player
    <2>4. \/ players' = players
          \/ \E source \in Sources, session \in Sessions, sequence \in 1..MaxInput :
               ReceiveInput(source, session, sequence)
          \/ \E session \in Sessions : Recover(session)
      BY DEF EndIngest, ServeRepair, StepPlayers, EndPlayers, EndTick,
             RenewHello, ReceiveCommand, ReceiveRepair, Reject, Takes, vars, owned
    <2> QED
      BY <2>1, <2>2, <2>3, <2>4
  <1>4. \A s \in Sessions : ~players[s].alive => accounts[s] = NewAccount
    BY DEF CommandsInv, AccountsEnd
  <1>5. tick <= tick' /\ nextSession <= nextSession'
    BY <1>1, <1>2
  <1> QED
    BY <1>1, <1>2, <1>3, <1>4, <1>5, AccountsCarried DEF OwnersInv

LEMMA CommandsStep ==
  OwnersInv /\ CommandsInv /\ OwnersInv' /\ [Next]_vars => CommandsInv'
  <1> SUFFICES ASSUME OwnersInv, CommandsInv, OwnersInv', [Next]_vars
               PROVE  CommandsInv'
    OBVIOUS
  <1>1. CASE BeginTick
    BY <1>1, CommandsAtEnds
  <1>2. CASE Ingest
    <2>1. PICK source \in Sources :
            \/ \E nonce \in Nonces : \/ RenewHello(source, nonce)
                                     \/ RefuseHello(source, nonce)
                                     \/ AcceptHello(source, nonce)
            \/ \E session \in Sessions :
                 \/ \E sequence \in 1..MaxInput :
                      ReceiveInput(source, session, sequence)
                 \/ \E id \in DOMAIN Commands : ReceiveCommand(source, session, id)
                 \/ ReceiveRepair(source, session)
      BY <1>2 DEF Ingest
    <2> QED
      BY <2>1, CommandsAtEnds, CommandsAtAccept, CommandsElsewhere
  <1>3. CASE \E session \in Sessions, id \in DOMAIN Commands : Apply(session, id)
    BY <1>3, CommandApplied
  <1> QED
    BY <1>1, <1>2, <1>3, CommandsElsewhere DEF Next

LEMMA CommandsAlways == Spec => [](OwnersInv /\ CommandsInv)
  BY OwnersStart, OwnersStep, CommandsStart, CommandsStep, PTL DEF Spec

(* Each command of a session is applied at most once and never after a     *)
(* later one (validate_fresh_command).                                     *)
THEOREM CommandsAreInOrder == Spec => []CommandsInOrder
  <1>1. CommandsInv => CommandsInOrder
    BY DEF CommandsInv
  <1> QED
    BY <1>1, CommandsAlways, PTL

(* Shots keep their cadence and none falls into a reload (after_shot,      *)
(* after_reload).                                                          *)
THEOREM CadenceIsKept == Spec => []CadenceKept
  <1>1. CommandsInv => CadenceKept
    BY DEF CommandsInv
  <1> QED
    BY <1>1, CommandsAlways, PTL

(* No round is lost or fired twice by reloads, refusals and the end of     *)
(* other sessions (execute_rifle, execute_reload).                         *)
THEOREM RoundsAreAccounted == Spec => []RoundsAccounted
  <1>1. CommandsInv => RoundsAccounted
    BY DEF CommandsInv
  <1> QED
    BY <1>1, CommandsAlways, PTL

-----------------------------------------------------------------------------
WorkTypes ==
  /\ commands \in Seq(Queued) /\ Len(commands) <= MaxQueuedCommands
  /\ repairs \in Seq(Requests) /\ Len(repairs) <= MaxQueuedRepairs
  /\ transfers \in [Sources -> 0..MaxSessions]

CommandsOwned == \A i \in 1..Len(commands) : commands[i].session \in Live

RepairsOwned ==
  \A i \in 1..Len(repairs) : Speaks(repairs[i].source, repairs[i].session)

TransfersOwned == \A p \in Sources : transfers[p] # 0 => Speaks(p, transfers[p])

(* Work that waits belongs to a session that still has its peer.           *)
WorkInv ==
  /\ WorkTypes
  /\ CommandsOwned
  /\ RepairsOwned
  /\ TransfersOwned

LEMMA WorkStart == Init => WorkInv
  <1> SUFFICES ASSUME Init PROVE WorkInv
    OBVIOUS
  <1>1. /\ commands = <<>> /\ repairs = <<>> /\ transfers = [p \in Sources |-> 0]
    BY DEF Init
  <1>2. WorkTypes
    <2>1. <<>> \in Seq(Queued) /\ <<>> \in Seq(Requests) /\ Len(<<>>) = 0
      OBVIOUS
    <2>2. /\ MaxQueuedCommands \in Nat /\ MaxQueuedRepairs \in Nat
          /\ 0 \in 0..MaxSessions
      BY SessionsAssumption
    <2> QED
      BY <1>1, <2>1, <2>2 DEF WorkTypes
  <1>3. CommandsOwned /\ RepairsOwned
    BY <1>1 DEF CommandsOwned, RepairsOwned
  <1>4. TransfersOwned
    BY <1>1 DEF TransfersOwned
  <1> QED
    BY <1>2, <1>3, <1>4 DEF WorkInv

(* A queue that is thinned out keeps its type, its limit and elements of   *)
(* its own.                                                                *)
LEMMA ThinnedQueue ==
  ASSUME NEW S, NEW q \in Seq(S), NEW limit \in Nat, Len(q) <= limit, NEW wanted
  PROVE  /\ Kept(q, wanted) \in Seq(S) /\ Len(Kept(q, wanted)) <= limit
         /\ \A i \in 1..Len(Kept(q, wanted)) :
              /\ Kept(q, wanted)[i] \in wanted
              /\ \E j \in 1..Len(q) : Kept(q, wanted)[i] = q[j]
  <1> DEFINE part == Kept(q, wanted)
  <1>1. IsPart(part, Len(q), S, q, wanted)
    BY KeptIsPart
  <1> HIDE DEF part
  <1>2. part \in Seq(S) /\ Len(part) <= Len(q)
    BY <1>1 DEF IsPart
  <1>3. Len(part) \in Nat /\ Len(q) \in Nat
    BY <1>2
  <1>4. Len(part) <= limit
    BY <1>2, <1>3
  <1>5. \A i \in 1..Len(part) : part[i] \in wanted /\ \E j \in 1..Len(q) : part[i] = q[j]
    BY <1>1 DEF IsPart
  <1> QED
    BY <1>2, <1>4, <1>5 DEF part

(* Work is dropped with the peers it belongs to.                           *)
LEMMA WorkDropped ==
  ASSUME WorkInv, OwnersInv, NEW gone \in SUBSET Sources, DropWork(gone),
         \A p \in Sources \ gone : peers'[p] = peers[p],
         \A s \in Sessions : players[s].alive /\ s \notin SessionsOf(gone) =>
           players'[s].alive
  PROVE  WorkInv'
  <1> DEFINE ended == SessionsOf(gone)
             mine == [session: Sessions \ ended, id: DOMAIN Commands]
             theirs == [source: Sources \ gone, session: Sessions \ ended]
  <1>1. /\ commands' = Kept(commands, mine)
        /\ repairs' = Kept(repairs, theirs)
        /\ transfers' = [p \in Sources |-> IF p \in gone THEN 0 ELSE transfers[p]]
    BY DEF DropWork, CommandsWithout, RepairsWithout
  <1>2. /\ commands \in Seq(Queued) /\ Len(commands) <= MaxQueuedCommands
        /\ repairs \in Seq(Requests) /\ Len(repairs) <= MaxQueuedRepairs
        /\ transfers \in [Sources -> 0..MaxSessions]
    BY DEF WorkInv, WorkTypes
  <1>3. MaxQueuedCommands \in Nat /\ MaxQueuedRepairs \in Nat /\ 0 \in 0..MaxSessions
    BY SessionsAssumption
  <1> HIDE DEF ended, mine, theirs
  <1>4. /\ commands' \in Seq(Queued) /\ Len(commands') <= MaxQueuedCommands
        /\ \A i \in 1..Len(commands') :
             /\ commands'[i] \in mine
             /\ \E j \in 1..Len(commands) : commands'[i] = commands[j]
    BY <1>1, <1>2, <1>3, ThinnedQueue
  <1>5. /\ repairs' \in Seq(Requests) /\ Len(repairs') <= MaxQueuedRepairs
        /\ \A i \in 1..Len(repairs') :
             /\ repairs'[i] \in theirs
             /\ \E j \in 1..Len(repairs) : repairs'[i] = repairs[j]
    BY <1>1, <1>2, <1>3, ThinnedQueue
  <1>6. WorkTypes'
    BY <1>1, <1>2, <1>3, <1>4, <1>5 DEF WorkTypes
  <1>7. CommandsOwned'
    <2> SUFFICES ASSUME NEW i \in 1..Len(commands')
                 PROVE  commands'[i].session \in Live'
      BY DEF CommandsOwned
    <2>1. PICK j \in 1..Len(commands) : commands'[i] = commands[j]
      BY <1>4
    <2>2. commands[j].session \in Sessions /\ players[commands[j].session].alive
      BY DEF WorkInv, CommandsOwned, Live
    <2>3. commands[j].session \notin SessionsOf(gone)
      BY <1>4, <2>1 DEF mine, ended
    <2> QED
      BY <2>1, <2>2, <2>3 DEF Live
  <1>8. RepairsOwned'
    <2> SUFFICES ASSUME NEW i \in 1..Len(repairs')
                 PROVE  Speaks(repairs[i].source, repairs[i].session)'
      BY DEF RepairsOwned
    <2>1. PICK j \in 1..Len(repairs) : repairs'[i] = repairs[j]
      BY <1>5
    <2>2. Speaks(repairs[j].source, repairs[j].session)
      BY DEF WorkInv, RepairsOwned
    <2>3. repairs[j].source \in Sources \ gone
      BY <1>5, <2>1 DEF theirs
    <2> QED
      BY <2>1, <2>2, <2>3 DEF Speaks, Present
  <1>9. TransfersOwned'
    BY <1>1 DEF WorkInv, TransfersOwned, Speaks, Present
  <1> QED
    BY <1>6, <1>7, <1>8, <1>9 DEF WorkInv

LEMMA WorkAtEnds ==
  ASSUME WorkInv, OwnersInv,
         \/ BeginTick
         \/ \E source \in Sources, nonce \in Nonces : RefuseHello(source, nonce)
  PROVE  WorkInv'
  <1>1. PICK gone \in SUBSET Sources :
          /\ peers' = PeersWithout(gone)
          /\ players' = PlayersWithout(SessionsOf(gone))
          /\ DropWork(gone)
    <2>1. CASE BeginTick
      <3>1. Idle(tick + 1) \in SUBSET Sources
        BY DEF Idle
      <3> QED
        BY <2>1, <3>1 DEF BeginTick
    <2>2. CASE \E source \in Sources, nonce \in Nonces : RefuseHello(source, nonce)
      BY <2>2 DEF RefuseHello
    <2> QED
      BY <2>1, <2>2
  <1>2. \A p \in Sources \ gone : peers'[p] = peers[p]
    BY <1>1 DEF PeersWithout
  <1>3. \A s \in Sessions : players[s].alive /\ s \notin SessionsOf(gone) =>
          players'[s].alive
    BY <1>1 DEF PlayersWithout
  <1> QED
    BY <1>1, <1>2, <1>3, WorkDropped

LEMMA WorkAtAccept ==
  ASSUME WorkInv, OwnersInv,
         NEW source \in Sources, NEW nonce \in Nonces, AcceptHello(source, nonce)
  PROVE  WorkInv'
  <1>1. /\ DropWork({source})
        /\ players' = [PlayersWithout(SessionsOf({source}))
                         EXCEPT ![nextSession] = NewPlayer]
    BY DEF AcceptHello
  <1>2. \A p \in Sources \ {source} : peers'[p] = peers[p]
    BY DEF AcceptHello, OwnersInv, OwnerTypes
  <1>3. \A s \in Sessions : players[s].alive /\ s \notin SessionsOf({source}) =>
          players'[s].alive
    BY <1>1 DEF PlayersWithout, NewPlayer
  <1> QED
    BY <1>1, <1>2, <1>3, WorkDropped

-----------------------------------------------------------------------------
(* The other steps end no session.                                         *)
SessionsGoOn ==
  /\ \A p \in Sources : peers'[p].session = peers[p].session
  /\ \A s \in Sessions : players'[s].alive = players[s].alive

LEMMA SameOwners ==
  ASSUME SessionsGoOn
  PROVE  /\ Live' = Live
         /\ \A p \in Sources : \A s : Speaks(p, s)' <=> Speaks(p, s)
  BY DEF SessionsGoOn, Live, Speaks, Present

LEMMA SessionsStay ==
  ASSUME OwnersInv,
         \/ EndIngest \/ ServeRepair \/ StepPlayers \/ EndPlayers \/ EndTick
         \/ \E session \in Sessions : Recover(session)
         \/ \E source \in Sources :
              \/ \E nonce \in Nonces : RenewHello(source, nonce)
              \/ \E session \in Sessions :
                   \/ \E sequence \in 1..MaxInput :
                        ReceiveInput(source, session, sequence)
                   \/ \E id \in DOMAIN Commands : ReceiveCommand(source, session, id)
                   \/ ReceiveRepair(source, session)
         \/ \E session \in Sessions, id \in DOMAIN Commands :
              Apply(session, id) \/ Reject(session, id)
         \/ UNCHANGED vars
  PROVE  SessionsGoOn
  <1>1. /\ players \in [Sessions -> Player]
        /\ peers \in [Sources -> Peer \cup {NoPeer}]
    BY DEF OwnersInv, OwnerTypes
  <1>2. CASE peers' = peers /\ players' = players
    BY <1>2 DEF SessionsGoOn
  <1>3. ASSUME NEW source \in Sources, Present(source), peers' = Seen(source)
        PROVE  \A p \in Sources : peers'[p].session = peers[p].session
    <2>1. peers[source] \in Peer
      BY <1>3, OwnerOf DEF OwnersInv
    <2>2. \A p \in Sources : p # source => peers'[p] = peers[p]
      BY <1>1, <1>3 DEF Seen
    <2>3. peers'[source] = [peers[source] EXCEPT !.seen = tick]
      BY <1>1, <1>3 DEF Seen
    <2>4. peers'[source].session = peers[source].session
      BY <2>1, <2>3 DEF Peer
    <2> QED
      BY <2>2, <2>4
  <1>4. ASSUME NEW source \in Sources,
               \/ \E nonce \in Nonces : RenewHello(source, nonce)
               \/ \E session \in Sessions :
                    \/ \E id \in DOMAIN Commands : ReceiveCommand(source, session, id)
                    \/ ReceiveRepair(source, session)
        PROVE  SessionsGoOn
    <2>1. Present(source) /\ peers' = Seen(source) /\ players' = players
      BY <1>4 DEF RenewHello, ReceiveCommand, ReceiveRepair, Seen, Speaks
    <2> QED
      BY <1>3, <2>1 DEF SessionsGoOn
  <1>5. ASSUME NEW source \in Sources, NEW session \in Sessions,
               NEW sequence \in 1..MaxInput, ReceiveInput(source, session, sequence)
        PROVE  SessionsGoOn
    <2>1. /\ Present(source) /\ peers' = Seen(source)
          /\ players' \in {players, [players EXCEPT ![session].input = sequence]}
      BY <1>5 DEF ReceiveInput, Speaks
    <2>2. \A s \in Sessions : players'[s].alive = players[s].alive
      BY <1>1, <2>1 DEF Player
    <2> QED
      BY <1>3, <2>1, <2>2 DEF SessionsGoOn
  <1>6. ASSUME NEW session \in Sessions, Recover(session)
        PROVE  SessionsGoOn
    <2> DEFINE owners == {p \in Sources : Speaks(p, session)}
    <2>1. players' \in {players, [players EXCEPT ![session] = Recovered(@)]}
      BY <1>6 DEF Recover
    <2>2. players[session].alive
      BY <1>6 DEF Recover, IsFirst, OwnersInv, StuckAreLive, Live
    <2>3. \A s \in Sessions : players'[s].alive = players[s].alive
      BY <1>1, <2>1, <2>2 DEF Recovered, NewPlayer, Player
    <2>4. CASE peers' = peers
      BY <2>3, <2>4 DEF SessionsGoOn
    <2>5. CASE peers' # peers
      <3>1. PICK slot \in Slots :
              peers' = [p \in Sources |->
                          IF p \in owners THEN [peers[p] EXCEPT !.slot = slot]
                          ELSE peers[p]]
        BY <1>6, <2>5 DEF Recover
      <3>2. \A p \in owners : peers[p] \in Peer
        BY OwnerOf DEF Speaks, OwnersInv
      <3>3. \A p \in owners : peers'[p].session = peers[p].session
        BY <3>1, <3>2 DEF Peer
      <3>4. \A p \in Sources \ owners : peers'[p] = peers[p]
        BY <3>1
      <3> QED
        BY <2>3, <3>3, <3>4 DEF SessionsGoOn
    <2> QED
      BY <2>4, <2>5
  <1>7. \/ peers' = peers /\ players' = players
        \/ \E session \in Sessions : Recover(session)
        \/ \E source \in Sources :
             \/ \E nonce \in Nonces : RenewHello(source, nonce)
             \/ \E session \in Sessions :
                  \/ \E sequence \in 1..MaxInput :
                       ReceiveInput(source, session, sequence)
                  \/ \E id \in DOMAIN Commands : ReceiveCommand(source, session, id)
                  \/ ReceiveRepair(source, session)
    BY DEF EndIngest, ServeRepair, StepPlayers, EndPlayers, EndTick, Apply, Reject,
           Takes, vars, owned
  <1> QED
    BY <1>2, <1>4, <1>5, <1>6, <1>7

(* A queue within its limit that holds nothing new but the item.           *)
Joined(new, q, item, S, limit) ==
  /\ new \in Seq(S) /\ Len(new) <= limit
  /\ \A i \in 1..Len(new) : new[i] = item \/ \E j \in 1..Len(q) : new[i] = q[j]

(* An item joins the end of a queue only where there is room.              *)
LEMMA EnqueuedQueue ==
  ASSUME NEW S, NEW q \in Seq(S), NEW limit \in Nat, Len(q) <= limit, NEW item \in S
  PROVE  Joined(Enqueued(q, item, limit), q, item, S, limit)
  <1>1. CASE Len(q) >= limit
    BY <1>1 DEF Enqueued, Joined
  <1>2. CASE ~(Len(q) >= limit)
    <2>1. Len(q) \in Nat
      OBVIOUS
    <2>2. Enqueued(q, item, limit) = Append(q, item)
      BY <1>2 DEF Enqueued
    <2>3. /\ Append(q, item) \in Seq(S)
          /\ Len(Append(q, item)) = Len(q) + 1
          /\ \A i \in 1..Len(q) : Append(q, item)[i] = q[i]
          /\ Append(q, item)[Len(q) + 1] = item
      BY AppendProperties
    <2>4. Len(q) + 1 <= limit /\ \A i \in 1..Len(q) + 1 : i \in 1..Len(q) \/ i = Len(q) + 1
      BY <1>2, <2>1
    <2> QED
      BY <2>2, <2>3, <2>4 DEF Joined
  <1> QED
    BY <1>1, <1>2

(* Work is added for those who speak, taken from the heads of the queues,  *)
(* and begun or completed.                                                 *)
LEMMA WorkGoesOn ==
  ASSUME WorkInv, SessionsGoOn, WorkTypes',
         \A i \in 1..Len(commands') :
           \/ commands'[i].session \in Live
           \/ \E j \in 1..Len(commands) : commands'[i] = commands[j],
         \A i \in 1..Len(repairs') :
           \/ Speaks(repairs'[i].source, repairs'[i].session)
           \/ \E j \in 1..Len(repairs) : repairs'[i] = repairs[j],
         \A p \in Sources : \/ transfers'[p] \in {0, transfers[p]}
                            \/ Speaks(p, transfers'[p])
  PROVE  WorkInv'
  <1>1. CommandsOwned'
    BY SameOwners DEF WorkInv, CommandsOwned
  <1>2. RepairsOwned'
    <2> SUFFICES ASSUME NEW i \in 1..Len(repairs')
                 PROVE  Speaks(repairs[i].source, repairs[i].session)'
      BY DEF RepairsOwned
    <2>1. Speaks(repairs'[i].source, repairs'[i].session)
      BY DEF WorkInv, RepairsOwned
    <2>2. repairs' \in Seq(Requests)
      BY DEF WorkTypes
    <2>3. repairs'[i] \in Requests
      BY <2>2, ElementOfSeq
    <2>4. repairs'[i].source \in Sources
      BY <2>3 DEF Requests
    <2> QED
      BY <2>1, <2>4 DEF Speaks, Present, SessionsGoOn
  <1>3. TransfersOwned'
    <2> SUFFICES ASSUME NEW p \in Sources, transfers'[p] # 0
                 PROVE  Speaks(p, transfers[p])'
      BY DEF TransfersOwned
    <2>1. Speaks(p, transfers'[p])
      BY DEF WorkInv, TransfersOwned
    <2> QED
      BY <2>1 DEF Speaks, Present, SessionsGoOn
  <1> QED
    BY <1>1, <1>2, <1>3 DEF WorkInv

LEMMA WorkReceived ==
  ASSUME WorkInv, OwnersInv, SessionsGoOn, NEW source \in Sources, NEW session \in Sessions,
         \/ \E id \in DOMAIN Commands : ReceiveCommand(source, session, id)
         \/ ReceiveRepair(source, session)
  PROVE  WorkInv'
  <1>1. /\ commands \in Seq(Queued) /\ Len(commands) <= MaxQueuedCommands
        /\ repairs \in Seq(Requests) /\ Len(repairs) <= MaxQueuedRepairs
        /\ transfers \in [Sources -> 0..MaxSessions]
        /\ MaxQueuedCommands \in Nat /\ MaxQueuedRepairs \in Nat
    BY SessionsAssumption DEF WorkInv, WorkTypes
  <1>2. Speaks(source, session) /\ session \in Live
    BY LiveOwned DEF ReceiveCommand, ReceiveRepair, Speaks, OwnersInv, Live
  <1>3. ASSUME NEW id \in DOMAIN Commands, ReceiveCommand(source, session, id)
        PROVE  WorkInv'
    <2> DEFINE item == [session |-> session, id |-> id]
    <2>1. /\ commands' = Enqueued(commands, item, MaxQueuedCommands)
          /\ repairs' = repairs /\ transfers' = transfers
      BY <1>3 DEF ReceiveCommand
    <2>2. item \in Queued /\ item.session = session
      BY DEF Queued
    <2> HIDE DEF item
    <2>3. /\ commands' \in Seq(Queued) /\ Len(commands') <= MaxQueuedCommands
          /\ \A i \in 1..Len(commands') :
               commands'[i] = item \/ \E j \in 1..Len(commands) : commands'[i] = commands[j]
      <3>1. Joined(Enqueued(commands, item, MaxQueuedCommands), commands, item, Queued, MaxQueuedCommands)
        BY <1>1, <2>2, EnqueuedQueue
      <3>2. Joined(commands', commands, item, Queued, MaxQueuedCommands)
        BY <2>1, <3>1
      <3> QED
        BY <3>2 DEF Joined
    <2>4. WorkTypes'
      BY <1>1, <2>1, <2>3 DEF WorkTypes
    <2> QED
      BY <1>2, <2>1, <2>2, <2>3, <2>4, WorkGoesOn
  <1>4. ASSUME ReceiveRepair(source, session)
        PROVE  WorkInv'
    <2> DEFINE item == [source |-> source, session |-> session]
    <2>1. /\ repairs' = Enqueued(repairs, item, MaxQueuedRepairs)
          /\ commands' = commands /\ transfers' = transfers
      BY <1>4 DEF ReceiveRepair
    <2>2. item \in Requests /\ item.session = session /\ item.source = source
      BY DEF Requests
    <2> HIDE DEF item
    <2>3. /\ repairs' \in Seq(Requests) /\ Len(repairs') <= MaxQueuedRepairs
          /\ \A i \in 1..Len(repairs') :
               repairs'[i] = item \/ \E j \in 1..Len(repairs) : repairs'[i] = repairs[j]
      <3>1. Joined(Enqueued(repairs, item, MaxQueuedRepairs), repairs, item, Requests, MaxQueuedRepairs)
        BY <1>1, <2>2, EnqueuedQueue
      <3>2. Joined(repairs', repairs, item, Requests, MaxQueuedRepairs)
        BY <2>1, <3>1
      <3> QED
        BY <3>2 DEF Joined
    <2>4. WorkTypes'
      BY <1>1, <2>1, <2>3 DEF WorkTypes
    <2> QED
      BY <1>2, <2>1, <2>2, <2>3, <2>4, WorkGoesOn
  <1> QED
    BY <1>3, <1>4

(* What is left when the head was taken was in the queue.                  *)
LEMMA TakenQueue ==
  ASSUME NEW S, NEW q \in Seq(S), q # <<>>, NEW limit \in Nat, Len(q) <= limit
  PROVE  /\ Head(q) \in S /\ Head(q) = q[1] /\ 1 \in 1..Len(q)
         /\ Tail(q) \in Seq(S) /\ Len(Tail(q)) <= limit
         /\ \A i \in 1..Len(Tail(q)) : \E j \in 1..Len(q) : Tail(q)[i] = q[j]
  <1>1. Len(q) \in Nat /\ Len(q) # 0
    OBVIOUS
  <1>2. Head(q) \in S /\ Head(q) = q[1]
    OBVIOUS
  <1>3. /\ Tail(q) \in Seq(S)
        /\ Len(Tail(q)) = Len(q) - 1
        /\ \A i \in 1..Len(Tail(q)) : Tail(q)[i] = q[i + 1]
    BY HeadTailProperties
  <1>4. \A i \in 1..Len(Tail(q)) : i + 1 \in 1..Len(q)
    BY <1>1, <1>3
  <1>5. Len(Tail(q)) <= limit /\ 1 \in 1..Len(q)
    BY <1>1, <1>3
  <1> QED
    BY <1>2, <1>3, <1>4, <1>5

LEMMA WorkTaken ==
  ASSUME WorkInv, OwnersInv, SessionsGoOn,
         \/ ServeRepair
         \/ StepPlayers
         \/ \E session \in Sessions, id \in DOMAIN Commands :
              Apply(session, id) \/ Reject(session, id)
  PROVE  WorkInv'
  <1>1. /\ commands \in Seq(Queued) /\ Len(commands) <= MaxQueuedCommands
        /\ repairs \in Seq(Requests) /\ Len(repairs) <= MaxQueuedRepairs
        /\ transfers \in [Sources -> 0..MaxSessions]
        /\ MaxQueuedCommands \in Nat /\ MaxQueuedRepairs \in Nat
        /\ Sessions \subseteq 0..MaxSessions /\ 0 \in 0..MaxSessions
    BY SessionsAssumption, SMTT(40) DEF WorkInv, WorkTypes, Sessions
  <1>2. CASE ServeRepair
    <2>1. /\ repairs # <<>> /\ repairs' = Tail(repairs) /\ commands' = commands
      BY <1>2 DEF ServeRepair
    <2>2. /\ Head(repairs) \in Requests
          /\ repairs' \in Seq(Requests) /\ Len(repairs') <= MaxQueuedRepairs
          /\ \A i \in 1..Len(repairs') :
               \E j \in 1..Len(repairs) : repairs'[i] = repairs[j]
      BY <1>1, <2>1, TakenQueue
    <2> DEFINE r == Head(repairs)
    <2>3. r.source \in Sources /\ r.session \in Sessions
      BY <2>2 DEF Requests
    <2>4. \/ transfers' = transfers
          \/ /\ Speaks(r.source, r.session)
             /\ transfers' \in {transfers,
                                [transfers EXCEPT ![r.source] = r.session]}
      <3>1. CASE ~Speaks(r.source, r.session)
        BY <3>1, <1>2 DEF ServeRepair
      <3>2. CASE Speaks(r.source, r.session)
        <4>1. PICK begun \in {transfers[r.source], r.session} :
                transfers' = [transfers EXCEPT ![r.source] = begun]
          BY <3>2, <1>2 DEF ServeRepair
        <4>2. [transfers EXCEPT ![r.source] = transfers[r.source]] = transfers
          BY <1>1
        <4> QED
          BY <3>2, <4>1, <4>2
      <3> QED
        BY <3>1, <3>2
    <2> HIDE DEF r
    <2>5. transfers' \in [Sources -> 0..MaxSessions]
      BY <1>1, <2>3, <2>4
    <2>6. \A p \in Sources : transfers'[p] = transfers[p] \/ Speaks(p, transfers'[p])
      BY <1>1, <2>3, <2>4
    <2>7. WorkTypes'
      BY <1>1, <2>1, <2>2, <2>5 DEF WorkTypes
    <2> QED
      BY <2>1, <2>2, <2>6, <2>7, WorkGoesOn
  <1>3. CASE StepPlayers
    <2>1. PICK done \in SUBSET Sources :
            transfers' = [p \in Sources |-> IF p \in done THEN 0 ELSE transfers[p]]
      BY <1>3 DEF StepPlayers
    <2>2. commands' = commands /\ repairs' = repairs
      BY <1>3 DEF StepPlayers
    <2>3. \A p \in Sources : transfers'[p] \in {0, transfers[p]}
      BY <2>1
    <2>4. WorkTypes'
      BY <1>1, <2>1, <2>2 DEF WorkTypes
    <2> QED
      BY <2>2, <2>3, <2>4, WorkGoesOn
  <1>4. CASE \E session \in Sessions, id \in DOMAIN Commands :
               Apply(session, id) \/ Reject(session, id)
    <2>1. /\ commands # <<>> /\ commands' = Tail(commands)
          /\ repairs' = repairs /\ transfers' = transfers
      BY <1>4 DEF Apply, Reject, Takes
    <2>2. /\ commands' \in Seq(Queued) /\ Len(commands') <= MaxQueuedCommands
          /\ \A i \in 1..Len(commands') :
               \E j \in 1..Len(commands) : commands'[i] = commands[j]
      BY <1>1, <2>1, TakenQueue
    <2>3. WorkTypes'
      BY <1>1, <2>1, <2>2 DEF WorkTypes
    <2> QED
      BY <2>1, <2>2, <2>3, WorkGoesOn
  <1> QED
    BY <1>2, <1>3, <1>4

LEMMA WorkElsewhere ==
  ASSUME WorkInv, SessionsGoOn, UNCHANGED queues
  PROVE  WorkInv'
  <1>1. commands' = commands /\ repairs' = repairs /\ transfers' = transfers
    BY DEF queues
  <1>2. WorkTypes'
    BY <1>1 DEF WorkInv, WorkTypes
  <1> QED
    BY <1>1, <1>2, WorkGoesOn

LEMMA WorkStep == OwnersInv /\ WorkInv /\ [Next]_vars => WorkInv'
  <1> SUFFICES ASSUME OwnersInv, WorkInv, [Next]_vars PROVE WorkInv'
    OBVIOUS
  <1>1. CASE \/ BeginTick
             \/ \E source \in Sources, nonce \in Nonces : RefuseHello(source, nonce)
    BY <1>1, WorkAtEnds
  <1>2. CASE \E source \in Sources, nonce \in Nonces : AcceptHello(source, nonce)
    BY <1>2, WorkAtAccept
  <1>3. CASE \E source \in Sources, session \in Sessions :
               \/ \E id \in DOMAIN Commands : ReceiveCommand(source, session, id)
               \/ ReceiveRepair(source, session)
    BY <1>3, SessionsStay, WorkReceived
  <1>4. CASE \/ ServeRepair
             \/ StepPlayers
             \/ \E session \in Sessions, id \in DOMAIN Commands :
                  Apply(session, id) \/ Reject(session, id)
    BY <1>4, SessionsStay, WorkTaken
  <1>5. CASE \/ EndIngest \/ EndPlayers \/ EndTick \/ UNCHANGED vars
             \/ \E session \in Sessions : Recover(session)
             \/ \E source \in Sources :
                  \/ \E nonce \in Nonces : RenewHello(source, nonce)
                  \/ \E session \in Sessions, sequence \in 1..MaxInput :
                       ReceiveInput(source, session, sequence)
    <2>1. SessionsGoOn
      BY <1>5, SessionsStay
    <2>2. UNCHANGED queues
      BY <1>5 DEF EndIngest, EndPlayers, EndTick, vars, Recover, RenewHello,
                  ReceiveInput, queues
    <2> QED
      BY <2>1, <2>2, WorkElsewhere
  <1>6. CASE Ingest
    BY <1>6, <1>1, <1>2, <1>3, <1>5 DEF Ingest
  <1> QED
    BY <1>1, <1>3, <1>4, <1>5, <1>6 DEF Next

LEMMA WorkAlways == Spec => [](OwnersInv /\ CommandsInv /\ WorkInv)
  BY OwnersStart, OwnersStep, CommandsStart, CommandsStep, WorkStart, WorkStep,
     PTL DEF Spec

(* A session that was replaced or expired leaves no work behind: what is   *)
(* queued belongs to the present session of its peer, and accounts that    *)
(* belong to nobody are new (remove_peer_state, prune_idle_peers).         *)
THEOREM QueuedWorkIsOwned == Spec => []QueuedWorkHasOwner
  <1>1. ASSUME OwnersInv, CommandsInv, WorkInv PROVE QueuedWorkHasOwner
    <2>1. commands \in Seq(Queued) /\ repairs \in Seq(Requests)
      BY <1>1 DEF WorkInv, WorkTypes
    <2>2. DOMAIN commands = 1..Len(commands) /\ DOMAIN repairs = 1..Len(repairs)
      BY <2>1
    <2>3. \A s \in Sessions \ Live : accounts[s] = NewAccount
      BY <1>1 DEF CommandsInv, AccountsEnd, Live
    <2> QED
      BY <1>1, <2>2, <2>3 DEF WorkInv, CommandsOwned, RepairsOwned, TransfersOwned,
         QueuedWorkHasOwner
  <1> QED
    BY <1>1, WorkAlways, PTL

-----------------------------------------------------------------------------
TickTypes ==
  /\ tick \in 0..MaxTick
  /\ stage \in {"idle", "ingest", "repairs", "players", "commands"}
  /\ served \in Nat
  /\ blocked \subseteq Slots

LEMMA TickTypesStep == TickTypes /\ [Next]_vars => TickTypes'
  <1> SUFFICES ASSUME TickTypes, [Next]_vars PROVE TickTypes'
    OBVIOUS
  <1>1. MaxTick \in Nat
    BY SessionsAssumption
  <1>2. CASE BeginTick
    BY <1>1, <1>2 DEF BeginTick, TickTypes
  <1>3. CASE Ingest
    <2>1. Ingests
      BY <1>3 DEF Ingest, RenewHello, RefuseHello, AcceptHello, ReceiveInput,
                  ReceiveCommand, ReceiveRepair
    <2> QED
      BY <2>1 DEF Ingests, TickTypes
  <1>4. CASE \/ EndIngest \/ ServeRepair \/ StepPlayers \/ EndPlayers \/ EndTick
             \/ \E session \in Sessions : Recover(session)
    BY <1>4 DEF EndIngest, ServeRepair, StepPlayers, EndPlayers, EndTick, Recover,
                TickTypes
  <1>5. ASSUME NEW session \in Sessions, NEW id \in DOMAIN Commands,
               Apply(session, id) \/ Reject(session, id)
        PROVE  TickTypes'
    <2>1. /\ tick' = tick /\ stage' = stage /\ served' = served + 1
          /\ blocked' = blocked \/ blocked' \in Reshaped(Commands[id])
      BY <1>5 DEF Apply, Reject, Takes
    <2>2. blocked' \subseteq Slots
      BY <2>1 DEF Reshaped, TickTypes
    <2> QED
      BY <2>1, <2>2 DEF TickTypes
  <1>6. CASE UNCHANGED vars
    BY <1>6 DEF vars, TickTypes
  <1> QED
    BY <1>2, <1>3, <1>4, <1>5, <1>6 DEF Next

(* Every state has its type, and the two queues keep their limits          *)
(* (enqueue_command, enqueue_recovery).                                    *)
THEOREM SessionsTyped == Spec => []TypeOK
  <1>1. Init => TickTypes
    BY SessionsAssumption DEF Init, TickTypes
  <1>2. Spec => []TickTypes
    BY <1>1, TickTypesStep, PTL DEF Spec
  <1>3. ASSUME OwnersInv, CommandsInv, WorkInv, TickTypes PROVE TypeOK
    <2>1. stuck \subseteq Sessions
      BY <1>3 DEF OwnersInv, StuckAreLive, Live
    <2> QED
      BY <1>3, <2>1 DEF OwnersInv, OwnerTypes, CommandsInv, AccountTypes, WorkInv,
         WorkTypes, TickTypes, TypeOK
  <1> QED
    BY <1>2, <1>3, WorkAlways, PTL

-----------------------------------------------------------------------------
LEMMA AcknowledgedSame ==
  ASSUME OwnersInv, CommandsInv,
         \A s \in Live \cap Live' : /\ players'[s] = players[s]
                                    /\ accounts'[s] = accounts[s]
  PROVE  NothingTakenBack
  <1>1. \A s \in Sessions : players[s].input \in Nat /\ accounts[s].last \in Nat
    BY DEF OwnersInv, OwnerTypes, CommandsInv, AccountTypes, Player, Account
  <1> QED
    BY <1>1 DEF NothingTakenBack, Live

LEMMA AcknowledgedStep ==
  ASSUME OwnersInv, CommandsInv, [Next]_vars
  PROVE  NothingTakenBack
  <1>1. /\ players \in [Sessions -> Player] /\ accounts \in [Sessions -> Account]
        /\ tick \in Nat
    BY DEF OwnersInv, OwnerTypes, CommandsInv, AccountTypes
  <1>2. \A s \in Sessions : players[s].input \in Nat /\ accounts[s].last \in Nat
    BY <1>1 DEF Player, Account
  <1>3. ASSUME \/ BeginTick
               \/ \E source \in Sources, nonce \in Nonces : RefuseHello(source, nonce)
        PROVE  NothingTakenBack
    <2>1. PICK gone \in SUBSET Sources :
            /\ players' = PlayersWithout(SessionsOf(gone))
            /\ accounts' = AccountsWithout(SessionsOf(gone))
      <3>1. Idle(tick + 1) \in SUBSET Sources
        BY DEF Idle
      <3> QED
        BY <1>3, <3>1 DEF BeginTick, RefuseHello
    <2>2. \A s \in Sessions : players'[s].alive => s \notin SessionsOf(gone)
      BY <2>1, EndingAccounts
    <2>3. \A s \in Live \cap Live' : players'[s] = players[s] /\ accounts'[s] = accounts[s]
      BY <2>1, <2>2 DEF Live, PlayersWithout, AccountsWithout
    <2> QED
      BY <2>3, AcknowledgedSame
  <1>4. ASSUME NEW source \in Sources, NEW nonce \in Nonces, AcceptHello(source, nonce)
        PROVE  NothingTakenBack
    <2> DEFINE ended == SessionsOf({source})
    <2>1. /\ players' = [PlayersWithout(ended) EXCEPT ![nextSession] = NewPlayer]
          /\ accounts' = AccountsWithout(ended)
          /\ nextSession \in Sessions
      BY <1>4 DEF AcceptHello
    <2>2. ~players[nextSession].alive
      <3> SUFFICES ASSUME players[nextSession].alive PROVE FALSE
        OBVIOUS
      <3>1. PICK p \in Sources : Present(p) /\ peers[p].session = nextSession
        BY <2>1, LiveOwned DEF OwnersInv
      <3> QED
        BY <3>1 DEF OwnersInv, OwnerTypes, GrantedInOrder
    <2>3. /\ PlayersWithout(ended) \in [Sessions -> Player]
          /\ \A s \in Sessions :
               PlayersWithout(ended)[s].alive <=> players[s].alive /\ s \notin ended
      BY EndingAccounts
    <2>4. \A s \in Sessions : s # nextSession =>
            players'[s] = PlayersWithout(ended)[s]
      BY <2>1, <2>3
    <2>5. \A s \in Live \cap Live' : s # nextSession /\ s \notin ended
      BY <2>2, <2>3, <2>4 DEF Live
    <2>6. \A s \in Sessions : s \notin ended =>
            PlayersWithout(ended)[s] = players[s] /\ AccountsWithout(ended)[s] = accounts[s]
      BY DEF PlayersWithout, AccountsWithout
    <2>7. \A s \in Live \cap Live' : players'[s] = players[s] /\ accounts'[s] = accounts[s]
      BY <2>1, <2>4, <2>5, <2>6 DEF Live
    <2> QED
      BY <2>7, AcknowledgedSame
  <1>5. ASSUME NEW source \in Sources, NEW session \in Sessions,
               NEW sequence \in 1..MaxInput, ReceiveInput(source, session, sequence)
        PROVE  NothingTakenBack
    <2>1. /\ accounts' = accounts
          /\ \/ players' = players
             \/ /\ players' = [players EXCEPT ![session].input = sequence]
                /\ ~(sequence <= players[session].input)
      BY <1>5 DEF ReceiveInput
    <2>2. \A s \in Sessions : players'[s].input >= players[s].input
      BY <1>1, <1>2, <2>1 DEF Player
    <2> QED
      BY <1>2, <2>1, <2>2 DEF NothingTakenBack, Live
  <1>6. ASSUME NEW session \in Sessions, Recover(session)
        PROVE  NothingTakenBack
    <2>1. /\ accounts' = accounts
          /\ players' \in {players, [players EXCEPT ![session] = Recovered(@)]}
      BY <1>6 DEF Recover
    <2>2. \A s \in Sessions : players'[s].input = players[s].input
      BY <1>1, <2>1 DEF Recovered, NewPlayer, Player
    <2> QED
      BY <1>2, <2>1, <2>2 DEF NothingTakenBack, Live
  <1>7. ASSUME NEW session \in Sessions, NEW id \in DOMAIN Commands, Apply(session, id)
        PROVE  NothingTakenBack
    <2>1. /\ players' = players
          /\ accounts' = [accounts EXCEPT ![session] = Charged(@, id)]
          /\ id > accounts[session].last
      BY <1>7 DEF Apply, Takes, Fresh
    <2>2. Charged(accounts[session], id).last = id /\ id \in Nat
      BY SessionsAssumption DEF Charged
    <2>3. \A s \in Sessions : accounts'[s].last >= accounts[s].last
      <3>1. accounts'[session].last = id
        BY <1>1, <2>1, <2>2
      <3>2. \A s \in Sessions : s # session => accounts'[s] = accounts[s]
        BY <1>1, <2>1
      <3> QED
        BY <1>2, <2>1, <2>2, <3>1, <3>2
    <2> QED
      BY <1>2, <2>1, <2>3 DEF NothingTakenBack, Live
  <1>8. ASSUME players' = players, accounts' = accounts
        PROVE  NothingTakenBack
    BY <1>8, AcknowledgedSame
  <1>9. CASE Ingest
    <2>1. PICK source \in Sources :
            \/ \E nonce \in Nonces : \/ RenewHello(source, nonce)
                                     \/ RefuseHello(source, nonce)
                                     \/ AcceptHello(source, nonce)
            \/ \E session \in Sessions :
                 \/ \E sequence \in 1..MaxInput :
                      ReceiveInput(source, session, sequence)
                 \/ \E id \in DOMAIN Commands : ReceiveCommand(source, session, id)
                 \/ ReceiveRepair(source, session)
      BY <1>9 DEF Ingest
    <2>2. CASE \/ \E nonce \in Nonces : RenewHello(source, nonce)
               \/ \E session \in Sessions :
                    \/ \E id \in DOMAIN Commands : ReceiveCommand(source, session, id)
                    \/ ReceiveRepair(source, session)
      <3>1. players' = players /\ accounts' = accounts
        BY <2>2 DEF RenewHello, ReceiveCommand, ReceiveRepair
      <3> QED
        BY <3>1, <1>8
    <2> QED
      BY <2>1, <2>2, <1>3, <1>4, <1>5
  <1>10. CASE \/ EndIngest \/ ServeRepair \/ StepPlayers \/ EndPlayers \/ EndTick
              \/ \E session \in Sessions, id \in DOMAIN Commands : Reject(session, id)
              \/ UNCHANGED vars
    <2>1. players' = players /\ accounts' = accounts
      BY <1>10 DEF EndIngest, ServeRepair, StepPlayers, EndPlayers, EndTick, Reject,
                   Takes, vars, owned
    <2> QED
      BY <2>1, <1>8
  <1> QED
    BY <1>3, <1>6, <1>7, <1>9, <1>10 DEF Next

(* What a session was told was received is not taken back while it lives   *)
(* (accept_player_input, validate_fresh_command, recover_player).          *)
THEOREM AcknowledgementsAreKept == Spec => AcknowledgementsStay
  <1>1. OwnersInv /\ CommandsInv /\ [Next]_vars => [NothingTakenBack]_vars
    BY AcknowledgedStep
  <1> QED
    BY <1>1, CommandsAlways, PTL DEF Spec, AcknowledgementsStay

=============================================================================
