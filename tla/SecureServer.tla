---------------------------- MODULE SecureServer ----------------------------
(***************************************************************************)
(* The QUIC supervisor SecureDedicatedServer (src/secure_server.rs) over   *)
(* the sessions of its AuthorityCore (src/network.rs): the task that       *)
(* shakes hands and admits a connection (src/secure_transport.rs), the     *)
(* bounded channels of control and gameplay events, the tick that drains   *)
(* them, the task that receives the datagrams of a session, and shutdown.  *)
(* Tasks run between any two steps of the tick; a connection may be lost   *)
(* at any time.                                                            *)
(*                                                                         *)
(* allocate_session_id gives every connection a number of its own, which   *)
(* is its peer id and its session id: the connection stands for all three. *)
(***************************************************************************)
EXTENDS Naturals, Sequences, FiniteSets

CONSTANTS
  Connections,
  MaxHandshakes,     \* MAX_PENDING_QUIC_HANDSHAKES
  MaxPeers,          \* MAX_SERVER_PEERS
  MaxControl,        \* MAX_SECURE_CONTROL_EVENTS, also the most of one tick
  MaxGameplay,       \* MAX_SECURE_GAMEPLAY_EVENTS
  MaxBuffered,       \* datagrams a QUIC connection keeps
  MaxDrops,          \* MAX_CONSECUTIVE_GAMEPLAY_QUEUE_DROPS
  RateLimit,         \* MAX_SESSION_DATAGRAMS_PER_SECOND
  DatagramsPerTick,  \* MAX_RECEIVED_DATAGRAMS_PER_TICK
  MaxIdleTicks       \* MAX_PEER_IDLE_TICKS

ASSUME ServerAssumption ==
  /\ {MaxHandshakes, MaxPeers, MaxControl, MaxGameplay, MaxBuffered, MaxDrops,
      RateLimit, DatagramsPerTick} \subseteq Nat \ {0}
  /\ MaxIdleTicks \in Nat

VARIABLES
  link,       \* the QUIC connection
  task,       \* the server's task for the connection, or where it waits
  unreaped,   \* admission tasks that ended and were not joined yet
  control,    \* the channel of [kind, of]
  gameplay,   \* the channel of connections, one entry for each datagram
  traffic,    \* of a connection: datagrams nobody has read yet, and what its
              \* receiver counts: datagrams_in_window, consecutive_queue_drops
  peers,      \* the core's peers
  sessions,   \* the supervisor's sessions
  stage,      \* where the tick is
  drained,    \* events taken in this stage
  server

tasks == <<task, unreaped, traffic>>
ServerVars == <<link, tasks, control, gameplay, peers, sessions, stage, drained,
                server>>

(* A peer that was admitted by its credential has a principal; one that    *)
(* said Hello has none, and a session number of the core's own choice,     *)
(* which may be the connection's or another.                               *)
PeerStates == [session: {"own", "other"}, principal: BOOLEAN, idle: 0..MaxIdleTicks]
NoSession == [session |-> "none", principal |-> FALSE, idle |-> 0]
Admitted == [session |-> "own", principal |-> TRUE, idle |-> 0]

NoTraffic == [unread |-> 0, counted |-> 0, drops |-> 0]

Known(c) == peers[c].session # "none"

IsActive(c) == peers[c].session = "own"

ServerInit ==
  /\ link = [c \in Connections |-> "none"]
  /\ task = [c \in Connections |-> "none"]
  /\ unreaped = 0
  /\ control = <<>>
  /\ gameplay = <<>>
  /\ traffic = [c \in Connections |-> NoTraffic]
  /\ peers = [c \in Connections |-> NoSession]
  /\ sessions = {}
  /\ stage = "rest"
  /\ drained = 0
  /\ server = "running"

-----------------------------------------------------------------------------
(* The clients and the network                                             *)

NetworkOnly == UNCHANGED <<task, unreaped, control, gameplay, peers, sessions,
                           stage, drained, server>>

(* The client closes the connection, or QUIC gives it up.                  *)
LoseConnection(c) ==
  /\ link[c] \in {"incoming", "open"}
  /\ link' = [link EXCEPT ![c] = "closed"]
  /\ UNCHANGED traffic /\ NetworkOnly

(* A client sends once it has been welcomed, whether or not the tick has   *)
(* admitted it yet.  A full buffer loses a datagram.                       *)
SendDatagram(c) ==
  /\ link[c] = "open" /\ task[c] \in {"report", "queued", "receive"}
  /\ traffic[c].unread < MaxBuffered
  /\ traffic' = [traffic EXCEPT ![c].unread = @ + 1]
  /\ UNCHANGED link /\ NetworkOnly

-----------------------------------------------------------------------------
(* accept_connections and its admission tasks                              *)

Admitting == {c \in Connections : task[c] \in {"handshake", "admission", "report"}}

AdmissionOnly == UNCHANGED <<gameplay, traffic, peers, sessions, stage, drained, server>>

Crowded == Cardinality(Admitting) + unreaped >= MaxHandshakes

Connect(c) ==
  /\ server = "running" /\ link[c] = "none"
  /\ IF Crowded
     THEN /\ link' = [link EXCEPT ![c] = "closed"]
          /\ task' = [task EXCEPT ![c] = "over"]
     ELSE /\ link' = [link EXCEPT ![c] = "incoming"]
          /\ task' = [task EXCEPT ![c] = "handshake"]
  /\ UNCHANGED <<unreaped, control>> /\ AdmissionOnly

(* One pass of the loop joins one task.                                    *)
Reap ==
  /\ server = "running" /\ unreaped > 0
  /\ unreaped' = unreaped - 1
  /\ UNCHANGED <<link, task, control>> /\ AdmissionOnly

Shaken(c) ==
  /\ task[c] = "handshake" /\ link[c] = "incoming"
  /\ link' = [link EXCEPT ![c] = "open"]
  /\ task' = [task EXCEPT ![c] = "admission"]
  /\ UNCHANGED <<unreaped, control>> /\ AdmissionOnly

(* The handshake fails, or admit_session does: the hello is malformed or   *)
(* late, the credential is rejected, the stream breaks.                    *)
AdmissionFails(c) ==
  /\ task[c] \in {"handshake", "admission"}
  /\ link' = [link EXCEPT ![c] = "closed"]
  /\ task' = [task EXCEPT ![c] = "over"]
  /\ unreaped' = unreaped + 1
  /\ UNCHANGED control /\ AdmissionOnly

AdmissionPasses(c) ==
  /\ task[c] = "admission" /\ link[c] = "open"
  /\ task' = [task EXCEPT ![c] = "report"]
  /\ UNCHANGED <<link, unreaped, control>> /\ AdmissionOnly

(* control_sender.send waits for room.                                     *)
Report(c) ==
  /\ task[c] = "report" /\ Len(control) < MaxControl
  /\ control' = Append(control, [kind |-> "admitted", of |-> c])
  /\ task' = [task EXCEPT ![c] = "queued"]
  /\ unreaped' = unreaped + 1
  /\ UNCHANGED link /\ AdmissionOnly

-----------------------------------------------------------------------------
(* receive_session_datagrams                                               *)

ReceiverOnly == UNCHANGED <<unreaped, peers, sessions, stage, drained, server>>

(* A datagram is read.  The window of the rate may have ended since.       *)
Counts(c, n) ==
  /\ task[c] = "receive" /\ traffic[c].unread > 0
  /\ n \in {1, traffic[c].counted + 1}

AfterReading(c, n, dropped) ==
  [unread |-> traffic[c].unread - 1, counted |-> n, drops |-> dropped]

Forward(c) ==
  /\ Len(gameplay) < MaxGameplay
  /\ gameplay' = Append(gameplay, c)
  /\ \E n \in 1..RateLimit :
       /\ Counts(c, n)
       /\ traffic' = [traffic EXCEPT ![c] = AfterReading(c, n, 0)]
  /\ UNCHANGED <<link, task, control>> /\ ReceiverOnly

(* A full channel drops the datagram.                                      *)
DropDatagram(c) ==
  /\ Len(gameplay) = MaxGameplay
  /\ traffic[c].drops + 1 < MaxDrops
  /\ \E n \in 1..RateLimit :
       /\ Counts(c, n)
       /\ traffic' = [traffic EXCEPT ![c] = AfterReading(c, n, @.drops + 1)]
  /\ UNCHANGED <<link, task, control, gameplay>> /\ ReceiverOnly

Leaves(c) ==
  /\ task' = [task EXCEPT ![c] = "disconnect"]
  /\ traffic' = [traffic EXCEPT ![c] = NoTraffic]
  /\ UNCHANGED <<control, gameplay>> /\ ReceiverOnly

(* One datagram too many in the window, one too many dropped in a row, or  *)
(* one that is empty or too long.                                          *)
Reprove(c) ==
  /\ \E n \in 1..RateLimit + 1 : Counts(c, n)
  /\ link' = [link EXCEPT ![c] = "closed"]
  /\ Leaves(c)

(* What was received before the connection ended is read first.            *)
NoticeEnd(c) ==
  /\ task[c] = "receive" /\ link[c] = "closed" /\ traffic[c].unread = 0
  /\ UNCHANGED link
  /\ Leaves(c)

(* The last act of the task; it waits for room as well.                    *)
SendsEndOrDropsIt(c) ==
  control' = IF Len(control) < MaxControl
             THEN Append(control, [kind |-> "disconnected", of |-> c])
             ELSE control

SendsEnd(c) ==
  /\ Len(control) < MaxControl
  /\ control' = Append(control, [kind |-> "disconnected", of |-> c])

ReportEnd(c) ==
  /\ task[c] = "disconnect"
  /\ SendsEnd(c)
  /\ task' = [task EXCEPT ![c] = "over"]
  /\ UNCHANGED <<link, gameplay, traffic>> /\ ReceiverOnly

-----------------------------------------------------------------------------
(* SecureDedicatedServer::tick                                             *)

AgedPeers ==
  [c \in Connections |->
     IF ~Known(c) \/ peers[c].idle = MaxIdleTicks THEN NoSession
     ELSE [peers[c] EXCEPT !.idle = @ + 1]]

(* begin_tick prunes idle peers.                                           *)
BeginTick ==
  /\ server = "running" /\ stage = "rest"
  /\ peers' = AgedPeers
  /\ stage' = "control"
  /\ drained' = 0
  /\ UNCHANGED <<link, tasks, control, gameplay, sessions, server>>

Drains(kind, c) ==
  /\ stage = "control" /\ drained < MaxControl
  /\ control # <<>> /\ Head(control) = [kind |-> kind, of |-> c]
  /\ control' = Tail(control)
  /\ drained' = drained + 1
  /\ UNCHANGED <<unreaped, gameplay, stage, server>>

HasRoom == Cardinality({c \in Connections : Known(c)}) < MaxPeers

(* admit_authenticated; the receiver of the session is spawned.            *)
Admit(c) ==
  /\ Drains("admitted", c)
  /\ HasRoom /\ ~Known(c)
  /\ peers' = [peers EXCEPT ![c] = Admitted]
  /\ sessions' = sessions \cup {c}
  /\ task' = [task EXCEPT ![c] = "receive"]
  /\ UNCHANGED <<link, traffic>>

(* There are too many peers, or the world leaves no clear spawn slot.      *)
Refuse(c) ==
  /\ Drains("admitted", c)
  /\ link' = [link EXCEPT ![c] = "closed"]
  /\ task' = [task EXCEPT ![c] = "over"]
  /\ traffic' = [traffic EXCEPT ![c] = NoTraffic]
  /\ UNCHANGED <<peers, sessions>>

(* disconnect_authenticated                                                *)
Matches(c) == peers[c].principal /\ peers[c].session = "own"

Disconnect(c) ==
  /\ Drains("disconnected", c)
  /\ IF Matches(c)
     THEN /\ peers' = [peers EXCEPT ![c] = NoSession]
          /\ sessions' = sessions \ {c}
     ELSE UNCHANGED <<peers, sessions>>
  /\ UNCHANGED <<link, task, traffic>>

EndControl ==
  /\ stage = "control"
  /\ control = <<>> \/ drained = MaxControl
  /\ stage' = "gameplay"
  /\ drained' = 0
  /\ UNCHANGED <<link, tasks, control, gameplay, peers, sessions, server>>

Ingests(c) ==
  /\ stage = "gameplay" /\ drained < DatagramsPerTick
  /\ gameplay # <<>> /\ Head(gameplay) = c
  /\ gameplay' = Tail(gameplay)
  /\ drained' = drained + 1
  /\ UNCHANGED <<link, tasks, control, sessions, stage, server>>

(* The datagram of a session that ended is rejected; so is a malformed     *)
(* one, one that names another session than its peer's, and the Hello of a *)
(* peer that has a principal.                                              *)
IgnoreDatagram(c) ==
  /\ Ingests(c)
  /\ UNCHANGED peers

(* A request of the session: ingest_datagram renews the peer.              *)
IngestRequest(c) ==
  /\ Ingests(c)
  /\ c \in sessions /\ IsActive(c)
  /\ peers' = [peers EXCEPT ![c].idle = 0]

(* ingest_datagram hands a Hello to accept_hello unless the peer has a     *)
(* principal.  The peer that begin_tick pruned has none any more.  A Hello *)
(* repeated renews its peer, one with another nonce replaces it.           *)
IngestHello(c) ==
  /\ Ingests(c)
  /\ c \in sessions /\ ~peers[c].principal
  /\ \/ /\ Known(c)
        /\ peers' = [peers EXCEPT ![c].idle = 0]
     \/ /\ HasRoom \/ Known(c)
        /\ \E session \in {"own", "other"} :
             peers' = [peers EXCEPT ![c] =
                         [session |-> session, principal |-> FALSE, idle |-> 0]]

EndGameplay ==
  /\ stage = "gameplay"
  /\ gameplay = <<>> \/ drained = DatagramsPerTick
  /\ stage' = "expire"
  /\ drained' = 0
  /\ UNCHANGED <<link, tasks, control, gameplay, peers, sessions, server>>

(* expire_core_sessions                                                    *)
Without(ended) == [c \in Connections |-> IF c \in ended THEN NoTraffic
                                          ELSE traffic[c]]

ExpiredIfReplaced == {c \in sessions : peers[c].session = "other"}

Expired == {c \in sessions : ~IsActive(c)}

Expire ==
  /\ stage = "expire"
  /\ sessions' = sessions \ Expired
  /\ link' = [c \in Connections |-> IF c \in Expired THEN "closed" ELSE link[c]]
  /\ task' = [c \in Connections |-> IF c \in Expired THEN "over" ELSE task[c]]
  /\ traffic' = Without(Expired)
  /\ stage' = "rest"
  /\ UNCHANGED <<unreaped, control, gameplay, peers, drained, server>>

-----------------------------------------------------------------------------
(* shutdown: close_all closes the endpoint and with it every connection,   *)
(* and aborts the receivers of the sessions.                               *)
Shutdown ==
  /\ server = "running" /\ stage \in {"rest", "expire"}
  /\ server' = "closing"
  /\ link' = [c \in Connections |-> IF link[c] = "none" THEN "none" ELSE "closed"]
  /\ task' = [c \in Connections |-> IF c \in sessions THEN "over" ELSE task[c]]
  /\ traffic' = Without(sessions)
  /\ sessions' = {}
  /\ UNCHANGED <<unreaped, control, gameplay, peers, stage, drained>>

(* The accept loop finds the endpoint closed and aborts its tasks; then    *)
(* the channels and the core are dropped.                                  *)
Close ==
  /\ server = "closing"
  /\ server' = "closed"
  /\ task' = [c \in Connections |-> IF task[c] = "none" THEN "none" ELSE "over"]
  /\ unreaped' = 0
  /\ control' = <<>>
  /\ gameplay' = <<>>
  /\ peers' = [c \in Connections |-> NoSession]
  /\ traffic' = Without(Connections)
  /\ UNCHANGED <<link, sessions, stage, drained>>

-----------------------------------------------------------------------------
AdmissionStep(c) == \/ Shaken(c) \/ AdmissionFails(c) \/ AdmissionPasses(c)
                    \/ Report(c)
ReceiverStep(c) == \/ Forward(c) \/ DropDatagram(c) \/ Reprove(c) \/ NoticeEnd(c)
                   \/ ReportEnd(c)
TickStep ==
  \/ BeginTick
  \/ \E c \in Connections :
       \/ Admit(c) \/ Refuse(c) \/ Disconnect(c)
       \/ IgnoreDatagram(c) \/ IngestRequest(c)
  \/ EndControl \/ EndGameplay \/ Expire

ServerNext ==
  \/ TickStep \/ Reap \/ Shutdown \/ Close
  \/ \E c \in Connections :
       \/ LoseConnection(c) \/ SendDatagram(c) \/ Connect(c)
       \/ AdmissionStep(c) \/ ReceiverStep(c)

(* The tick is driven by a timer; tasks are scheduled and their waits are  *)
(* bounded (an admission by its deadline); a channel serves its senders in *)
(* turn.                                                                   *)
ServerFairness ==
  /\ WF_ServerVars(TickStep)
  /\ WF_ServerVars(Close)
  /\ \A c \in Connections :
       /\ WF_ServerVars(AdmissionStep(c) /\ task[c] # "report")
       /\ WF_ServerVars(ReceiverStep(c) /\ task[c] # "disconnect")
       /\ SF_ServerVars(Report(c))
       /\ SF_ServerVars(ReportEnd(c))

ServerSpec == ServerInit /\ [][ServerNext]_ServerVars /\ ServerFairness

(* The client of the repository (src/secure_client.rs) never says Hello;   *)
(* here one may.                                                           *)
HelloNext == ServerNext \/ \E c \in Connections : IngestHello(c)

HelloSpec == ServerInit /\ [][HelloNext]_ServerVars /\ ServerFairness

-----------------------------------------------------------------------------
ServerTypeOK ==
  /\ link \in [Connections -> {"none", "incoming", "open", "closed"}]
  /\ task \in [Connections -> {"none", "handshake", "admission", "report",
                               "queued", "receive", "disconnect", "over"}]
  /\ unreaped \in Nat
  /\ control \in Seq([kind: {"admitted", "disconnected"}, of: Connections])
  /\ Len(control) <= MaxControl
  /\ gameplay \in Seq(Connections)
  /\ Len(gameplay) <= MaxGameplay
  /\ traffic \in [Connections -> [unread: 0..MaxBuffered, counted: 0..RateLimit,
                                  drops: 0..MaxDrops - 1]]
  /\ peers \in [Connections -> PeerStates \cup {NoSession}]
  /\ sessions \subseteq Connections
  /\ stage \in {"rest", "control", "gameplay", "expire"}
  /\ drained \in Nat
  /\ server \in {"running", "closing", "closed"}

(* While no client says Hello, which IngestHello shows the harm of: between *)
(* two ticks the supervisor and the core agree, each of its sessions is a  *)
(* peer admitted by its credential, which holds the session of that        *)
(* connection, and there is no other peer.  And at no time is a connection *)
(* kept open by nobody: it is being admitted, waits for the tick, or has a *)
(* session whose task receives from it or is about to report its end       *)
(* (secure_server.rs: accept_connections, drain_control_events,            *)
(* expire_core_sessions).                                                  *)
Queued(kind, c) == \E i \in DOMAIN control : control[i] = [kind |-> kind, of |-> c]

SessionsMatchCore ==
  \A c \in Connections :
    /\ server = "running" /\ stage = "rest" =>
         IF c \in sessions THEN peers[c].principal /\ IsActive(c) ELSE ~Known(c)
    /\ link[c] = "open" => \/ c \in Admitting
                           \/ Queued("admitted", c)
                           \/ c \in sessions /\ task[c] = "receive"
    /\ task[c] = "queued" => Queued("admitted", c) \/ server # "running"
    /\ c \in sessions /\ task[c] = "over" => Queued("disconnected", c) \/ ~IsActive(c)

(* Whatever ends a connection, at whatever moment of its admission or of a *)
(* tick, the core and the supervisor forget it and its task ends, though   *)
(* the channel that carries the news may be full (secure_server.rs:        *)
(* receive_session_datagrams, accept_connections).                         *)
EndedConnectionsLeave ==
  \A c \in Connections :
    link[c] = "closed" ~> task[c] = "over" /\ c \notin sessions /\ ~Known(c)

(* Every peer of the core was admitted by its credential (network.rs:      *)
(* ingest_datagram).                                                       *)
PeersAreAuthenticated ==
  \A c \in Connections : Known(c) => peers[c].principal
=============================================================================
