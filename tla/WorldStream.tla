---------------------------- MODULE WorldStream ----------------------------
(***************************************************************************)
(* Replication of the permanent world from one AuthorityCore               *)
(* (src/network.rs) to the clients of src/bin/multiplayer_demo.rs:         *)
(* sequenced deltas sent live, exact repair from a bounded history, and    *)
(* snapshots with fragment repair, an install acknowledgement and catch-up *)
(* of the deltas committed in between.                                     *)
(*                                                                         *)
(* The authority runs one fixed tick at a time: it ingests datagrams,      *)
(* serves queued recovery requests, services snapshot transfers, then      *)
(* simulates, each change of the world leaving as one delta.  Clients and  *)
(* datagrams interleave with it freely.  The peers here stay admitted      *)
(* under one session: admission, idle pruning and removal are not part of  *)
(* this module.                                                            *)
(***************************************************************************)
EXTENDS DeltaInbox, Sequences

CONSTANTS
  Peers,
  SnapshotFrames,         \* fragments of an encoded snapshot
  SnapshotFramesPerTick,  \* MAX_SNAPSHOT_FRAMES_PER_PEER_PER_TICK
  MaxPacketFrames,        \* most frames of one delta
  MaxRetainedPackets,     \* MAX_RETAINED_DELTA_PACKETS
  MaxRetainedFrames,      \* MAX_RETAINED_DELTA_BYTES, in frames
  MaxCatchupPackets,      \* MAX_SNAPSHOT_CATCHUP_PACKETS
  MaxCatchupFrames,       \* MAX_SNAPSHOT_CATCHUP_BYTES, in frames
  MaxQueuedRepairs,       \* MAX_QUEUED_REPAIRS
  MaxRepairsPerTick,      \* MAX_REPAIRS_PER_TICK
  SnapshotCooldown,       \* SNAPSHOT_RETRY_COOLDOWN_TICKS
  MaxDeltas,              \* bound: deltas committed
  MaxSnapshots,           \* bound: snapshots built
  Redelivery,             \* the network may deliver a datagram again
  Losable,                \* classes of datagrams the network may drop
  MaxLosses,              \* bound: datagrams dropped
  Patience,               \* retry timers outlast a round trip
  Refusals                \* the transport may refuse a datagram, and a
                          \* snapshot may fail to encode

Classes == {"delta", "snapshot", "request", "ack"}

ASSUME StreamAssumption ==
  /\ SnapshotFrames \in Nat \ {0}
  /\ SnapshotFramesPerTick \in Nat \ {0}
  /\ MaxPacketFrames \in Nat \ {0}
  /\ MaxRetainedPackets \in Nat \ {0}
  \* 1024 frames of 1200 bytes are less than 8 MiB
  /\ MaxRetainedFrames \in Nat /\ MaxPacketFrames <= MaxRetainedFrames
  /\ MaxCatchupPackets \in Nat
  /\ MaxCatchupFrames \in Nat
  /\ MaxQueuedRepairs \in Nat \ {0}
  /\ MaxRepairsPerTick \in Nat \ {0}
  /\ SnapshotCooldown \in Nat
  /\ MaxDeltas \in Nat
  /\ MaxSnapshots \in Nat
  /\ Redelivery \in BOOLEAN
  /\ Losable \subseteq Classes
  /\ MaxLosses \in Nat
  /\ Patience \in BOOLEAN
  /\ Refusals \in BOOLEAN

VARIABLES
  \* authority
  log,             \* frames of each delta committed; index = sequence
  retained,        \* retained_deltas: sequences, oldest first
  transfer,        \* snapshot_transfers: one record per peer
  repairs,         \* repairs: queued recovery requests
  nextSnapshotId,
  sinceSnapshot,   \* ticks since last_snapshot_tick, up to the cooldown
  \* the tick in progress
  stage,
  served,          \* requests taken from the queue in this tick
  built,           \* the snapshot shared by this tick's requests
  todo,            \* transfers not serviced yet in this tick
  \* network
  deltaNet, snapshotNet, requestNet, losses,
  \* clients
  phase,           \* SnapshotPhase
  inbox,           \* delta_inbox
  gap,             \* delta_gap_since is some time
  assembler,       \* snapshot_assembler
  replica,         \* ClientReplica
  fault            \* the error that ended the client

authorityVars == <<log, retained, transfer, repairs, nextSnapshotId, sinceSnapshot>>
tickVars == <<stage, served, built, todo>>
netVars == <<deltaNet, snapshotNet, requestNet, losses>>
clientVars == <<phase, inbox, gap, assembler, replica, fault>>
vars == <<authorityVars, tickVars, netVars, clientVars>>

--------------------------------------------------------------------------
(* Data *)

NextSequence == Len(log) + 1

Frames(sequence) == Packet(sequence, log[sequence])

\* The frames of a queue of packets, which stand for its bytes.
QueuedFrames(queue) == UNION {Frames(queue[i]) : i \in DOMAIN queue}

SnapshotFrame == [id: Nat, index: 1..SnapshotFrames, next: Nat \ {0}]

SnapshotPacket(id, next) ==
  {[id |-> id, index |-> i, next |-> next] : i \in 1..SnapshotFrames}

Request(kind, id, missing) == [kind |-> kind, id |-> id, missing |-> missing]

Requests ==
  [kind: {"delta", "snapshot", "fragments", "ack"}, id: Nat,
   missing: SUBSET (1..SnapshotFrames)]

QueuedRepair == [peer: Peers, request: Requests]

\* stage: SnapshotTransferStage, "none" when the peer has no transfer;
\* sent: next_frame; resume: the next_sequence of the catch-up stage.
Transfer ==
  [stage: {"none", "snapshot", "awaiting ack", "catchup", "stalled"},
   id: Nat, next: Nat \ {0}, sent: 0..SnapshotFrames, resume: Nat \ {0},
   catchup: Seq(Nat)]

NoTransfer ==
  [stage |-> "none", id |-> 0, next |-> 1, sent |-> 0, resume |-> 1, catchup |-> <<>>]

NewTransfer(id, next) ==
  [stage |-> "snapshot", id |-> id, next |-> next, sent |-> 0, resume |-> 1,
   catchup |-> <<>>]

Stalled(t) == [t EXCEPT !.stage = "stalled", !.catchup = <<>>]

NotBuilt == [tried |-> FALSE, id |-> 0, next |-> 0]

Assembler ==
  [active: Nat, got: SUBSET (1..SnapshotFrames), done: Nat]

NewAssembler == [active |-> 0, got |-> {}, done |-> 0]

\* expected: expected_sequence; world: the version of the world shown, as
\* in ReplicatedWorld, 0 for the client's own placeholder.
Replica == [expected: Nat \ {0}, world: Nat]

NewReplica == [expected |-> 1, world |-> 0]

Init ==
  /\ log = <<>>
  /\ retained = <<>>
  /\ transfer = [p \in Peers |-> NoTransfer]
  /\ repairs = <<>>
  /\ nextSnapshotId = 1
  /\ sinceSnapshot = [p \in Peers |-> SnapshotCooldown]
  /\ stage = "ingest"
  /\ served = 0
  /\ built = NotBuilt
  /\ todo = {}
  /\ deltaNet = [p \in Peers |-> {}]
  /\ snapshotNet = [p \in Peers |-> {}]
  /\ requestNet = [p \in Peers |-> {}]
  /\ losses = 0
  /\ phase = [p \in Peers |-> "awaiting"]
  /\ inbox = [p \in Peers |-> EmptyInbox(1)]
  /\ gap = [p \in Peers |-> FALSE]
  /\ assembler = [p \in Peers |-> NewAssembler]
  /\ replica = [p \in Peers |-> NewReplica]
  /\ fault = [p \in Peers |-> "none"]

--------------------------------------------------------------------------
(* Network: a datagram that was delivered may be delivered again. *)

Send(net, p, datagrams) == [net EXCEPT ![p] = @ \cup datagrams]

Deliver(net, p, datagram) ==
  IF Redelivery THEN net ELSE [net EXCEPT ![p] = @ \ {datagram}]

\* send_packet_frames, send_selected_snapshot_frames: all frames accepted,
\* or only some of them (none when the tick's send budget is spent).
Attempts(frames) ==
  {[complete |-> TRUE, sent |-> frames]} \cup
    (IF Refusals
     THEN {[complete |-> FALSE, sent |-> s] : s \in (SUBSET frames) \ {frames}}
     ELSE {})

\* Mutant: the result of sending is not looked at.
AcceptedAnyway(attempt) == TRUE

Accepted(attempt) == attempt.complete

Lose(p) ==
  /\ losses < MaxLosses
  /\ losses' = losses + 1
  /\ \/ /\ "delta" \in Losable
        /\ \E f \in deltaNet[p] : deltaNet' = [deltaNet EXCEPT ![p] = @ \ {f}]
        /\ UNCHANGED <<snapshotNet, requestNet>>
     \/ /\ "snapshot" \in Losable
        /\ \E f \in snapshotNet[p] :
             snapshotNet' = [snapshotNet EXCEPT ![p] = @ \ {f}]
        /\ UNCHANGED <<deltaNet, requestNet>>
     \/ /\ \E r \in requestNet[p] :
             /\ (IF r.kind = "ack" THEN "ack" ELSE "request") \in Losable
             /\ requestNet' = [requestNet EXCEPT ![p] = @ \ {r}]
        /\ UNCHANGED <<deltaNet, snapshotNet>>
  /\ UNCHANGED <<authorityVars, tickVars, clientVars>>

--------------------------------------------------------------------------
(* Authority: recovery requests *)

\* ingest_datagram, enqueue_recovery
Ingest(p, r) ==
  /\ stage = "ingest"
  /\ r \in requestNet[p]
  /\ requestNet' = Deliver(requestNet, p, r)
  /\ repairs' = IF Len(repairs) < MaxQueuedRepairs
                THEN Append(repairs, [peer |-> p, request |-> r])
                ELSE repairs
  /\ UNCHANGED <<log, retained, transfer, nextSnapshotId, sinceSnapshot, tickVars,
                 deltaNet, snapshotNet, losses, clientVars>>

BeginRepairs ==
  /\ stage = "ingest"
  /\ stage' = "repairs"
  /\ served' = 0
  /\ built' = NotBuilt
  /\ UNCHANGED <<authorityVars, todo, netVars, clientVars>>

Retained(sequence) == \E i \in DOMAIN retained : retained[i] = sequence

\* One turn of the loop of process_repairs takes the oldest request of kind.
Take(p, r) ==
  /\ stage = "repairs"
  /\ served < MaxRepairsPerTick
  /\ repairs # <<>>
  /\ Head(repairs) = [peer |-> p, request |-> r]
  /\ repairs' = Tail(repairs)
  /\ served' = served + 1
  /\ UNCHANGED <<log, retained, stage, todo, requestNet, losses, clientVars>>

ServeDelta(p, r) ==
  /\ Take(p, r)
  /\ r.kind = "delta"
  /\ Retained(r.id)
  /\ \E attempt \in Attempts(Frames(r.id)) :
       deltaNet' = Send(deltaNet, p, attempt.sent)
  /\ UNCHANGED <<transfer, nextSnapshotId, sinceSnapshot, built, snapshotNet>>

\* A snapshot request, or a request of a delta that is no longer retained.
WantsSnapshot(r) ==
  \/ r.kind = "snapshot"
  \/ r.kind = "delta" /\ ~Retained(r.id) /\ r.id < NextSequence

IsActive(t) == t.stage \notin {"none", "stalled"}

SnapshotAllowed(p) ==
  /\ ~IsActive(transfer[p])
  /\ sinceSnapshot[p] >= SnapshotCooldown

\* A request that changes nothing: a delta that was never committed, or a
\* snapshot while one is transferred or too soon after the last.
DropRequest(p, r) ==
  /\ Take(p, r)
  /\ \/ r.kind = "delta" /\ ~Retained(r.id) /\ r.id >= NextSequence
     \/ WantsSnapshot(r) /\ ~SnapshotAllowed(p)
  /\ UNCHANGED <<transfer, nextSnapshotId, sinceSnapshot, built, deltaNet, snapshotNet>>

\* build_snapshot, once per tick
BuildSucceeds ==
  /\ nextSnapshotId <= MaxSnapshots
  /\ built' = [tried |-> TRUE, id |-> nextSnapshotId, next |-> NextSequence]
  /\ nextSnapshotId' = nextSnapshotId + 1

BuildFails ==
  /\ Refusals \/ nextSnapshotId > MaxSnapshots
  /\ built' = [tried |-> TRUE, id |-> 0, next |-> 0]
  /\ UNCHANGED nextSnapshotId

StartTransfer(p, r) ==
  /\ Take(p, r)
  /\ WantsSnapshot(r)
  /\ SnapshotAllowed(p)
  /\ IF built.tried
     THEN UNCHANGED <<built, nextSnapshotId>>
     ELSE BuildSucceeds \/ BuildFails
  /\ IF built'.id = 0
     THEN UNCHANGED <<transfer, sinceSnapshot>>
     ELSE /\ transfer' =
               [transfer EXCEPT ![p] = NewTransfer(built'.id, built'.next)]
          /\ sinceSnapshot' = [sinceSnapshot EXCEPT ![p] = 0]
  /\ UNCHANGED <<deltaNet, snapshotNet>>

\* process_snapshot_fragments: any stage serves the fragments of its snapshot.
ServeFragments(p, r) ==
  /\ Take(p, r)
  /\ r.kind = "fragments"
  /\ IF transfer[p].stage # "none" /\ transfer[p].id = r.id
     THEN \E attempt \in Attempts({f \in SnapshotPacket(r.id, transfer[p].next) :
                                     f.index \in r.missing}) :
            snapshotNet' = Send(snapshotNet, p, attempt.sent)
     ELSE UNCHANGED snapshotNet
  /\ UNCHANGED <<transfer, nextSnapshotId, sinceSnapshot, built, deltaNet>>

Acknowledges(t, id) == t.stage = "awaiting ack" /\ t.id = id

Resumed(t) == [t EXCEPT !.stage = "catchup", !.resume = t.next]

\* process_snapshot_ack
ServeAck(p, r) ==
  /\ Take(p, r)
  /\ r.kind = "ack"
  /\ transfer' = IF Acknowledges(transfer[p], r.id)
                 THEN [transfer EXCEPT ![p] = Resumed(@)]
                 ELSE transfer
  /\ UNCHANGED <<nextSnapshotId, sinceSnapshot, built, deltaNet, snapshotNet>>

EndRepairs ==
  /\ stage = "repairs"
  /\ served = MaxRepairsPerTick \/ repairs = <<>>
  /\ stage' = "service"
  /\ todo' = {p \in Peers : transfer[p].stage # "none"}
  /\ UNCHANGED <<authorityVars, served, built, netVars, clientVars>>

--------------------------------------------------------------------------
(* Authority: service_snapshot_transfers, one transfer at a time *)

Service(p) ==
  /\ stage = "service"
  /\ p \in todo
  /\ todo' = todo \ {p}
  /\ UNCHANGED <<log, retained, repairs, nextSnapshotId, sinceSnapshot, stage, served,
                 built, requestNet, losses, clientVars>>

LeastOf(a, b) == IF a <= b THEN a ELSE b

Paced(t, end) ==
  [t EXCEPT !.stage = IF end = SnapshotFrames THEN "awaiting ack" ELSE @,
            !.sent = end]

\* The next frames of the snapshot; a refused frame sends them all again.
Pace(p) ==
  LET t == transfer[p]
      end == LeastOf(t.sent + SnapshotFramesPerTick, SnapshotFrames)
      frames == {f \in SnapshotPacket(t.id, t.next) : f.index \in t.sent + 1 .. end}
  IN /\ Service(p)
     /\ t.stage = "snapshot"
     /\ \E attempt \in Attempts(frames) :
          /\ snapshotNet' = Send(snapshotNet, p, attempt.sent)
          /\ transfer' = IF Accepted(attempt)
                         THEN [transfer EXCEPT ![p] = Paced(t, end)]
                         ELSE transfer
     /\ UNCHANGED deltaNet

Wait(p) ==
  /\ Service(p)
  /\ transfer[p].stage \in {"awaiting ack", "stalled"}
  /\ UNCHANGED <<transfer, deltaNet, snapshotNet>>

Replayed(t) ==
  [t EXCEPT !.catchup = Tail(t.catchup), !.resume = t.resume + 1]

\* One catch-up packet per tick, kept until all its frames are accepted.
Replay(p) ==
  LET t == transfer[p]
  IN /\ Service(p)
     /\ t.stage = "catchup"
     /\ t.catchup # <<>>
     /\ IF Head(t.catchup) # t.resume
        THEN /\ transfer' = [transfer EXCEPT ![p] = Stalled(t)]
             /\ UNCHANGED deltaNet
        ELSE \E attempt \in Attempts(Frames(t.resume)) :
               /\ deltaNet' = Send(deltaNet, p, attempt.sent)
               /\ transfer' = IF Accepted(attempt)
                              THEN [transfer EXCEPT ![p] = Replayed(t)]
                              ELSE transfer
     /\ UNCHANGED snapshotNet

\* Mutant: an off-by-one at the end of the replay.
CaughtUpPast(t) == t.resume > NextSequence

CaughtUp(t) == t.resume >= NextSequence

\* The queue ran empty: live delivery resumes, or a delta is missing.
FinishCatchup(p) ==
  LET t == transfer[p]
  IN /\ Service(p)
     /\ t.stage = "catchup"
     /\ t.catchup = <<>>
     /\ transfer' =
          [transfer EXCEPT ![p] = IF CaughtUp(t) THEN NoTransfer ELSE Stalled(t)]
     /\ UNCHANGED <<deltaNet, snapshotNet>>

EndService ==
  /\ stage = "service"
  /\ todo = {}
  /\ stage' = "simulate"
  /\ UNCHANGED <<authorityVars, served, built, todo, netVars, clientVars>>

--------------------------------------------------------------------------
(* Authority: simulation and the end of the tick *)

\* The delta the catch-up queue of a transfer takes next.
Expects(t) ==
  IF t.catchup # <<>> THEN t.catchup[Len(t.catchup)] + 1
  ELSE IF t.stage = "catchup" THEN t.resume
  ELSE t.next

\* Mutant: a delta that does not fit is left out.
QueueIfItFits(t, sequence, count) ==
  IF \/ ~IsActive(t)
     \/ sequence # Expects(t)
     \/ Len(t.catchup) >= MaxCatchupPackets
     \/ Cardinality(QueuedFrames(t.catchup)) + count > MaxCatchupFrames
  THEN t
  ELSE [t EXCEPT !.catchup = Append(@, sequence)]

\* queue_snapshot_catchup, for the transfer of one peer
QueueCatchup(t, sequence, count) ==
  IF ~IsActive(t) THEN t
  ELSE IF \/ sequence # Expects(t)
          \/ Len(t.catchup) >= MaxCatchupPackets
          \/ Cardinality(QueuedFrames(t.catchup)) + count > MaxCatchupFrames
  THEN Stalled(t)
  ELSE [t EXCEPT !.catchup = Append(@, sequence)]

\* retain_delta: the oldest go until the packet and frame limits hold.
Retentions(sequence, count) ==
  LET Fits(n) ==
        LET kept == SubSeq(retained, n, Len(retained))
        IN /\ Len(kept) < MaxRetainedPackets
           /\ Cardinality(QueuedFrames(kept)) + count <= MaxRetainedFrames
  IN {Append(SubSeq(retained, n, Len(retained)), sequence) :
        n \in {m \in 1 .. Len(retained) + 1 :
                 Fits(m) /\ \A k \in 1 .. m - 1 : ~Fits(k)}}

\* Mutant: live delivery resumes before the acknowledgement.
LiveOnceSent(p) == transfer[p].stage \in {"none", "awaiting ack"}

Live(p) == transfer[p].stage = "none"

\* One change of the world: broadcast sends it to the peers without a
\* transfer and queues it for the others.  A frame the transport refuses
\* here is a lost frame: broadcast does not look at the result.
Commit ==
  /\ stage = "simulate"
  /\ Len(log) < MaxDeltas
  /\ \E count \in 1..MaxPacketFrames :
       /\ log' = Append(log, count)
       /\ deltaNet' = [p \in Peers |->
            IF Live(p)
            THEN deltaNet[p] \cup Packet(NextSequence, count)
            ELSE deltaNet[p]]
       /\ transfer' = [p \in Peers |->
            QueueCatchup(transfer[p], NextSequence, count)]
       /\ retained' \in Retentions(NextSequence, count)
  /\ UNCHANGED <<repairs, nextSnapshotId, sinceSnapshot, tickVars, snapshotNet,
                 requestNet, losses, clientVars>>

\* The next begin_tick
BeginTick ==
  /\ stage = "simulate"
  /\ stage' = "ingest"
  /\ sinceSnapshot' =
       [p \in Peers |-> LeastOf(sinceSnapshot[p] + 1, SnapshotCooldown)]
  /\ UNCHANGED <<log, retained, transfer, repairs, nextSnapshotId, served, built,
                 todo, netVars, clientVars>>

--------------------------------------------------------------------------
(* Client: world deltas *)

Client(p) ==
  /\ fault[p] = "none"
  /\ UNCHANGED <<authorityVars, tickVars, losses>>

ReceivesDelta(p, f) ==
  /\ Client(p)
  /\ f \in deltaNet[p]
  /\ deltaNet' = Deliver(deltaNet, p, f)
  /\ UNCHANGED <<snapshotNet, requestNet, phase, assembler>>

\* Deltas mean nothing before a snapshot is installed.
DiscardDelta(p, f) ==
  /\ ReceivesDelta(p, f)
  /\ phase[p] = "awaiting"
  /\ UNCHANGED <<inbox, gap, replica, fault>>

\* Nothing is released: a gap is seen if a complete packet waits.
HoldDelta(p, f) ==
  /\ ReceivesDelta(p, f)
  /\ phase[p] = "ready"
  /\ inbox' = [inbox EXCEPT ![p] =
       IF Retains(@, f) THEN AfterRetaining(@, f)
       ELSE IF Buffers(@, f) THEN AfterBuffering(@, f)
       ELSE Taken(@, f)]
  /\ Retains(inbox[p], f) \/ Buffers(inbox[p], f) \/ Ignores(inbox[p], f)
  /\ gap' = [gap EXCEPT ![p] = @ \/ inbox'[p].complete # {}]
  /\ UNCHANGED <<replica, fault>>

\* ClientReplica::receive on the packets first .. last - 1, in order: what
\* was already applied is ignored, and each other one must be the expected
\* one and lead out of the world shown (base fingerprints).
Accepts(r, first, last) ==
  last > r.expected => first <= r.expected /\ r.world = r.expected

Applied(r, last) ==
  IF last > r.expected THEN [expected |-> last, world |-> last] ELSE r

ApplyDeltas(p, f) ==
  /\ ReceivesDelta(p, f)
  /\ phase[p] = "ready"
  /\ Releases(inbox[p], f)
  /\ \E n \in inbox[p].next + 1 .. inbox[p].next + 1 + MaxCompletePackets :
       /\ EndsAt(inbox[p], n)
       /\ inbox' = [inbox EXCEPT ![p] = AfterRelease(@, f, n)]
       /\ IF Accepts(replica[p], inbox[p].next, n)
          THEN /\ replica' = [replica EXCEPT ![p] = Applied(@, n)]
               /\ UNCHANGED fault
          ELSE /\ fault' = [fault EXCEPT ![p] = "replica"]
               /\ UNCHANGED replica
  /\ gap' = [gap EXCEPT ![p] = FALSE]

\* The inbox rejects the frame, and the error ends the client.
FailDelta(p, f) ==
  /\ ReceivesDelta(p, f)
  /\ phase[p] = "ready"
  /\ \/ /\ Refused(inbox[p], f)
        /\ inbox' = [inbox EXCEPT ![p] = AfterRefusal(@, f)]
     \/ /\ Overflows(inbox[p], f)
        /\ inbox' = [inbox EXCEPT ![p] = Taken(@, f)]
  /\ fault' = [fault EXCEPT ![p] = "inbox"]
  /\ UNCHANGED <<gap, replica>>

\* The retry timers (250 ms to 1 s) may fire at any moment; a patient client
\* does not ask again while the same request is on its way or queued.
Asks(p, r) ==
  /\ Patience => /\ r \notin requestNet[p]
                 /\ [peer |-> p, request |-> r] \notin
                      {repairs[i] : i \in DOMAIN repairs}
  /\ requestNet' = Send(requestNet, p, {r})

\* Mutant: asks for the delta after the missing one.
RequestNextDelta(p) ==
  /\ Client(p)
  /\ phase[p] = "ready"
  /\ gap[p]
  /\ Asks(p, Request("delta", inbox[p].next + 1, {}))
  /\ UNCHANGED <<deltaNet, snapshotNet, clientVars>>

\* repair_delta_if_needed: the grace and retransmission timers may fire at
\* any moment while the gap is open.
RequestRepair(p) ==
  /\ Client(p)
  /\ phase[p] = "ready"
  /\ gap[p]
  /\ Asks(p, Request("delta", inbox[p].next, {}))
  /\ UNCHANGED <<deltaNet, snapshotNet, clientVars>>

--------------------------------------------------------------------------
(* Client: snapshots *)

\* request_snapshot, every second until a snapshot begins to arrive
RequestSnapshot(p) ==
  /\ Client(p)
  /\ phase[p] = "awaiting"
  /\ assembler[p].active = 0
  /\ Asks(p, Request("snapshot", 0, {}))
  /\ UNCHANGED <<deltaNet, snapshotNet, clientVars>>

\* Mutant: only the holes before the last fragment received.
MissingBetween(a) ==
  {i \in (1..SnapshotFrames) \ a.got : \E j \in a.got : i < j}

\* missing_fragment_windows
Missing(a) == (1..SnapshotFrames) \ a.got

\* repair_snapshot_if_needed, when no fragment came for half a second
RequestFragments(p) ==
  /\ Client(p)
  /\ phase[p] = "awaiting"
  /\ assembler[p].active # 0
  /\ Asks(p, Request("fragments", assembler[p].active, Missing(assembler[p])))
  /\ UNCHANGED <<deltaNet, snapshotNet, clientVars>>

\* Mutant: a completed snapshot is forgotten.
NotOlder(a, m) == m.id >= a.active

\* SnapshotAssembler::push: a newer snapshot replaces an incomplete one,
\* frames of older or completed snapshots and duplicates do nothing.
Relevant(a, m) == m.id > a.done /\ m.id >= a.active

Collect(a, m) ==
  IF ~Relevant(a, m) THEN a
  ELSE [a EXCEPT !.active = m.id,
                 !.got = IF m.id = a.active THEN @ \cup {m.index} ELSE {m.index}]

Completes(a, m) == Relevant(a, m) /\ Collect(a, m).got = 1..SnapshotFrames

ReceivesSnapshot(p, m) ==
  /\ Client(p)
  /\ m \in snapshotNet[p]
  /\ snapshotNet' = Deliver(snapshotNet, p, m)
  /\ UNCHANGED <<deltaNet, fault>>

CollectFrame(p, m) ==
  /\ ReceivesSnapshot(p, m)
  /\ ~Completes(assembler[p], m)
  /\ assembler' = [assembler EXCEPT ![p] = Collect(@, m)]
  /\ phase' = IF assembler'[p].active # 0
              THEN [phase EXCEPT ![p] = "awaiting"]
              ELSE phase
  /\ UNCHANGED <<requestNet, inbox, gap, replica>>

\* Mutant: the replica keeps the sequence it expected.
InstallWorldOnly(p, m) ==
  /\ ReceivesSnapshot(p, m)
  /\ Completes(assembler[p], m)
  /\ assembler' = [assembler EXCEPT ![p] = [active |-> 0, got |-> {}, done |-> m.id]]
  /\ replica' = [replica EXCEPT ![p].world = m.next]
  /\ inbox' = [inbox EXCEPT ![p] = EmptyInbox(m.next)]
  /\ gap' = [gap EXCEPT ![p] = FALSE]
  /\ requestNet' = Send(requestNet, p, {Request("ack", m.id, {})})
  /\ phase' = [phase EXCEPT ![p] = "ready"]

\* receive_snapshot, with the last fragment: the snapshot replaces the world
\* and the inbox, and is acknowledged once.
InstallSnapshot(p, m) ==
  /\ ReceivesSnapshot(p, m)
  /\ Completes(assembler[p], m)
  /\ assembler' = [assembler EXCEPT ![p] = [active |-> 0, got |-> {}, done |-> m.id]]
  /\ replica' = [replica EXCEPT ![p] = [expected |-> m.next, world |-> m.next]]
  /\ inbox' = [inbox EXCEPT ![p] = EmptyInbox(m.next)]
  /\ gap' = [gap EXCEPT ![p] = FALSE]
  /\ requestNet' = Send(requestNet, p, {Request("ack", m.id, {})})
  /\ phase' = [phase EXCEPT ![p] = "ready"]

--------------------------------------------------------------------------
OldestRequest == IF repairs = <<>> THEN {} ELSE {Head(repairs)}

ServeRequest ==
  \E q \in OldestRequest :
    \/ ServeDelta(q.peer, q.request)
    \/ DropRequest(q.peer, q.request)
    \/ StartTransfer(q.peer, q.request)
    \/ ServeFragments(q.peer, q.request)
    \/ ServeAck(q.peer, q.request)

ServiceTransfer ==
  \E p \in Peers :
    \/ Pace(p)
    \/ Wait(p)
    \/ Replay(p)
    \/ FinishCatchup(p)

AuthorityStep ==
  \/ \E p \in Peers : \E r \in requestNet[p] : Ingest(p, r)
  \/ BeginRepairs
  \/ ServeRequest
  \/ EndRepairs
  \/ ServiceTransfer
  \/ EndService
  \/ Commit
  \/ BeginTick

ReceiveDelta(p, f) ==
  \/ DiscardDelta(p, f)
  \/ HoldDelta(p, f)
  \/ ApplyDeltas(p, f)
  \/ FailDelta(p, f)

ReceiveSnapshot(p, m) == CollectFrame(p, m) \/ InstallSnapshot(p, m)

ClientStep(p) ==
  \/ \E f \in deltaNet[p] : ReceiveDelta(p, f)
  \/ RequestRepair(p)
  \/ RequestSnapshot(p)
  \/ RequestFragments(p)
  \/ \E m \in snapshotNet[p] : ReceiveSnapshot(p, m)

Next ==
  \/ AuthorityStep
  \/ \E p \in Peers : ClientStep(p)
  \/ \E p \in Peers : Lose(p)

Spec == Init /\ [][Next]_vars

\* The authority's loop ticks for ever; a datagram that is not lost is read
\* in the end (a socket is drained in order, so no datagram is passed over
\* again and again); client timers fire.  Nothing makes the world change.
Fairness ==
  /\ WF_vars(BeginRepairs)
  /\ WF_vars(ServeRequest)
  /\ WF_vars(EndRepairs)
  /\ WF_vars(ServiceTransfer)
  /\ WF_vars(EndService)
  /\ WF_vars(BeginTick)
  /\ \A p \in Peers :
       /\ \A kind \in {"delta", "snapshot", "fragments", "ack"} :
            SF_vars(\E r \in requestNet[p] : r.kind = kind /\ Ingest(p, r))
       /\ \A s \in 1..MaxDeltas : \A i \in 1..MaxPacketFrames :
            WF_vars(\E f \in deltaNet[p] :
                      f.seq = s /\ f.index = i /\ ReceiveDelta(p, f))
       /\ \A id \in 1..MaxSnapshots : \A i \in 1..SnapshotFrames :
            WF_vars(\E m \in snapshotNet[p] :
                      m.id = id /\ m.index = i /\ ReceiveSnapshot(p, m))
       /\ WF_vars(RequestRepair(p))
       /\ WF_vars(RequestSnapshot(p))
       /\ WF_vars(RequestFragments(p))

FairSpec == Spec /\ Fairness

--------------------------------------------------------------------------
(* Safety *)

AuthorityTypeOK ==
  /\ log \in Seq(1..MaxPacketFrames)
  /\ Len(log) <= MaxDeltas
  /\ retained \in Seq(Nat \ {0})
  /\ Len(retained) <= MaxRetainedPackets
  /\ transfer \in [Peers -> Transfer]
  /\ \A p \in Peers : Len(transfer[p].catchup) <= MaxCatchupPackets
  /\ repairs \in Seq(QueuedRepair)
  /\ Len(repairs) <= MaxQueuedRepairs
  /\ nextSnapshotId \in 1 .. MaxSnapshots + 1
  /\ sinceSnapshot \in [Peers -> 0..SnapshotCooldown]

TickTypeOK ==
  /\ stage \in {"ingest", "repairs", "service", "simulate"}
  /\ served \in 0..MaxRepairsPerTick
  /\ built \in [tried: BOOLEAN, id: Nat, next: Nat]
  /\ todo \subseteq Peers

NetworkTypeOK ==
  /\ deltaNet \in [Peers -> SUBSET Frame]
  /\ snapshotNet \in [Peers -> SUBSET SnapshotFrame]
  /\ requestNet \in [Peers -> SUBSET Requests]
  /\ losses \in 0..MaxLosses

ClientTypeOK ==
  /\ phase \in [Peers -> {"awaiting", "ready"}]
  /\ inbox \in [Peers -> Inbox]
  /\ gap \in [Peers -> BOOLEAN]
  /\ assembler \in [Peers -> Assembler]
  /\ replica \in [Peers -> Replica]
  /\ fault \in [Peers -> {"none", "inbox", "replica"}]

\* Every variable holds what the code can hold in it: queues within their
\* limits, well-formed frames and requests, clients in one of their phases.
TypeOK == AuthorityTypeOK /\ TickTypeOK /\ NetworkTypeOK /\ ClientTypeOK

\* The replica never rejects a delta the inbox releases: never a sequence
\* gap, never a base fingerprint of another world (ClientReplica::receive
\* after OrderedDeltaInbox::push and SnapshotAssembler::push).
NoReplicaRejection == \A p \in Peers : fault[p] # "replica"

\* The first delta a transfer has to replay.
FirstToReplay(t) == IF t.stage = "catchup" THEN t.resume ELSE t.next

\* The run of deltas from first up to, and without, last.
IsRun(queue, first, last) ==
  /\ Len(queue) = last - first
  /\ \A i \in 1 .. Len(queue) : queue[i] = first + i - 1

HoldsRun(t, sequence) ==
  IsActive(t) => IsRun(t.catchup, FirstToReplay(t), sequence)

\* The catch-up queue of a transfer that is not stalled is exactly the run
\* of deltas committed since the snapshot (or not replayed yet), so that
\* replaying it leaves nothing out (queue_snapshot_catchup).
CatchupExact == \A p \in Peers : HoldsRun(transfer[p], NextSequence)

\* The history a repair is served from is the newest run of deltas, with no
\* hole: what is missing in it is older than all of it (retain_delta).
RetainedSuffix ==
  /\ Len(retained) <= Len(log)
  /\ \A i \in 1 .. Len(retained) :
       retained[i] = Len(log) - Len(retained) + i

\* The network keeps every delta datagram and may deliver it at any time.
KeepsDeltas == Redelivery /\ "delta" \notin Losable

\* Installing a snapshot never loses or repeats a delta: one that the client
\* may still install is ahead of everything it can get by deltas, live deltas
\* being withheld until the install is acknowledged; and a peer without a
\* transfer has been sent every delta its replica still needs, catch-up
\* skipping nothing (service_snapshot_transfers, broadcast).  The second part
\* speaks of what was sent, so it needs a network that forgets nothing.
TransferLosesNothing ==
  \A p \in Peers :
    /\ \A m \in snapshotNet[p] :
         m.id > assembler[p].done =>
           /\ replica[p].world <= m.next
           /\ \A f \in deltaNet[p] \cup inbox[p].complete : f.seq < m.next
    /\ KeepsDeltas /\ transfer[p].stage = "none" =>
         \A s \in DOMAIN log :
           s >= replica[p].expected => Frames(s) \subseteq deltaNet[p]

\* A transfer stalls only when a delta is committed and its catch-up queue
\* has no room for it: the other ways to stall, a queue that skips a delta
\* or ends early, never happen.
StallsOnlyOnOverflow ==
  [][\A p \in Peers :
       transfer[p].stage # "stalled" /\ transfer'[p].stage = "stalled" =>
         /\ Len(log') = NextSequence
         /\ \/ Len(transfer[p].catchup) = MaxCatchupPackets
            \/ Cardinality(QueuedFrames(transfer[p].catchup)) + log'[NextSequence]
                  > MaxCatchupFrames]_vars

\* What every client shows is a version of the authoritative world, and it
\* never goes back to an earlier one, whatever the network does with deltas
\* and with the fragments of old and new snapshots.
World == INSTANCE ReplicatedWorld
           WITH authority <- NextSequence,
                view <- [p \in Peers |-> replica[p].world]

ImplementsReplicatedWorld == World!Spec

--------------------------------------------------------------------------
(* Liveness, under FairSpec *)

\* "Every admitted graphical client requests the current snapshot, assembles
\* its bounded hashed fragments, installs it": joining comes to an end.
JoinCompletes == \A p \in Peers : <>(phase[p] = "ready")

\* A gap a client has seen is closed, by the exact delta or by a snapshot
\* (repair_delta_if_needed, process_repairs).
GapCloses == \A p \in Peers : gap[p] ~> ~gap[p]

\* "Permanent world gaps still converge through exact retained-delta repair":
\* a complete delta that waits behind a missing one is released in the end.
HeldDeltasRelease ==
  \A p \in Peers : inbox[p].complete # {} ~> inbox[p].complete = {}

\* "Permanent world gaps still converge": when the world stops changing,
\* every client comes to show it and stays there.
Converges == \A p \in Peers : <>[](replica[p].world = NextSequence)

\* The same while nothing is lost and the queues have room: reordered deltas,
\* repairs of what is only late and snapshots that replace a delta no longer
\* retained leave no client behind (broadcast, process_repairs).
ConvergesUndisturbed ==
  \A p \in Peers : <>(losses > 0) \/ <>[](replica[p].world = NextSequence)
===========================================================================
