------------------------- MODULE ReplicationProofs -------------------------
(***************************************************************************)
(* What keeps a replica like the authority, proved in three parts that     *)
(* share no state.                                                         *)
(*                                                                         *)
(* WorldStream, for every number of peers and every value of the limits:   *)
(* the types, the exact catch-up queue and the exact history of the        *)
(* authority, and then what its clients get.  Each invariant is inductive: *)
(* one lemma per part of the state and kind of step, then the step lemma   *)
(* that combines them.                                                     *)
(*                                                                         *)
(* DamageCommits, for every plane, material, blast and limit: the search   *)
(* for what lost its support finds exactly the islands, a transaction      *)
(* moves every voxel once or leaves everything as it was, and the replica  *)
(* rebuilds from a delta what the authority made.                          *)
(*                                                                         *)
(* WireCodecs, for deltas of any numbers up to the limits: they can be     *)
(* sent in frames that fit the datagrams of every deployed server.         *)
(***************************************************************************)
EXTENDS WorldStream, DamageCommits, WireCodecs, QueueProofs, FiniteSetTheorems

--------------------------------------------------------------------------
(* The inductive invariant *)

\* The snapshot shared by this tick's requests holds the present version.
BuiltHere ==
  stage = "repairs" /\ built.id # 0 => built.tried /\ built.next = NextSequence

AuthorityInv ==
  /\ TypeOK
  /\ CatchupExact
  /\ RetainedSuffix
  /\ BuiltHere

\* The requests of peer p, on their way or queued.
AskedBy(p) ==
  requestNet[p] \cup
    {repairs[i].request : i \in {j \in DOMAIN repairs : repairs[j].peer = p}}

--------------------------------------------------------------------------
(* What the steps of one actor leave alone *)

\* The ways to serve a request.
Serves(p, r) ==
  \/ ServeDelta(p, r)
  \/ DropRequest(p, r)
  \/ StartTransfer(p, r)
  \/ ServeFragments(p, r)
  \/ ServeAck(p, r)

\* The ways to service a transfer.
Services(p) == Pace(p) \/ Wait(p) \/ Replay(p) \/ FinishCatchup(p)

\* The steps from stage to stage.
TickMoves == BeginRepairs \/ EndRepairs \/ EndService \/ BeginTick

\* A client changes nothing of the authority.
LEMMA ClientFrame ==
  ASSUME NEW p \in Peers, ClientStep(p)
  PROVE  UNCHANGED <<authorityVars, tickVars, losses>>
  <1>1. ASSUME NEW f \in deltaNet[p], ReceiveDelta(p, f)
        PROVE  Client(p)
    BY <1>1 DEF ReceiveDelta, DiscardDelta, HoldDelta, ApplyDeltas, FailDelta,
                ReceivesDelta
  <1>2. ASSUME NEW m \in snapshotNet[p], ReceiveSnapshot(p, m)
        PROVE  Client(p)
    BY <1>2 DEF ReceiveSnapshot, CollectFrame, InstallSnapshot, ReceivesSnapshot
  <1>3. CASE RequestRepair(p) \/ RequestSnapshot(p) \/ RequestFragments(p)
    BY <1>3 DEF RequestRepair, RequestSnapshot, RequestFragments, Client
  <1> QED
    BY <1>1, <1>2, <1>3 DEF ClientStep, Client

\* The steps between the stages change no queue and no message.
LEMMA TickFrame ==
  ASSUME TickMoves
  PROVE  UNCHANGED <<log, retained, transfer, repairs, nextSnapshotId, netVars, clientVars>>
  BY DEF TickMoves, BeginRepairs, EndRepairs, EndService, BeginTick, authorityVars

\* A lost datagram changes nothing else.
LEMMA LoseFrame ==
  ASSUME NEW p \in Peers, Lose(p)
  PROVE  UNCHANGED <<authorityVars, tickVars, clientVars>>
  BY DEF Lose

\* Serving a request takes it from the queue.
LEMMA ServeFrame ==
  ASSUME NEW p, NEW r, Serves(p, r)
  PROVE  Take(p, r)
  BY DEF Serves, ServeDelta, DropRequest, StartTransfer, ServeFragments, ServeAck

\* Servicing a transfer takes it off the list of this tick.
LEMMA ServiceFrame ==
  ASSUME NEW p, Services(p)
  PROVE  Service(p)
  BY DEF Services, Pace, Wait, Replay, FinishCatchup

\* Every step is one of seven kinds.
LEMMA StepCases ==
  ASSUME TypeOK, Next
  PROVE  \/ \E p \in Peers : \E r \in requestNet[p] : Ingest(p, r)
         \/ TickMoves
         \/ \E p \in Peers : \E r \in AskedBy(p) : r \in Requests /\ Serves(p, r)
         \/ \E p \in Peers : Services(p)
         \/ Commit
         \/ \E p \in Peers : ClientStep(p)
         \/ \E p \in Peers : Lose(p)
  <1>1. CASE ServeRequest
    <2>1. PICK q \in OldestRequest : Serves(q.peer, q.request)
      BY <1>1 DEF ServeRequest, Serves
    <2>2. repairs \in Seq(QueuedRepair)
      BY DEF TypeOK, AuthorityTypeOK
    <2>3. repairs # <<>> /\ q = Head(repairs)
      BY <2>1 DEF OldestRequest
    <2>4. 1 \in DOMAIN repairs /\ q = repairs[1]
      BY <2>2, <2>3
    <2>5. q \in QueuedRepair
      BY <2>2, <2>4
    <2>6. q.peer \in Peers /\ q.request \in Requests
      BY <2>5 DEF QueuedRepair
    <2>7. 1 \in {j \in DOMAIN repairs : repairs[j].peer = q.peer}
      BY <2>4
    <2>8. q.request \in AskedBy(q.peer)
      BY <2>4, <2>7 DEF AskedBy
    <2> QED
      BY <2>1, <2>6, <2>8
  <1>2. CASE ServiceTransfer
    BY <1>2 DEF ServiceTransfer, Services
  <1> QED
    BY <1>1, <1>2 DEF Next, AuthorityStep, TickMoves

--------------------------------------------------------------------------
(* Types *)

\* The initial state satisfies the invariant.
LEMMA InitInv == Init => AuthorityInv
  <1> SUFFICES ASSUME Init PROVE AuthorityInv
    OBVIOUS
  <1> USE StreamAssumption DEF Init
  <1>1. TypeOK
    BY DEF TypeOK, AuthorityTypeOK, TickTypeOK, NetworkTypeOK, ClientTypeOK, NoTransfer,
           Transfer, NotBuilt, EmptyInbox, Inbox, NewAssembler, Assembler, NewReplica, Replica
  <1>2. CatchupExact /\ RetainedSuffix /\ BuiltHere
    BY DEF BuiltHere, NotBuilt, CatchupExact, HoldsRun, RetainedSuffix, IsActive, NoTransfer
  <1> QED
    BY <1>1, <1>2 DEF AuthorityInv

\* A suffix of a queue with one more element (retain_delta).
LEMMA SuffixAppend ==
  ASSUME NEW S, NEW old \in Seq(S), NEW n \in 1 .. Len(old) + 1, NEW s \in S,
         NEW new, new = Append(SubSeq(old, n, Len(old)), s)
  PROVE  /\ new \in Seq(S)
         /\ Len(new) = Len(old) - n + 2
         /\ \A i \in 1 .. Len(old) - n + 1 : new[i] = old[n + i - 1]
         /\ new[Len(old) - n + 2] = s
  <1> DEFINE kept == SubSeq(old, n, Len(old))
  <1>1. /\ n \in Int /\ Len(old) \in Int
        /\ \A i \in n .. Len(old) : old[i] \in S
    OBVIOUS
  <1>2. /\ kept \in Seq(S)
        /\ Len(kept) = IF n <= Len(old) THEN Len(old) - n + 1 ELSE 0
        /\ \A i \in 1 .. Len(old) - n + 1 : kept[i] = old[n + i - 1]
    BY <1>1, SubSeqProperties
  <1>3. Len(kept) = Len(old) - n + 1
    BY <1>2
  <1>4. new = Append(kept, s)
    OBVIOUS
  <1> HIDE DEF kept
  <1>5. /\ new \in Seq(S)
        /\ Len(new) = Len(kept) + 1
        /\ \A i \in 1 .. Len(kept) : new[i] = kept[i]
        /\ new[Len(kept) + 1] = s
    BY <1>2, <1>4, AppendProperties
  <1>6. Len(kept) + 1 = Len(old) - n + 2
    BY <1>3
  <1> QED
    BY <1>2, <1>3, <1>5, <1>6

\* The log and the history keep their types and the history its suffix.
LEMMA LogTypes ==
  ASSUME AuthorityInv, Next
  PROVE  /\ log' \in Seq(1..MaxPacketFrames)
         /\ Len(log') <= MaxDeltas
         /\ retained' \in Seq(Nat \ {0})
         /\ Len(retained') <= MaxRetainedPackets
         /\ RetainedSuffix'
  <1> USE StreamAssumption
  <1>1. CASE Commit
    <2>1. PICK count \in 1..MaxPacketFrames :
            /\ log' = Append(log, count)
            /\ retained' \in Retentions(NextSequence, count)
          /\ Len(log) < MaxDeltas
      BY <1>1 DEF Commit
    <2>2. PICK n \in 1 .. Len(retained) + 1 :
            /\ retained' = Append(SubSeq(retained, n, Len(retained)), NextSequence)
            /\ Len(SubSeq(retained, n, Len(retained))) < MaxRetainedPackets
      BY <2>1 DEF Retentions
    <2>3. /\ log \in Seq(1..MaxPacketFrames)
          /\ retained \in Seq(Nat \ {0})
          /\ RetainedSuffix
      BY DEF AuthorityInv, TypeOK, AuthorityTypeOK
    <2>4. /\ log' \in Seq(1..MaxPacketFrames)
          /\ Len(log') = Len(log) + 1
      BY <2>1, <2>3
    <2>5. NextSequence = Len(log) + 1 /\ NextSequence \in Nat \ {0}
      BY <2>3 DEF NextSequence
    <2>6. /\ retained' \in Seq(Nat \ {0})
          /\ Len(retained') = Len(retained) - n + 2
          /\ \A i \in 1 .. Len(retained) - n + 1 : retained'[i] = retained[n + i - 1]
          /\ retained'[Len(retained) - n + 2] = NextSequence
      <3> DEFINE S == Nat \ {0}
      <3>1. /\ NextSequence \in S /\ retained \in Seq(S)
            /\ n \in 1 .. Len(retained) + 1
            /\ retained' = Append(SubSeq(retained, n, Len(retained)), NextSequence)
        BY <2>2, <2>3, <2>5
      <3> HIDE DEF S
      <3>2. /\ retained' \in Seq(S)
            /\ Len(retained') = Len(retained) - n + 2
            /\ \A i \in 1 .. Len(retained) - n + 1 : retained'[i] = retained[n + i - 1]
            /\ retained'[Len(retained) - n + 2] = NextSequence
        BY <3>1, SuffixAppend, SMTT(30)
      <3> QED
        BY <3>2 DEF S
    <2>7. Len(retained') <= MaxRetainedPackets
      BY <2>2, <2>3, <2>6
    <2>8. Len(retained') <= Len(log')
      BY <2>3, <2>4, <2>6 DEF RetainedSuffix
    <2>9. ASSUME NEW i \in 1 .. Len(retained')
          PROVE  retained'[i] = Len(log') - Len(retained') + i
      <3>1. CASE i = Len(retained) - n + 2
        BY <3>1, <2>3, <2>4, <2>5, <2>6
      <3>2. CASE i \in 1 .. Len(retained) - n + 1
        BY <3>2, <2>3, <2>4, <2>5, <2>6 DEF RetainedSuffix
      <3>3. /\ Len(retained) \in Nat /\ n \in Int /\ i \in Int
            /\ 1 <= i /\ i <= Len(retained) - n + 2
        BY <2>3, <2>6
      <3> QED
        BY <3>1, <3>2, <3>3
    <2> QED
      BY <2>1, <2>3, <2>4, <2>6, <2>7, <2>8, <2>9 DEF RetainedSuffix
  <1>2. CASE ~Commit
    <2>1. UNCHANGED <<log, retained>>
      <3>1. ASSUME NEW p \in Peers, NEW r \in requestNet[p], Ingest(p, r)
            PROVE  UNCHANGED <<log, retained>>
        BY <3>1 DEF Ingest
      <3>2. ASSUME NEW p \in Peers, NEW r, Serves(p, r)
            PROVE  UNCHANGED <<log, retained>>
        BY <3>2, ServeFrame DEF Take
      <3>3. ASSUME NEW p \in Peers, Services(p)
            PROVE  UNCHANGED <<log, retained>>
        BY <3>3, ServiceFrame DEF Service
      <3> QED
        BY <1>2, <3>1, <3>2, <3>3, StepCases, TickFrame, ClientFrame, LoseFrame
        DEF AuthorityInv, authorityVars
    <2> QED
      BY <2>1 DEF AuthorityInv, TypeOK, AuthorityTypeOK, RetainedSuffix
  <1> QED
    BY <1>1, <1>2

--------------------------------------------------------------------------
(* The catch-up queue of a transfer *)

\* A run with its next element is a run.
LEMMA AppendRun ==
  ASSUME NEW old \in Seq(Nat), NEW first \in Nat, NEW s \in Nat, IsRun(old, first, s),
         NEW new, new = Append(old, s)
  PROVE  new \in Seq(Nat) /\ Len(new) = Len(old) + 1 /\ IsRun(new, first, s + 1)
  <1>1. /\ new \in Seq(Nat)
        /\ Len(new) = Len(old) + 1
        /\ \A i \in 1 .. Len(old) : new[i] = old[i]
        /\ new[Len(old) + 1] = s
    BY AppendProperties
  <1>2. Len(old) \in Nat
    BY LenProperties
  <1>3. ASSUME NEW i \in 1 .. Len(new)
        PROVE  new[i] = first + i - 1
    <2>1. CASE i = Len(old) + 1
      BY <2>1, <1>1, <1>2 DEF IsRun
    <2>2. CASE i \in 1 .. Len(old)
      BY <2>2, <1>1, <1>2 DEF IsRun
    <2> QED
      BY <2>1, <2>2, <1>1, <1>2
  <1> QED
    BY <1>1, <1>2, <1>3 DEF IsRun

\* A run without its first element is a run.
LEMMA TailRun ==
  ASSUME NEW old \in Seq(Nat), NEW first \in Nat, NEW s \in Nat, IsRun(old, first, s), old # <<>>,
         NEW new, new = Tail(old)
  PROVE  new \in Seq(Nat) /\ Len(new) = Len(old) - 1 /\ IsRun(new, first + 1, s) /\ Head(old) = first /\ first < s
  <1>1. /\ new \in Seq(Nat)
        /\ Len(new) = Len(old) - 1
        /\ \A i \in 1 .. Len(new) : new[i] = old[i + 1]
    BY HeadTailProperties
  <1>2. Len(old) \in Nat \ {0}
    BY EmptySeq
  <1>3. Head(old) = old[1]
    OBVIOUS
  <1> QED
    BY <1>1, <1>2, <1>3 DEF IsRun

\* A transfer with queue c, and one that replays from n.
WithQueue(t, c) == [t EXCEPT !.catchup = c]
WithQueueFrom(t, c, n) == [t EXCEPT !.catchup = c, !.resume = n]

\* A transfer with another queue.
LEMMA WithCatchup ==
  ASSUME NEW t \in Transfer, NEW c \in Seq(Nat), NEW q, q = WithQueue(t, c)
  PROVE  /\ q \in Transfer
         /\ q.stage = t.stage /\ q.id = t.id /\ q.next = t.next /\ q.resume = t.resume
         /\ q.catchup = c
  BY DEF Transfer, WithQueue, WithQueueFrom

\* A transfer with another queue and another delta to replay.
LEMMA WithReplay ==
  ASSUME NEW t \in Transfer, NEW c \in Seq(Nat), NEW n \in Nat \ {0}, NEW q, q = WithQueueFrom(t, c, n)
  PROVE  /\ q \in Transfer
         /\ q.stage = t.stage /\ q.id = t.id /\ q.next = t.next /\ q.resume = n
         /\ q.catchup = c
  BY DEF Transfer, WithQueue, WithQueueFrom

\* A stalled transfer.
LEMMA WithStall ==
  ASSUME NEW t \in Transfer, NEW q, q = Stalled(t)
  PROVE  /\ q \in Transfer
         /\ q.stage = "stalled" /\ q.catchup = <<>>
         /\ q.id = t.id /\ q.next = t.next /\ q.resume = t.resume
  <1>1. <<>> \in Seq(Nat)
    OBVIOUS
  <1>2. ASSUME NEW c \in Seq(Nat), q = [t EXCEPT !.stage = "stalled", !.catchup = c]
        PROVE  /\ q \in Transfer
               /\ q.stage = "stalled" /\ q.catchup = c
               /\ q.id = t.id /\ q.next = t.next /\ q.resume = t.resume
    BY <1>2 DEF Transfer
  <1> QED
    BY <1>1, <1>2 DEF Stalled

\* The fields of a transfer.
LEMMA TransferFields ==
  ASSUME NEW t \in Transfer
  PROVE  /\ t.stage \in {"none", "snapshot", "awaiting ack", "catchup", "stalled"}
         /\ t.next \in Nat \ {0} /\ t.resume \in Nat \ {0} /\ t.id \in Nat /\ t.sent \in 0..SnapshotFrames
         /\ t.catchup \in Seq(Nat)
         /\ Len(t.catchup) \in Nat
         /\ FirstToReplay(t) \in Nat
  <1>1. t.next \in Nat /\ t.resume \in Nat /\ t.catchup \in Seq(Nat)
    BY DEF Transfer
  <1> QED
    BY <1>1, LenProperties DEF Transfer, FirstToReplay

\* A queued delta extends the run, or the transfer stalls.
LEMMA QueueCatchupRun ==
  ASSUME NEW t \in Transfer, NEW s \in Nat, NEW count,
         Len(t.catchup) <= MaxCatchupPackets, HoldsRun(t, s),
         NEW q, q = QueueCatchup(t, s, count)
  PROVE  /\ q \in Transfer
         /\ Len(q.catchup) <= MaxCatchupPackets
         /\ HoldsRun(q, s + 1)
         /\ q.id = t.id /\ q.next = t.next /\ q.resume = t.resume
         /\ q.stage \in {t.stage, "stalled"}
         /\ q.stage = "none" <=> t.stage = "none"
  <1>0. /\ t.stage \in {"none", "snapshot", "awaiting ack", "catchup", "stalled"}
        /\ t.catchup \in Seq(Nat)
        /\ Len(t.catchup) \in Nat
        /\ FirstToReplay(t) \in Nat
    BY TransferFields
  <1>01. Len(t.catchup) \in Nat
    BY <1>0
  <1>1. CASE ~IsActive(t)
    BY <1>0, <1>1 DEF QueueCatchup, HoldsRun
  <1>2. CASE IsActive(t) /\ q = Stalled(t)
    <2>1. /\ q \in Transfer
          /\ q.stage = "stalled" /\ q.id = t.id /\ q.next = t.next /\ q.resume = t.resume
          /\ q.catchup = <<>>
      BY <1>2, WithStall
    <2> QED
      <3>1. Len(q.catchup) <= MaxCatchupPackets
        BY <2>1, StreamAssumption
      <3>2. HoldsRun(q, s + 1) /\ t.stage # "none"
        BY <1>2, <2>1 DEF HoldsRun, IsActive
      <3> QED
        BY <2>1, <3>1, <3>2
  <1>3. CASE IsActive(t) /\ q # Stalled(t)
    <2>1. Len(t.catchup) + 1 <= MaxCatchupPackets
      <3>1. ~(Len(t.catchup) >= MaxCatchupPackets)
        BY <1>3, Zenon DEF QueueCatchup
      <3>2. MaxCatchupPackets \in Nat
        BY StreamAssumption
      <3> QED
        BY <1>01, <3>1, <3>2
    <2>2. PICK c : /\ q = WithQueue(t, c)
                   /\ c \in Seq(Nat)
                   /\ Len(c) = Len(t.catchup) + 1
                   /\ IsRun(c, FirstToReplay(t), s + 1)
      <3>1. IsRun(t.catchup, FirstToReplay(t), s)
        BY <1>3 DEF HoldsRun
      <3>2. q = WithQueue(t, Append(t.catchup, s))
        BY <1>3, Zenon DEF QueueCatchup, WithQueue
      <3>3. /\ Append(t.catchup, s) \in Seq(Nat)
            /\ Len(Append(t.catchup, s)) = Len(t.catchup) + 1
            /\ IsRun(Append(t.catchup, s), FirstToReplay(t), s + 1)
        BY <1>0, <3>1, AppendRun, ZenonT(40)
      <3> QED
        BY <3>2, <3>3, Zenon
    <2>5. /\ q \in Transfer
          /\ q.stage = t.stage /\ q.id = t.id /\ q.next = t.next /\ q.resume = t.resume
          /\ q.catchup = c
      BY <2>2, WithCatchup
    <2>6. FirstToReplay(q) = FirstToReplay(t)
      BY <2>5 DEF FirstToReplay
    <2>7. HoldsRun(q, s + 1)
      BY <2>2, <2>5, <2>6 DEF HoldsRun
    <2> QED
      <3>1. Len(q.catchup) <= MaxCatchupPackets
        <4>1. Len(q.catchup) = Len(t.catchup) + 1
          BY <2>2, <2>5
        <4> QED
          BY <2>1, <4>1
      <3> QED
        BY <2>5, <2>7, <3>1
  <1> QED
    BY <1>1, <1>2, <1>3

\* Taking the first delta of the run leaves the run that follows it.
LEMMA ReplayRun ==
  ASSUME NEW t \in Transfer, NEW s \in Nat, HoldsRun(t, s),
         t.stage = "catchup", t.catchup # <<>>
  PROVE  /\ Head(t.catchup) = t.resume
         /\ t.resume < s
         /\ \E q \in Transfer :
              /\ q = Replayed(t)
              /\ q.stage = t.stage /\ q.id = t.id /\ q.next = t.next
              /\ q.resume = t.resume + 1
              /\ Len(q.catchup) <= Len(t.catchup)
              /\ HoldsRun(q, s)
  <1>1. t.catchup \in Seq(Nat) /\ Len(t.catchup) \in Nat /\ t.resume \in Nat
    BY TransferFields
  <1>2. IsRun(t.catchup, t.resume, s)
    BY DEF IsActive, FirstToReplay, HoldsRun
  <1>3. /\ Tail(t.catchup) \in Seq(Nat)
        /\ Len(Tail(t.catchup)) = Len(t.catchup) - 1
        /\ IsRun(Tail(t.catchup), t.resume + 1, s)
        /\ Head(t.catchup) = t.resume
        /\ t.resume < s
    BY <1>1, <1>2, TailRun
  <1>4. ASSUME NEW c \in Seq(Nat), NEW n \in Nat \ {0}, NEW q, q = WithQueueFrom(t, c, n),
               n = t.resume + 1, Len(c) = Len(t.catchup) - 1, IsRun(c, n, s)
        PROVE  /\ q \in Transfer
               /\ q.stage = t.stage /\ q.id = t.id /\ q.next = t.next
               /\ q.resume = n
               /\ Len(q.catchup) <= Len(t.catchup)
               /\ HoldsRun(q, s)
    <2>1. /\ q \in Transfer
          /\ q.stage = t.stage /\ q.catchup = c /\ q.resume = n
          /\ q.id = t.id /\ q.next = t.next
      BY <1>4, WithReplay
    <2>2. FirstToReplay(q) = n
      BY <2>1 DEF FirstToReplay
    <2>3. HoldsRun(q, s)
      BY <1>4, <2>1, <2>2 DEF HoldsRun
    <2>4. Len(q.catchup) <= Len(t.catchup)
      BY <1>1, <1>4, <2>1
    <2> QED
      BY <2>1, <2>3, <2>4
  <1>5. t.resume + 1 \in Nat \ {0}
    BY <1>1
  <1>6. Replayed(t) = WithQueueFrom(t, Tail(t.catchup), t.resume + 1)
    BY Zenon DEF Replayed, WithQueueFrom
  <1> QED
    BY <1>3, <1>4, <1>5, <1>6, Zenon

\* A step that changes the transfer of one peer and no delta.
LEMMA OneTransfer ==
  ASSUME AuthorityInv, NEW p \in Peers, NEW t \in Transfer,
         Len(t.catchup) <= MaxCatchupPackets, HoldsRun(t, NextSequence),
         transfer' = [transfer EXCEPT ![p] = t], log' = log
  PROVE  /\ transfer' \in [Peers -> Transfer]
         /\ \A q \in Peers : Len(transfer'[q].catchup) <= MaxCatchupPackets
         /\ CatchupExact'
  <1>1. /\ transfer \in [Peers -> Transfer]
        /\ \A q \in Peers : Len(transfer[q].catchup) <= MaxCatchupPackets
        /\ \A q \in Peers : HoldsRun(transfer[q], NextSequence)
    BY DEF AuthorityInv, TypeOK, AuthorityTypeOK, CatchupExact
  <1>2. \A q \in Peers : transfer'[q] = IF q = p THEN t ELSE transfer[q]
    BY <1>1
  <1>3. transfer' \in [Peers -> Transfer]
    BY <1>1
  <1>4. NextSequence' = NextSequence
    BY DEF NextSequence
  <1>5. \A q \in Peers : HoldsRun(transfer'[q], NextSequence')
    BY <1>1, <1>2, <1>4
  <1> QED
    BY <1>1, <1>2, <1>3, <1>5 DEF CatchupExact

\* What a step that leaves the transfers alone keeps.
LEMMA SameTransfers ==
  ASSUME AuthorityInv, transfer' = transfer, log' = log
  PROVE  /\ transfer' \in [Peers -> Transfer]
         /\ \A q \in Peers : Len(transfer'[q].catchup) <= MaxCatchupPackets
         /\ CatchupExact'
  BY DEF AuthorityInv, TypeOK, AuthorityTypeOK, CatchupExact, NextSequence

\* The next sequence is a positive number.
LEMMA NextSequenceType ==
  ASSUME AuthorityInv
  PROVE  NextSequence = Len(log) + 1 /\ NextSequence \in Nat \ {0}
  <1>1. Len(log) \in Nat
    BY LenProperties DEF AuthorityInv, TypeOK, AuthorityTypeOK
  <1> QED
    BY <1>1 DEF NextSequence

\* The transfer of one peer is well formed and holds its run.
LEMMA TransferOf ==
  ASSUME AuthorityInv, NEW p \in Peers
  PROVE  /\ transfer[p] \in Transfer
         /\ Len(transfer[p].catchup) <= MaxCatchupPackets
         /\ HoldsRun(transfer[p], NextSequence)
  BY DEF AuthorityInv, TypeOK, AuthorityTypeOK, CatchupExact

\* A new transfer of the present version is exact.
LEMMA NewTransferRun ==
  ASSUME NEW id \in Nat, NEW next \in Nat \ {0}
  PROVE  /\ NewTransfer(id, next) \in Transfer
         /\ Len(NewTransfer(id, next).catchup) <= MaxCatchupPackets
         /\ HoldsRun(NewTransfer(id, next), next)
  <1>1. <<>> \in Seq(Nat) /\ Len(<<>>) = 0
    BY EmptySeq
  <1>2. 0 \in 0..SnapshotFrames /\ MaxCatchupPackets \in Nat /\ 1 \in Nat \ {0}
    BY StreamAssumption
  <1>3. ASSUME NEW c \in Seq(Nat), NEW sent \in 0..SnapshotFrames, NEW resume \in Nat \ {0}
        PROVE  [stage |-> "snapshot", id |-> id, next |-> next, sent |-> sent, resume |-> resume,
                catchup |-> c] \in Transfer
    BY DEF Transfer
  <1>4. NewTransfer(id, next) \in Transfer
    BY <1>1, <1>2, <1>3 DEF NewTransfer
  <1>5. /\ NewTransfer(id, next).stage = "snapshot"
        /\ NewTransfer(id, next).next = next
        /\ NewTransfer(id, next).catchup = <<>>
    BY DEF NewTransfer
  <1>6. IsRun(<<>>, next, next)
    BY <1>1 DEF IsRun
  <1>7. HoldsRun(NewTransfer(id, next), next)
    BY <1>5, <1>6 DEF HoldsRun, FirstToReplay
  <1> QED
    BY <1>1, <1>2, <1>4, <1>5, <1>7

\* Pacing the fragments leaves the queue alone.
LEMMA PacedRun ==
  ASSUME NEW t \in Transfer, t.stage = "snapshot", NEW s, HoldsRun(t, s),
         NEW end \in 0..SnapshotFrames, NEW q, q = Paced(t, end)
  PROVE  /\ q \in Transfer
         /\ q.catchup = t.catchup
         /\ q.id = t.id /\ q.next = t.next
         /\ q.stage \in {"snapshot", "awaiting ack"}
         /\ HoldsRun(q, s)
  <1>1. /\ q \in Transfer
        /\ q.catchup = t.catchup
        /\ q.id = t.id /\ q.next = t.next
        /\ q.stage \in {"snapshot", "awaiting ack"}
    BY DEF Paced, Transfer
  <1>2. FirstToReplay(q) = FirstToReplay(t)
    BY <1>1 DEF FirstToReplay
  <1>3. HoldsRun(q, s)
    BY <1>1, <1>2 DEF HoldsRun, IsActive
  <1> QED
    BY <1>1, <1>3

\* The acknowledged transfer replays from the version of its snapshot.
LEMMA ResumedRun ==
  ASSUME NEW t \in Transfer, t.stage = "awaiting ack", NEW s, HoldsRun(t, s),
         NEW q, q = Resumed(t)
  PROVE  /\ q \in Transfer
         /\ q.stage = "catchup" /\ q.id = t.id /\ q.next = t.next
         /\ q.resume = t.next /\ q.catchup = t.catchup
         /\ HoldsRun(q, s)
  <1>1. /\ q \in Transfer
        /\ q.stage = "catchup" /\ q.id = t.id /\ q.next = t.next
        /\ q.resume = t.next /\ q.catchup = t.catchup
    BY DEF Resumed, Transfer
  <1>2. FirstToReplay(q) = FirstToReplay(t)
    BY <1>1 DEF FirstToReplay
  <1>3. HoldsRun(q, s)
    BY <1>1, <1>2 DEF HoldsRun, IsActive
  <1> QED
    BY <1>1, <1>3

\* What is kept of the transfers.
TransfersExact ==
  /\ transfer \in [Peers -> Transfer]
  /\ \A q \in Peers : Len(transfer[q].catchup) <= MaxCatchupPackets
  /\ CatchupExact

\* A commit keeps the transfers exact.
LEMMA CommitTransfers ==
  ASSUME AuthorityInv, Commit
  PROVE  TransfersExact'
  <1>1. PICK count \in 1..MaxPacketFrames :
          /\ log' = Append(log, count)
          /\ transfer' = [q \in Peers |->
                            QueueCatchup(transfer[q], NextSequence, count)]
    BY DEF Commit
  <1>2. NextSequence \in Nat /\ NextSequence' = NextSequence + 1
    <2>1. log \in Seq(1..MaxPacketFrames)
      BY DEF AuthorityInv, TypeOK, AuthorityTypeOK
    <2>2. Len(log') = Len(log) + 1 /\ Len(log) \in Nat
      BY <1>1, <2>1, AppendProperties, LenProperties
    <2> QED
      BY <2>2 DEF NextSequence
  <1>3. ASSUME NEW q \in Peers
        PROVE  /\ transfer'[q] \in Transfer
               /\ Len(transfer'[q].catchup) <= MaxCatchupPackets
               /\ HoldsRun(transfer'[q], NextSequence')
    <2>1. /\ transfer[q] \in Transfer
          /\ Len(transfer[q].catchup) <= MaxCatchupPackets
          /\ HoldsRun(transfer[q], NextSequence)
      BY TransferOf
    <2>2. transfer'[q] = QueueCatchup(transfer[q], NextSequence, count)
      BY <1>1
    <2> QED
      BY <1>2, <2>1, <2>2, QueueCatchupRun
  <1>4. transfer' \in [Peers -> Transfer]
    BY <1>1, <1>3
  <1> QED
    BY <1>3, <1>4 DEF TransfersExact, CatchupExact

\* Serving a request keeps the transfers exact.
LEMMA ServeTransfers ==
  ASSUME AuthorityInv, NEW p \in Peers, NEW r \in Requests, Serves(p, r)
  PROVE  TransfersExact'
  <1>1. log' = log
    BY ServeFrame DEF Take
  <1>2. CASE ServeDelta(p, r) \/ DropRequest(p, r) \/ ServeFragments(p, r)
    <2>1. transfer' = transfer
      BY <1>2 DEF ServeDelta, DropRequest, ServeFragments
    <2> QED
      BY <1>1, <2>1, SameTransfers DEF TransfersExact
  <1>3. CASE StartTransfer(p, r)
    <2>1. CASE built'.id = 0
      <3>1. transfer' = transfer
        BY <1>3, <2>1 DEF StartTransfer
      <3> QED
        BY <1>1, <3>1, SameTransfers DEF TransfersExact
    <2>2. CASE built'.id # 0
      <3>1. transfer' = [transfer EXCEPT ![p] = NewTransfer(built'.id, built'.next)]
        BY <1>3, <2>2 DEF StartTransfer
      <3>2. built'.id \in Nat /\ built'.next = NextSequence
        <4>1. built \in [tried: BOOLEAN, id: Nat, next: Nat] /\ nextSnapshotId \in Nat
          BY StreamAssumption DEF AuthorityInv, TypeOK, TickTypeOK, AuthorityTypeOK
        <4>2. CASE built.tried
          <5>1. built' = built
            BY <1>3, <4>2 DEF StartTransfer
          <5>2. stage = "repairs"
            BY <1>3 DEF StartTransfer, Take
          <5> QED
            BY <2>2, <4>1, <5>1, <5>2 DEF AuthorityInv, BuiltHere
        <4>3. CASE ~built.tried
          <5>1. BuildSucceeds \/ BuildFails
            BY <1>3, <4>3 DEF StartTransfer
          <5>2. BuildSucceeds
            BY <2>2, <5>1 DEF BuildFails
          <5> QED
            BY <4>1, <5>2 DEF BuildSucceeds
        <4> QED
          BY <4>2, <4>3
      <3>3. NextSequence \in Nat \ {0}
        BY NextSequenceType
      <3>4. /\ NewTransfer(built'.id, built'.next) \in Transfer
            /\ Len(NewTransfer(built'.id, built'.next).catchup) <= MaxCatchupPackets
            /\ HoldsRun(NewTransfer(built'.id, built'.next), NextSequence)
        BY <3>2, <3>3, NewTransferRun
      <3> QED
        BY <1>1, <3>1, <3>4, OneTransfer DEF TransfersExact
    <2> QED
      BY <2>1, <2>2
  <1>4. CASE ServeAck(p, r)
    <2>1. CASE Acknowledges(transfer[p], r.id)
      <3>1. /\ transfer' = [transfer EXCEPT ![p] = Resumed(transfer[p])]
            /\ transfer[p].stage = "awaiting ack"
        BY <1>4, <2>1 DEF ServeAck, Acknowledges
      <3>2. /\ Resumed(transfer[p]) \in Transfer
            /\ Resumed(transfer[p]).catchup = transfer[p].catchup
            /\ HoldsRun(Resumed(transfer[p]), NextSequence)
        BY <3>1, TransferOf, ResumedRun
      <3>3. Len(Resumed(transfer[p]).catchup) <= MaxCatchupPackets
        BY <3>2, TransferOf
      <3> QED
        BY <1>1, <3>1, <3>2, <3>3, OneTransfer DEF TransfersExact
    <2>2. CASE ~Acknowledges(transfer[p], r.id)
      <3>1. transfer' = transfer
        BY <1>4, <2>2 DEF ServeAck
      <3> QED
        BY <1>1, <3>1, SameTransfers DEF TransfersExact
    <2> QED
      BY <2>1, <2>2
  <1> QED
    BY <1>2, <1>3, <1>4 DEF Serves

\* The numbers of frames a service step paces are within the snapshot.
LEMMA ServiceTransfers ==
  ASSUME AuthorityInv, NEW p \in Peers, Services(p)
  PROVE  TransfersExact'
  <1> DEFINE t == transfer[p]
  <1>1. log' = log
    BY ServiceFrame DEF Service
  <1>2. /\ t \in Transfer
        /\ Len(t.catchup) <= MaxCatchupPackets
        /\ HoldsRun(t, NextSequence)
    BY TransferOf
  <1>3. CASE Wait(p)
    <2>1. transfer' = transfer
      BY <1>3 DEF Wait
    <2> QED
      BY <1>1, <2>1, SameTransfers DEF TransfersExact
  <1>4. CASE Pace(p)
    <2> DEFINE end == LeastOf(t.sent + SnapshotFramesPerTick, SnapshotFrames)
    <2>1. t.stage = "snapshot"
      BY <1>4 DEF Pace
    <2>2. transfer' = [transfer EXCEPT ![p] = Paced(t, end)] \/ transfer' = transfer
      BY <1>4 DEF Pace
    <2>3. end \in 0..SnapshotFrames
      <3>1. t.sent \in 0..SnapshotFrames
        BY <1>2, TransferFields
      <3>2. SnapshotFrames \in Nat /\ SnapshotFramesPerTick \in Nat
        BY StreamAssumption
      <3> QED
        BY <3>1, <3>2 DEF LeastOf
    <2> HIDE DEF t, end
    <2>4. PICK q : q = Paced(t, end)
      OBVIOUS
    <2>5. q \in Transfer /\ q.catchup = t.catchup /\ HoldsRun(q, NextSequence)
      BY <1>2, <2>1, <2>3, <2>4, PacedRun
    <2>6. Len(q.catchup) <= MaxCatchupPackets
      BY <1>2, <2>5
    <2> QED
      BY <1>1, <2>2, <2>4, <2>5, <2>6, OneTransfer, SameTransfers DEF TransfersExact
  <1>5. CASE Replay(p)
    <2>1. t.stage = "catchup" /\ t.catchup # <<>>
      BY <1>5 DEF Replay
    <2>2. Head(t.catchup) = t.resume
      BY <1>2, <2>1, NextSequenceType, ReplayRun
    <2>3. PICK q \in Transfer :
            /\ q = Replayed(t)
            /\ Len(q.catchup) <= Len(t.catchup)
            /\ HoldsRun(q, NextSequence)
      BY <1>2, <2>1, NextSequenceType, ReplayRun
    <2>4. transfer' = [transfer EXCEPT ![p] = q] \/ transfer' = transfer
      BY <1>5, <2>2, <2>3 DEF Replay
    <2>5. Len(q.catchup) <= MaxCatchupPackets
      <3>1. Len(t.catchup) \in Nat /\ Len(q.catchup) \in Nat
        BY <1>2, TransferFields
      <3>2. MaxCatchupPackets \in Nat
        BY StreamAssumption
      <3>3. Len(q.catchup) <= Len(t.catchup) /\ Len(t.catchup) <= MaxCatchupPackets
        BY <1>2, <2>3
      <3> HIDE DEF t
      <3> QED
        BY <3>1, <3>2, <3>3
    <2> QED
      BY <1>1, <2>3, <2>4, <2>5, OneTransfer, SameTransfers DEF TransfersExact
  <1>6. CASE FinishCatchup(p)
    <2>1. transfer' = [transfer EXCEPT ![p] = IF CaughtUp(t) THEN NoTransfer ELSE Stalled(t)]
      BY <1>6 DEF FinishCatchup
    <2>2. /\ NoTransfer \in Transfer
          /\ NoTransfer.stage = "none"
          /\ NoTransfer.catchup = <<>>
      <3>1. <<>> \in Seq(Nat) /\ 0 \in 0..SnapshotFrames
        BY StreamAssumption
      <3> QED
        BY <3>1 DEF NoTransfer, Transfer
    <2>3. /\ Stalled(t) \in Transfer
          /\ Stalled(t).stage = "stalled"
          /\ Stalled(t).catchup = <<>>
      BY <1>2, WithStall
    <2> DEFINE q == IF CaughtUp(t) THEN NoTransfer ELSE Stalled(t)
    <2>4. /\ q \in Transfer
          /\ q.stage \in {"none", "stalled"}
          /\ q.catchup = <<>>
      BY <2>2, <2>3
    <2>5. transfer' = [transfer EXCEPT ![p] = q]
      BY <2>1
    <2> HIDE DEF q
    <2>6. Len(q.catchup) <= MaxCatchupPackets
      BY <2>4, StreamAssumption
    <2>7. HoldsRun(q, NextSequence)
      BY <2>4 DEF HoldsRun, IsActive
    <2> QED
      BY <1>1, <2>4, <2>5, <2>6, <2>7, OneTransfer DEF TransfersExact
  <1> QED
    BY <1>3, <1>4, <1>5, <1>6 DEF Services

\* Every step keeps the transfers exact.
LEMMA TransferStep ==
  ASSUME AuthorityInv, Next
  PROVE  TransfersExact'
  <1>1. ASSUME log' = log, transfer' = transfer
        PROVE  TransfersExact'
    BY <1>1, SameTransfers DEF TransfersExact
  <1>2. ASSUME NEW p \in Peers, NEW r \in requestNet[p], Ingest(p, r)
        PROVE  TransfersExact'
    BY <1>1, <1>2 DEF Ingest
  <1>3. CASE TickMoves
    BY <1>1, <1>3, TickFrame
  <1>4. ASSUME NEW p \in Peers, ClientStep(p)
        PROVE  TransfersExact'
    BY <1>1, <1>4, ClientFrame DEF authorityVars
  <1>5. ASSUME NEW p \in Peers, Lose(p)
        PROVE  TransfersExact'
    BY <1>1, <1>5, LoseFrame DEF authorityVars
  <1> QED
    BY <1>2, <1>3, <1>4, <1>5, StepCases, CommitTransfers, ServeTransfers,
       ServiceTransfers DEF AuthorityInv

\* Every step keeps the snapshot of this tick current.
LEMMA BuiltStep ==
  ASSUME AuthorityInv, Next
  PROVE  /\ built' \in [tried: BOOLEAN, id: Nat, next: Nat]
         /\ nextSnapshotId' \in 1 .. MaxSnapshots + 1
         /\ BuiltHere'
  <1>1. /\ built \in [tried: BOOLEAN, id: Nat, next: Nat]
        /\ nextSnapshotId \in 1 .. MaxSnapshots + 1
        /\ BuiltHere
        /\ MaxSnapshots \in Nat
    BY StreamAssumption DEF AuthorityInv, TypeOK, TickTypeOK, AuthorityTypeOK
  <1>2. ASSUME built' = built, nextSnapshotId' = nextSnapshotId, stage' = stage, log' = log
        PROVE  BuiltHere'
    BY <1>1, <1>2 DEF BuiltHere, NextSequence
  <1>3. ASSUME built' = built, nextSnapshotId' = nextSnapshotId, stage' # "repairs"
        PROVE  BuiltHere'
    BY <1>3 DEF BuiltHere
  <1>4. ASSUME NEW p \in Peers, NEW r \in requestNet[p], Ingest(p, r)
        PROVE  built' = built /\ nextSnapshotId' = nextSnapshotId /\ BuiltHere'
    BY <1>2, <1>4 DEF Ingest, tickVars
  <1>5. CASE BeginRepairs
    BY <1>1, <1>5 DEF BeginRepairs, NotBuilt, BuiltHere, authorityVars
  <1>6. CASE EndRepairs \/ EndService \/ BeginTick
    <2>1. built' = built /\ nextSnapshotId' = nextSnapshotId /\ stage' # "repairs"
      BY <1>6 DEF EndRepairs, EndService, BeginTick, authorityVars
    <2> QED
      BY <1>1, <1>3, <2>1
  <1>7. ASSUME NEW p \in Peers, NEW r \in Requests, Serves(p, r)
        PROVE  /\ built' \in [tried: BOOLEAN, id: Nat, next: Nat]
               /\ nextSnapshotId' \in 1 .. MaxSnapshots + 1
               /\ BuiltHere'
    <2>1. log' = log /\ stage' = stage
      BY <1>7, ServeFrame DEF Take
    <2>2. CASE built' = built /\ nextSnapshotId' = nextSnapshotId
      BY <1>1, <1>2, <2>1, <2>2
    <2>3. CASE BuildSucceeds
      <3>1. /\ nextSnapshotId <= MaxSnapshots
            /\ built' = [tried |-> TRUE, id |-> nextSnapshotId, next |-> NextSequence]
            /\ nextSnapshotId' = nextSnapshotId + 1
        BY <2>3 DEF BuildSucceeds
      <3>2. NextSequence \in Nat /\ NextSequence' = NextSequence
        BY <2>1, NextSequenceType DEF NextSequence
      <3>3. nextSnapshotId' \in 1 .. MaxSnapshots + 1 /\ nextSnapshotId \in Nat
        BY <1>1, <3>1
      <3>4. built' \in [tried: BOOLEAN, id: Nat, next: Nat]
        BY <3>1, <3>2, <3>3
      <3>5. built'.tried /\ built'.next = NextSequence'
        BY <3>1, <3>2
      <3> QED
        BY <3>3, <3>4, <3>5 DEF BuiltHere
    <2>4. CASE BuildFails
      BY <1>1, <2>4 DEF BuildFails, BuiltHere
    <2>5. \/ built' = built /\ nextSnapshotId' = nextSnapshotId
          \/ BuildSucceeds
          \/ BuildFails
      BY <1>7 DEF Serves, ServeDelta, DropRequest, StartTransfer, ServeFragments, ServeAck
    <2> QED
      BY <2>2, <2>3, <2>4, <2>5
  <1>8. ASSUME NEW p \in Peers, Services(p)
        PROVE  built' = built /\ nextSnapshotId' = nextSnapshotId /\ BuiltHere'
    <2>1. Service(p)
      BY <1>8, ServiceFrame
    <2> QED
      BY <1>2, <2>1 DEF Service
  <1>9. CASE Commit
    <2>1. built' = built /\ nextSnapshotId' = nextSnapshotId /\ stage' # "repairs"
      BY <1>9 DEF Commit, tickVars
    <2> QED
      BY <1>1, <1>3, <2>1
  <1>10. ASSUME NEW p \in Peers, ClientStep(p)
         PROVE  built' = built /\ nextSnapshotId' = nextSnapshotId /\ BuiltHere'
    BY <1>2, <1>10, ClientFrame DEF authorityVars, tickVars
  <1>11. ASSUME NEW p \in Peers, Lose(p)
         PROVE  built' = built /\ nextSnapshotId' = nextSnapshotId /\ BuiltHere'
    BY <1>2, <1>11, LoseFrame DEF authorityVars, tickVars
  <1>12. CASE TickMoves
    BY <1>1, <1>5, <1>6, <1>12, TickFrame DEF TickMoves, BeginRepairs, NotBuilt, EndRepairs,
       EndService, BeginTick
  <1>13. CASE \E p \in Peers : \E r \in AskedBy(p) : r \in Requests /\ Serves(p, r)
    BY <1>7, <1>13
  <1> QED
    BY <1>1, <1>4, <1>8, <1>9, <1>10, <1>11, <1>12, <1>13, StepCases DEF AuthorityInv

\* Every step keeps the types of the tick in progress.
LEMMA TickStep ==
  ASSUME AuthorityInv, Next
  PROVE  /\ stage' \in {"ingest", "repairs", "service", "simulate"}
         /\ served' \in 0..MaxRepairsPerTick
         /\ todo' \subseteq Peers
         /\ sinceSnapshot' \in [Peers -> 0..SnapshotCooldown]
  <1>1. /\ stage \in {"ingest", "repairs", "service", "simulate"}
        /\ served \in 0..MaxRepairsPerTick
        /\ todo \subseteq Peers
        /\ sinceSnapshot \in [Peers -> 0..SnapshotCooldown]
        /\ MaxRepairsPerTick \in Nat \ {0}
        /\ SnapshotCooldown \in Nat
    BY StreamAssumption DEF AuthorityInv, TypeOK, TickTypeOK, AuthorityTypeOK
  <1>2. ASSUME NEW p \in Peers, NEW r \in requestNet[p], Ingest(p, r)
        PROVE  UNCHANGED <<stage, served, todo, sinceSnapshot>>
    BY <1>2 DEF Ingest, tickVars
  <1>3. ASSUME BeginRepairs \/ EndRepairs \/ EndService
        PROVE  /\ stage' \in {"ingest", "repairs", "service", "simulate"}
               /\ served' \in 0..MaxRepairsPerTick
               /\ todo' \subseteq Peers
               /\ sinceSnapshot' = sinceSnapshot
    BY <1>1, <1>3 DEF BeginRepairs, EndRepairs, EndService, authorityVars
  <1>4. CASE BeginTick
    <2>1. sinceSnapshot' =
            [p \in Peers |-> LeastOf(sinceSnapshot[p] + 1, SnapshotCooldown)]
      BY <1>4 DEF BeginTick
    <2>2. \A p \in Peers : LeastOf(sinceSnapshot[p] + 1, SnapshotCooldown) \in 0..SnapshotCooldown
      BY <1>1 DEF LeastOf
    <2>3. sinceSnapshot' \in [Peers -> 0..SnapshotCooldown]
      BY <2>1, <2>2
    <2> QED
      BY <1>1, <1>4, <2>3 DEF BeginTick
  <1>5. ASSUME NEW p \in Peers, NEW r \in Requests, Serves(p, r)
        PROVE  /\ stage' = stage /\ todo' = todo
               /\ served' \in 0..MaxRepairsPerTick
               /\ sinceSnapshot' \in [Peers -> 0..SnapshotCooldown]
    <2>1. stage' = stage /\ todo' = todo /\ served < MaxRepairsPerTick /\ served' = served + 1
      BY <1>5, ServeFrame DEF Take
    <2>2. sinceSnapshot' = sinceSnapshot \/ sinceSnapshot' = [sinceSnapshot EXCEPT ![p] = 0]
      BY <1>5 DEF Serves, ServeDelta, DropRequest, StartTransfer, ServeFragments, ServeAck
    <2>3. sinceSnapshot' \in [Peers -> 0..SnapshotCooldown]
      BY <1>1, <2>2
    <2>4. served' \in 0..MaxRepairsPerTick
      BY <1>1, <2>1
    <2> QED
      BY <2>1, <2>3, <2>4
  <1>6. ASSUME NEW p \in Peers, Services(p)
        PROVE  UNCHANGED <<stage, served, sinceSnapshot>> /\ todo' \subseteq todo
    BY <1>6, ServiceFrame DEF Service
  <1>7. CASE Commit
    BY <1>1, <1>7 DEF Commit, tickVars
  <1>8. ASSUME NEW p \in Peers, ClientStep(p) \/ Lose(p)
        PROVE  UNCHANGED <<stage, served, todo, sinceSnapshot>>
    BY <1>8, ClientFrame, LoseFrame DEF authorityVars, tickVars
  <1>9. CASE TickMoves
    BY <1>1, <1>3, <1>4, <1>9 DEF TickMoves
  <1>10. CASE \E p \in Peers : \E r \in AskedBy(p) : r \in Requests /\ Serves(p, r)
    BY <1>1, <1>5, <1>10
  <1> QED
    BY <1>1, <1>2, <1>6, <1>7, <1>8, <1>9, <1>10, StepCases DEF AuthorityInv

\* Every step keeps the queue of requests well formed and bounded.
LEMMA RepairsStep ==
  ASSUME AuthorityInv, Next
  PROVE  repairs' \in Seq(QueuedRepair) /\ Len(repairs') <= MaxQueuedRepairs
  <1>1. /\ repairs \in Seq(QueuedRepair)
        /\ Len(repairs) <= MaxQueuedRepairs
        /\ Len(repairs) \in Nat
        /\ MaxQueuedRepairs \in Nat
    BY StreamAssumption, LenProperties DEF AuthorityInv, TypeOK, AuthorityTypeOK
  <1>2. ASSUME NEW p \in Peers, NEW r \in requestNet[p], Ingest(p, r)
        PROVE  repairs' \in Seq(QueuedRepair) /\ Len(repairs') <= MaxQueuedRepairs
    <2>1. CASE Len(repairs) < MaxQueuedRepairs
      <3>1. repairs' = Append(repairs, [peer |-> p, request |-> r])
        BY <1>2, <2>1 DEF Ingest
      <3>2. [peer |-> p, request |-> r] \in QueuedRepair
        <4>1. r \in Requests
          BY DEF AuthorityInv, TypeOK, NetworkTypeOK
        <4> QED
          BY <4>1 DEF QueuedRepair
      <3>3. repairs' \in Seq(QueuedRepair) /\ Len(repairs') = Len(repairs) + 1
        BY <1>1, <3>1, <3>2, AppendProperties
      <3> QED
        BY <1>1, <2>1, <3>3
    <2>2. CASE ~(Len(repairs) < MaxQueuedRepairs)
      BY <1>1, <1>2, <2>2 DEF Ingest
    <2> QED
      BY <2>1, <2>2
  <1>3. ASSUME NEW p \in Peers, NEW r \in Requests, Serves(p, r)
        PROVE  repairs' \in Seq(QueuedRepair) /\ Len(repairs') <= MaxQueuedRepairs
    <2>1. repairs # <<>> /\ repairs' = Tail(repairs)
      BY <1>3, ServeFrame DEF Take
    <2>2. repairs' \in Seq(QueuedRepair) /\ Len(repairs') = Len(repairs) - 1
      BY <1>1, <2>1, HeadTailProperties
    <2> QED
      BY <1>1, <2>2
  <1>4. ASSUME NEW p \in Peers, Services(p)
        PROVE  repairs' = repairs
    BY <1>4, ServiceFrame DEF Service
  <1>5. CASE Commit
    BY <1>1, <1>5 DEF Commit
  <1>6. ASSUME NEW p \in Peers, ClientStep(p) \/ Lose(p)
        PROVE  repairs' = repairs
    BY <1>6, ClientFrame, LoseFrame DEF authorityVars
  <1>7. CASE TickMoves
    BY <1>1, <1>7, TickFrame
  <1>8. CASE \E p \in Peers : \E r \in AskedBy(p) : r \in Requests /\ Serves(p, r)
    BY <1>3, <1>8
  <1> QED
    BY <1>1, <1>2, <1>4, <1>5, <1>6, <1>7, <1>8, StepCases DEF AuthorityInv

--------------------------------------------------------------------------
(* Types: the network *)

\* The frames of a packet are frames.
LEMMA PacketFrames ==
  ASSUME NEW s \in Nat \ {0}, NEW count \in Nat \ {0}
  PROVE  Packet(s, count) \subseteq Frame
  BY DEF Packet, Frame

\* The frames of a committed delta are frames.
LEMMA CommittedFrames ==
  ASSUME AuthorityInv, NEW s \in 1 .. Len(log)
  PROVE  Frames(s) \subseteq Frame
  <1>1. log \in Seq(1..MaxPacketFrames) /\ Len(log) \in Nat
    BY LenProperties DEF AuthorityInv, TypeOK, AuthorityTypeOK
  <1>2. log[s] \in 1..MaxPacketFrames
    BY <1>1, ElementOfSeq
  <1>3. log[s] \in Nat \ {0} /\ s \in Nat \ {0}
    BY <1>1, <1>2, StreamAssumption
  <1> QED
    BY <1>3, PacketFrames DEF Frames

\* What is retained was committed.
LEMMA RetainedCommitted ==
  ASSUME AuthorityInv, NEW s, Retained(s)
  PROVE  s \in 1 .. Len(log)
  <1>1. PICK i \in DOMAIN retained : retained[i] = s
    BY DEF Retained
  <1>2. retained \in Seq(Nat \ {0}) /\ log \in Seq(1..MaxPacketFrames)
    BY DEF AuthorityInv, TypeOK, AuthorityTypeOK
  <1>3. i \in 1 .. Len(retained) /\ Len(retained) \in Nat /\ Len(log) \in Nat
    BY <1>1, <1>2, LenProperties
  <1>4. Len(retained) <= Len(log) /\ s = Len(log) - Len(retained) + i
    BY <1>1, <1>3 DEF AuthorityInv, RetainedSuffix
  <1> QED
    BY <1>3, <1>4

\* The fragments of a snapshot are fragments.
LEMMA SnapshotPacketFrames ==
  ASSUME NEW id \in Nat, NEW next \in Nat \ {0}
  PROVE  SnapshotPacket(id, next) \subseteq SnapshotFrame
  BY DEF SnapshotPacket, SnapshotFrame

\* An attempt sends some of its frames.
LEMMA AttemptFields ==
  ASSUME NEW frames, NEW attempt \in Attempts(frames)
  PROVE  attempt.sent \subseteq frames
  <1>1. CASE attempt = [complete |-> TRUE, sent |-> frames]
    BY <1>1
  <1>2. CASE attempt # [complete |-> TRUE, sent |-> frames]
    <2>1. PICK s \in SUBSET frames : attempt = [complete |-> FALSE, sent |-> s]
      BY <1>2 DEF Attempts
    <2> QED
      BY <2>1
  <1> QED
    BY <1>1, <1>2

\* Sending keeps the type of a network.
LEMMA SendType ==
  ASSUME NEW S, NEW net \in [Peers -> SUBSET S], NEW p \in Peers, NEW sent \in SUBSET S
  PROVE  Send(net, p, sent) \in [Peers -> SUBSET S]
  BY DEF Send

\* Delivering keeps the type of a network.
LEMMA DeliverType ==
  ASSUME NEW S, NEW net \in [Peers -> SUBSET S], NEW p \in Peers, NEW arrival
  PROVE  Deliver(net, p, arrival) \in [Peers -> SUBSET S]
  BY DEF Deliver

\* The types of the networks.
LEMMA NetTypes ==
  ASSUME AuthorityInv
  PROVE  /\ deltaNet \in [Peers -> SUBSET Frame]
         /\ snapshotNet \in [Peers -> SUBSET SnapshotFrame]
         /\ requestNet \in [Peers -> SUBSET Requests]
         /\ losses \in 0..MaxLosses
  BY DEF AuthorityInv, TypeOK, NetworkTypeOK

\* Every step keeps the delta datagrams well formed.
LEMMA DeltaNetStep ==
  ASSUME AuthorityInv, Next
  PROVE  deltaNet' \in [Peers -> SUBSET Frame]
  <1>1. deltaNet \in [Peers -> SUBSET Frame]
    BY NetTypes
  <1>2. ASSUME NEW p \in Peers, NEW r \in Requests, Serves(p, r)
        PROVE  deltaNet' \in [Peers -> SUBSET Frame]
    <2>1. CASE ServeDelta(p, r)
      <3>1. Frames(r.id) \subseteq Frame
        BY <2>1, RetainedCommitted, CommittedFrames DEF ServeDelta
      <3>2. PICK attempt \in Attempts(Frames(r.id)) : deltaNet' = Send(deltaNet, p, attempt.sent)
        BY <2>1 DEF ServeDelta
      <3>3. attempt.sent \in SUBSET Frame
        BY <3>1, <3>2, AttemptFields
      <3> QED
        BY <1>1, <3>2, <3>3, SendType
    <2>2. CASE ~ServeDelta(p, r)
      BY <1>1, <1>2, <2>2 DEF Serves, DropRequest, StartTransfer, ServeFragments, ServeAck
    <2> QED
      BY <2>1, <2>2
  <1>3. ASSUME NEW p \in Peers, Services(p)
        PROVE  deltaNet' \in [Peers -> SUBSET Frame]
    <2>1. CASE deltaNet' = deltaNet
      BY <1>1, <2>1
    <2>2. CASE deltaNet' # deltaNet
      <3> DEFINE t == transfer[p]
      <3>1. Replay(p) /\ t.stage = "catchup" /\ t.catchup # <<>> /\ Head(t.catchup) = t.resume
        BY <1>3, <2>2 DEF Services, Pace, Wait, Replay, FinishCatchup
      <3>2. t \in Transfer /\ HoldsRun(t, NextSequence)
        BY TransferOf
      <3>3. t.resume < NextSequence
        BY <3>1, <3>2, NextSequenceType, ReplayRun
      <3>4. t.resume \in Nat \ {0}
        BY <3>2, TransferFields
      <3>5. NextSequence = Len(log) + 1 /\ Len(log) \in Nat
        BY NextSequenceType, LenProperties DEF AuthorityInv, TypeOK, AuthorityTypeOK
      <3>6. PICK attempt \in Attempts(Frames(t.resume)) :
              deltaNet' = Send(deltaNet, p, attempt.sent)
        BY <3>1 DEF Replay
      <3> HIDE DEF t
      <3>7. t.resume \in 1 .. Len(log)
        BY <3>3, <3>4, <3>5
      <3>8. attempt.sent \in SUBSET Frame
        BY <3>6, <3>7, CommittedFrames, AttemptFields
      <3> QED
        BY <1>1, <3>6, <3>8, SendType
    <2> QED
      BY <2>1, <2>2
  <1>4. CASE Commit
    <2>1. PICK count \in 1..MaxPacketFrames :
            deltaNet' = [p \in Peers |->
              IF Live(p) THEN deltaNet[p] \cup Packet(NextSequence, count) ELSE deltaNet[p]]
      BY <1>4 DEF Commit
    <2>2. Packet(NextSequence, count) \subseteq Frame
      <3>1. count \in Nat \ {0}
        BY StreamAssumption
      <3> QED
        BY <3>1, NextSequenceType, PacketFrames
    <2> QED
      BY <1>1, <2>1, <2>2
  <1>5. ASSUME NEW p \in Peers, ClientStep(p)
        PROVE  deltaNet' \in [Peers -> SUBSET Frame]
    <2>1. ASSUME NEW f \in deltaNet[p], ReceiveDelta(p, f)
          PROVE  deltaNet' = Deliver(deltaNet, p, f)
      BY <2>1 DEF ReceiveDelta, DiscardDelta, HoldDelta, ApplyDeltas, FailDelta,
                  ReceivesDelta
    <2>2. ASSUME NEW m \in snapshotNet[p], ReceiveSnapshot(p, m)
          PROVE  deltaNet' = deltaNet
      BY <2>2 DEF ReceiveSnapshot, CollectFrame, InstallSnapshot, ReceivesSnapshot
    <2>3. CASE RequestRepair(p) \/ RequestSnapshot(p) \/ RequestFragments(p)
      BY <1>1, <2>3 DEF RequestRepair, RequestSnapshot, RequestFragments
    <2> QED
      BY <1>1, <1>5, <2>1, <2>2, <2>3, DeliverType DEF ClientStep
  <1>6. ASSUME NEW p \in Peers, Lose(p)
        PROVE  deltaNet' \in [Peers -> SUBSET Frame]
    <2>1. deltaNet' = deltaNet \/ \E f : deltaNet' = [deltaNet EXCEPT ![p] = @ \ {f}]
      BY <1>6 DEF Lose
    <2> QED
      BY <1>1, <2>1
  <1>7. ASSUME NEW p \in Peers, NEW r \in requestNet[p], Ingest(p, r)
        PROVE  deltaNet' = deltaNet
    BY <1>7 DEF Ingest
  <1>8. CASE TickMoves
    BY <1>1, <1>8, TickFrame DEF netVars
  <1>9. CASE \E p \in Peers : \E r \in AskedBy(p) : r \in Requests /\ Serves(p, r)
    BY <1>2, <1>9
  <1> QED
    BY <1>1, <1>3, <1>4, <1>5, <1>6, <1>7, <1>8, <1>9, StepCases DEF AuthorityInv

\* Every step keeps the snapshot datagrams well formed.
LEMMA SnapshotNetStep ==
  ASSUME AuthorityInv, Next
  PROVE  snapshotNet' \in [Peers -> SUBSET SnapshotFrame]
  <1>1. snapshotNet \in [Peers -> SUBSET SnapshotFrame]
    BY NetTypes
  <1>2. ASSUME NEW p \in Peers
        PROVE  SnapshotPacket(transfer[p].id, transfer[p].next) \subseteq SnapshotFrame
    <2>1. transfer[p].id \in Nat /\ transfer[p].next \in Nat \ {0}
      BY TransferOf, TransferFields
    <2> QED
      BY <2>1, SnapshotPacketFrames
  <1>3. ASSUME NEW p \in Peers, NEW frames, frames \subseteq SnapshotFrame,
               NEW attempt \in Attempts(frames),
               snapshotNet' = Send(snapshotNet, p, attempt.sent)
        PROVE  snapshotNet' \in [Peers -> SUBSET SnapshotFrame]
    <2>1. attempt.sent \in SUBSET SnapshotFrame
      BY <1>3, AttemptFields
    <2> QED
      BY <1>1, <1>3, <2>1, SendType
  <1>4. ASSUME NEW p \in Peers, NEW r \in Requests, Serves(p, r)
        PROVE  snapshotNet' \in [Peers -> SUBSET SnapshotFrame]
    <2>1. CASE snapshotNet' = snapshotNet
      BY <1>1, <2>1
    <2>2. CASE snapshotNet' # snapshotNet
      <3>1. ServeFragments(p, r) /\ transfer[p].id = r.id
        BY <1>4, <2>2 DEF Serves, ServeDelta, DropRequest, StartTransfer, ServeFragments, ServeAck
      <3> DEFINE frames == {f \in SnapshotPacket(r.id, transfer[p].next) : f.index \in r.missing}
      <3>2. PICK attempt \in Attempts(frames) : snapshotNet' = Send(snapshotNet, p, attempt.sent)
        BY <2>2, <3>1 DEF ServeFragments
      <3>3. frames \subseteq SnapshotFrame
        BY <1>2, <3>1
      <3> HIDE DEF frames
      <3> QED
        BY <1>3, <3>2, <3>3
    <2> QED
      BY <2>1, <2>2
  <1>5. ASSUME NEW p \in Peers, Services(p)
        PROVE  snapshotNet' \in [Peers -> SUBSET SnapshotFrame]
    <2>1. CASE snapshotNet' = snapshotNet
      BY <1>1, <2>1
    <2>2. CASE snapshotNet' # snapshotNet
      <3>1. Pace(p)
        BY <1>5, <2>2 DEF Services, Wait, Replay, FinishCatchup
      <3>2. PICK frames \in SUBSET SnapshotPacket(transfer[p].id, transfer[p].next) :
              \E attempt \in Attempts(frames) : snapshotNet' = Send(snapshotNet, p, attempt.sent)
        BY <3>1 DEF Pace
      <3>3. PICK attempt \in Attempts(frames) : snapshotNet' = Send(snapshotNet, p, attempt.sent)
        BY <3>2
      <3>4. frames \subseteq SnapshotFrame
        BY <1>2, <3>2
      <3> QED
        BY <1>3, <3>3, <3>4
    <2> QED
      BY <2>1, <2>2
  <1>6. ASSUME NEW p \in Peers, ClientStep(p)
        PROVE  snapshotNet' \in [Peers -> SUBSET SnapshotFrame]
    <2>1. ASSUME NEW f \in deltaNet[p], ReceiveDelta(p, f)
          PROVE  snapshotNet' = snapshotNet
      BY <2>1 DEF ReceiveDelta, DiscardDelta, HoldDelta, ApplyDeltas, FailDelta,
                  ReceivesDelta
    <2>2. ASSUME NEW m \in snapshotNet[p], ReceiveSnapshot(p, m)
          PROVE  snapshotNet' = Deliver(snapshotNet, p, m)
      BY <2>2 DEF ReceiveSnapshot, CollectFrame, InstallSnapshot, ReceivesSnapshot
    <2>3. CASE RequestRepair(p) \/ RequestSnapshot(p) \/ RequestFragments(p)
      BY <1>1, <2>3 DEF RequestRepair, RequestSnapshot, RequestFragments
    <2> QED
      BY <1>1, <1>6, <2>1, <2>2, <2>3, DeliverType DEF ClientStep
  <1>7. ASSUME NEW p \in Peers, Lose(p)
        PROVE  snapshotNet' \in [Peers -> SUBSET SnapshotFrame]
    <2>1. snapshotNet' = snapshotNet \/ \E f : snapshotNet' = [snapshotNet EXCEPT ![p] = @ \ {f}]
      BY <1>7 DEF Lose
    <2> QED
      BY <1>1, <2>1
  <1>8. ASSUME NEW p \in Peers, NEW r \in requestNet[p], Ingest(p, r)
        PROVE  snapshotNet' = snapshotNet
    BY <1>8 DEF Ingest
  <1>9. CASE TickMoves \/ Commit
    BY <1>1, <1>9, TickFrame DEF netVars, Commit
  <1>10. CASE \E p \in Peers : \E r \in AskedBy(p) : r \in Requests /\ Serves(p, r)
    BY <1>4, <1>10
  <1> QED
    BY <1>1, <1>5, <1>6, <1>7, <1>8, <1>9, <1>10, StepCases DEF AuthorityInv

\* The types of the clients.
LEMMA ClientTypes ==
  ASSUME AuthorityInv, NEW p \in Peers
  PROVE  /\ inbox \in [Peers -> Inbox] /\ inbox[p] \in Inbox
         /\ assembler \in [Peers -> Assembler] /\ assembler[p] \in Assembler
         /\ replica \in [Peers -> Replica] /\ replica[p] \in Replica
         /\ gap \in [Peers -> BOOLEAN]
         /\ phase \in [Peers -> {"awaiting", "ready"}]
         /\ fault \in [Peers -> {"none", "inbox", "replica"}]
  BY DEF AuthorityInv, TypeOK, ClientTypeOK

\* The requests a client sends are requests.
LEMMA RequestType ==
  ASSUME NEW kind \in {"delta", "snapshot", "fragments", "ack"}, NEW id \in Nat,
         NEW missing \in SUBSET (1..SnapshotFrames)
  PROVE  Request(kind, id, missing) \in Requests
  BY DEF Request, Requests

\* Every step keeps the requests well formed.
LEMMA RequestNetStep ==
  ASSUME AuthorityInv, Next
  PROVE  requestNet' \in [Peers -> SUBSET Requests] /\ losses' \in 0..MaxLosses
  <1>1. requestNet \in [Peers -> SUBSET Requests] /\ losses \in 0..MaxLosses
    BY NetTypes
  <1>2. ASSUME NEW p \in Peers, NEW r \in requestNet[p], Ingest(p, r)
        PROVE  requestNet' \in [Peers -> SUBSET Requests] /\ losses' = losses
    <2>1. requestNet' = Deliver(requestNet, p, r) /\ losses' = losses
      BY <1>2 DEF Ingest
    <2> QED
      BY <1>1, <2>1, DeliverType
  <1>3. ASSUME NEW p \in Peers, NEW r \in Requests, Serves(p, r)
        PROVE  requestNet' = requestNet /\ losses' = losses
    BY <1>3, ServeFrame DEF Take
  <1>4. ASSUME NEW p \in Peers, Services(p)
        PROVE  requestNet' = requestNet /\ losses' = losses
    BY <1>4, ServiceFrame DEF Service
  <1>5. CASE TickMoves \/ Commit
    BY <1>1, <1>5, TickFrame DEF netVars, Commit
  <1>6. ASSUME NEW p \in Peers, Lose(p)
        PROVE  requestNet' \in [Peers -> SUBSET Requests] /\ losses' \in 0..MaxLosses
    <2>1. requestNet' = requestNet \/ \E r : requestNet' = [requestNet EXCEPT ![p] = @ \ {r}]
      BY <1>6 DEF Lose
    <2>2. requestNet' \in [Peers -> SUBSET Requests]
      BY <1>1, <2>1
    <2>3. losses < MaxLosses /\ losses' = losses + 1
      BY <1>6 DEF Lose
    <2>4. losses' \in 0..MaxLosses
      BY <1>1, <2>3, StreamAssumption
    <2> QED
      BY <2>2, <2>4
  <1>7. ASSUME NEW p \in Peers, ClientStep(p)
        PROVE  requestNet' \in [Peers -> SUBSET Requests] /\ losses' = losses
    <2>1. losses' = losses
      BY <1>7, ClientFrame
    <2>2. ASSUME NEW r \in Requests, requestNet' = Send(requestNet, p, {r})
          PROVE  requestNet' \in [Peers -> SUBSET Requests]
      BY <1>1, <2>2, SendType
    <2>3. ASSUME NEW f \in deltaNet[p], ReceiveDelta(p, f)
          PROVE  requestNet' = requestNet
      BY <2>3 DEF ReceiveDelta, DiscardDelta, HoldDelta, ApplyDeltas, FailDelta,
                  ReceivesDelta
    <2>4. ASSUME NEW m \in snapshotNet[p], ReceiveSnapshot(p, m)
          PROVE  requestNet' \in [Peers -> SUBSET Requests]
      <3>1. m.id \in Nat /\ {} \in SUBSET (1..SnapshotFrames)
        BY NetTypes DEF SnapshotFrame
      <3>2. Request("ack", m.id, {}) \in Requests
        BY <3>1, RequestType
      <3>3. \/ requestNet' = requestNet
            \/ requestNet' = Send(requestNet, p, {Request("ack", m.id, {})})
        BY <2>4 DEF ReceiveSnapshot, CollectFrame, InstallSnapshot
      <3> QED
        BY <1>1, <2>2, <3>2, <3>3
    <2>5. CASE RequestRepair(p)
      <3>1. inbox[p].next \in Nat /\ {} \in SUBSET (1..SnapshotFrames)
        BY ClientTypes DEF Inbox
      <3>2. Request("delta", inbox[p].next, {}) \in Requests
        BY <3>1, RequestType
      <3>3. requestNet' = Send(requestNet, p, {Request("delta", inbox[p].next, {})})
        BY <2>5 DEF RequestRepair, Asks
      <3> QED
        BY <2>1, <2>2, <3>2, <3>3
    <2>6. CASE RequestSnapshot(p)
      <3>1. Request("snapshot", 0, {}) \in Requests
        BY RequestType
      <3>2. requestNet' = Send(requestNet, p, {Request("snapshot", 0, {})})
        BY <2>6 DEF RequestSnapshot, Asks
      <3> QED
        BY <2>1, <2>2, <3>1, <3>2
    <2>7. CASE RequestFragments(p)
      <3>1. assembler[p].active \in Nat /\ Missing(assembler[p]) \in SUBSET (1..SnapshotFrames)
        BY ClientTypes DEF Assembler, Missing
      <3>2. Request("fragments", assembler[p].active, Missing(assembler[p])) \in Requests
        BY <3>1, RequestType
      <3>3. requestNet' =
              Send(requestNet, p,
                   {Request("fragments", assembler[p].active, Missing(assembler[p]))})
        BY <2>7 DEF RequestFragments, Asks
      <3> QED
        BY <2>1, <2>2, <3>2, <3>3
    <2> QED
      BY <1>1, <1>7, <2>1, <2>3, <2>4, <2>5, <2>6, <2>7 DEF ClientStep
  <1>8. CASE \E p \in Peers : \E r \in AskedBy(p) : r \in Requests /\ Serves(p, r)
    BY <1>1, <1>3, <1>8
  <1> QED
    BY <1>1, <1>2, <1>4, <1>5, <1>6, <1>7, <1>8, StepCases DEF AuthorityInv

--------------------------------------------------------------------------
(* Types: the clients *)

\* An inbox without the fragments of a sequence.
LEMMA TakenType ==
  ASSUME NEW b \in Inbox, NEW f \in Frame
  PROVE  /\ AfterRetaining(b, f) \in Inbox
         /\ Taken(b, f) \in Inbox
         /\ AfterRefusal(b, f) \in Inbox
  BY DEF Inbox, AfterRetaining, Taken, AfterRefusal, Without

\* An inbox with one more complete packet.
LEMMA BufferedType ==
  ASSUME NEW b \in Inbox, NEW f \in Frame
  PROVE  AfterBuffering(b, f) \in Inbox
  <1>1. Packet(f.seq, f.count) \subseteq Frame
    BY PacketFrames DEF Frame
  <1>2. Taken(b, f) \in Inbox
    BY TakenType
  <1> HIDE DEF Frame
  <1> QED
    BY <1>1, <1>2 DEF AfterBuffering, Inbox

\* An inbox after a release.
LEMMA ReleasedType ==
  ASSUME NEW b \in Inbox, NEW f \in Frame, NEW n \in Nat \ {0}
  PROVE  AfterRelease(b, f, n) \in Inbox
  BY DEF Inbox, AfterRelease, Without

\* A client step keeps the types of the clients.
LEMMA ClientTypesStep ==
  ASSUME AuthorityInv, NEW p \in Peers, ClientStep(p)
  PROVE  ClientTypeOK'
  <1>1. ASSUME NEW f \in deltaNet[p], ReceiveDelta(p, f)
        PROVE  ClientTypeOK'
    <2>1. f \in Frame
      BY NetTypes
    <2>2. phase' = phase /\ assembler' = assembler
      BY <1>1 DEF ReceiveDelta, DiscardDelta, HoldDelta, ApplyDeltas, FailDelta, ReceivesDelta
    <2>3. CASE DiscardDelta(p, f)
      BY <2>2, <2>3, ClientTypes DEF DiscardDelta, ClientTypeOK
    <2>4. CASE HoldDelta(p, f)
      <3>1. PICK b \in Inbox : inbox' = [inbox EXCEPT ![p] = b]
        <4>1. \/ inbox' = [inbox EXCEPT ![p] = AfterRetaining(inbox[p], f)]
              \/ inbox' = [inbox EXCEPT ![p] = AfterBuffering(inbox[p], f)]
              \/ inbox' = [inbox EXCEPT ![p] = Taken(inbox[p], f)]
          BY <2>4 DEF HoldDelta
        <4> QED
          BY <2>1, <4>1, ClientTypes, TakenType, BufferedType
      <3>2. inbox' \in [Peers -> Inbox]
        BY <3>1, ClientTypes
      <3>3. gap' \in [Peers -> BOOLEAN]
        BY <2>4, ClientTypes DEF HoldDelta
      <3> QED
        BY <2>2, <2>4, <3>2, <3>3, ClientTypes DEF HoldDelta, ClientTypeOK
    <2>5. CASE ApplyDeltas(p, f)
      <3>1. PICK n \in inbox[p].next + 1 .. inbox[p].next + 1 + MaxCompletePackets :
              /\ inbox' = [inbox EXCEPT ![p] = AfterRelease(@, f, n)]
              /\ \/ /\ replica' = [replica EXCEPT ![p] = Applied(@, n)]
                    /\ fault' = fault
                 \/ /\ fault' = [fault EXCEPT ![p] = "replica"]
                    /\ replica' = replica
        BY <2>5 DEF ApplyDeltas
      <3>2. inbox[p].next \in Nat \ {0}
        BY ClientTypes DEF Inbox
      <3>3. n \in Nat \ {0}
        BY <3>1, <3>2, InboxAssumption
      <3>4. AfterRelease(inbox[p], f, n) \in Inbox
        BY <2>1, <3>3, ClientTypes, ReleasedType
      <3>5. inbox' \in [Peers -> Inbox]
        BY <3>1, <3>4, ClientTypes
      <3>6. Applied(replica[p], n) \in Replica
        BY <3>3, ClientTypes DEF Applied, Replica
      <3>7. replica' \in [Peers -> Replica]
        BY <3>1, <3>6, ClientTypes
      <3>8. fault' \in [Peers -> {"none", "inbox", "replica"}]
        BY <3>1, ClientTypes
      <3>9. gap' \in [Peers -> BOOLEAN]
        BY <2>5, ClientTypes DEF ApplyDeltas
      <3> QED
        BY <2>2, <3>5, <3>7, <3>8, <3>9, ClientTypes DEF ClientTypeOK
    <2>6. CASE FailDelta(p, f)
      <3>1. \/ inbox' = [inbox EXCEPT ![p] = AfterRefusal(inbox[p], f)]
            \/ inbox' = [inbox EXCEPT ![p] = Taken(inbox[p], f)]
        BY <2>6 DEF FailDelta
      <3>2. inbox' \in [Peers -> Inbox]
        BY <2>1, <3>1, ClientTypes, TakenType
      <3>3. fault' \in [Peers -> {"none", "inbox", "replica"}]
        BY <2>6, ClientTypes DEF FailDelta
      <3> QED
        BY <2>2, <2>6, <3>2, <3>3, ClientTypes DEF FailDelta, ClientTypeOK
    <2> QED
      BY <1>1, <2>3, <2>4, <2>5, <2>6 DEF ReceiveDelta
  <1>2. ASSUME NEW m \in snapshotNet[p], ReceiveSnapshot(p, m)
        PROVE  ClientTypeOK'
    <2>1. m.id \in Nat /\ m.index \in 1..SnapshotFrames /\ m.next \in Nat \ {0}
      BY NetTypes DEF SnapshotFrame
    <2>2. fault' = fault
      BY <1>2 DEF ReceiveSnapshot, CollectFrame, InstallSnapshot, ReceivesSnapshot
    <2>3. CASE CollectFrame(p, m)
      <3>1. Collect(assembler[p], m) \in Assembler
        BY <2>1, ClientTypes DEF Collect, Assembler
      <3>2. assembler' \in [Peers -> Assembler]
        BY <2>3, <3>1, ClientTypes DEF CollectFrame
      <3>3. phase' \in [Peers -> {"awaiting", "ready"}]
        BY <2>3, ClientTypes DEF CollectFrame
      <3> QED
        BY <2>2, <2>3, <3>2, <3>3, ClientTypes DEF CollectFrame, ClientTypeOK
    <2>4. CASE InstallSnapshot(p, m)
      <3>1. assembler' \in [Peers -> Assembler]
        BY <2>1, <2>4, ClientTypes DEF InstallSnapshot, Assembler
      <3>2. replica' \in [Peers -> Replica]
        BY <2>1, <2>4, ClientTypes DEF InstallSnapshot, Replica
      <3>3. EmptyInbox(m.next) \in Inbox
        BY <2>1 DEF EmptyInbox, Inbox
      <3>4. inbox' \in [Peers -> Inbox]
        BY <2>4, <3>3, ClientTypes DEF InstallSnapshot
      <3>5. gap' \in [Peers -> BOOLEAN] /\ phase' \in [Peers -> {"awaiting", "ready"}]
        BY <2>4, ClientTypes DEF InstallSnapshot
      <3> QED
        BY <2>2, <3>1, <3>2, <3>4, <3>5, ClientTypes DEF ClientTypeOK
    <2> QED
      BY <1>2, <2>3, <2>4 DEF ReceiveSnapshot
  <1>3. CASE RequestRepair(p) \/ RequestSnapshot(p) \/ RequestFragments(p)
    BY <1>3, ClientTypes DEF RequestRepair, RequestSnapshot, RequestFragments, clientVars, ClientTypeOK
  <1> QED
    BY <1>1, <1>2, <1>3 DEF ClientStep

\* Every step keeps the types of the clients.
LEMMA ClientStepTypes ==
  ASSUME AuthorityInv, Next
  PROVE  ClientTypeOK'
  <1>1. ASSUME UNCHANGED clientVars
        PROVE  ClientTypeOK'
    BY <1>1 DEF AuthorityInv, TypeOK, ClientTypeOK, clientVars
  <1>2. ASSUME NEW p \in Peers, NEW r \in requestNet[p], Ingest(p, r)
        PROVE  UNCHANGED clientVars
    BY <1>2 DEF Ingest
  <1>3. ASSUME NEW p \in Peers, NEW r, Serves(p, r)
        PROVE  UNCHANGED clientVars
    BY <1>3, ServeFrame DEF Take
  <1>4. ASSUME NEW p \in Peers, Services(p)
        PROVE  UNCHANGED clientVars
    BY <1>4, ServiceFrame DEF Service
  <1>5. CASE TickMoves \/ Commit
    BY <1>1, <1>5, TickFrame DEF Commit
  <1>6. ASSUME NEW p \in Peers, Lose(p)
        PROVE  UNCHANGED clientVars
    BY <1>6, LoseFrame
  <1> QED
    BY <1>1, <1>2, <1>3, <1>4, <1>5, <1>6, ClientTypesStep, StepCases DEF AuthorityInv

--------------------------------------------------------------------------
(* The authority's invariant *)

\* Every step keeps the invariant.
LEMMA AuthorityInvStep ==
  ASSUME AuthorityInv, [Next]_vars
  PROVE  AuthorityInv'
  <1>1. CASE Next
    <2>1. AuthorityTypeOK'
      BY <1>1, LogTypes, TransferStep, RepairsStep, BuiltStep, TickStep
         DEF AuthorityTypeOK, TransfersExact
    <2>2. TickTypeOK'
      BY <1>1, BuiltStep, TickStep DEF TickTypeOK
    <2>3. NetworkTypeOK'
      BY <1>1, DeltaNetStep, SnapshotNetStep, RequestNetStep DEF NetworkTypeOK
    <2>4. ClientTypeOK'
      BY <1>1, ClientStepTypes
    <2> QED
      BY <1>1, <2>1, <2>2, <2>3, <2>4, LogTypes, TransferStep, BuiltStep
         DEF AuthorityInv, TypeOK, TransfersExact
  <1>2. CASE UNCHANGED vars
    BY <1>2 DEF vars, authorityVars, tickVars, netVars, clientVars, AuthorityInv, TypeOK, AuthorityTypeOK, TickTypeOK,
       NetworkTypeOK, ClientTypeOK, CatchupExact, RetainedSuffix, BuiltHere, NextSequence
  <1> QED
    BY <1>1, <1>2

\* The authority's invariant holds in every state of every behaviour.
THEOREM AuthorityInvariant == Spec => []AuthorityInv
  <1>1. Init => AuthorityInv
    BY InitInv
  <1>2. AuthorityInv /\ [Next]_vars => AuthorityInv'
    BY AuthorityInvStep
  <1> QED
    BY <1>1, <1>2, PTL DEF Spec

\* Queues, messages and clients are well formed and the queues are within
\* their limits, for every number of peers and every limit.
THEOREM TypeCorrect == Spec => []TypeOK
  BY AuthorityInvariant, PTL DEF AuthorityInv

\* The catch-up queue of a transfer that is not stalled is the run of all
\* deltas since its snapshot that were not replayed yet.
THEOREM CatchupIsExact == Spec => []CatchupExact
  BY AuthorityInvariant, PTL DEF AuthorityInv

\* The history a repair is served from is a run of deltas up to the newest.
THEOREM HistoryIsSuffix == Spec => []RetainedSuffix
  BY AuthorityInvariant, PTL DEF AuthorityInv
--------------------------------------------------------------------------
(***************************************************************************)
(* The clients, whatever the network does: the replica rejects nothing, a  *)
(* snapshot transfer loses nothing, and what a client shows implements     *)
(* ReplicatedWorld.  The invariant of the authority is strengthened by     *)
(* what every peer knows of the versions on their way.                     *)
(***************************************************************************)

--------------------------------------------------------------------------
(* The inductive invariant of the clients *)

\* The frames of deltas that peer p may still use.
HeldBy(p) == deltaNet[p] \cup inbox[p].pending \cup inbox[p].complete

\* All that peer p has, may receive or has asked for comes before version n.
Before(p, n) ==
  /\ replica[p].expected <= n
  /\ \A f \in HeldBy(p) : f.seq < n
  /\ \A r \in AskedBy(p) : r.kind = "delta" => r.id < n

\* Replica and inbox wait for the same delta.
Consistent(p) ==
  /\ fault[p] # "replica"
  /\ inbox[p].next = replica[p].expected
  /\ replica[p].world <= replica[p].expected
  /\ phase[p] = "ready" => replica[p].world = replica[p].expected
  /\ \A f \in inbox[p].complete : f.seq > inbox[p].next
  /\ gap[p] => inbox[p].complete # {}

\* Only installed snapshots are acknowledged.
AcksInstalled(p) ==
  \A r \in AskedBy(p) : r.kind = "ack" => r.id <= assembler[p].done

\* The snapshots peer p may be sent: on their way, of its transfer, or built
\* in this tick.
Version(id, next) == [id |-> id, next |-> next]

Versions(p) ==
  {Version(m.id, m.next) : m \in snapshotNet[p]} \cup
  (IF transfer[p].stage = "none" THEN {}
   ELSE {Version(transfer[p].id, transfer[p].next)}) \cup
  (IF stage = "repairs" /\ built.id # 0 THEN {Version(built.id, built.next)}
   ELSE {})

\* A snapshot is of a version the world had, later ones of later versions;
\* one that peer p has not installed is ahead of all it has, and one that it
\* has installed is not.
VersionsInOrder(p) ==
  /\ \A v \in Versions(p) :
       /\ v.id < nextSnapshotId
       /\ v.next <= NextSequence
       /\ v.id > assembler[p].done => Before(p, v.next)
       /\ v.id = assembler[p].done => v.next <= replica[p].expected
  /\ \A v, w \in Versions(p) : v.id <= w.id => v.next <= w.next

\* The newest snapshot peer p was offered.
Newest(p) ==
  IF transfer[p].stage = "none" THEN assembler[p].done ELSE transfer[p].id

\* Nothing older than the newest transfer is installed after it, and it is
\* installed before its catch-up begins.
StagesInOrder(p) ==
  /\ assembler[p].done <= Newest(p)
  /\ Newest(p) < nextSnapshotId
  /\ \A m \in snapshotNet[p] : m.id <= Newest(p)
  /\ transfer[p].stage = "catchup" => Newest(p) = assembler[p].done
  /\ stage = "repairs" /\ built.id # 0 => Newest(p) <= built.id

\* What peer p was sent without a hole ends before this version.
SentEnd(p) ==
  IF transfer[p].stage = "none" THEN NextSequence
  ELSE IF transfer[p].stage = "catchup" THEN transfer[p].resume
  ELSE 0

SentSoFar(p) ==
  KeepsDeltas =>
    \A s \in 1 .. Len(log) :
      replica[p].expected <= s /\ s < SentEnd(p) => Frames(s) \subseteq deltaNet[p]

PeerInv(p) ==
  /\ Consistent(p)
  /\ Before(p, NextSequence)
  /\ AcksInstalled(p)
  /\ VersionsInOrder(p)
  /\ StagesInOrder(p)
  /\ SentSoFar(p)

StreamInv ==
  /\ AuthorityInv
  /\ \A p \in Peers : PeerInv(p)

--------------------------------------------------------------------------
(* Types of what a peer has *)

LEMMA PeerTypes ==
  ASSUME AuthorityInv, NEW p \in Peers
  PROVE  /\ assembler[p].done \in Nat
         /\ replica[p].expected \in Nat \ {0} /\ replica[p].world \in Nat
         /\ inbox[p].next \in Nat \ {0}
         /\ nextSnapshotId \in Nat
         /\ NextSequence \in Nat \ {0}
         /\ built.id \in Nat /\ built.next \in Nat
         /\ transfer[p].id \in Nat /\ transfer[p].next \in Nat \ {0}
         /\ transfer[p].resume \in Nat \ {0}
  <1>1. assembler[p] \in Assembler /\ replica[p] \in Replica /\ inbox[p] \in Inbox
    BY ClientTypes
  <1>2. built \in [tried: BOOLEAN, id: Nat, next: Nat] /\ nextSnapshotId \in Nat
    BY StreamAssumption DEF AuthorityInv, TypeOK, AuthorityTypeOK, TickTypeOK
  <1>3. transfer[p] \in Transfer
    BY TransferOf
  <1> QED
    BY <1>1, <1>2, <1>3, NextSequenceType, TransferFields
       DEF Assembler, Replica, Inbox

\* The frames, requests and fragments of a peer are well formed.
LEMMA HeldTypes ==
  ASSUME AuthorityInv, NEW p \in Peers
  PROVE  /\ HeldBy(p) \subseteq Frame
         /\ \A f \in HeldBy(p) : f.seq \in Nat
         /\ AskedBy(p) \subseteq Requests
         /\ \A r \in AskedBy(p) : r.id \in Nat
         /\ \A m \in snapshotNet[p] : m.id \in Nat /\ m.next \in Nat
  <1>1. deltaNet[p] \subseteq Frame /\ snapshotNet[p] \subseteq SnapshotFrame
        /\ requestNet[p] \subseteq Requests
    BY NetTypes
  <1>2. inbox[p].pending \subseteq Frame /\ inbox[p].complete \subseteq Frame
    BY ClientTypes DEF Inbox
  <1>3. HeldBy(p) \subseteq Frame
    BY <1>1, <1>2 DEF HeldBy
  <1>4. ASSUME NEW i \in DOMAIN repairs
        PROVE  repairs[i].request \in Requests
    <2>1. repairs \in Seq(QueuedRepair)
      BY DEF AuthorityInv, TypeOK, AuthorityTypeOK
    <2>2. repairs[i] \in QueuedRepair
      BY <2>1, ElementOfSeq
    <2> QED
      BY <2>2 DEF QueuedRepair
  <1>5. AskedBy(p) \subseteq Requests
    BY <1>1, <1>4 DEF AskedBy
  <1> QED
    BY <1>1, <1>3, <1>5 DEF Frame, Requests, SnapshotFrame

\* Versions are pairs of numbers.
LEMMA VersionTypes ==
  ASSUME AuthorityInv, NEW p \in Peers
  PROVE  \A v \in Versions(p) : v.id \in Nat /\ v.next \in Nat
  BY PeerTypes, HeldTypes DEF Versions, Version

--------------------------------------------------------------------------
(* What the steps do to the requests of a peer *)

LEMMA AskedTaken ==
  ASSUME AuthorityInv, NEW p, NEW q \in Peers, NEW r, Take(q, r)
  PROVE  AskedBy(p)' \subseteq AskedBy(p)
  <1>1. repairs \in Seq(QueuedRepair) /\ repairs # <<>>
    BY DEF AuthorityInv, TypeOK, AuthorityTypeOK, Take
  <1>2. repairs' = Tail(repairs) /\ requestNet' = requestNet
    BY DEF Take
  <1>3. ASSUME NEW i \in DOMAIN repairs'
        PROVE  i + 1 \in DOMAIN repairs /\ repairs'[i] = repairs[i + 1]
    BY <1>1, <1>2
  <1> QED
    BY <1>2, <1>3 DEF AskedBy

LEMMA AskedIngested ==
  ASSUME AuthorityInv, NEW p, NEW q \in Peers, NEW r \in requestNet[q], Ingest(q, r)
  PROVE  AskedBy(p)' \subseteq AskedBy(p)
  <1>1. repairs \in Seq(QueuedRepair)
    BY DEF AuthorityInv, TypeOK, AuthorityTypeOK
  <1>2. requestNet'[p] \subseteq requestNet[p]
    BY NetTypes DEF Ingest, Deliver
  <1>3. CASE repairs' = repairs
    BY <1>2, <1>3 DEF AskedBy
  <1>4. CASE repairs' = Append(repairs, [peer |-> q, request |-> r])
    <2>1. [peer |-> q, request |-> r] \in QueuedRepair
      BY NetTypes DEF QueuedRepair
    <2>2. ASSUME NEW i \in DOMAIN repairs'
          PROVE  \/ i \in DOMAIN repairs /\ repairs'[i] = repairs[i]
                 \/ repairs'[i].peer = q /\ repairs'[i].request = r
      BY <1>1, <1>4, <2>1
    <2> QED
      BY <1>2, <2>2 DEF AskedBy
  <1> QED
    BY <1>3, <1>4 DEF Ingest

LEMMA AskedSame ==
  ASSUME NEW p, NEW S, requestNet'[p] \subseteq requestNet[p] \cup S, repairs' = repairs
  PROVE  AskedBy(p)' \subseteq AskedBy(p) \cup S
  BY DEF AskedBy

--------------------------------------------------------------------------
(* What keeps each part of a peer's invariant *)

\* Fewer frames and requests, with the same replica.
LEMMA BeforeShrinks ==
  ASSUME NEW p, NEW n, Before(p, n), replica'[p] = replica[p],
         AskedBy(p)' \subseteq AskedBy(p), HeldBy(p)' \subseteq HeldBy(p)
  PROVE  Before(p, n)'
  BY DEF Before

\* Nothing that peer p has changes but the requests and the network.
SameClient(p) ==
  /\ phase'[p] = phase[p] /\ inbox'[p] = inbox[p] /\ gap'[p] = gap[p]
  /\ assembler'[p] = assembler[p] /\ replica'[p] = replica[p] /\ fault'[p] = fault[p]

LEMMA ConsistentKept ==
  ASSUME NEW p, Consistent(p), SameClient(p)
  PROVE  Consistent(p)'
  BY DEF Consistent, SameClient

LEMMA AcksKept ==
  ASSUME NEW p, AcksInstalled(p), AskedBy(p)' \subseteq AskedBy(p),
         assembler'[p].done = assembler[p].done
  PROVE  AcksInstalled(p)'
  BY DEF AcksInstalled

\* The snapshots offered may become fewer, and one of the present version
\* may be built; what is before a version stays before it, unless every
\* snapshot on offer was installed.
LEMMA VersionsKept ==
  ASSUME AuthorityInv, NEW p \in Peers, VersionsInOrder(p), Newest(p) < nextSnapshotId,
         assembler[p].done <= Newest(p), Before(p, NextSequence),
         assembler'[p].done = assembler[p].done,
         replica'[p].expected \in Nat, replica[p].expected <= replica'[p].expected,
         nextSnapshotId' \in Nat, nextSnapshotId <= nextSnapshotId',
         NextSequence' \in Nat, NextSequence <= NextSequence',
         \A v \in Versions(p)' :
           \/ v \in Versions(p)
           \/ /\ v = Version(nextSnapshotId, NextSequence)
              /\ v.id < nextSnapshotId',
         \A v \in Versions(p)' :
           v.id > assembler[p].done /\ Before(p, v.next) => Before(p, v.next)'
  PROVE  VersionsInOrder(p)'
  <1>1. /\ assembler[p].done \in Nat /\ replica[p].expected \in Nat
        /\ nextSnapshotId \in Nat /\ NextSequence \in Nat
        /\ assembler[p].done < nextSnapshotId
    <2>1. Newest(p) \in Nat
      BY PeerTypes DEF Newest
    <2> QED
      BY <2>1, PeerTypes
  <1>2. ASSUME NEW v \in Versions(p)'
        PROVE  /\ v.id < nextSnapshotId'
               /\ v.next <= NextSequence'
               /\ v.id > assembler'[p].done => Before(p, v.next)'
               /\ v.id = assembler'[p].done => v.next <= replica'[p].expected
    <2>1. CASE v \in Versions(p)
      <3>1. /\ v.id < nextSnapshotId /\ v.next <= NextSequence
            /\ v.id > assembler[p].done => Before(p, v.next)
            /\ v.id = assembler[p].done => v.next <= replica[p].expected
        BY <2>1 DEF VersionsInOrder
      <3>2. v.id \in Nat /\ v.next \in Nat
        BY <2>1, VersionTypes
      <3> QED
        BY <1>1, <3>1, <3>2
    <2>2. CASE v = Version(nextSnapshotId, NextSequence) /\ v.id < nextSnapshotId'
      <3>1. v.id = nextSnapshotId /\ v.next = NextSequence
        BY <2>2 DEF Version
      <3> QED
        BY <1>1, <2>2, <3>1
    <2> QED
      BY <2>1, <2>2
  <1>3. ASSUME NEW v \in Versions(p)', NEW w \in Versions(p)', v.id <= w.id
        PROVE  v.next <= w.next
    <2>1. ASSUME NEW u \in Versions(p)
          PROVE  u.id \in Nat /\ u.next \in Nat /\ u.id < nextSnapshotId /\ u.next <= NextSequence
      BY VersionTypes DEF VersionsInOrder
    <2>2. Version(nextSnapshotId, NextSequence).id = nextSnapshotId
          /\ Version(nextSnapshotId, NextSequence).next = NextSequence
      BY DEF Version
    <2>3. CASE v \in Versions(p) /\ w \in Versions(p)
      BY <1>3, <2>3 DEF VersionsInOrder
    <2>4. CASE v \in Versions(p) /\ w = Version(nextSnapshotId, NextSequence)
      BY <2>1, <2>2, <2>4
    <2>5. CASE v = Version(nextSnapshotId, NextSequence)
      BY <1>1, <1>3, <2>1, <2>2, <2>5
    <2> QED
      BY <2>3, <2>4, <2>5
  <1> QED
    BY <1>2, <1>3 DEF VersionsInOrder

\* The transfer of peer p does not change and no fragment is sent.
LEMMA StagesKept ==
  ASSUME AuthorityInv, NEW p \in Peers, StagesInOrder(p),
         transfer'[p] = transfer[p], assembler'[p].done = assembler[p].done,
         snapshotNet'[p] \subseteq snapshotNet[p],
         nextSnapshotId' \in Nat, nextSnapshotId <= nextSnapshotId',
         stage' = "repairs" /\ built'.id # 0 =>
           \/ stage = "repairs" /\ built' = built
           \/ built'.id = nextSnapshotId
  PROVE  StagesInOrder(p)'
  <1>1. Newest(p)' = Newest(p)
    BY DEF Newest
  <1>2. Newest(p) \in Nat /\ nextSnapshotId \in Nat /\ built.id \in Nat
    BY PeerTypes DEF Newest
  <1> QED
    BY <1>1, <1>2 DEF StagesInOrder

\* No delta is committed, the transfer of peer p does not change, and its
\* replica may only move on.
LEMMA SentKept ==
  ASSUME AuthorityInv, NEW p \in Peers, SentSoFar(p), log' = log,
         transfer'[p] = transfer[p],
         replica'[p].expected \in Nat, replica[p].expected <= replica'[p].expected,
         KeepsDeltas => deltaNet[p] \subseteq deltaNet'[p]
  PROVE  SentSoFar(p)'
  <1>1. SentEnd(p)' = SentEnd(p)
    BY DEF SentEnd, NextSequence
  <1>2. replica[p].expected \in Nat /\ Len(log) \in Nat
    BY PeerTypes, LenProperties DEF AuthorityInv, TypeOK, AuthorityTypeOK
  <1>3. \A s : Frames(s)' = Frames(s)
    BY DEF Frames
  <1>4. SUFFICES ASSUME KeepsDeltas, NEW s \in 1 .. Len(log),
                        replica'[p].expected <= s, s < SentEnd(p)
                 PROVE  Frames(s) \subseteq deltaNet'[p]
    BY <1>1, <1>3 DEF SentSoFar
  <1>5. replica[p].expected <= s
    BY <1>2, <1>4
  <1> QED
    BY <1>4, <1>5 DEF SentSoFar

\* A step that leaves the transfer of peer p alone and offers it nothing but
\* a new snapshot.
LEMMA SteadyPeer ==
  ASSUME AuthorityInv, NEW p \in Peers, PeerInv(p), Consistent(p)', AcksInstalled(p)',
         \A n \in Nat : Before(p, n) => Before(p, n)',
         assembler'[p].done = assembler[p].done,
         replica'[p].expected \in Nat, replica[p].expected <= replica'[p].expected,
         KeepsDeltas => deltaNet[p] \subseteq deltaNet'[p],
         snapshotNet'[p] \subseteq snapshotNet[p], transfer'[p] = transfer[p], log' = log,
         nextSnapshotId' \in Nat, nextSnapshotId <= nextSnapshotId',
         stage' = "repairs" /\ built'.id # 0 =>
           \/ stage = "repairs" /\ built' = built
           \/ /\ built'.id = nextSnapshotId /\ built'.next = NextSequence
              /\ nextSnapshotId < nextSnapshotId'
  PROVE  PeerInv(p)'
  <1>1. NextSequence' = NextSequence /\ NextSequence \in Nat
    BY NextSequenceType DEF NextSequence
  <1>2. \A v \in Versions(p)' :
           \/ v \in Versions(p)
           \/ /\ v = Version(nextSnapshotId, NextSequence)
              /\ v.id < nextSnapshotId'
    BY DEF Versions, Version
  <1>3. \A v \in Versions(p)' : v.id > assembler[p].done /\ Before(p, v.next) => Before(p, v.next)'
    BY <1>1, <1>2, VersionTypes DEF Version
  <1>4. Before(p, NextSequence)'
    <2>1. PICK n \in Nat : n = NextSequence
      BY <1>1
    <2>2. Before(p, n)'
      BY <2>1 DEF PeerInv
    <2> QED
      BY <1>1, <2>1, <2>2 DEF Before
  <1>5. VersionsInOrder(p)'
    BY <1>1, <1>2, <1>3, VersionsKept DEF PeerInv, StagesInOrder
  <1>6. StagesInOrder(p)'
    BY StagesKept DEF PeerInv
  <1>7. SentSoFar(p)'
    BY SentKept DEF PeerInv
  <1> QED
    BY <1>4, <1>5, <1>6, <1>7 DEF PeerInv

\* A step that takes from peer p what it may have lost, and gives nothing
\* but a new snapshot to others.
LEMMA QuietPeer ==
  ASSUME AuthorityInv, NEW p \in Peers, PeerInv(p), SameClient(p),
         AskedBy(p)' \subseteq AskedBy(p),
         deltaNet'[p] \subseteq deltaNet[p], KeepsDeltas => deltaNet'[p] = deltaNet[p],
         snapshotNet'[p] \subseteq snapshotNet[p], transfer'[p] = transfer[p], log' = log,
         nextSnapshotId' \in Nat, nextSnapshotId <= nextSnapshotId',
         stage' = "repairs" /\ built'.id # 0 =>
           \/ stage = "repairs" /\ built' = built
           \/ /\ built'.id = nextSnapshotId /\ built'.next = NextSequence
              /\ nextSnapshotId < nextSnapshotId'
  PROVE  PeerInv(p)'
  <1>1. HeldBy(p)' \subseteq HeldBy(p)
    BY DEF HeldBy, SameClient
  <1>2. \A n \in Nat : Before(p, n) => Before(p, n)'
    BY <1>1, BeforeShrinks DEF SameClient
  <1>3. assembler'[p].done = assembler[p].done /\ replica'[p].expected = replica[p].expected
        /\ replica[p].expected \in Nat
    BY PeerTypes DEF SameClient
  <1>4. Consistent(p)' /\ AcksInstalled(p)'
    BY <1>3, ConsistentKept, AcksKept DEF PeerInv
  <1> QED
    BY <1>2, <1>3, <1>4, SteadyPeer

--------------------------------------------------------------------------
(* Steps that touch one peer leave the others alone *)

\* What a step gives to no peer but q.
LEMMA OtherPeers ==
  ASSUME StreamInv, Next, NEW q \in Peers, NEW p \in Peers, p # q,
         ClientStep(q) \/ Services(q) \/ (\E r \in AskedBy(q) : Serves(q, r))
  PROVE  PeerInv(p)'
  <1>1. AuthorityInv /\ PeerInv(p)
    BY DEF StreamInv
  <1>2. /\ phase \in [Peers -> {"awaiting", "ready"}] /\ inbox \in [Peers -> Inbox]
        /\ gap \in [Peers -> BOOLEAN] /\ assembler \in [Peers -> Assembler]
        /\ replica \in [Peers -> Replica] /\ fault \in [Peers -> {"none", "inbox", "replica"}]
        /\ deltaNet \in [Peers -> SUBSET Frame] /\ snapshotNet \in [Peers -> SUBSET SnapshotFrame]
        /\ requestNet \in [Peers -> SUBSET Requests] /\ transfer \in [Peers -> Transfer]
        /\ nextSnapshotId \in Nat /\ MaxSnapshots \in Nat
    BY <1>1, ClientTypes, NetTypes, PeerTypes, StreamAssumption
       DEF AuthorityInv, TypeOK, AuthorityTypeOK
  <1>3. CASE ClientStep(q)
    <2>1. UNCHANGED <<authorityVars, tickVars>>
      BY <1>3, ClientFrame
    <2>2. SameClient(p) /\ deltaNet'[p] = deltaNet[p] /\ snapshotNet'[p] = snapshotNet[p]
          /\ requestNet'[p] = requestNet[p]
      <3>1. ASSUME NEW f, ReceiveDelta(q, f)
            PROVE  SameClient(p) /\ deltaNet'[p] = deltaNet[p] /\ snapshotNet'[p] = snapshotNet[p]
                   /\ requestNet'[p] = requestNet[p]
        <4>1. deltaNet'[p] = deltaNet[p] /\ snapshotNet' = snapshotNet /\ requestNet' = requestNet
              /\ phase' = phase /\ assembler' = assembler
          BY <1>2, <3>1 DEF ReceiveDelta, DiscardDelta, HoldDelta, ApplyDeltas, FailDelta,
                           ReceivesDelta, Deliver
        <4>2. inbox'[p] = inbox[p]
          BY <1>2, <3>1 DEF ReceiveDelta, DiscardDelta, HoldDelta, ApplyDeltas, FailDelta
        <4>3. gap'[p] = gap[p] /\ replica'[p] = replica[p] /\ fault'[p] = fault[p]
          BY <1>2, <3>1 DEF ReceiveDelta, DiscardDelta, HoldDelta, ApplyDeltas, FailDelta
        <4> QED
          BY <4>1, <4>2, <4>3 DEF SameClient
      <3>2. ASSUME NEW m, ReceiveSnapshot(q, m)
            PROVE  SameClient(p) /\ deltaNet'[p] = deltaNet[p] /\ snapshotNet'[p] = snapshotNet[p]
                   /\ requestNet'[p] = requestNet[p]
        <4>1. /\ deltaNet' = deltaNet /\ fault' = fault
              /\ snapshotNet'[p] = snapshotNet[p]
          BY <1>2, <3>2 DEF ReceiveSnapshot, CollectFrame, InstallSnapshot, ReceivesSnapshot, Deliver
        <4>2. requestNet'[p] = requestNet[p]
          BY <1>2, <3>2 DEF ReceiveSnapshot, CollectFrame, InstallSnapshot, Send
        <4>3. inbox'[p] = inbox[p] /\ gap'[p] = gap[p] /\ replica'[p] = replica[p]
          BY <1>2, <3>2 DEF ReceiveSnapshot, CollectFrame, InstallSnapshot
        <4>4. assembler'[p] = assembler[p] /\ phase'[p] = phase[p]
          BY <1>2, <3>2 DEF ReceiveSnapshot, CollectFrame, InstallSnapshot
        <4> QED
          BY <4>1, <4>2, <4>3, <4>4 DEF SameClient
      <3>3. CASE RequestRepair(q) \/ RequestSnapshot(q) \/ RequestFragments(q)
        BY <1>2, <3>3 DEF RequestRepair, RequestSnapshot, RequestFragments, Asks, Send,
                          clientVars, SameClient
      <3> QED
        BY <1>3, <3>1, <3>2, <3>3 DEF ClientStep
    <2>3. AskedBy(p)' \subseteq AskedBy(p)
      BY <2>1, <2>2, AskedSame DEF authorityVars
    <2> QED
      BY <1>1, <1>2, <2>1, <2>2, <2>3, QuietPeer DEF authorityVars, tickVars
  <1>4. CASE Services(q)
    <2>1. Service(q)
      BY <1>4, ServiceFrame
    <2>2. deltaNet'[p] = deltaNet[p] /\ snapshotNet'[p] = snapshotNet[p] /\ transfer'[p] = transfer[p]
      BY <1>2, <1>4 DEF Services, Pace, Wait, Replay, FinishCatchup, Send
    <2>3. SameClient(p) /\ AskedBy(p)' = AskedBy(p)
      BY <2>1 DEF Service, clientVars, SameClient, AskedBy
    <2> QED
      BY <1>1, <1>2, <2>1, <2>2, <2>3, QuietPeer DEF Service
  <1>5. ASSUME NEW r \in AskedBy(q), Serves(q, r)
        PROVE  PeerInv(p)'
    <2>1. Take(q, r)
      BY <1>5, ServeFrame
    <2>2. deltaNet'[p] = deltaNet[p] /\ snapshotNet'[p] = snapshotNet[p] /\ transfer'[p] = transfer[p]
      BY <1>2, <1>5 DEF Serves, ServeDelta, DropRequest, StartTransfer, ServeFragments, ServeAck, Send
    <2>3. SameClient(p) /\ AskedBy(p)' \subseteq AskedBy(p)
      BY <1>1, <2>1, AskedTaken DEF Take, clientVars, SameClient
    <2>4. /\ nextSnapshotId' \in Nat /\ nextSnapshotId <= nextSnapshotId'
          /\ built'.id # 0 =>
               \/ built' = built
               \/ /\ built'.id = nextSnapshotId /\ built'.next = NextSequence
                  /\ nextSnapshotId < nextSnapshotId'
      BY <1>2, <1>5 DEF Serves, ServeDelta, DropRequest, StartTransfer, ServeFragments, ServeAck,
                        BuildSucceeds, BuildFails
    <2> QED
      BY <1>1, <2>1, <2>2, <2>3, <2>4, QuietPeer DEF Take
  <1> QED
    BY <1>3, <1>4, <1>5

--------------------------------------------------------------------------
(* Steps that touch the transfer of a peer *)

\* A step of the authority that leaves the client of peer p alone; what is
\* left to show is what it does to the transfer of p and to the snapshots
\* on offer.
LEMMA MovedPeer ==
  ASSUME AuthorityInv, NEW p \in Peers, PeerInv(p), SameClient(p),
         AskedBy(p)' \subseteq AskedBy(p),
         nextSnapshotId' \in Nat, nextSnapshotId <= nextSnapshotId',
         NextSequence' \in Nat, NextSequence <= NextSequence', Before(p, NextSequence)',
         \A v \in Versions(p)' :
           \/ v \in Versions(p)
           \/ /\ v = Version(nextSnapshotId, NextSequence)
              /\ v.id < nextSnapshotId',
         \A v \in Versions(p)' :
           v.id > assembler[p].done /\ Before(p, v.next) => Before(p, v.next)',
         StagesInOrder(p)', SentSoFar(p)'
  PROVE  PeerInv(p)'
  <1>1. assembler'[p].done = assembler[p].done /\ replica'[p].expected = replica[p].expected
        /\ replica[p].expected \in Nat
    BY PeerTypes DEF SameClient
  <1>2. Consistent(p)' /\ AcksInstalled(p)'
    BY <1>1, ConsistentKept, AcksKept DEF PeerInv
  <1>3. VersionsInOrder(p)'
    BY <1>1, VersionsKept DEF PeerInv, StagesInOrder
  <1> QED
    BY <1>2, <1>3 DEF PeerInv

\* The frames of a delta have its sequence.
LEMMA FrameSequence ==
  ASSUME NEW s
  PROVE  \A f \in Frames(s) : f.seq = s
  BY DEF Frames, Packet

\* A repair sends only what the peer asked for.
LEMMA ServeDeltaPeer ==
  ASSUME StreamInv, NEW p \in Peers, NEW r \in AskedBy(p), ServeDelta(p, r)
  PROVE  PeerInv(p)'
  <1>1. AuthorityInv /\ PeerInv(p) /\ deltaNet \in [Peers -> SUBSET Frame] /\ nextSnapshotId \in Nat
    BY NetTypes, PeerTypes DEF StreamInv
  <1>2. PICK attempt \in Attempts(Frames(r.id)) : deltaNet' = Send(deltaNet, p, attempt.sent)
    BY DEF ServeDelta
  <1>3. deltaNet'[p] = deltaNet[p] \cup attempt.sent /\ attempt.sent \subseteq Frames(r.id)
    BY <1>1, <1>2, AttemptFields DEF Send
  <1>4. Take(p, r) /\ SameClient(p) /\ r.kind = "delta"
    BY DEF ServeDelta, Take, clientVars, SameClient
  <1>5. AskedBy(p)' \subseteq AskedBy(p)
    BY <1>1, <1>4, AskedTaken
  <1>6. ASSUME NEW n \in Nat, Before(p, n)
        PROVE  Before(p, n)'
    <2>1. r.id < n
      BY <1>4, <1>6 DEF Before
    <2>2. \A f \in HeldBy(p)' : f \in HeldBy(p) \/ f.seq = r.id
      BY <1>3, <1>4, FrameSequence DEF HeldBy, SameClient
    <2> QED
      BY <1>4, <1>5, <1>6, <2>1, <2>2 DEF Before, SameClient
  <1>7. assembler'[p].done = assembler[p].done /\ replica'[p].expected = replica[p].expected
        /\ replica[p].expected \in Nat
    BY <1>1, <1>4, PeerTypes DEF SameClient
  <1>8. Consistent(p)' /\ AcksInstalled(p)'
    BY <1>1, <1>4, <1>5, <1>7, ConsistentKept, AcksKept DEF PeerInv
  <1>9. /\ transfer' = transfer /\ nextSnapshotId' = nextSnapshotId /\ built' = built
        /\ snapshotNet' = snapshotNet /\ log' = log /\ stage' = stage
    BY DEF ServeDelta, Take
  <1> QED
    BY <1>1, <1>3, <1>6, <1>7, <1>8, <1>9, SteadyPeer

\* A new transfer offers the snapshot built in this tick.
LEMMA StartTransferPeer ==
  ASSUME StreamInv, NEW p \in Peers, NEW r \in AskedBy(p), StartTransfer(p, r)
  PROVE  PeerInv(p)'
  <1>1. /\ AuthorityInv /\ PeerInv(p) /\ transfer \in [Peers -> Transfer]
        /\ nextSnapshotId \in Nat /\ MaxSnapshots \in Nat /\ NextSequence \in Nat \ {0}
        /\ assembler[p].done \in Nat /\ Newest(p) \in Nat /\ built.id \in Nat
    BY PeerTypes, StreamAssumption DEF StreamInv, AuthorityInv, TypeOK, AuthorityTypeOK, Newest
  <1>2. Take(p, r) /\ SameClient(p) /\ stage = "repairs"
    BY DEF StartTransfer, Take, clientVars, SameClient
  <1>3. /\ AskedBy(p)' \subseteq AskedBy(p)
        /\ deltaNet' = deltaNet /\ snapshotNet' = snapshotNet /\ log' = log /\ stage' = stage
    BY <1>1, <1>2, AskedTaken DEF StartTransfer, Take
  <1>4. /\ nextSnapshotId' \in Nat /\ nextSnapshotId <= nextSnapshotId'
        /\ built'.id # 0 =>
             \/ built' = built
             \/ /\ built'.id = nextSnapshotId /\ built'.next = NextSequence
                /\ nextSnapshotId < nextSnapshotId'
    BY <1>1 DEF StartTransfer, BuildSucceeds, BuildFails
  <1>5. CASE built'.id = 0
    <2>1. transfer' = transfer
      BY <1>5 DEF StartTransfer
    <2> QED
      BY <1>1, <1>2, <1>3, <1>4, <2>1, QuietPeer
  <1>6. CASE built'.id # 0
    <2>1. transfer' = [transfer EXCEPT ![p] = NewTransfer(built'.id, built'.next)]
      BY <1>6 DEF StartTransfer
    <2>2. PICK t : t = transfer'[p] /\ t.stage = "snapshot" /\ t.id = built'.id /\ t.next = built'.next
      BY <1>1, <2>1 DEF NewTransfer
    <2>3. NextSequence' = NextSequence
      BY <1>3 DEF NextSequence
    <2>4. built'.id \in Nat /\ Newest(p) <= built'.id /\ built'.id < nextSnapshotId'
      <3>1. Newest(p) < nextSnapshotId
        BY <1>1 DEF PeerInv, StagesInOrder
      <3>2. CASE built' = built
        <4>1. Version(built.id, built.next) \in Versions(p)
          BY <1>2, <1>6, <3>2 DEF Versions
        <4>2. Version(built.id, built.next).id = built.id
          BY DEF Version
        <4>3. built.id < nextSnapshotId
          BY <1>1, <4>1, <4>2 DEF PeerInv, VersionsInOrder
        <4> QED
          BY <1>1, <1>2, <1>4, <1>6, <3>2, <4>3 DEF PeerInv, StagesInOrder
      <3>3. CASE built' # built
        BY <1>1, <1>4, <1>6, <3>1, <3>3
      <3> QED
        BY <3>2, <3>3
    <2>5. \A v \in Versions(p)' :
           \/ v \in Versions(p)
           \/ /\ v = Version(nextSnapshotId, NextSequence)
              /\ v.id < nextSnapshotId'
      BY <1>2, <1>3, <1>4, <1>6, <2>2 DEF Versions, Version
    <2>6. HeldBy(p)' \subseteq HeldBy(p)
      BY <1>2, <1>3 DEF HeldBy, SameClient
    <2>7. \A n : Before(p, n) => Before(p, n)'
      BY <1>2, <1>3, <2>6, BeforeShrinks DEF SameClient
    <2>8. Before(p, NextSequence)'
      <3>1. PICK n : n = NextSequence
        OBVIOUS
      <3>2. Before(p, n)'
        BY <1>1, <2>7, <3>1 DEF PeerInv
      <3> QED
        BY <2>3, <3>1, <3>2 DEF Before
    <2>9. Newest(p)' = built'.id
      BY <2>2 DEF Newest
    <2>10. StagesInOrder(p)'
      <3>1. assembler'[p] = assembler[p]
        BY <1>2 DEF SameClient
      <3>2. assembler[p].done <= Newest(p) /\ \A m \in snapshotNet[p] : m.id <= Newest(p)
        BY <1>1 DEF PeerInv, StagesInOrder
      <3>3. \A m \in snapshotNet[p] : m.id \in Nat
        BY <1>1, HeldTypes
      <3>4. transfer'[p].stage = "snapshot"
        BY <2>2
      <3> QED
        BY <1>1, <1>3, <2>4, <2>9, <3>1, <3>2, <3>3, <3>4 DEF StagesInOrder
    <2>11. SentSoFar(p)'
      <3>1. SentEnd(p)' = 0
        BY <2>2 DEF SentEnd
      <3>2. Len(log)' \in Nat
        BY <1>1, <1>3, LenProperties DEF AuthorityInv, TypeOK, AuthorityTypeOK
      <3> QED
        BY <3>1, <3>2 DEF SentSoFar
    <2> QED
      BY <1>1, <1>2, <1>3, <1>4, <2>3, <2>5, <2>7, <2>8, <2>10, <2>11, MovedPeer
  <1> QED
    BY <1>5, <1>6

\* Fragments of the snapshot of a transfer that goes on offering it.
LEMMA OfferPeer ==
  ASSUME StreamInv, NEW p \in Peers, SameClient(p), AskedBy(p)' \subseteq AskedBy(p),
         deltaNet' = deltaNet, log' = log, nextSnapshotId' = nextSnapshotId,
         built' = built, stage' = stage,
         transfer[p].stage # "none", transfer'[p].stage # "none",
         transfer'[p].id = transfer[p].id, transfer'[p].next = transfer[p].next,
         transfer'[p].resume = transfer[p].resume,
         transfer'[p].stage = "catchup" => transfer[p].stage = "catchup",
         \A m \in snapshotNet'[p] :
           m \in snapshotNet[p] \/ (m.id = transfer[p].id /\ m.next = transfer[p].next)
  PROVE  PeerInv(p)'
  <1>1. /\ AuthorityInv /\ PeerInv(p) /\ nextSnapshotId \in Nat /\ NextSequence \in Nat
        /\ transfer[p].id \in Nat /\ transfer[p].next \in Nat
    BY PeerTypes DEF StreamInv
  <1>2. NextSequence' = NextSequence
    BY DEF NextSequence
  <1>3. Version(transfer[p].id, transfer[p].next) \in Versions(p)
    BY DEF Versions
  <1>4. \A v \in Versions(p)' : v \in Versions(p)
    BY <1>3 DEF Versions, Version
  <1>5. HeldBy(p)' \subseteq HeldBy(p)
    BY DEF HeldBy, SameClient
  <1>6. \A n : Before(p, n) => Before(p, n)'
    BY <1>5, BeforeShrinks DEF SameClient
  <1>7. Before(p, NextSequence)'
    <2>1. PICK n : n = NextSequence
      OBVIOUS
    <2>2. Before(p, n)'
      BY <1>1, <1>6, <2>1 DEF PeerInv
    <2> QED
      BY <1>2, <2>1, <2>2 DEF Before
  <1>8. StagesInOrder(p)'
    <2>1. Newest(p) = transfer[p].id /\ Newest(p)' = transfer[p].id
      BY DEF Newest
    <2>2. assembler'[p] = assembler[p]
      BY DEF SameClient
    <2> QED
      BY <1>1, <2>1, <2>2 DEF PeerInv, StagesInOrder
  <1>9. SentSoFar(p)'
    <2>1. SentEnd(p)' = SentEnd(p) \/ SentEnd(p)' = 0
      BY DEF SentEnd
    <2>2. Len(log) \in Nat
      BY <1>1, LenProperties DEF AuthorityInv, TypeOK, AuthorityTypeOK
    <2>3. \A s : Frames(s)' = Frames(s)
      BY DEF Frames
    <2>4. replica'[p] = replica[p]
      BY DEF SameClient
    <2>5. CASE SentEnd(p)' = 0
      BY <2>2, <2>5 DEF SentSoFar
    <2>6. CASE SentEnd(p)' = SentEnd(p)
      BY <1>1, <2>3, <2>4, <2>6 DEF PeerInv, SentSoFar
    <2> QED
      BY <2>1, <2>5, <2>6
  <1> QED
    BY <1>1, <1>2, <1>4, <1>6, <1>7, <1>8, <1>9, MovedPeer

\* The fragments of a snapshot belong to its version.
LEMMA FragmentVersion ==
  ASSUME NEW id, NEW next
  PROVE  \A m \in SnapshotPacket(id, next) : m.id = id /\ m.next = next
  BY DEF SnapshotPacket

LEMMA ServeFragmentsPeer ==
  ASSUME StreamInv, NEW p \in Peers, NEW r \in AskedBy(p), ServeFragments(p, r)
  PROVE  PeerInv(p)'
  <1>1. AuthorityInv /\ PeerInv(p) /\ nextSnapshotId \in Nat
        /\ snapshotNet \in [Peers -> SUBSET SnapshotFrame]
    BY NetTypes, PeerTypes DEF StreamInv
  <1>2. /\ Take(p, r) /\ SameClient(p) /\ AskedBy(p)' \subseteq AskedBy(p)
        /\ deltaNet' = deltaNet /\ log' = log /\ nextSnapshotId' = nextSnapshotId
        /\ built' = built /\ stage' = stage /\ transfer' = transfer
    BY <1>1, AskedTaken DEF ServeFragments, Take, clientVars, SameClient
  <1>3. CASE snapshotNet' = snapshotNet
    BY <1>1, <1>2, <1>3, QuietPeer
  <1>4. CASE snapshotNet' # snapshotNet
    <2>1. transfer[p].stage # "none" /\ transfer[p].id = r.id
      BY <1>4 DEF ServeFragments
    <2> DEFINE wanted == {f \in SnapshotPacket(r.id, transfer[p].next) : f.index \in r.missing}
    <2>2. PICK attempt \in Attempts(wanted) : snapshotNet' = Send(snapshotNet, p, attempt.sent)
      BY <1>4 DEF ServeFragments
    <2>3. attempt.sent \subseteq wanted
      BY <2>2, AttemptFields
    <2>4. wanted \subseteq SnapshotPacket(r.id, transfer[p].next)
      OBVIOUS
    <2> HIDE DEF wanted
    <2>5. snapshotNet'[p] = snapshotNet[p] \cup attempt.sent
      BY <1>1, <2>2 DEF Send
    <2>6. \A m \in snapshotNet'[p] :
            m \in snapshotNet[p] \/ (m.id = transfer[p].id /\ m.next = transfer[p].next)
      BY <2>1, <2>3, <2>4, <2>5, FragmentVersion
    <2> QED
      BY <1>2, <2>1, <2>6, OfferPeer
  <1> QED
    BY <1>3, <1>4

LEMMA PacePeer ==
  ASSUME StreamInv, NEW p \in Peers, Pace(p)
  PROVE  PeerInv(p)'
  <1> DEFINE t == transfer[p]
             end == LeastOf(t.sent + SnapshotFramesPerTick, SnapshotFrames)
             next == {f \in SnapshotPacket(t.id, t.next) : f.index \in t.sent + 1 .. end}
  <1>1. AuthorityInv /\ PeerInv(p) /\ transfer \in [Peers -> Transfer] /\ t \in Transfer
        /\ snapshotNet \in [Peers -> SUBSET SnapshotFrame]
    BY NetTypes DEF StreamInv, AuthorityInv, TypeOK, AuthorityTypeOK
  <1>2. /\ Service(p) /\ SameClient(p) /\ AskedBy(p)' = AskedBy(p)
        /\ deltaNet' = deltaNet /\ log' = log /\ nextSnapshotId' = nextSnapshotId
        /\ built' = built /\ stage' = stage /\ t.stage = "snapshot"
    BY DEF Pace, Service, clientVars, SameClient, AskedBy
  <1>3. PICK attempt \in Attempts(next) :
          /\ snapshotNet' = Send(snapshotNet, p, attempt.sent)
          /\ transfer' = IF Accepted(attempt) THEN [transfer EXCEPT ![p] = Paced(t, end)]
                         ELSE transfer
    BY DEF Pace
  <1>4. attempt.sent \subseteq next
    BY <1>3, AttemptFields
  <1>5. next \subseteq SnapshotPacket(t.id, t.next)
    OBVIOUS
  <1>6. /\ transfer'[p].stage \in {"snapshot", "awaiting ack"}
        /\ transfer'[p].id = t.id /\ transfer'[p].next = t.next /\ transfer'[p].resume = t.resume
    <2>1. transfer'[p] = t \/ transfer'[p] = Paced(t, end)
      BY <1>1, <1>3
    <2>2. Paced(t, end).stage \in {"snapshot", "awaiting ack"}
          /\ Paced(t, end).id = t.id /\ Paced(t, end).next = t.next
          /\ Paced(t, end).resume = t.resume
      BY <1>1, <1>2 DEF Paced, Transfer
    <2> QED
      BY <1>2, <2>1, <2>2
  <1> HIDE DEF next, end
  <1>7. snapshotNet'[p] = snapshotNet[p] \cup attempt.sent
    BY <1>1, <1>3 DEF Send
  <1>8. \A m \in snapshotNet'[p] :
          m \in snapshotNet[p] \/ (m.id = t.id /\ m.next = t.next)
    BY <1>4, <1>5, <1>7, FragmentVersion
  <1> QED
    BY <1>2, <1>6, <1>8, OfferPeer

\* The fields of a transfer that stalls, is acknowledged or replays a delta.
LEMMA MovedFields ==
  ASSUME NEW t \in Transfer
  PROVE  /\ Stalled(t).stage = "stalled" /\ Stalled(t).id = t.id /\ Stalled(t).next = t.next
         /\ Resumed(t).stage = "catchup" /\ Resumed(t).id = t.id /\ Resumed(t).next = t.next
         /\ Resumed(t).resume = t.next
         /\ Replayed(t).stage = t.stage /\ Replayed(t).id = t.id /\ Replayed(t).next = t.next
         /\ Replayed(t).resume = t.resume + 1
         /\ NoTransfer.stage = "none"
  BY DEF Stalled, Resumed, Replayed, Transfer, NoTransfer

\* A transfer that offers no other snapshot, and nothing is sent.
LEMMA TransferMoves ==
  ASSUME StreamInv, NEW p \in Peers, SameClient(p), AskedBy(p)' \subseteq AskedBy(p),
         deltaNet' = deltaNet, snapshotNet' = snapshotNet, log' = log,
         nextSnapshotId' = nextSnapshotId, built' = built, stage' = stage,
         \/ transfer'[p].stage = "none"
         \/ /\ transfer[p].stage # "none"
            /\ transfer'[p].id = transfer[p].id /\ transfer'[p].next = transfer[p].next,
         StagesInOrder(p)', SentSoFar(p)'
  PROVE  PeerInv(p)'
  <1>1. AuthorityInv /\ PeerInv(p) /\ nextSnapshotId \in Nat /\ NextSequence \in Nat
    BY PeerTypes DEF StreamInv
  <1>2. NextSequence' = NextSequence
    BY DEF NextSequence
  <1>3. \A v \in Versions(p)' : v \in Versions(p)
    BY DEF Versions
  <1>4. HeldBy(p)' \subseteq HeldBy(p)
    BY DEF HeldBy, SameClient
  <1>5. \A n : Before(p, n) => Before(p, n)'
    BY <1>4, BeforeShrinks DEF SameClient
  <1>6. Before(p, NextSequence)'
    <2>1. PICK n : n = NextSequence
      OBVIOUS
    <2>2. Before(p, n)'
      BY <1>1, <1>5, <2>1 DEF PeerInv
    <2> QED
      BY <1>2, <2>1, <2>2 DEF Before
  <1> QED
    BY <1>1, <1>2, <1>3, <1>5, <1>6, MovedPeer

\* The acknowledged snapshot is the one installed last, and the replica is
\* where catch-up begins.
LEMMA ServeAckPeer ==
  ASSUME StreamInv, NEW p \in Peers, NEW r \in AskedBy(p), ServeAck(p, r)
  PROVE  PeerInv(p)'
  <1>1. AuthorityInv /\ PeerInv(p) /\ transfer \in [Peers -> Transfer] /\ nextSnapshotId \in Nat
        /\ transfer[p] \in Transfer /\ r.id \in Nat
    BY PeerTypes, HeldTypes DEF StreamInv, AuthorityInv, TypeOK, AuthorityTypeOK
  <1>2. /\ Take(p, r) /\ SameClient(p) /\ AskedBy(p)' \subseteq AskedBy(p)
        /\ deltaNet' = deltaNet /\ snapshotNet' = snapshotNet /\ log' = log
        /\ nextSnapshotId' = nextSnapshotId /\ built' = built /\ stage' = stage
        /\ r.kind = "ack"
    BY <1>1, AskedTaken DEF ServeAck, Take, clientVars, SameClient
  <1>3. CASE transfer' = transfer
    BY <1>1, <1>2, <1>3, QuietPeer
  <1>4. CASE transfer' # transfer
    <2>1. /\ transfer[p].stage = "awaiting ack" /\ transfer[p].id = r.id
          /\ transfer' = [transfer EXCEPT ![p] = Resumed(transfer[p])]
      BY <1>4 DEF ServeAck, Acknowledges
    <2>2. /\ transfer'[p].stage = "catchup" /\ transfer'[p].id = transfer[p].id
          /\ transfer'[p].next = transfer[p].next /\ transfer'[p].resume = transfer[p].next
      BY <1>1, <2>1, MovedFields
    <2>3. transfer[p].id = assembler[p].done /\ Newest(p) = assembler[p].done
          /\ assembler[p].done \in Nat
      <3>1. r.id <= assembler[p].done
        BY <1>1, <1>2 DEF PeerInv, AcksInstalled
      <3>2. assembler[p].done <= Newest(p) /\ Newest(p) = r.id
        BY <1>1, <2>1 DEF PeerInv, StagesInOrder, Newest
      <3>3. assembler[p].done \in Nat
        BY <1>1, PeerTypes
      <3>4. r.id = assembler[p].done
        <4>1. assembler[p].done <= r.id
          BY <3>2
        <4>2. r.id \in Nat
          BY <1>1
        <4> QED
          BY <3>1, <3>3, <4>1, <4>2
      <3> QED
        BY <2>1, <3>2, <3>3, <3>4
    <2>4. transfer[p].next <= replica[p].expected
      <3>1. Version(transfer[p].id, transfer[p].next) \in Versions(p)
        BY <2>1 DEF Versions
      <3> QED
        BY <1>1, <2>3, <3>1 DEF PeerInv, VersionsInOrder, Version
    <2>5. Newest(p)' = Newest(p) /\ assembler'[p] = assembler[p]
      BY <1>2, <2>1, <2>2 DEF Newest, SameClient
    <2>6. StagesInOrder(p)'
      BY <1>1, <1>2, <2>3, <2>5 DEF PeerInv, StagesInOrder
    <2>7. SentSoFar(p)'
      <3>1. SentEnd(p)' = transfer[p].next /\ replica'[p] = replica[p]
        BY <1>2, <2>2 DEF SentEnd, SameClient
      <3>2. Len(log) \in Nat /\ transfer[p].next \in Nat /\ replica[p].expected \in Nat
        BY <1>1, PeerTypes, LenProperties DEF AuthorityInv, TypeOK, AuthorityTypeOK
      <3>3. \A s \in 1 .. Len(log) : ~(replica[p].expected <= s /\ s < transfer[p].next)
        BY <2>4, <3>2
      <3> QED
        BY <1>2, <3>1, <3>3 DEF SentSoFar
    <2> QED
      BY <1>2, <2>1, <2>2, <2>6, <2>7, TransferMoves
  <1> QED
    BY <1>3, <1>4

\* The end of catch-up, or a stall.
LEMMA FinishCatchupPeer ==
  ASSUME StreamInv, NEW p \in Peers, FinishCatchup(p)
  PROVE  PeerInv(p)'
  <1>1. AuthorityInv /\ PeerInv(p) /\ transfer \in [Peers -> Transfer]
        /\ transfer[p] \in Transfer
    BY DEF StreamInv, AuthorityInv, TypeOK, AuthorityTypeOK
  <1>2. /\ Service(p) /\ SameClient(p) /\ AskedBy(p)' \subseteq AskedBy(p)
        /\ deltaNet' = deltaNet /\ snapshotNet' = snapshotNet /\ log' = log
        /\ nextSnapshotId' = nextSnapshotId /\ built' = built /\ stage' = stage
        /\ transfer[p].stage = "catchup"
    BY DEF FinishCatchup, Service, clientVars, SameClient, AskedBy
  <1>3. \/ transfer'[p] = NoTransfer /\ transfer[p].resume >= NextSequence
        \/ transfer'[p] = Stalled(transfer[p])
    BY <1>1 DEF FinishCatchup, CaughtUp
  <1>4. Newest(p) = assembler[p].done /\ assembler'[p] = assembler[p]
    BY <1>1, <1>2 DEF PeerInv, StagesInOrder, SameClient
  <1>5. /\ transfer'[p].stage = "none"
        \/ /\ transfer'[p].stage = "stalled"
           /\ transfer'[p].id = transfer[p].id /\ transfer'[p].next = transfer[p].next
    BY <1>1, <1>3, MovedFields
  <1>6. Newest(p)' = Newest(p)
    BY <1>2, <1>4, <1>5 DEF Newest
  <1>7. StagesInOrder(p)'
    BY <1>1, <1>2, <1>4, <1>5, <1>6 DEF PeerInv, StagesInOrder
  <1>8. SentSoFar(p)'
    <2>1. Len(log) \in Nat /\ transfer[p].resume \in Nat /\ NextSequence \in Nat
      BY <1>1, PeerTypes, LenProperties DEF AuthorityInv, TypeOK, AuthorityTypeOK
    <2>2. NextSequence' = NextSequence /\ replica'[p] = replica[p] /\ \A s : Frames(s)' = Frames(s)
      BY <1>2 DEF NextSequence, SameClient, Frames
    <2>3. SentEnd(p) = transfer[p].resume
      BY <1>2 DEF SentEnd
    <2>4. SentEnd(p)' = 0 \/ (SentEnd(p)' = NextSequence /\ NextSequence <= SentEnd(p))
      BY <1>1, <1>3, <2>1, <2>2, <2>3, MovedFields DEF SentEnd
    <2>5. \A s \in 1 .. Len(log) : s < SentEnd(p)' => s < SentEnd(p)
      BY <2>1, <2>3, <2>4
    <2> QED
      BY <1>1, <1>2, <2>2, <2>5 DEF PeerInv, SentSoFar
  <1> QED
    BY <1>2, <1>5, <1>7, <1>8, TransferMoves

\* A catch-up packet is sent only after all offered snapshots are installed.
LEMMA ReplayPeer ==
  ASSUME StreamInv, NEW p \in Peers, Replay(p)
  PROVE  PeerInv(p)'
  <1> DEFINE t == transfer[p]
  <1>1. /\ AuthorityInv /\ PeerInv(p) /\ transfer \in [Peers -> Transfer] /\ t \in Transfer
        /\ nextSnapshotId \in Nat /\ NextSequence \in Nat /\ t.resume \in Nat
        /\ deltaNet \in [Peers -> SUBSET Frame] /\ HoldsRun(t, NextSequence)
    BY NetTypes, PeerTypes, TransferOf DEF StreamInv, AuthorityInv, TypeOK, AuthorityTypeOK
  <1>2. /\ Service(p) /\ SameClient(p) /\ AskedBy(p)' \subseteq AskedBy(p)
        /\ snapshotNet' = snapshotNet /\ log' = log /\ stage = "service"
        /\ nextSnapshotId' = nextSnapshotId /\ built' = built /\ stage' = stage
        /\ t.stage = "catchup" /\ t.catchup # <<>>
    BY DEF Replay, Service, clientVars, SameClient, AskedBy
  <1>3. Head(t.catchup) = t.resume /\ t.resume < NextSequence
    BY <1>1, <1>2, ReplayRun
  <1>4. PICK attempt \in Attempts(Frames(t.resume)) :
          /\ deltaNet' = Send(deltaNet, p, attempt.sent)
          /\ transfer' = IF Accepted(attempt) THEN [transfer EXCEPT ![p] = Replayed(t)]
                         ELSE transfer
    BY <1>3 DEF Replay
  <1>5. deltaNet'[p] = deltaNet[p] \cup attempt.sent /\ attempt.sent \subseteq Frames(t.resume)
        /\ (Accepted(attempt) => attempt.sent = Frames(t.resume))
    <2>1. Accepted(attempt) => attempt.sent = Frames(t.resume)
      BY DEF Attempts, Accepted
    <2> QED
      BY <1>1, <1>4, <2>1, AttemptFields DEF Send
  <1>6. /\ transfer'[p].stage = "catchup" /\ transfer'[p].id = t.id /\ transfer'[p].next = t.next
        /\ \/ transfer'[p].resume = t.resume
           \/ transfer'[p].resume = t.resume + 1 /\ attempt.sent = Frames(t.resume)
    BY <1>1, <1>2, <1>4, <1>5, MovedFields
  <1>7. NextSequence' = NextSequence
    BY <1>2 DEF NextSequence
  <1>8. Newest(p) = assembler[p].done /\ assembler'[p] = assembler[p] /\ Newest(p) = t.id
    BY <1>1, <1>2 DEF PeerInv, StagesInOrder, SameClient, Newest
  <1>9. \A v \in Versions(p)' : v \in Versions(p) /\ ~(v.id > assembler[p].done)
    <2>1. \A v \in Versions(p)' : v \in Versions(p)
      BY <1>2, <1>6 DEF Versions
    <2>2. \A m \in snapshotNet[p] : m.id <= assembler[p].done /\ m.id \in Nat
      BY <1>1, <1>8, HeldTypes DEF PeerInv, StagesInOrder
    <2>3. assembler[p].done \in Nat
      BY <1>1, PeerTypes
    <2>4. ASSUME NEW v \in Versions(p) PROVE ~(v.id > assembler[p].done)
      BY <1>2, <1>8, <2>2, <2>3 DEF Versions, Version
    <2> QED
      BY <2>1, <2>4
  <1>10. Before(p, NextSequence)'
    <2>1. PICK n \in Nat : n = NextSequence
      BY <1>1
    <2>2. \A f \in HeldBy(p)' : f \in HeldBy(p) \/ f.seq = t.resume
      BY <1>2, <1>5, FrameSequence DEF HeldBy, SameClient
    <2>3. Before(p, n)
      BY <1>1, <2>1 DEF PeerInv
    <2>4. Before(p, n)'
      BY <1>2, <1>3, <2>1, <2>2, <2>3 DEF Before, SameClient
    <2> QED
      BY <1>7, <2>1, <2>4 DEF Before
  <1>11. StagesInOrder(p)'
    <2>1. Newest(p)' = Newest(p)
      BY <1>6, <1>8 DEF Newest
    <2> QED
      BY <1>1, <1>2, <1>8, <2>1 DEF PeerInv, StagesInOrder
  <1>12. SentSoFar(p)'
    <2>1. Len(log) \in Nat
      BY <1>1, LenProperties DEF AuthorityInv, TypeOK, AuthorityTypeOK
    <2>2. replica'[p] = replica[p] /\ \A s : Frames(s)' = Frames(s)
      BY <1>2 DEF SameClient, Frames
    <2>3. SentEnd(p) = t.resume /\ SentEnd(p)' = transfer'[p].resume
      BY <1>2, <1>6 DEF SentEnd
    <2>4. ASSUME KeepsDeltas, NEW s \in 1 .. Len(log), replica[p].expected <= s, s < transfer'[p].resume
          PROVE  Frames(s) \subseteq deltaNet'[p]
      <3>1. CASE s < t.resume
        BY <1>1, <1>5, <2>3, <2>4, <3>1 DEF PeerInv, SentSoFar
      <3>2. CASE ~(s < t.resume)
        <4>1. s = t.resume /\ attempt.sent = Frames(t.resume)
          BY <1>1, <1>6, <2>4, <3>2
        <4> QED
          BY <1>5, <4>1
      <3> QED
        BY <3>1, <3>2
    <2> QED
      BY <1>2, <2>2, <2>3, <2>4 DEF SentSoFar
  <1> QED
    BY <1>1, <1>2, <1>7, <1>9, <1>10, <1>11, <1>12, MovedPeer

--------------------------------------------------------------------------
(* A commit *)

\* Queueing a delta offers no snapshot and moves no replay.
LEMMA QueuedFields ==
  ASSUME NEW t \in Transfer, NEW s, NEW count, NEW q, q = QueueCatchup(t, s, count)
  PROVE  /\ q.id = t.id /\ q.next = t.next /\ q.resume = t.resume
         /\ q.stage = t.stage \/ (IsActive(t) /\ q.stage = "stalled")
  BY MovedFields DEF QueueCatchup, Stalled, Transfer, IsActive

\* The replay of a catch-up begins at a delta that was committed, or next.
LEMMA ResumeBound ==
  ASSUME AuthorityInv, NEW p \in Peers, transfer[p].stage = "catchup"
  PROVE  transfer[p].resume <= NextSequence
  <1>1. IsRun(transfer[p].catchup, transfer[p].resume, NextSequence)
    BY TransferOf DEF HoldsRun, IsActive, FirstToReplay
  <1>2. Len(transfer[p].catchup) \in Nat
    BY TransferOf, TransferFields
  <1> QED
    BY <1>1, <1>2, PeerTypes DEF IsRun

LEMMA CommitPeer ==
  ASSUME StreamInv, NEW p \in Peers, Commit
  PROVE  PeerInv(p)'
  <1> DEFINE t == transfer[p]
  <1>1. /\ AuthorityInv /\ PeerInv(p) /\ transfer \in [Peers -> Transfer] /\ t \in Transfer
        /\ nextSnapshotId \in Nat /\ NextSequence \in Nat /\ t.resume \in Nat
        /\ log \in Seq(1..MaxPacketFrames) /\ Len(log) \in Nat /\ NextSequence = Len(log) + 1
        /\ assembler[p].done \in Nat
    BY PeerTypes, TransferOf, LenProperties, NextSequenceType
       DEF StreamInv, AuthorityInv, TypeOK, AuthorityTypeOK
  <1>2. /\ SameClient(p) /\ AskedBy(p)' \subseteq AskedBy(p)
        /\ snapshotNet' = snapshotNet /\ stage = "simulate"
        /\ nextSnapshotId' = nextSnapshotId /\ built' = built /\ stage' = stage
    BY DEF Commit, clientVars, tickVars, SameClient, AskedBy
  <1>3. PICK count \in 1..MaxPacketFrames :
          /\ log' = Append(log, count)
          /\ deltaNet'[p] = IF Live(p) THEN deltaNet[p] \cup Packet(NextSequence, count)
                            ELSE deltaNet[p]
          /\ transfer'[p] = QueueCatchup(t, NextSequence, count)
    BY DEF Commit
  <1>4. /\ Len(log') = Len(log) + 1 /\ NextSequence' = NextSequence + 1
        /\ \A s \in 1 .. Len(log) : log'[s] = log[s]
        /\ log'[NextSequence] = count
    BY <1>1, <1>3, AppendProperties DEF NextSequence
  <1>5. /\ transfer'[p].id = t.id /\ transfer'[p].next = t.next /\ transfer'[p].resume = t.resume
        /\ transfer'[p].stage = t.stage
           \/ (t.stage # "none" /\ transfer'[p].stage = "stalled")
    BY <1>1, <1>3, QueuedFields DEF IsActive
  <1>6. Newest(p)' = Newest(p) /\ assembler'[p] = assembler[p] /\ replica'[p] = replica[p]
    BY <1>2, <1>5 DEF Newest, SameClient
  <1>7. \A v \in Versions(p)' : v \in Versions(p)
    BY <1>2, <1>5 DEF Versions
  <1>8. \A f \in HeldBy(p)' : f \in HeldBy(p) \/ (Live(p) /\ f.seq = NextSequence)
    <2>1. \A f \in Packet(NextSequence, count) : f.seq = NextSequence
      BY DEF Packet
    <2> QED
      BY <1>2, <1>3, <2>1 DEF HeldBy, SameClient
  <1>9. ASSUME NEW v \in Versions(p)', v.id > assembler[p].done, Before(p, v.next)
        PROVE  Before(p, v.next)'
    <2>1. CASE Live(p)
      <3>1. PICK m \in snapshotNet[p] : v = Version(m.id, m.next)
        BY <1>2, <1>7, <1>9, <2>1 DEF Versions, Live
      <3>2. m.id <= assembler[p].done /\ m.id \in Nat /\ v.id = m.id
        BY <1>1, <2>1, <3>1, HeldTypes DEF PeerInv, StagesInOrder, Newest, Live, Version
      <3> QED
        BY <1>1, <1>9, <3>2
    <2>2. CASE ~Live(p)
      <3>1. HeldBy(p)' \subseteq HeldBy(p)
        BY <1>8, <2>2
      <3> QED
        BY <1>2, <1>6, <1>9, <3>1, BeforeShrinks
    <2> QED
      BY <2>1, <2>2
  <1>10. Before(p, NextSequence)'
    <2>1. PICK n \in Nat : n = NextSequence
      BY <1>1
    <2>2. Before(p, n) /\ replica[p].expected \in Nat
      BY <1>1, <2>1, PeerTypes DEF PeerInv
    <2>3. \A f \in HeldBy(p) : f.seq \in Nat
      BY <1>1, HeldTypes
    <2>4. \A f \in HeldBy(p)' : f.seq < n + 1
      BY <1>8, <2>1, <2>2, <2>3 DEF Before
    <2>5. \A r \in AskedBy(p)' : r.kind = "delta" => r.id < n + 1
      <3>1. \A r \in AskedBy(p) : r.id \in Nat
        BY <1>1, HeldTypes
      <3> QED
        BY <1>2, <2>2, <3>1 DEF Before
    <2>6. Before(p, n + 1)'
      BY <1>6, <2>2, <2>4, <2>5 DEF Before
    <2> QED
      BY <1>4, <2>1, <2>6 DEF Before
  <1>11. StagesInOrder(p)'
    BY <1>1, <1>2, <1>5, <1>6 DEF PeerInv, StagesInOrder
  <1>12. SentSoFar(p)'
    <2>1. \A s \in 1 .. Len(log) : Frames(s)' = Frames(s)
      BY <1>4 DEF Frames
    <2>3. ASSUME KeepsDeltas, NEW s \in 1 .. Len(log) + 1, replica[p].expected <= s, s < SentEnd(p)'
          PROVE  Frames(s)' \subseteq deltaNet'[p]
      <3>1. CASE t.stage = "none"
        <4>1. SentEnd(p) = NextSequence /\ Live(p)
          BY <3>1 DEF SentEnd, Live
        <4>2. CASE s \in 1 .. Len(log)
          BY <1>1, <1>3, <2>1, <2>3, <4>1, <4>2 DEF PeerInv, SentSoFar
        <4>3. CASE s = Len(log) + 1
          <5>1. Frames(s)' = Packet(s, count)
            BY <1>1, <1>4, <4>3 DEF Frames
          <5> QED
            BY <1>1, <1>3, <4>1, <4>3, <5>1
        <4> QED
          BY <1>1, <4>2, <4>3
      <3>2. CASE t.stage = "catchup" /\ transfer'[p].stage = "catchup"
        <4>1. SentEnd(p) = t.resume /\ SentEnd(p)' = t.resume
          BY <1>5, <3>2 DEF SentEnd
        <4>2. t.resume <= NextSequence
          BY <1>1, <3>2, ResumeBound
        <4>3. s \in 1 .. Len(log)
          BY <1>1, <2>3, <4>1, <4>2
        <4> QED
          BY <1>1, <1>3, <2>1, <2>3, <4>1, <4>3 DEF PeerInv, SentSoFar
      <3>3. CASE t.stage # "none" /\ transfer'[p].stage # "catchup"
        <4>1. SentEnd(p)' = 0
          BY <1>5, <3>3 DEF SentEnd
        <4> QED
          BY <1>1, <2>3, <4>1
      <3> QED
        BY <1>5, <3>1, <3>2, <3>3
    <2> QED
      BY <1>4, <1>6, <2>3 DEF SentSoFar
  <1> QED
    BY <1>1, <1>2, <1>4, <1>7, <1>9, <1>10, <1>11, <1>12, MovedPeer

--------------------------------------------------------------------------
(* The client's own steps *)

\* What a client leaves alone, and what it takes from the network.
ClientTakes(p) ==
  /\ UNCHANGED <<authorityVars, tickVars>>
  /\ snapshotNet'[p] \subseteq snapshotNet[p]
  /\ deltaNet'[p] \subseteq deltaNet[p]
  /\ KeepsDeltas => deltaNet'[p] = deltaNet[p]

\* A step of client p that installs no snapshot keeps the invariant if it
\* keeps what is before a version before it, and the client consistent.
LEMMA ClientPeer ==
  ASSUME AuthorityInv, NEW p \in Peers, PeerInv(p), ClientTakes(p),
         Consistent(p)', AcksInstalled(p)',
         \A n \in Nat : Before(p, n) => Before(p, n)',
         assembler'[p].done = assembler[p].done,
         replica'[p].expected \in Nat, replica[p].expected <= replica'[p].expected
  PROVE  PeerInv(p)'
  <1>1. /\ transfer' = transfer /\ log' = log /\ nextSnapshotId' = nextSnapshotId
        /\ stage' = stage /\ built' = built /\ nextSnapshotId \in Nat
    BY PeerTypes DEF ClientTakes, authorityVars, tickVars
  <1> QED
    BY <1>1, SteadyPeer DEF ClientTakes

\* Receiving a delta takes it from the network.
LEMMA ReceiveDeltaTakes ==
  ASSUME StreamInv, NEW p \in Peers, NEW f \in deltaNet[p], ReceivesDelta(p, f)
  PROVE  /\ ClientTakes(p)
         /\ AskedBy(p)' = AskedBy(p)
         /\ f \in Frame /\ f \in HeldBy(p)
         /\ assembler' = assembler /\ phase' = phase
  <1>1. deltaNet \in [Peers -> SUBSET Frame]
    BY NetTypes DEF StreamInv
  <1>2. UNCHANGED <<authorityVars, tickVars>> /\ snapshotNet' = snapshotNet /\ requestNet' = requestNet
        /\ assembler' = assembler /\ phase' = phase /\ deltaNet' = Deliver(deltaNet, p, f)
    BY DEF ReceivesDelta, Client
  <1>3. deltaNet'[p] \subseteq deltaNet[p] /\ (KeepsDeltas => deltaNet'[p] = deltaNet[p])
    BY <1>1, <1>2 DEF Deliver, KeepsDeltas
  <1>4. AskedBy(p)' = AskedBy(p)
    BY <1>2 DEF AskedBy, authorityVars
  <1> QED
    BY <1>1, <1>2, <1>3, <1>4 DEF ClientTakes, HeldBy

LEMMA DiscardPeer ==
  ASSUME StreamInv, NEW p \in Peers, NEW f \in deltaNet[p], DiscardDelta(p, f)
  PROVE  PeerInv(p)'
  <1>1. AuthorityInv /\ PeerInv(p)
    BY DEF StreamInv
  <1>2. ClientTakes(p) /\ AskedBy(p)' = AskedBy(p) /\ assembler' = assembler /\ phase' = phase
    BY ReceiveDeltaTakes DEF DiscardDelta
  <1>3. SameClient(p)
    BY <1>2 DEF DiscardDelta, SameClient
  <1>4. nextSnapshotId' = nextSnapshotId /\ nextSnapshotId \in Nat /\ transfer' = transfer
        /\ log' = log /\ stage' = stage /\ built' = built
    BY <1>1, <1>2, PeerTypes DEF ClientTakes, authorityVars, tickVars
  <1> QED
    BY <1>1, <1>2, <1>3, <1>4, QuietPeer DEF ClientTakes

\* What the inbox holds after a frame it does not release.
LEMMA HeldInbox ==
  ASSUME NEW b \in Inbox, NEW f \in Frame, NEW c,
         \/ Retains(b, f) /\ c = AfterRetaining(b, f)
         \/ Buffers(b, f) /\ c = AfterBuffering(b, f)
         \/ c = Taken(b, f)
         \/ c = AfterRefusal(b, f)
  PROVE  /\ c.next = b.next
         /\ c.pending \cup c.complete \subseteq b.pending \cup b.complete \cup {f}
         /\ b.complete \subseteq c.complete
         /\ \A g \in c.complete : g \in b.complete \/ g.seq > b.next
  <1>1. CASE c = AfterRetaining(b, f)
    BY <1>1 DEF AfterRetaining, Inbox
  <1>2. CASE Buffers(b, f) /\ c = AfterBuffering(b, f)
    <2>1. f.seq > b.next /\ Packet(f.seq, f.count) \subseteq b.pending \cup {f}
      BY <1>2 DEF Buffers, Assembles
    <2>2. \A g \in Packet(f.seq, f.count) : g.seq = f.seq
      BY DEF Packet
    <2>3. /\ c.next = b.next /\ c.pending = Without(b.pending, f.seq)
          /\ c.complete = b.complete \cup Packet(f.seq, f.count)
      BY <1>2 DEF AfterBuffering, Taken, Inbox
    <2>4. Without(b.pending, f.seq) \subseteq b.pending
      BY DEF Without
    <2> HIDE DEF Packet
    <2> QED
      BY <2>1, <2>2, <2>3, <2>4
  <1>3. CASE c = Taken(b, f) \/ c = AfterRefusal(b, f)
    BY <1>3 DEF Taken, AfterRefusal, Without, Inbox
  <1> QED
    BY <1>1, <1>2, <1>3

\* A frame that is kept, or ends the client, but releases nothing.
LEMMA KeepPeer ==
  ASSUME StreamInv, NEW p \in Peers, NEW f \in deltaNet[p],
         HoldDelta(p, f) \/ FailDelta(p, f)
  PROVE  PeerInv(p)'
  <1>1. /\ AuthorityInv /\ PeerInv(p) /\ inbox \in [Peers -> Inbox] /\ gap \in [Peers -> BOOLEAN]
        /\ fault \in [Peers -> {"none", "inbox", "replica"}]
        /\ replica[p].expected \in Nat
    BY ClientTypes, PeerTypes DEF StreamInv
  <1>2. ClientTakes(p) /\ AskedBy(p)' = AskedBy(p) /\ assembler' = assembler /\ phase' = phase
        /\ f \in Frame /\ f \in HeldBy(p)
    BY ReceiveDeltaTakes DEF HoldDelta, FailDelta
  <1>3. replica' = replica
    BY DEF HoldDelta, FailDelta
  <1>4. PICK c :
          /\ inbox' = [inbox EXCEPT ![p] = c]
          /\ \/ Retains(inbox[p], f) /\ c = AfterRetaining(inbox[p], f)
             \/ Buffers(inbox[p], f) /\ c = AfterBuffering(inbox[p], f)
             \/ c = Taken(inbox[p], f)
             \/ c = AfterRefusal(inbox[p], f)
    <2>1. CASE HoldDelta(p, f)
      BY <2>1 DEF HoldDelta
    <2>2. CASE FailDelta(p, f)
      BY <2>2 DEF FailDelta
    <2> QED
      BY <2>1, <2>2
  <1>5. inbox'[p] = c
    BY <1>1, <1>4
  <1>6. /\ c.next = inbox[p].next
        /\ c.pending \cup c.complete \subseteq inbox[p].pending \cup inbox[p].complete \cup {f}
        /\ inbox[p].complete \subseteq c.complete
        /\ \A g \in c.complete : g \in inbox[p].complete \/ g.seq > inbox[p].next
    BY <1>1, <1>2, <1>4, HeldInbox
  <1>7. HeldBy(p)' \subseteq HeldBy(p)
    BY <1>2, <1>5, <1>6 DEF HeldBy, ClientTakes
  <1>8. \A n \in Nat : Before(p, n) => Before(p, n)'
    BY <1>2, <1>3, <1>7, BeforeShrinks
  <1>9. Consistent(p)'
    <2>1. gap'[p] => c.complete # {}
      <3>1. gap'[p] = (gap[p] \/ c.complete # {}) \/ gap'[p] = gap[p]
        BY <1>1, <1>5 DEF HoldDelta, FailDelta
      <3>2. gap[p] => inbox[p].complete # {}
        BY <1>1 DEF PeerInv, Consistent
      <3> QED
        BY <1>6, <3>1, <3>2
    <2>2. fault'[p] # "replica"
      BY <1>1 DEF HoldDelta, FailDelta, PeerInv, Consistent
    <2> QED
      BY <1>1, <1>2, <1>3, <1>5, <1>6, <2>1, <2>2 DEF PeerInv, Consistent
  <1>10. AcksInstalled(p)'
    BY <1>1, <1>2, AcksKept DEF PeerInv
  <1> QED
    BY <1>1, <1>2, <1>3, <1>8, <1>9, <1>10, ClientPeer

\* A release hands the replica the deltas it waits for, up to the first that
\* is missing.
LEMMA ApplyPeer ==
  ASSUME StreamInv, NEW p \in Peers, NEW f \in deltaNet[p], ApplyDeltas(p, f)
  PROVE  PeerInv(p)'
  <1> DEFINE b == inbox[p]
  <1>1. /\ AuthorityInv /\ PeerInv(p) /\ inbox \in [Peers -> Inbox] /\ b \in Inbox
        /\ gap \in [Peers -> BOOLEAN] /\ replica \in [Peers -> Replica]
        /\ replica[p].expected \in Nat /\ replica[p].world \in Nat /\ b.next \in Nat
        /\ fault \in [Peers -> {"none", "inbox", "replica"}]
    BY ClientTypes, PeerTypes DEF StreamInv
  <1>2. ClientTakes(p) /\ AskedBy(p)' = AskedBy(p) /\ assembler' = assembler /\ phase' = phase
        /\ f \in Frame /\ f \in HeldBy(p)
    BY ReceiveDeltaTakes DEF ApplyDeltas
  <1>3. PICK n \in b.next + 1 .. b.next + 1 + MaxCompletePackets :
          /\ EndsAt(b, n)
          /\ inbox' = [inbox EXCEPT ![p] = AfterRelease(b, f, n)]
          /\ IF Accepts(replica[p], b.next, n)
             THEN /\ replica' = [replica EXCEPT ![p] = Applied(@, n)]
                  /\ UNCHANGED fault
             ELSE /\ fault' = [fault EXCEPT ![p] = "replica"]
                  /\ UNCHANGED replica
    BY DEF ApplyDeltas
  <1>4. phase[p] = "ready" /\ f.seq = b.next /\ gap' = [gap EXCEPT ![p] = FALSE]
    BY DEF ApplyDeltas, Releases
  <1>5. /\ b.next = replica[p].expected /\ replica[p].world = replica[p].expected
        /\ fault[p] # "replica" /\ \A g \in b.complete : g.seq > b.next
    BY <1>1, <1>4 DEF PeerInv, Consistent
  <1>6. n \in Nat /\ b.next < n
    BY <1>1, <1>3, InboxAssumption
  <1>7. Accepts(replica[p], b.next, n) /\ Applied(replica[p], n) = [expected |-> n, world |-> n]
    BY <1>1, <1>5, <1>6 DEF Accepts, Applied
  <1>8. /\ replica'[p].expected = n /\ replica'[p].world = n /\ fault' = fault
        /\ inbox'[p] = AfterRelease(b, f, n) /\ gap'[p] = FALSE
    BY <1>1, <1>3, <1>4, <1>7
  <1>9. /\ AfterRelease(b, f, n).next = n
        /\ AfterRelease(b, f, n).pending \subseteq b.pending
        /\ AfterRelease(b, f, n).complete \subseteq b.complete
        /\ \A g \in AfterRelease(b, f, n).complete : g.seq \notin b.next + 1 .. n - 1
    BY DEF AfterRelease, Without
  <1>10. HeldBy(p)' \subseteq HeldBy(p)
    BY <1>2, <1>8, <1>9 DEF HeldBy, ClientTakes
  <1>11. ASSUME NEW m \in Nat, Before(p, m)
         PROVE  Before(p, m)'
    <2>1. n <= m
      <3>1. b.next < m
        BY <1>2, <1>4, <1>11 DEF Before
      <3>2. CASE n = b.next + 1
        BY <1>1, <3>1, <3>2
      <3>3. CASE n # b.next + 1
        <4>1. n - 1 \in b.next + 1 .. n - 1
          BY <1>1, <1>6, <3>3
        <4>2. PICK g \in b.complete : g.seq = n - 1
          BY <1>3, <4>1 DEF EndsAt, SequencesOf
        <4>3. g.seq < m
          BY <1>11, <4>2 DEF Before, HeldBy
        <4> QED
          BY <1>6, <4>2, <4>3
      <3> QED
        BY <3>2, <3>3
    <2> QED
      BY <1>2, <1>8, <1>10, <1>11, <2>1 DEF Before
  <1>12. Consistent(p)'
    <2>1. \A g \in inbox'[p].complete : g.seq > n
      <3>1. SUFFICES ASSUME NEW g \in AfterRelease(b, f, n).complete PROVE g.seq > n
        BY <1>8
      <3>2. g \in b.complete /\ g.seq \in Nat /\ g.seq > b.next
        BY <1>1, <1>5, <1>9 DEF Inbox, Frame
      <3>3. g.seq \notin b.next + 1 .. n - 1
        BY <1>9
      <3>4. g.seq # n
        BY <1>3, <3>2 DEF EndsAt, SequencesOf
      <3> QED
        BY <1>1, <1>6, <3>2, <3>3, <3>4
    <2> QED
      BY <1>5, <1>6, <1>8, <1>9, <2>1 DEF Consistent
  <1>13. AcksInstalled(p)'
    BY <1>1, <1>2, AcksKept DEF PeerInv
  <1>14. replica'[p].expected \in Nat /\ replica[p].expected <= replica'[p].expected
         /\ assembler'[p].done = assembler[p].done
    BY <1>1, <1>2, <1>5, <1>6, <1>8
  <1> QED
    BY <1>1, <1>2, <1>11, <1>12, <1>13, <1>14, ClientPeer

\* A client asks for what comes before any version it has not installed.
LEMMA RequestPeer ==
  ASSUME StreamInv, NEW p \in Peers,
         RequestRepair(p) \/ RequestSnapshot(p) \/ RequestFragments(p)
  PROVE  PeerInv(p)'
  <1>1. /\ AuthorityInv /\ PeerInv(p) /\ requestNet \in [Peers -> SUBSET Requests]
        /\ replica[p].expected \in Nat /\ inbox[p].next \in Nat
    BY NetTypes, PeerTypes DEF StreamInv
  <1>2. /\ UNCHANGED <<authorityVars, tickVars, deltaNet, snapshotNet, clientVars>>
    BY DEF RequestRepair, RequestSnapshot, RequestFragments, Client
  <1>3. PICK r :
          /\ requestNet' = Send(requestNet, p, {r})
          /\ r.kind # "ack"
          /\ r.kind = "delta" => gap[p] /\ r.id = inbox[p].next
    <2>1. /\ Request("delta", inbox[p].next, {}).kind = "delta"
          /\ Request("delta", inbox[p].next, {}).id = inbox[p].next
          /\ Request("snapshot", 0, {}).kind = "snapshot"
          /\ \A id, missing : Request("fragments", id, missing).kind = "fragments"
      BY DEF Request
    <2>2. CASE RequestRepair(p)
      BY <2>1, <2>2 DEF RequestRepair, Asks
    <2>3. CASE RequestSnapshot(p)
      BY <2>1, <2>3 DEF RequestSnapshot, Asks
    <2>4. CASE RequestFragments(p)
      BY <2>1, <2>4 DEF RequestFragments, Asks
    <2> QED
      BY <2>2, <2>3, <2>4
  <1>4. AskedBy(p)' \subseteq AskedBy(p) \cup {r}
    <2>1. requestNet'[p] = requestNet[p] \cup {r}
      BY <1>1, <1>3 DEF Send
    <2>2. repairs' = repairs
      BY <1>2 DEF authorityVars
    <2> QED
      BY <2>1, <2>2, AskedSame
  <1>5. HeldBy(p)' = HeldBy(p) /\ replica' = replica /\ assembler' = assembler
    BY <1>2 DEF HeldBy, clientVars
  <1>6. ASSUME NEW n \in Nat, Before(p, n)
        PROVE  Before(p, n)'
    <2>1. r.kind = "delta" => r.id < n
      <3>1. SUFFICES ASSUME r.kind = "delta" PROVE r.id < n
        OBVIOUS
      <3>2. PICK g \in inbox[p].complete : g.seq > inbox[p].next
        BY <1>1, <1>3, <3>1 DEF PeerInv, Consistent
      <3>3. g.seq < n /\ g.seq \in Nat
        BY <1>1, <1>6, <3>2, HeldTypes DEF Before, HeldBy
      <3> QED
        BY <1>1, <1>3, <3>1, <3>2, <3>3
    <2> QED
      BY <1>4, <1>5, <1>6, <2>1 DEF Before
  <1>7. AcksInstalled(p)'
    BY <1>1, <1>3, <1>4, <1>5 DEF PeerInv, AcksInstalled
  <1>8. Consistent(p)'
    BY <1>1, <1>2, ConsistentKept DEF PeerInv, SameClient, clientVars
  <1>9. ClientTakes(p)
    BY <1>2 DEF ClientTakes
  <1> QED
    BY <1>1, <1>5, <1>6, <1>7, <1>8, <1>9, ClientPeer

\* A fragment that completes nothing.
LEMMA CollectPeer ==
  ASSUME StreamInv, NEW p \in Peers, NEW m \in snapshotNet[p], CollectFrame(p, m)
  PROVE  PeerInv(p)'
  <1>1. /\ AuthorityInv /\ PeerInv(p) /\ snapshotNet \in [Peers -> SUBSET SnapshotFrame]
        /\ assembler \in [Peers -> Assembler] /\ phase \in [Peers -> {"awaiting", "ready"}]
        /\ replica[p].expected \in Nat
    BY NetTypes, ClientTypes, PeerTypes DEF StreamInv
  <1>2. /\ UNCHANGED <<authorityVars, tickVars, deltaNet, requestNet, inbox, gap, replica, fault>>
        /\ snapshotNet' = Deliver(snapshotNet, p, m)
        /\ assembler' = [assembler EXCEPT ![p] = Collect(@, m)]
        /\ phase' = phase \/ phase' = [phase EXCEPT ![p] = "awaiting"]
    BY DEF CollectFrame, ReceivesSnapshot, Client
  <1>3. snapshotNet'[p] \subseteq snapshotNet[p]
    BY <1>1, <1>2 DEF Deliver
  <1>4. assembler'[p].done = assembler[p].done
    BY <1>1, <1>2 DEF Collect, Assembler
  <1>5. phase'[p] = phase[p] \/ phase'[p] = "awaiting"
    BY <1>1, <1>2
  <1>6. Consistent(p)'
    BY <1>1, <1>2, <1>5 DEF PeerInv, Consistent
  <1>7. AskedBy(p)' = AskedBy(p) /\ HeldBy(p)' = HeldBy(p)
    BY <1>2 DEF AskedBy, HeldBy, authorityVars
  <1>8. AcksInstalled(p)' /\ \A n \in Nat : Before(p, n) => Before(p, n)'
    BY <1>1, <1>2, <1>4, <1>7, AcksKept, BeforeShrinks DEF PeerInv
  <1>9. ClientTakes(p)
    BY <1>2, <1>3 DEF ClientTakes
  <1> QED
    BY <1>1, <1>2, <1>4, <1>6, <1>8, <1>9, ClientPeer

\* An installed snapshot is ahead of all the client has, and the newest it
\* was offered.
LEMMA InstallPeer ==
  ASSUME StreamInv, NEW p \in Peers, NEW m \in snapshotNet[p], InstallSnapshot(p, m)
  PROVE  PeerInv(p)'
  <1> DEFINE done == assembler[p].done
  <1>1. /\ AuthorityInv /\ PeerInv(p) /\ snapshotNet \in [Peers -> SUBSET SnapshotFrame]
        /\ assembler \in [Peers -> Assembler] /\ phase \in [Peers -> {"awaiting", "ready"}]
        /\ requestNet \in [Peers -> SUBSET Requests] /\ inbox \in [Peers -> Inbox]
        /\ replica \in [Peers -> Replica] /\ gap \in [Peers -> BOOLEAN]
        /\ done \in Nat /\ nextSnapshotId \in Nat /\ NextSequence \in Nat /\ transfer[p].id \in Nat
        /\ m.id \in Nat /\ m.next \in Nat
    BY NetTypes, ClientTypes, PeerTypes, HeldTypes DEF StreamInv
  <1>2. /\ UNCHANGED <<authorityVars, tickVars, deltaNet, fault>>
        /\ snapshotNet' = Deliver(snapshotNet, p, m)
        /\ assembler' = [assembler EXCEPT ![p] = [active |-> 0, got |-> {}, done |-> m.id]]
        /\ replica' = [replica EXCEPT ![p] = [expected |-> m.next, world |-> m.next]]
        /\ inbox' = [inbox EXCEPT ![p] = EmptyInbox(m.next)]
        /\ gap' = [gap EXCEPT ![p] = FALSE]
        /\ requestNet' = Send(requestNet, p, {Request("ack", m.id, {})})
        /\ m.id > done
    BY DEF InstallSnapshot, ReceivesSnapshot, Client, Completes, Relevant
  <1>3. /\ assembler'[p].done = m.id
        /\ replica'[p].expected = m.next /\ replica'[p].world = m.next
        /\ inbox'[p].next = m.next /\ inbox'[p].pending = {} /\ inbox'[p].complete = {}
        /\ gap'[p] = FALSE /\ fault'[p] # "replica"
        /\ snapshotNet'[p] \subseteq snapshotNet[p]
    BY <1>1, <1>2 DEF EmptyInbox, Deliver, PeerInv, Consistent
  <1>4. /\ transfer' = transfer /\ log' = log /\ nextSnapshotId' = nextSnapshotId
        /\ stage' = stage /\ built' = built /\ repairs' = repairs /\ NextSequence' = NextSequence
    BY <1>2 DEF authorityVars, tickVars, NextSequence
  <1>5. HeldBy(p)' \subseteq HeldBy(p)
    BY <1>2, <1>3 DEF HeldBy
  <1>6. PICK ack : ack.kind = "ack" /\ ack.id = m.id /\ AskedBy(p)' \subseteq AskedBy(p) \cup {ack}
    <2>1. requestNet'[p] = requestNet[p] \cup {Request("ack", m.id, {})}
      BY <1>1, <1>2 DEF Send
    <2>2. Request("ack", m.id, {}).kind = "ack" /\ Request("ack", m.id, {}).id = m.id
      BY DEF Request
    <2> QED
      BY <1>4, <2>1, <2>2, AskedSame
  <1>7. ASSUME NEW n \in Nat, Before(p, n), m.next <= n
        PROVE  Before(p, n)'
    BY <1>3, <1>5, <1>6, <1>7 DEF Before
  <1>8. /\ Version(m.id, m.next) \in Versions(p)
        /\ Version(m.id, m.next).id = m.id /\ Version(m.id, m.next).next = m.next
    BY DEF Versions, Version
  <1>9. \A v \in Versions(p)' : v \in Versions(p) /\ v.id \in Nat /\ v.next \in Nat
    <2>1. \A v \in Versions(p)' : v \in Versions(p)
      BY <1>3, <1>4 DEF Versions
    <2> QED
      BY <1>1, <2>1, VersionTypes
  <1>10. \A v, w \in Versions(p) : v.id <= w.id => v.next <= w.next
    BY <1>1 DEF PeerInv, VersionsInOrder
  <1>11. Before(p, NextSequence)'
    <2>1. PICK n \in Nat : n = NextSequence
      BY <1>1
    <2>2. m.next <= n
      BY <1>1, <1>8, <2>1 DEF PeerInv, VersionsInOrder
    <2>3. Before(p, n)'
      BY <1>1, <1>7, <2>1, <2>2 DEF PeerInv
    <2> QED
      BY <1>4, <2>1, <2>3 DEF Before
  <1>12. VersionsInOrder(p)'
    <2>1. ASSUME NEW v \in Versions(p)'
          PROVE  /\ v.id < nextSnapshotId
                 /\ v.next <= NextSequence
                 /\ v.id > m.id => Before(p, v.next)'
                 /\ v.id = m.id => v.next <= m.next
      <3>1. /\ v.id < nextSnapshotId /\ v.next <= NextSequence
            /\ v.id > done => Before(p, v.next)
        BY <1>1, <1>9 DEF PeerInv, VersionsInOrder
      <3>2. v.id > m.id => Before(p, v.next)'
        BY <1>1, <1>2, <1>7, <1>8, <1>9, <1>10, <3>1
      <3>3. v.id = m.id => v.next <= m.next
        BY <1>1, <1>8, <1>9, <1>10
      <3> QED
        BY <3>1, <3>2, <3>3
    <2> QED
      BY <1>3, <1>4, <1>9, <1>10, <2>1 DEF VersionsInOrder
  <1>13. m.id <= Newest(p) /\ Newest(p) \in Nat /\ transfer[p].stage \notin {"none", "catchup"}
    <2>1. m.id <= Newest(p) /\ (transfer[p].stage = "catchup" => Newest(p) = done)
          /\ (transfer[p].stage = "none" => Newest(p) = done)
      BY <1>1 DEF PeerInv, StagesInOrder, Newest
    <2>2. Newest(p) \in Nat
      BY <1>1 DEF Newest
    <2> QED
      BY <1>1, <1>2, <2>1, <2>2
  <1>14. StagesInOrder(p)'
    <2>1. Newest(p)' = Newest(p)
      BY <1>4, <1>13 DEF Newest
    <2> QED
      BY <1>1, <1>3, <1>4, <1>13, <2>1 DEF PeerInv, StagesInOrder
  <1>15. SentSoFar(p)'
    <2>1. SentEnd(p)' = 0
      BY <1>4, <1>13 DEF SentEnd
    <2>2. Len(log)' \in Nat
      BY <1>1, <1>4, LenProperties DEF AuthorityInv, TypeOK, AuthorityTypeOK
    <2> QED
      BY <2>1, <2>2 DEF SentSoFar
  <1>16. AcksInstalled(p)'
    <2>1. \A r \in AskedBy(p) : r.kind = "ack" => r.id <= m.id
      BY <1>1, <1>2, HeldTypes DEF PeerInv, AcksInstalled
    <2> QED
      BY <1>1, <1>3, <1>6, <2>1 DEF AcksInstalled
  <1>17. Consistent(p)'
    BY <1>1, <1>3 DEF Consistent
  <1> QED
    BY <1>11, <1>12, <1>14, <1>15, <1>16, <1>17 DEF PeerInv

--------------------------------------------------------------------------
(* Every step *)

\* A client's step keeps its own invariant.
LEMMA ClientOwnStep ==
  ASSUME StreamInv, NEW p \in Peers, ClientStep(p)
  PROVE  PeerInv(p)'
  <1>1. ASSUME NEW f \in deltaNet[p], ReceiveDelta(p, f)
        PROVE  PeerInv(p)'
    BY <1>1, DiscardPeer, KeepPeer, ApplyPeer DEF ReceiveDelta
  <1>2. ASSUME NEW m \in snapshotNet[p], ReceiveSnapshot(p, m)
        PROVE  PeerInv(p)'
    BY <1>2, CollectPeer, InstallPeer DEF ReceiveSnapshot
  <1>3. CASE RequestRepair(p) \/ RequestSnapshot(p) \/ RequestFragments(p)
    BY <1>3, RequestPeer
  <1> QED
    BY <1>1, <1>2, <1>3 DEF ClientStep

\* Serving a request of a peer keeps that peer's invariant.
LEMMA ServeOwnStep ==
  ASSUME StreamInv, NEW p \in Peers, NEW r \in AskedBy(p), Serves(p, r)
  PROVE  PeerInv(p)'
  <1>1. CASE DropRequest(p, r)
    <2>1. AuthorityInv /\ PeerInv(p) /\ nextSnapshotId \in Nat
      BY PeerTypes DEF StreamInv
    <2>2. /\ Take(p, r) /\ SameClient(p) /\ AskedBy(p)' \subseteq AskedBy(p)
          /\ deltaNet' = deltaNet /\ snapshotNet' = snapshotNet /\ log' = log
          /\ nextSnapshotId' = nextSnapshotId /\ built' = built /\ stage' = stage
          /\ transfer' = transfer
      BY <1>1, <2>1, AskedTaken DEF DropRequest, Take, clientVars, SameClient
    <2> QED
      BY <2>1, <2>2, QuietPeer
  <1>2. CASE ~DropRequest(p, r)
    BY <1>2, ServeDeltaPeer, StartTransferPeer, ServeFragmentsPeer, ServeAckPeer DEF Serves
  <1> QED
    BY <1>1, <1>2

\* Servicing the transfer of a peer keeps that peer's invariant.
LEMMA ServiceOwnStep ==
  ASSUME StreamInv, NEW p \in Peers, Services(p)
  PROVE  PeerInv(p)'
  <1>1. CASE Wait(p)
    <2>1. AuthorityInv /\ PeerInv(p) /\ nextSnapshotId \in Nat
      BY PeerTypes DEF StreamInv
    <2>2. /\ SameClient(p) /\ AskedBy(p)' = AskedBy(p)
          /\ deltaNet' = deltaNet /\ snapshotNet' = snapshotNet /\ log' = log
          /\ nextSnapshotId' = nextSnapshotId /\ built' = built /\ stage' = stage
          /\ transfer' = transfer
      BY <1>1 DEF Wait, Service, clientVars, SameClient, AskedBy
    <2> QED
      BY <2>1, <2>2, QuietPeer
  <1>2. CASE ~Wait(p)
    BY <1>2, PacePeer, ReplayPeer, FinishCatchupPeer DEF Services
  <1> QED
    BY <1>1, <1>2

\* Steps that give no peer anything.
LEMMA BackgroundStep ==
  ASSUME StreamInv, NEW p \in Peers,
         \/ \E q \in Peers : \E r \in requestNet[q] : Ingest(q, r)
         \/ TickMoves
         \/ \E q \in Peers : Lose(q)
  PROVE  PeerInv(p)'
  <1>1. /\ AuthorityInv /\ PeerInv(p) /\ nextSnapshotId \in Nat
        /\ deltaNet \in [Peers -> SUBSET Frame] /\ snapshotNet \in [Peers -> SUBSET SnapshotFrame]
        /\ requestNet \in [Peers -> SUBSET Requests]
    BY NetTypes, PeerTypes DEF StreamInv
  <1>2. ASSUME NEW q \in Peers, NEW r \in requestNet[q], Ingest(q, r)
        PROVE  PeerInv(p)'
    <2>1. AskedBy(p)' \subseteq AskedBy(p)
      BY <1>1, <1>2, AskedIngested
    <2>2. SameClient(p)
      BY <1>2 DEF Ingest, clientVars, SameClient
    <2>3. UNCHANGED <<deltaNet, snapshotNet, transfer, log, nextSnapshotId, stage, built>>
      BY <1>2 DEF Ingest, tickVars
    <2> QED
      BY <1>1, <2>1, <2>2, <2>3, QuietPeer
  <1>3. CASE TickMoves
    <2>1. UNCHANGED <<log, transfer, repairs, nextSnapshotId, deltaNet, snapshotNet, requestNet, clientVars>>
      BY <1>3, TickFrame DEF netVars
    <2>2. AskedBy(p)' = AskedBy(p) /\ SameClient(p)
      BY <2>1 DEF AskedBy, clientVars, SameClient
    <2>3. ~(stage' = "repairs" /\ built'.id # 0)
      BY <1>3 DEF TickMoves, BeginRepairs, EndRepairs, EndService, BeginTick, NotBuilt
    <2> QED
      BY <1>1, <2>1, <2>2, <2>3, QuietPeer
  <1>4. ASSUME NEW q \in Peers, Lose(q)
        PROVE  PeerInv(p)'
    <2>1. UNCHANGED <<authorityVars, tickVars, clientVars>>
      BY <1>4, LoseFrame
    <2>2. /\ deltaNet'[p] \subseteq deltaNet[p] /\ (KeepsDeltas => deltaNet' = deltaNet)
          /\ snapshotNet'[p] \subseteq snapshotNet[p] /\ requestNet'[p] \subseteq requestNet[p]
      BY <1>1, <1>4 DEF Lose, KeepsDeltas
    <2>3. AskedBy(p)' \subseteq AskedBy(p) /\ SameClient(p)
      BY <2>1, <2>2, AskedSame DEF authorityVars, clientVars, SameClient
    <2>4. UNCHANGED <<transfer, log, nextSnapshotId, stage, built>>
      BY <2>1 DEF authorityVars, tickVars
    <2> QED
      BY <1>1, <2>2, <2>3, <2>4, QuietPeer
  <1> QED
    BY <1>2, <1>3, <1>4

\* Every step keeps what every peer knows.
LEMMA PeerStep ==
  ASSUME StreamInv, Next, NEW p \in Peers
  PROVE  PeerInv(p)'
  <1>1. ASSUME NEW q \in Peers,
               ClientStep(q) \/ Services(q) \/ (\E r \in AskedBy(q) : Serves(q, r))
        PROVE  PeerInv(p)'
    <2>1. CASE p = q
      BY <1>1, <2>1, ClientOwnStep, ServiceOwnStep, ServeOwnStep
    <2>2. CASE p # q
      BY <1>1, <2>2, OtherPeers
    <2> QED
      BY <2>1, <2>2
  <1>2. CASE Commit
    BY <1>2, CommitPeer
  <1>3. TypeOK
    BY DEF StreamInv, AuthorityInv
  <1> QED
    BY <1>1, <1>2, <1>3, StepCases, BackgroundStep

\* The initial state satisfies the invariant.
LEMMA StreamInit == Init => StreamInv
  <1> SUFFICES ASSUME Init, NEW p \in Peers PROVE PeerInv(p)
    BY InitInv DEF StreamInv
  <1>1. /\ deltaNet[p] = {} /\ snapshotNet[p] = {} /\ requestNet[p] = {} /\ repairs = <<>>
        /\ Len(log) = 0 /\ NextSequence = 1 /\ nextSnapshotId = 1 /\ stage = "ingest"
        /\ inbox[p] = EmptyInbox(1) /\ gap[p] = FALSE /\ fault[p] = "none" /\ phase[p] = "awaiting"
        /\ replica[p].expected = 1 /\ replica[p].world = 0 /\ assembler[p].done = 0
        /\ transfer[p].stage = "none"
    BY DEF Init, NextSequence, NewReplica, NewAssembler, NoTransfer
  <1>2. HeldBy(p) = {} /\ AskedBy(p) = {} /\ Versions(p) = {} /\ Newest(p) = 0
    BY <1>1 DEF HeldBy, EmptyInbox, AskedBy, Versions, Newest
  <1>3. Consistent(p) /\ Before(p, NextSequence) /\ AcksInstalled(p)
    BY <1>1, <1>2 DEF Consistent, Before, AcksInstalled, EmptyInbox
  <1>4. VersionsInOrder(p) /\ StagesInOrder(p) /\ SentSoFar(p)
    BY <1>1, <1>2 DEF VersionsInOrder, StagesInOrder, SentSoFar
  <1> QED
    BY <1>3, <1>4 DEF PeerInv

LEMMA StreamInvStep ==
  ASSUME StreamInv, [Next]_vars
  PROVE  StreamInv'
  <1>1. AuthorityInv'
    BY AuthorityInvStep DEF StreamInv
  <1>2. CASE Next
    BY <1>1, <1>2, PeerStep DEF StreamInv
  <1>3. CASE UNCHANGED vars
    <2>1. UNCHANGED <<log, transfer, repairs, nextSnapshotId, stage, built, deltaNet, snapshotNet,
                      requestNet, clientVars>>
      BY <1>3 DEF vars, authorityVars, tickVars, netVars
    <2>2. ASSUME NEW p \in Peers
          PROVE  PeerInv(p)'
      <3>1. AuthorityInv /\ PeerInv(p) /\ nextSnapshotId \in Nat
        BY PeerTypes DEF StreamInv
      <3>2. SameClient(p) /\ AskedBy(p)' = AskedBy(p)
        BY <2>1 DEF clientVars, SameClient, AskedBy
      <3> QED
        BY <2>1, <3>1, <3>2, QuietPeer
    <2> QED
      BY <1>1, <2>2 DEF StreamInv
  <1> QED
    BY <1>2, <1>3

THEOREM StreamInvariant == Spec => []StreamInv
  <1>1. Init => StreamInv
    BY StreamInit
  <1>2. StreamInv /\ [Next]_vars => StreamInv'
    BY StreamInvStep
  <1> QED
    BY <1>1, <1>2, PTL DEF Spec

\* The replica rejects nothing its inbox releases, however deltas and the
\* fragments of old and new snapshots are lost, repeated and reordered.
THEOREM NeverRejected == Spec => []NoReplicaRejection
  <1>1. StreamInv => NoReplicaRejection
    BY DEF StreamInv, PeerInv, Consistent, NoReplicaRejection
  <1> QED
    BY <1>1, StreamInvariant, PTL

\* A snapshot that may still be installed is ahead of all that its client
\* gets by deltas, and once live delivery resumes nothing was left out.
THEOREM NothingIsLost == Spec => []TransferLosesNothing
  <1>1. StreamInv => TransferLosesNothing
    <2> SUFFICES ASSUME StreamInv, NEW p \in Peers
                 PROVE  /\ \A m \in snapshotNet[p] :
                             m.id > assembler[p].done =>
                               /\ replica[p].world <= m.next
                               /\ \A f \in deltaNet[p] \cup inbox[p].complete : f.seq < m.next
                        /\ KeepsDeltas /\ transfer[p].stage = "none" =>
                             \A s \in DOMAIN log :
                               s >= replica[p].expected => Frames(s) \subseteq deltaNet[p]
      BY DEF TransferLosesNothing
    <2>1. AuthorityInv /\ PeerInv(p) /\ replica[p].expected \in Nat /\ replica[p].world \in Nat
      BY PeerTypes DEF StreamInv
    <2>2. ASSUME NEW m \in snapshotNet[p], m.id > assembler[p].done
          PROVE  /\ replica[p].world <= m.next
                 /\ \A f \in deltaNet[p] \cup inbox[p].complete : f.seq < m.next
      <3>1. Version(m.id, m.next) \in Versions(p)
        BY DEF Versions
      <3>2. Before(p, m.next)
        BY <2>1, <2>2, <3>1 DEF PeerInv, VersionsInOrder, Version
      <3>3. replica[p].world <= replica[p].expected /\ m.next \in Nat
        BY <2>1, HeldTypes DEF PeerInv, Consistent
      <3> QED
        BY <2>1, <3>2, <3>3 DEF Before, HeldBy
    <2>3. ASSUME KeepsDeltas, transfer[p].stage = "none", NEW s \in DOMAIN log,
                 s >= replica[p].expected
          PROVE  Frames(s) \subseteq deltaNet[p]
      <3>1. s \in 1 .. Len(log) /\ Len(log) \in Nat /\ NextSequence = Len(log) + 1
        BY <2>1, LenProperties, NextSequenceType DEF AuthorityInv, TypeOK, AuthorityTypeOK
      <3>2. SentEnd(p) = NextSequence
        BY <2>3 DEF SentEnd
      <3> QED
        BY <2>1, <2>3, <3>1, <3>2 DEF PeerInv, SentSoFar
    <2> QED
      BY <2>2, <2>3
  <1> QED
    BY <1>1, StreamInvariant, PTL

--------------------------------------------------------------------------
(* What the clients show *)

\* A client's step moves no world but its own, and never back.
LEMMA WorldsAdvance ==
  ASSUME StreamInv, NEW p \in Peers, ClientStep(p)
  PROVE  /\ replica[p].world <= replica'[p].world
         /\ \A q \in Peers \ {p} : replica'[q] = replica[q]
  <1>1. /\ AuthorityInv /\ PeerInv(p) /\ replica \in [Peers -> Replica]
        /\ replica[p].world \in Nat /\ replica[p].expected \in Nat
    BY ClientTypes, PeerTypes DEF StreamInv
  <1>2. CASE replica' = replica
    BY <1>1, <1>2
  <1>3. ASSUME NEW f \in deltaNet[p], ApplyDeltas(p, f)
        PROVE  /\ replica[p].world <= replica'[p].world
               /\ \A q \in Peers \ {p} : replica'[q] = replica[q]
    <2>1. PICK n \in Nat :
            replica' = replica \/ replica' = [replica EXCEPT ![p] = Applied(@, n)]
      <3>1. inbox[p].next + 1 .. inbox[p].next + 1 + MaxCompletePackets \subseteq Nat
        BY <1>1, PeerTypes, InboxAssumption
      <3> QED
        BY <1>3, <3>1 DEF ApplyDeltas
    <2>2. replica[p].world = replica[p].expected
      BY <1>1, <1>3 DEF ApplyDeltas, PeerInv, Consistent
    <2>3. Applied(replica[p], n) = replica[p]
          \/ (n > replica[p].expected /\ Applied(replica[p], n).world = n)
      BY DEF Applied
    <2>4. replica'[p] = replica[p]
          \/ (n > replica[p].expected /\ replica'[p].world = n)
      BY <1>1, <2>1, <2>3
    <2>5. n > replica[p].expected => replica[p].world <= n
      BY <1>1, <2>2
    <2> QED
      BY <1>1, <2>1, <2>4, <2>5
  <1>4. ASSUME NEW m \in snapshotNet[p], InstallSnapshot(p, m)
        PROVE  /\ replica[p].world <= replica'[p].world
               /\ \A q \in Peers \ {p} : replica'[q] = replica[q]
    <2>1. /\ replica' = [replica EXCEPT ![p] = [expected |-> m.next, world |-> m.next]]
          /\ m.id > assembler[p].done
      BY <1>4 DEF InstallSnapshot, Completes, Relevant
    <2>2. Version(m.id, m.next) \in Versions(p)
      BY DEF Versions
    <2>3. replica[p].expected <= m.next /\ m.next \in Nat
      BY <1>1, <2>1, <2>2, HeldTypes DEF PeerInv, VersionsInOrder, Version, Before
    <2>4. replica[p].world <= replica[p].expected
      BY <1>1 DEF PeerInv, Consistent
    <2> QED
      BY <1>1, <2>1, <2>3, <2>4
  <1>5. CASE replica' # replica
    <2>1. \/ \E f \in deltaNet[p] : ApplyDeltas(p, f)
          \/ \E m \in snapshotNet[p] : InstallSnapshot(p, m)
      BY <1>5 DEF ClientStep, ReceiveDelta, DiscardDelta, HoldDelta, FailDelta, ReceiveSnapshot,
                  CollectFrame, RequestRepair, RequestSnapshot, RequestFragments, clientVars
    <2> QED
      BY <1>3, <1>4, <2>1
  <1> QED
    BY <1>2, <1>5

\* No step but a client's changes what is shown.
LEMMA OthersShowTheSame ==
  ASSUME TypeOK, Next, \A p \in Peers : ~ClientStep(p)
  PROVE  replica' = replica /\ (Commit \/ log' = log)
  <1>1. ASSUME NEW p \in Peers, NEW r \in requestNet[p], Ingest(p, r)
        PROVE  replica' = replica /\ log' = log
    BY <1>1 DEF Ingest, clientVars
  <1>2. ASSUME NEW p \in Peers, NEW r, Serves(p, r)
        PROVE  replica' = replica /\ log' = log
    BY <1>2, ServeFrame DEF Take, clientVars
  <1>3. ASSUME NEW p \in Peers, Services(p)
        PROVE  replica' = replica /\ log' = log
    BY <1>3, ServiceFrame DEF Service, clientVars
  <1>4. CASE TickMoves
    BY <1>4, TickFrame DEF clientVars
  <1>5. CASE Commit
    BY <1>5 DEF Commit, clientVars
  <1>6. ASSUME NEW p \in Peers, Lose(p)
        PROVE  replica' = replica /\ log' = log
    BY <1>6, LoseFrame DEF authorityVars, clientVars
  <1> QED
    BY <1>1, <1>2, <1>3, <1>4, <1>5, <1>6, StepCases

\* The worlds shown, as the abstract specification sees them.
LEMMA WorldInit == Init => World!Init
  <1> SUFFICES ASSUME Init PROVE World!Init
    OBVIOUS
  <1>1. NextSequence = 1 /\ \A p \in Peers : replica[p].world = 0
    BY DEF Init, NextSequence, NewReplica
  <1> QED
    BY <1>1 DEF World!Init, World!NoWorld

\* Every step commits one version, moves one client forward, or shows nothing.
LEMMA WorldStep ==
  ASSUME StreamInv, StreamInv', [Next]_vars
  PROVE  [World!Next]_World!vars
  <1> DEFINE view == [p \in Peers |-> replica[p].world]
  <1>1. AuthorityInv /\ TypeOK /\ log \in Seq(1..MaxPacketFrames) /\ replica \in [Peers -> Replica]
    BY DEF StreamInv, AuthorityInv, TypeOK, AuthorityTypeOK, ClientTypeOK
  <1>2. CASE log' = log /\ replica' = replica
    BY <1>2 DEF World!vars, NextSequence
  <1>3. CASE Commit
    <2>1. NextSequence' = NextSequence + 1
      BY <1>1, <1>3, AppendProperties DEF Commit, NextSequence
    <2>2. replica' = replica
      BY <1>3 DEF Commit, clientVars
    <2>3. World!Commit
      BY <2>1, <2>2 DEF World!Commit
    <2> QED
      BY <2>3 DEF World!Next
  <1>4. ASSUME NEW p \in Peers, ClientStep(p)
        PROVE  [World!Next]_World!vars
    <2>1. log' = log /\ NextSequence' = NextSequence
      BY <1>4, ClientFrame DEF authorityVars, NextSequence
    <2>2. /\ replica[p].world <= replica'[p].world
          /\ \A q \in Peers \ {p} : replica'[q] = replica[q]
      BY <1>4, WorldsAdvance
    <2>3. replica'[p].world \in Nat /\ replica[p].world \in Nat /\ NextSequence \in Nat
      <3>1. replica'[p] \in Replica
        BY DEF StreamInv, AuthorityInv, TypeOK, ClientTypeOK
      <3> QED
        BY <1>1, <3>1, PeerTypes DEF Replica
    <2>4. replica'[p].world <= NextSequence
      <3>1. Consistent(p)' /\ Before(p, NextSequence)'
        BY DEF StreamInv, PeerInv
      <3>2. replica'[p].world <= replica'[p].expected
        BY <3>1 DEF Consistent
      <3>3. replica'[p].expected <= NextSequence'
        BY <3>1 DEF Before
      <3>4. replica'[p].expected \in Nat
        BY DEF StreamInv, AuthorityInv, TypeOK, ClientTypeOK, Replica
      <3> QED
        BY <2>1, <2>3, <3>2, <3>3, <3>4
    <2>5. view' = [view EXCEPT ![p] = replica'[p].world]
      BY <2>2
    <2>6. CASE replica'[p].world = replica[p].world
      <3>1. view' = view
        BY <2>2, <2>6
      <3> QED
        BY <2>1, <3>1 DEF World!vars
    <2>7. CASE replica'[p].world # replica[p].world
      <3>1. replica'[p].world \in view[p] + 1 .. NextSequence
        BY <2>2, <2>3, <2>4, <2>7
      <3>2. World!Follow(p)
        BY <2>1, <2>5, <3>1 DEF World!Follow
      <3> QED
        BY <3>2 DEF World!Next
    <2> QED
      BY <2>6, <2>7
  <1>5. CASE UNCHANGED vars
    BY <1>2, <1>5 DEF vars, authorityVars, clientVars
  <1> QED
    BY <1>1, <1>2, <1>3, <1>4, <1>5, OthersShowTheSame

\* Every client shows versions the authoritative world has been through, in
\* their order: the stream implements ReplicatedWorld.
THEOREM Implements == Spec => ImplementsReplicatedWorld
  <1>1. Init => World!Init
    BY WorldInit
  <1>2. StreamInv /\ StreamInv' /\ [Next]_vars => [World!Next]_World!vars
    BY WorldStep
  <1> QED
    BY <1>1, <1>2, StreamInvariant, PTL DEF Spec, ImplementsReplicatedWorld, World!Spec

--------------------------------------------------------------------------
(* Stalled transfers *)

\* A committed delta is the one the catch-up queue expects.
LEMMA ExpectsCommitted ==
  ASSUME AuthorityInv, NEW p \in Peers, IsActive(transfer[p])
  PROVE  Expects(transfer[p]) = NextSequence
  <1> DEFINE t == transfer[p]
  <1>1. /\ IsRun(t.catchup, FirstToReplay(t), NextSequence) /\ t.catchup \in Seq(Nat)
        /\ Len(t.catchup) \in Nat /\ FirstToReplay(t) \in Nat /\ NextSequence \in Nat
    BY TransferOf, TransferFields, PeerTypes DEF HoldsRun
  <1>2. Len(t.catchup) = NextSequence - FirstToReplay(t)
    BY <1>1 DEF IsRun
  <1>3. CASE t.catchup # <<>>
    <2>1. Len(t.catchup) \in 1 .. Len(t.catchup)
      BY <1>1, <1>3
    <2>2. t.catchup[Len(t.catchup)] = FirstToReplay(t) + Len(t.catchup) - 1
      BY <1>1, <2>1 DEF IsRun
    <2> QED
      BY <1>1, <1>2, <1>3, <2>2 DEF Expects
  <1>4. CASE t.catchup = <<>>
    <2>1. Len(t.catchup) = 0
      BY <1>4
    <2> QED
      BY <1>1, <1>2, <1>4, <2>1 DEF Expects, FirstToReplay
  <1> QED
    BY <1>3, <1>4

\* A transfer stalls only for want of room in its catch-up queue.
LEMMA StallStep ==
  ASSUME AuthorityInv, [Next]_vars, NEW p \in Peers,
         transfer[p].stage # "stalled", transfer'[p].stage = "stalled"
  PROVE  /\ Len(log') = NextSequence
         /\ \/ Len(transfer[p].catchup) = MaxCatchupPackets
            \/ Cardinality(QueuedFrames(transfer[p].catchup)) + log'[NextSequence]
                  > MaxCatchupFrames
  <1> DEFINE t == transfer[p]
  <1>1. /\ TypeOK /\ transfer \in [Peers -> Transfer] /\ t \in Transfer
        /\ Len(t.catchup) <= MaxCatchupPackets /\ HoldsRun(t, NextSequence)
        /\ log \in Seq(1..MaxPacketFrames) /\ NextSequence \in Nat /\ t.resume \in Nat
        /\ Len(t.catchup) \in Nat /\ MaxCatchupPackets \in Nat
    BY TransferOf, PeerTypes, TransferFields, StreamAssumption
       DEF AuthorityInv, TypeOK, AuthorityTypeOK
  <1>2. CASE transfer' = transfer
    BY <1>2
  <1>3. ASSUME NEW q \in Peers, NEW r, Serves(q, r)
        PROVE  FALSE
    <2>1. \/ transfer' = transfer
          \/ \E id, next : transfer' = [transfer EXCEPT ![q] = NewTransfer(id, next)]
          \/ transfer[q].stage = "awaiting ack" /\ transfer' = [transfer EXCEPT ![q] = Resumed(@)]
      BY <1>3 DEF Serves, ServeDelta, DropRequest, StartTransfer, ServeFragments, ServeAck,
                  Acknowledges
    <2>2. Resumed(t).stage = "catchup" /\ \A id, next : NewTransfer(id, next).stage = "snapshot"
      BY <1>1, MovedFields DEF NewTransfer
    <2> QED
      BY <1>1, <2>1, <2>2
  <1>4. ASSUME NEW q \in Peers, Services(q)
        PROVE  FALSE
    <2>1. p = q
      BY <1>1, <1>4 DEF Services, Pace, Wait, Replay, FinishCatchup
    <2>2. ~Pace(p)
      <3>1. ASSUME NEW end PROVE Paced(t, end).stage \in {t.stage, "awaiting ack"}
        BY <1>1 DEF Paced, Transfer
      <3> QED
        BY <1>1, <3>1 DEF Pace
    <2>3. ~Replay(p)
      <3>1. SUFFICES ASSUME Replay(p) PROVE FALSE
        OBVIOUS
      <3>2. t.stage = "catchup" /\ Head(t.catchup) = t.resume
        BY <1>1, <3>1, ReplayRun DEF Replay
      <3>3. transfer' = transfer \/ transfer' = [transfer EXCEPT ![p] = Replayed(t)]
        BY <3>1, <3>2 DEF Replay
      <3> QED
        BY <1>1, <3>2, <3>3, MovedFields
    <2>4. ~FinishCatchup(p)
      <3>1. SUFFICES ASSUME FinishCatchup(p) PROVE FALSE
        OBVIOUS
      <3>2. t.stage = "catchup" /\ t.catchup = <<>>
        BY <3>1 DEF FinishCatchup
      <3>3. Expects(t) = NextSequence
        BY <3>2, ExpectsCommitted DEF IsActive
      <3>4. CaughtUp(t)
        BY <1>1, <3>2, <3>3 DEF Expects, CaughtUp
      <3>5. transfer' = [transfer EXCEPT ![p] = NoTransfer]
        BY <3>1, <3>4 DEF FinishCatchup
      <3> QED
        BY <1>1, <3>5 DEF NoTransfer
    <2>5. ~Wait(p)
      BY <1>1 DEF Wait
    <2> QED
      BY <1>4, <2>1, <2>2, <2>3, <2>4, <2>5 DEF Services
  <1>5. CASE Commit
    <2>1. PICK count \in 1..MaxPacketFrames :
            /\ log' = Append(log, count)
            /\ transfer'[p] = QueueCatchup(t, NextSequence, count)
      BY <1>5 DEF Commit
    <2>2. Len(log') = NextSequence /\ log'[NextSequence] = count
      BY <1>1, <2>1, AppendProperties DEF NextSequence
    <2>3. IsActive(t)
      BY <2>1 DEF QueueCatchup
    <2>4. \/ Len(t.catchup) >= MaxCatchupPackets
          \/ Cardinality(QueuedFrames(t.catchup)) + count > MaxCatchupFrames
      <3>1. [t EXCEPT !.catchup = Append(@, NextSequence)].stage = t.stage
        BY <1>1 DEF Transfer
      <3> QED
        BY <2>1, <2>3, <3>1, ExpectsCommitted DEF QueueCatchup
    <2> QED
      BY <1>1, <2>2, <2>4
  <1>6. ASSUME NEW q \in Peers, ClientStep(q) \/ Lose(q) \/ (\E r \in requestNet[q] : Ingest(q, r))
        PROVE  transfer' = transfer
    BY <1>6, ClientFrame, LoseFrame DEF Ingest, authorityVars
  <1>7. CASE TickMoves
    BY <1>2, <1>7, TickFrame
  <1>8. CASE UNCHANGED vars
    BY <1>2, <1>8 DEF vars, authorityVars
  <1> QED
    BY <1>1, <1>2, <1>3, <1>4, <1>5, <1>6, <1>7, <1>8, StepCases

\* A transfer stalls only when a committed delta finds no room in its
\* catch-up queue: no queue skips a delta or ends early.
THEOREM StallsAreOverflows == Spec => StallsOnlyOnOverflow
  <1>1. AuthorityInv /\ [Next]_vars =>
          [\A p \in Peers :
             transfer[p].stage # "stalled" /\ transfer'[p].stage = "stalled" =>
               /\ Len(log') = NextSequence
               /\ \/ Len(transfer[p].catchup) = MaxCatchupPackets
                  \/ Cardinality(QueuedFrames(transfer[p].catchup)) + log'[NextSequence]
                        > MaxCatchupFrames]_vars
    BY StallStep
  <1> QED
    BY <1>1, AuthorityInvariant, PTL DEF Spec, StallsOnlyOnOverflow

-----------------------------------------------------------------------------
(* DamageCommits.  Its structure is one StructureProofs speaks about.      *)

Joint == INSTANCE StructureProofs WITH
  Voxels <- Plane, Anchors <- Anchored,
  Neighbors <- [c \in Plane |-> Range(Neighbors2(c))], ChunkOf <- [c \in Plane |-> 0]

-----------------------------------------------------------------------------
(* The plane.                                                              *)

Xs == 0..Columns - 1
Ys == 0..Levels - 1

LEMMA Dimensions == Columns \in Nat \ {0} /\ Levels \in Nat \ {0}
  BY DamageAssumption DEF DamageAssumption

(* A cell is the only one of its column and level.                         *)
LEMMA CellHasPlace ==
  ASSUME NEW c \in Plane
  PROVE  /\ ColumnOf(c) \in Xs /\ LevelOf(c) \in Ys
         /\ c = CellAt2(ColumnOf(c), LevelOf(c))
  <1> DEFINE q == (c - 1) \div Levels
             r == (c - 1) % Levels
  <1>1. c \in Int /\ 1 <= c /\ c <= Columns * Levels /\ Columns \in Int /\ Levels \in Int
        /\ Columns > 0 /\ Levels > 0
    BY Dimensions DEF Plane
  <1>2. q \in Int /\ r \in Int /\ c - 1 = Levels * q + r /\ 0 <= r /\ r < Levels
    BY <1>1
  <1>3. 0 <= q
    <2>1. SUFFICES ASSUME q <= -1 PROVE FALSE
      BY <1>2
    <2>2. Levels * q <= Levels * (-1)
      BY <1>1, <1>2, <2>1
    <2> QED
      BY <1>1, <1>2, <2>2
  <1>4. q < Columns
    <2>1. SUFFICES ASSUME Columns <= q PROVE FALSE
      BY <1>1, <1>2
    <2>2. Levels * Columns <= Levels * q
      BY <1>1, <1>2, <2>1
    <2> QED
      BY <1>1, <1>2, <2>2
  <1> QED
    BY <1>1, <1>2, <1>3, <1>4 DEF ColumnOf, LevelOf, CellAt2, Xs, Ys

LEMMA PlaceHasCell ==
  ASSUME NEW x \in Xs, NEW y \in Ys
  PROVE  /\ CellAt2(x, y) \in Plane
         /\ ColumnOf(CellAt2(x, y)) = x /\ LevelOf(CellAt2(x, y)) = y
  <1> DEFINE k == x * Levels + y
  <1>1. /\ x \in Int /\ y \in Int /\ 0 <= x /\ x < Columns /\ 0 <= y /\ y < Levels
        /\ Columns \in Int /\ Levels \in Int /\ Columns > 0 /\ Levels > 0
    BY Dimensions DEF Xs, Ys
  <1>2. k \in Int /\ 0 <= x * Levels /\ x * Levels <= (Columns - 1) * Levels
    BY <1>1
  <1>3. k + 1 \in Plane
    BY <1>1, <1>2 DEF Plane
  <1>4. k \div Levels = x /\ k % Levels = y
    <2> DEFINE q == k \div Levels
               r == k % Levels
    <2>1. q \in Int /\ r \in Int /\ k = Levels * q + r /\ 0 <= r /\ r < Levels
      BY <1>1, <1>2
    <2>2. Levels * (q - x) = y - r
      BY <1>1, <2>1
    <2>3. ~(q > x)
      <3>1. SUFFICES ASSUME q - x >= 1 PROVE FALSE
        BY <1>1, <2>1
      <3>2. Levels * (q - x) >= Levels * 1
        BY <1>1, <2>1, <3>1
      <3> QED
        BY <1>1, <2>1, <2>2, <3>2
    <2>4. ~(q < x)
      <3>1. SUFFICES ASSUME q - x <= -1 PROVE FALSE
        BY <1>1, <2>1
      <3>2. Levels * (q - x) <= Levels * (-1)
        BY <1>1, <2>1, <3>1
      <3> QED
        BY <1>1, <2>1, <2>2, <3>2
    <2>5. q = x
      BY <1>1, <2>1, <2>3, <2>4
    <2> QED
      BY <1>1, <2>1, <2>5
  <1> QED
    BY <1>1, <1>3, <1>4 DEF CellAt2, ColumnOf, LevelOf

-----------------------------------------------------------------------------
(* The neighbours of a cell.                                               *)

RangeOf(seq) == {seq[i] : i \in 1..Len(seq)}

LEMMA RangeIs ==
  ASSUME NEW S, NEW seq \in Seq(S)
  PROVE  Range(seq) = RangeOf(seq) /\ DOMAIN seq = 1..Len(seq) /\ Range(seq) \subseteq S
  BY DEF Range, RangeOf

(* One more element.                                                       *)
LEMMA OneMore ==
  ASSUME NEW S, NEW seq \in Seq(S), Distinct(seq), NEW e \in S, e \notin RangeOf(seq)
  PROVE  /\ seq \o <<e>> \in Seq(S) /\ Distinct(seq \o <<e>>)
         /\ RangeOf(seq \o <<e>>) = RangeOf(seq) \cup {e}
  <1> DEFINE t == <<e>>
             new == seq \o t
             n == Len(seq)
  <1>1. t \in Seq(S) /\ Len(t) = 1 /\ t[1] = e /\ n \in Nat
    OBVIOUS
  <1>2. /\ new \in Seq(S) /\ Len(new) = n + 1
        /\ \A i \in 1..n + 1 : new[i] = IF i <= n THEN seq[i] ELSE t[i - n]
    BY <1>1, ConcatProperties
  <1>3. new[n + 1] = e /\ \A i \in 1..n : new[i] = seq[i]
    BY <1>1, <1>2
  <1> HIDE DEF new
  <1>4. Distinct(new)
    <2>1. SUFFICES ASSUME NEW i \in 1..n + 1, NEW j \in 1..n + 1, new[i] = new[j], i # j
                   PROVE  FALSE
      BY <1>2 DEF Distinct
    <2>2. CASE i \in 1..n /\ j \in 1..n
      BY <1>3, <2>1, <2>2 DEF Distinct
    <2>3. CASE i = n + 1 /\ j \in 1..n
      BY <1>3, <2>1, <2>3 DEF RangeOf
    <2>4. CASE i \in 1..n /\ j = n + 1
      BY <1>3, <2>1, <2>4 DEF RangeOf
    <2> QED
      BY <1>1, <2>1, <2>2, <2>3, <2>4
  <1>5. RangeOf(new) = RangeOf(seq) \cup {e}
    <2>1. 1..n + 1 = 1..n \cup {n + 1}
      BY <1>1
    <2> QED
      BY <1>2, <1>3, <2>1 DEF RangeOf
  <1> QED
    BY <1>2, <1>4, <1>5 DEF new

Beside(c, d) ==
  \/ LevelOf(c) > 0 /\ d = c - 1
  \/ ColumnOf(c) > 0 /\ d = c - Levels
  \/ ColumnOf(c) < Columns - 1 /\ d = c + Levels
  \/ LevelOf(c) < Levels - 1 /\ d = c + 1

LEMMA BesideIsPlace ==
  ASSUME NEW c \in Plane, NEW d, Beside(c, d)
  PROVE  d \in Plane /\ Beside(d, c)
  <1> DEFINE x == ColumnOf(c)
             y == LevelOf(c)
  <1>1. x \in Xs /\ y \in Ys /\ c = x * Levels + y + 1
    BY CellHasPlace DEF CellAt2
  <1>2. /\ x \in Int /\ y \in Int /\ 0 <= x /\ x < Columns /\ 0 <= y /\ y < Levels
        /\ Columns \in Int /\ Levels \in Int
    BY <1>1, Dimensions DEF Xs, Ys
  <1>3. /\ (x + 1) * Levels = x * Levels + Levels
        /\ (x - 1) * Levels = x * Levels - Levels
        /\ x * Levels \in Int
    BY <1>2
  <1> HIDE DEF x, y
  <1>4. CASE y > 0 /\ d = c - 1
    <2>1. d = CellAt2(x, y - 1) /\ y - 1 \in Ys
      BY <1>1, <1>2, <1>3, <1>4 DEF CellAt2, Ys
    <2>2. d \in Plane /\ ColumnOf(d) = x /\ LevelOf(d) = y - 1
      BY <1>1, <2>1, PlaceHasCell
    <2> QED
      BY <1>1, <1>2, <1>3, <1>4, <2>2 DEF Beside
  <1>5. CASE x > 0 /\ d = c - Levels
    <2>1. d = CellAt2(x - 1, y) /\ x - 1 \in Xs
      BY <1>1, <1>2, <1>3, <1>5 DEF CellAt2, Xs
    <2>2. d \in Plane /\ ColumnOf(d) = x - 1 /\ LevelOf(d) = y
      BY <1>1, <2>1, PlaceHasCell
    <2> QED
      BY <1>1, <1>2, <1>3, <1>5, <2>2 DEF Beside
  <1>6. CASE x < Columns - 1 /\ d = c + Levels
    <2>1. d = CellAt2(x + 1, y) /\ x + 1 \in Xs
      BY <1>1, <1>2, <1>3, <1>6 DEF CellAt2, Xs
    <2>2. d \in Plane /\ ColumnOf(d) = x + 1 /\ LevelOf(d) = y
      BY <1>1, <2>1, PlaceHasCell
    <2> QED
      BY <1>1, <1>2, <1>3, <1>6, <2>2 DEF Beside
  <1>7. CASE y < Levels - 1 /\ d = c + 1
    <2>1. d = CellAt2(x, y + 1) /\ y + 1 \in Ys
      BY <1>1, <1>2, <1>3, <1>7 DEF CellAt2, Ys
    <2>2. d \in Plane /\ ColumnOf(d) = x /\ LevelOf(d) = y + 1
      BY <1>1, <2>1, PlaceHasCell
    <2> QED
      BY <1>1, <1>2, <1>3, <1>7, <2>2 DEF Beside
  <1> QED
    BY <1>4, <1>5, <1>6, <1>7 DEF Beside, x, y

LEMMA NeighborsAre ==
  ASSUME NEW c \in Plane
  PROVE  /\ Neighbors2(c) \in Seq(Plane) /\ Distinct(Neighbors2(c))
         /\ \A d : d \in Range(Neighbors2(c)) <=> Beside(c, d)
  <1> DEFINE down == LevelOf(c) > 0
             left == ColumnOf(c) > 0
             right == ColumnOf(c) < Columns - 1
             up == LevelOf(c) < Levels - 1
             s1 == IF down THEN <<c - 1>> ELSE <<>>
             s2 == s1 \o (IF left THEN <<c - Levels>> ELSE <<>>)
             s3 == s2 \o (IF right THEN <<c + Levels>> ELSE <<>>)
             s4 == s3 \o (IF up THEN <<c + 1>> ELSE <<>>)
  <1>1. /\ down => c - 1 \in Plane
        /\ left => c - Levels \in Plane
        /\ right => c + Levels \in Plane
        /\ up => c + 1 \in Plane
    BY BesideIsPlace DEF Beside
  <1>2. /\ c \in Int /\ Levels \in Int /\ Levels > 0
        /\ down => Levels > 1
    <2>1. LevelOf(c) \in Ys
      BY CellHasPlace
    <2> QED
      BY <2>1, Dimensions DEF Plane, Ys
  <1>3. /\ down \in BOOLEAN /\ left \in BOOLEAN /\ right \in BOOLEAN /\ up \in BOOLEAN
    OBVIOUS
  <1> DEFINE Good(s, E) == s \in Seq(Plane) /\ Distinct(s) /\ RangeOf(s) = E
             e1 == IF down THEN {c - 1} ELSE {}
             e2 == e1 \cup (IF left THEN {c - Levels} ELSE {})
             e3 == e2 \cup (IF right THEN {c + Levels} ELSE {})
             e4 == e3 \cup (IF up THEN {c + 1} ELSE {})
  <1> HIDE DEF down, left, right, up
  <1>4. Good(s1, e1)
    <2>1. Good(<<>>, {})
      BY DEF Distinct, RangeOf
    <2>2. down => Good(<<c - 1>>, {c - 1})
      BY <1>1 DEF Distinct, RangeOf
    <2> QED
      BY <1>3, <2>1, <2>2
  <1>5. Good(s2, e2)
    <2>1. CASE ~left
      <3>1. s1 \o <<>> = s1
        BY <1>4, ConcatEmptySeq
      <3> HIDE DEF s1, e1
      <3> QED
        BY <1>4, <2>1, <3>1
    <2>2. CASE left
      <3>1. c - Levels \in Plane /\ c - Levels \notin e1
        BY <1>1, <1>2, <2>2
      <3>2. Good(s1 \o <<c - Levels>>, e1 \cup {c - Levels})
        <4> HIDE DEF s1, e1
        <4> QED
          BY <1>4, <3>1, OneMore
      <3> HIDE DEF s1, e1
      <3> QED
        BY <2>2, <3>2
    <2> QED
      BY <2>1, <2>2
  <1>6. Good(s3, e3)
    <2>1. CASE ~right
      <3>1. s2 \o <<>> = s2
        BY <1>5, ConcatEmptySeq
      <3> HIDE DEF s2, e2
      <3> QED
        BY <1>5, <2>1, <3>1
    <2>2. CASE right
      <3>1. c + Levels \in Plane /\ c + Levels \notin e2
        BY <1>1, <1>2, <2>2
      <3>2. Good(s2 \o <<c + Levels>>, e2 \cup {c + Levels})
        <4> HIDE DEF s2, e2
        <4> QED
          BY <1>5, <3>1, OneMore
      <3> HIDE DEF s2, e2
      <3> QED
        BY <2>2, <3>2
    <2> QED
      BY <2>1, <2>2
  <1>7. Good(s4, e4)
    <2>1. CASE ~up
      <3>1. s3 \o <<>> = s3
        BY <1>6, ConcatEmptySeq
      <3> HIDE DEF s3, e3
      <3> QED
        BY <1>6, <2>1, <3>1
    <2>2. CASE up
      <3>0. Levels # 1
        BY <1>2, <2>2, CellHasPlace DEF up, Ys
      <3>1. c + 1 \in Plane /\ c + 1 \notin e3
        BY <1>1, <1>2, <2>2, <3>0
      <3>2. Good(s3 \o <<c + 1>>, e3 \cup {c + 1})
        <4> HIDE DEF s3, e3
        <4> QED
          BY <1>6, <3>1, OneMore
      <3> HIDE DEF s3, e3
      <3> QED
        BY <2>2, <3>2
    <2> QED
      BY <2>1, <2>2
  <1>8. Neighbors2(c) = s4
    BY DEF Neighbors2, down, left, right, up
  <1>9. \A d : d \in e4 <=> Beside(c, d)
    BY DEF Beside, down, left, right, up
  <1> HIDE DEF s4, e4
  <1>10. Range(Neighbors2(c)) = e4
    BY <1>7, <1>8, RangeIs
  <1> QED
    BY <1>7, <1>8, <1>9, <1>10

-----------------------------------------------------------------------------
(* The plane is a structure, about which StructureProofs speaks.           *)

LEMMA PlaneIsFinite == IsFiniteSet(Plane) /\ Cardinality(Plane) = Columns * Levels
  <1>1. Columns * Levels \in Nat
    BY Dimensions
  <1> QED
    BY <1>1, FS_Interval DEF Plane

LEMMA PlaneIsStructure == Joint!StructureAssumption
  <1> DEFINE N == [c \in Plane |-> Range(Neighbors2(c))]
  <1>1. Plane \subseteq Nat
    BY DEF Plane
  <1>2. Joint!IsFiniteSet(Plane)
    BY PlaneIsFinite DEF Joint!IsFiniteSet, IsFiniteSet
  <1>3. N \in [Plane -> SUBSET Plane]
    <2>1. \A c \in Plane : Range(Neighbors2(c)) \subseteq Plane
      BY NeighborsAre, BesideIsPlace
    <2> QED
      BY <2>1
  <1>4. \A v, w \in Plane : w \in N[v] <=> v \in N[w]
    BY NeighborsAre, BesideIsPlace
  <1>5. Anchored \subseteq Plane
    BY DEF Anchored
  <1>6. DOMAIN [c \in Plane |-> 0] = Plane
    OBVIOUS
  <1> HIDE DEF N
  <1> QED
    BY <1>1, <1>2, <1>3, <1>4, <1>5, <1>6 DEF Joint!StructureAssumption, N

LEMMA SameSearch ==
  /\ \A S, v, through : Below!Reached(S, v, through) = Joint!Reached(S, v, through)
  /\ \A w, c : Below!LoadDomain(w, c) = Joint!LoadDomain(w, c)
  /\ \A D, c : Below!Debris(D, c) = Joint!Debris(D, c)
  <1>1. \A S, v, through : Below!Reached(S, v, through) = Joint!Reached(S, v, through)
    BY DEF Below!Reached, Joint!Reached, Below!AdjacentTo, Joint!AdjacentTo,
           Below!Cardinality, Joint!Cardinality
  <1>2. \A w, c : Below!LoadDomain(w, c) = Joint!LoadDomain(w, c)
    BY <1>1 DEF Below!LoadDomain, Joint!LoadDomain
  <1>3. \A D, c : Below!Debris(D, c) = Joint!Debris(D, c)
    BY <1>1 DEF Below!Debris, Joint!Debris, Below!UnsupportedPieces, Joint!UnsupportedPieces
  <1> QED
    BY <1>1, <1>2, <1>3

(* Nothing in S is next to X and not in it.                                *)
ClosedIn(S, X) == \A d \in X, e \in S : Beside(d, e) => e \in X

Piece(S, c) == Joint!Piece(S, c)

LEMMA AdjacentIsBeside ==
  ASSUME NEW X, X \subseteq Plane, NEW e
  PROVE  e \in Joint!AdjacentTo(X) <=> \E d \in X : Beside(d, e)
  BY NeighborsAre DEF Joint!AdjacentTo

LEMMA PieceIsClosed ==
  ASSUME NEW S, S \subseteq Plane, NEW c \in S
  PROVE  c \in Piece(S, c) /\ Piece(S, c) \subseteq S /\ ClosedIn(S, Piece(S, c))
  <1>1. /\ c \in Joint!Piece(S, c)
        /\ Joint!Piece(S, c) \subseteq S
        /\ S \cap Joint!AdjacentTo(Joint!Piece(S, c)) \subseteq Joint!Piece(S, c)
    BY PlaneIsStructure, Joint!PieceOfVoxel DEF Joint!PieceOfVoxel
  <1>2. \A e : e \in Joint!AdjacentTo(Joint!Piece(S, c)) <=> \E d \in Joint!Piece(S, c) : Beside(d, e)
    BY <1>1, AdjacentIsBeside
  <1> QED
    BY <1>1, <1>2 DEF Piece, ClosedIn

LEMMA PieceIsLeast ==
  ASSUME NEW S, S \subseteq Plane, NEW X, X \subseteq S, ClosedIn(S, X), NEW c \in X
  PROVE  Piece(S, c) \subseteq X
  <1>1. X \subseteq Plane /\ \A e : e \in Joint!AdjacentTo(X) <=> \E d \in X : Beside(d, e)
    BY AdjacentIsBeside
  <1>2. S \cap Joint!AdjacentTo(X) \subseteq X
    BY <1>1 DEF ClosedIn
  <1>3. Joint!Piece(S, c) \subseteq X
    BY <1>2, PlaneIsStructure, Joint!PieceIsLeast DEF Joint!PieceIsLeast
  <1> QED
    BY <1>3 DEF Piece

LEMMA PieceFromWithin ==
  ASSUME NEW S, S \subseteq Plane, NEW c \in S, NEW d \in Piece(S, c)
  PROVE  d \in S /\ Piece(S, d) = Piece(S, c)
  BY PlaneIsStructure, Joint!PieceFromWithin DEF Joint!PieceFromWithin, Piece

-----------------------------------------------------------------------------
(* The search from one seed.                                               *)

Cells == Columns * Levels

LEMMA CellsAreNumbers == Cells \in Nat /\ Plane = 1..Cells
  BY Dimensions DEF Cells, Plane

(* The first m cells that are taken from the queue.                        *)
Visits(f, m, w, seed, known, visited) ==
  /\ DOMAIN f = 0..m
  /\ f[0] = [order |-> <<seed>>, end |-> "open"]
  /\ \A n \in 1..m : f[n] = Advanced(w, f[n - 1], n, known, visited)

LEMMA VisitsExist ==
  ASSUME NEW w, NEW seed, NEW known, NEW visited, NEW m \in Nat
  PROVE  \E f : Visits(f, m, w, seed, known, visited)
  <1> DEFINE Good(k) == \E f : Visits(f, k, w, seed, known, visited)
             Bad == {k \in Nat : ~Good(k)}
  <1>1. SUFFICES ASSUME m \in Bad PROVE FALSE
    OBVIOUS
  <1>2. Bad \subseteq Nat
    OBVIOUS
  <1> HIDE DEF Bad
  <1>3. PICK k \in Bad : \A j \in Bad : k <= j
    BY <1>1, <1>2, LeastOfNaturals
  <1>4. k \in Nat /\ ~Good(k)
    BY <1>3 DEF Bad
  <1>5. CASE k = 0
    <2> DEFINE f == [n \in 0..0 |-> [order |-> <<seed>>, end |-> "open"]]
    <2>1. DOMAIN f = 0..k /\ 1..k = {} /\ f[0] = [order |-> <<seed>>, end |-> "open"]
      BY <1>5
    <2> HIDE DEF f
    <2>2. Good(k)
      BY <2>1 DEF Visits
    <2> QED
      BY <1>4, <2>2
  <1>6. CASE k # 0
    <2>1. k - 1 \in Nat /\ ~(k <= k - 1)
      BY <1>4, <1>6
    <2>2. Good(k - 1)
      BY <1>3, <2>1 DEF Bad
    <2>3. PICK f : /\ DOMAIN f = 0..k - 1
                   /\ f[0] = [order |-> <<seed>>, end |-> "open"]
                   /\ \A n \in 1..k - 1 : f[n] = Advanced(w, f[n - 1], n, known, visited)
      BY <2>2 DEF Visits
    <2> DEFINE g == [n \in 0..k |-> IF n = k THEN Advanced(w, f[k - 1], k, known, visited)
                                    ELSE f[n]]
    <2>4. DOMAIN g = 0..k
      OBVIOUS
    <2>5. g[0] = f[0]
      BY <1>4, <1>6
    <2>6. \A n \in 1..k - 1 : g[n] = f[n] /\ g[n - 1] = f[n - 1]
      BY <1>4, <1>6
    <2>7. g[k] = Advanced(w, f[k - 1], k, known, visited) /\ g[k - 1] = f[k - 1]
      BY <1>4, <1>6
    <2>8. \A n \in 1..k : n = k \/ n \in 1..k - 1
      BY <1>4
    <2> HIDE DEF g
    <2>9. \A n \in 1..k : g[n] = Advanced(w, g[n - 1], n, known, visited)
      BY <2>3, <2>6, <2>7, <2>8
    <2>10. Good(k)
      BY <2>3, <2>4, <2>5, <2>9 DEF Visits
    <2> QED
      BY <1>4, <2>10
  <1> QED
    BY <1>5, <1>6

LEMMA ClassifyVisits ==
  ASSUME NEW w, NEW seed, NEW known, NEW visited
  PROVE  \E f : /\ Visits(f, Cells, w, seed, known, visited)
                /\ ClassifyComponent(w, seed, known, visited) = f[Cells]
  <1> DEFINE Start == [order |-> <<seed>>, end |-> "open"]
             Rec(f) == [n \in 0..Cells |->
                          IF n = 0 THEN Start ELSE Advanced(w, f[n - 1], n, known, visited)]
             state == CHOOSE f : f = Rec(f)
  <1> HIDE DEF Start
  <1>1. Cells \in Nat /\ Cells \in 0..Cells
    BY CellsAreNumbers
  <1>2. PICK f : Visits(f, Cells, w, seed, known, visited)
    BY <1>1, VisitsExist
  <1>3. \A n \in 0..Cells : n = 0 \/ n \in 1..Cells
    BY <1>1
  <1> DEFINE g == Rec(f)
  <1>4. g = Rec(g)
    <2>1. \A n \in 0..Cells : g[n] = f[n]
      BY <1>2, <1>3 DEF Visits, Start
    <2>2. \A n \in 1..Cells : n - 1 \in 0..Cells
      BY <1>1
    <2>3. \A n \in 1..Cells : g[n - 1] = f[n - 1]
      BY <2>1, <2>2
    <2> HIDE DEF g
    <2>4. Rec(g) = Rec(f)
      BY <2>3, <1>3
    <2> QED
      BY <2>4 DEF g
  <1>5. state = Rec(state)
    BY <1>4
  <1>6. ClassifyComponent(w, seed, known, visited) = state[Cells]
    BY DEF ClassifyComponent, Cells, Start
  <1> HIDE DEF state
  <1>7. DOMAIN state = 0..Cells /\ state[0] = Start
    BY <1>1, <1>5
  <1>8. \A n \in 1..Cells : state[n] = Advanced(w, state[n - 1], n, known, visited)
    <2> SUFFICES ASSUME NEW n \in 1..Cells
                 PROVE  state[n] = Advanced(w, state[n - 1], n, known, visited)
      OBVIOUS
    <2>1. n \in 0..Cells /\ n # 0
      BY <1>1
    <2>2. state[n] = Rec(state)[n]
      BY <1>5
    <2> QED
      BY <2>1, <2>2
  <1>9. Visits(state, Cells, w, seed, known, visited)
    BY <1>7, <1>8 DEF Visits, Start
  <1> QED
    BY <1>6, <1>9

(* The least of a set of naturals.                                         *)
LEMMA MinIs ==
  ASSUME NEW S, S \subseteq Nat, S # {}
  PROVE  Min(S) \in S /\ \A y \in S : Min(S) <= y
  <1>1. \E m \in S : \A y \in S : m <= y
    BY LeastOfNaturals
  <1> QED
    BY <1>1 DEF Min

LEMMA LookedAtIs ==
  ASSUME NEW next \in Seq(Plane), Distinct(next), NEW known
  PROVE  /\ LookedAt(next, known) \in Seq(Plane) /\ Distinct(LookedAt(next, known))
         /\ RangeOf(LookedAt(next, known)) \subseteq RangeOf(next)
         /\ RangeOf(next) \cap Supporting(known) = {} => LookedAt(next, known) = next
  <1> DEFINE X == {i \in DOMAIN next : next[i] \in Supporting(known)} \cup {Len(next) + 1}
             k == Min(X) - 1
  <1>1. Len(next) \in Nat /\ DOMAIN next = 1..Len(next)
    OBVIOUS
  <1>2. X \subseteq Nat /\ X # {} /\ X \subseteq 1..Len(next) + 1
    BY <1>1
  <1>3. Min(X) \in X
    <2> HIDE DEF X
    <2> QED
      BY <1>2, MinIs
  <1>4. k \in 0..Len(next)
    <2>1. Min(X) \in 1..Len(next) + 1
      BY <1>2, <1>3
    <2> HIDE DEF X
    <2> DEFINE m == Min(X)
    <2>2. m \in 1..Len(next) + 1
      BY <2>1
    <2> HIDE DEF m
    <2>3. m - 1 \in 0..Len(next)
      BY <1>1, <2>2
    <2> QED
      BY <2>3 DEF m
  <1>5. LookedAt(next, known) = SubSeq(next, 1, k)
    BY DEF LookedAt
  <1>6. RangeOf(next) \cap Supporting(known) = {} => k = Len(next)
    <2>1. SUFFICES ASSUME RangeOf(next) \cap Supporting(known) = {}
                   PROVE  X = {Len(next) + 1}
      <3> HIDE DEF X
      <3> QED
        BY <1>1, <1>3
    <2> QED
      BY <1>1, <2>1 DEF RangeOf
  <1> HIDE DEF X, k
  <1>7. \A i \in 1..k : next[i] \in Plane /\ i \in 1..Len(next)
    BY <1>1, <1>4
  <1>8. /\ SubSeq(next, 1, k) \in Seq(Plane) /\ Len(SubSeq(next, 1, k)) = k
        /\ \A i \in 1..k : SubSeq(next, 1, k)[i] = next[i]
    BY <1>4, <1>7, SubSeqProperties
  <1>9. Distinct(SubSeq(next, 1, k)) /\ RangeOf(SubSeq(next, 1, k)) \subseteq RangeOf(next)
    BY <1>7, <1>8 DEF Distinct, RangeOf
  <1>10. SubSeq(next, 1, Len(next)) = next
    BY SubSeqFull
  <1> QED
    BY <1>5, <1>6, <1>8, <1>9, <1>10

(* A queue and what it grows by.                                           *)
LEMMA Joins ==
  ASSUME NEW S, NEW s \in Seq(S), Distinct(s), NEW t \in Seq(S), Distinct(t),
         RangeOf(s) \cap RangeOf(t) = {}
  PROVE  /\ s \o t \in Seq(S) /\ Distinct(s \o t)
         /\ RangeOf(s \o t) = RangeOf(s) \cup RangeOf(t)
         /\ Len(s \o t) = Len(s) + Len(t)
         /\ \A i \in 1..Len(s) : (s \o t)[i] = s[i]
  <1> DEFINE u == s \o t
             m == Len(s)
             n == Len(t)
  <1>1. m \in Nat /\ n \in Nat
    OBVIOUS
  <1>2. /\ u \in Seq(S) /\ Len(u) = m + n
        /\ \A i \in 1..m + n : u[i] = IF i <= m THEN s[i] ELSE t[i - m]
    BY ConcatProperties
  <1> HIDE DEF u, m, n
  <1>3. \A i \in 1..m : i \in 1..m + n /\ u[i] = s[i]
    BY <1>1, <1>2
  <1>4. \A j \in 1..n : m + j \in 1..m + n /\ u[m + j] = t[j]
    BY <1>1, <1>2
  <1>5. \A i \in 1..m + n : i \in 1..m \/ \E j \in 1..n : i = m + j
    <2> SUFFICES ASSUME NEW i \in 1..m + n, i \notin 1..m PROVE i - m \in 1..n /\ i = m + (i - m)
      OBVIOUS
    <2> QED
      BY <1>1
  <1>6. RangeOf(u) = RangeOf(s) \cup RangeOf(t)
    <2>1. RangeOf(s) = {s[i] : i \in 1..m} /\ RangeOf(t) = {t[j] : j \in 1..n}
          /\ RangeOf(u) = {u[i] : i \in 1..m + n}
      BY <1>2 DEF RangeOf, m, n
    <2> QED
      BY <2>1, <1>3, <1>4, <1>5
  <1>7. Distinct(u)
    <2>1. SUFFICES ASSUME NEW i \in 1..m + n, NEW j \in 1..m + n, u[i] = u[j] PROVE i = j
      BY <1>2 DEF Distinct
    <2>2. \A a \in 1..m, b \in 1..n : s[a] # t[b]
      BY DEF RangeOf, m, n
    <2>3. \A a, b \in 1..m : s[a] = s[b] => a = b
      BY DEF Distinct, m
    <2>4. \A a, b \in 1..n : t[a] = t[b] => a = b
      BY DEF Distinct, n
    <2>5. CASE i \in 1..m /\ j \in 1..m
      BY <1>3, <2>1, <2>3, <2>5
    <2>6. CASE i \in 1..m /\ j \notin 1..m
      BY <1>3, <1>4, <1>5, <2>1, <2>2, <2>6
    <2>7. CASE i \notin 1..m /\ j \in 1..m
      BY <1>3, <1>4, <1>5, <2>1, <2>2, <2>7
    <2>8. CASE i \notin 1..m /\ j \notin 1..m
      <3>1. PICK a \in 1..n, b \in 1..n : i = m + a /\ j = m + b
        BY <1>5, <2>1, <2>8
      <3> QED
        BY <1>4, <2>1, <2>4, <3>1
    <2> QED
      BY <2>5, <2>6, <2>7, <2>8
  <1> QED
    BY <1>2, <1>3, <1>6, <1>7 DEF u, m, n

LEMMA DistinctIsShort ==
  ASSUME NEW seq \in Seq(Plane), Distinct(seq)
  PROVE  Len(seq) <= Cells
  <1> DEFINE n == Len(seq)
  <1>1. n \in Nat /\ DOMAIN seq = 1..n /\ seq = [i \in 1..n |-> seq[i]]
    OBVIOUS
  <1>2. IsFiniteSet(1..n) /\ Cardinality(1..n) = n
    <2>1. n \in Nat
      BY <1>1
    <2> HIDE DEF n
    <2>2. IsFiniteSet(1..n) /\ Cardinality(1..n) = IF 1 > n THEN 0 ELSE n - 1 + 1
      BY <2>1, FS_Interval
    <2> QED
      BY <2>1, <2>2
  <1>3. seq \in Injection(1..n, Plane)
    <2>1. seq \in [1..n -> Plane]
      BY <1>1
    <2>2. \A i, j \in 1..n : seq[i] = seq[j] => i = j
      BY DEF Distinct
    <2> QED
      BY <2>1, <2>2 DEF Injection, IsInjective
  <1>4. Cardinality(1..n) <= Cardinality(Plane)
    BY <1>2, <1>3, PlaneIsFinite, FS_Injection
  <1> QED
    BY <1>2, <1>4, PlaneIsFinite DEF Cells

(* What is known of some components of S.                                  *)
KnownFits(S, known) ==
  /\ DOMAIN known \subseteq S
  /\ \A c \in Supporting(known) : Piece(S, c) \cap Anchored # {}
  /\ \A c \in DOMAIN known \ Supporting(known) :
       /\ Piece(S, c) \subseteq DOMAIN known
       /\ Piece(S, c) \cap Anchored = {}

(* The search of S from the seed, when the first n cells were visited.     *)
Searching(s, n, S, seed, known) ==
  /\ s = [order |-> s.order, end |-> s.end]
  /\ s.order \in Seq(Plane) /\ Len(s.order) >= 1 /\ s.order[1] = seed
  /\ RangeOf(s.order) \subseteq Piece(S, seed) \ DOMAIN known
  /\ s.end \in {"open", "supported", "error"}
  /\ s.end = "supported" => Piece(S, seed) \cap Anchored # {}
  /\ s.end = "open" =>
       /\ Distinct(s.order)
       /\ \A i \in 1..Len(s.order) : i <= n =>
            /\ s.order[i] \notin Anchored
            /\ \A e \in S : Beside(s.order[i], e) => e \in RangeOf(s.order)

LEMMA VisitFits ==
  ASSUME NEW w, NEW known, KnownFits(SolidIn(w), known),
         NEW seed \in SolidIn(w), NEW visited, NEW n \in Nat \ {0}, NEW s,
         Searching(s, n - 1, SolidIn(w), seed, known)
  PROVE  Searching(Advanced(w, s, n, known, visited), n, SolidIn(w), seed, known)
  <1> DEFINE S == SolidIn(w)
             P == Piece(S, seed)
             new == Advanced(w, s, n, known, visited)
  <1>1. S \subseteq Plane /\ P \subseteq S /\ ClosedIn(S, P)
    BY PieceIsClosed DEF SolidIn
  <1> HIDE DEF S
  <1>2. /\ s = [order |-> s.order, end |-> s.end]
        /\ s.order \in Seq(Plane) /\ Len(s.order) \in Nat \ {0} /\ s.order[1] = seed
        /\ RangeOf(s.order) \subseteq P \ DOMAIN known
        /\ s.end \in {"open", "supported", "error"}
        /\ s.end = "supported" => P \cap Anchored # {}
    BY DEF Searching, S
  <1>3. CASE ~(s.end = "open" /\ n <= Len(s.order))
    <2>1. new = s
      BY <1>3 DEF Advanced
    <2>2. s.end = "open" => \A i \in 1..Len(s.order) : i <= n => i <= n - 1
      BY <1>2, <1>3
    <2> HIDE DEF new
    <2>3. Searching(s, n, S, seed, known)
      BY <2>2 DEF Searching, S
    <2> QED
      BY <2>1, <2>3 DEF S, new
  <1>4. CASE s.end = "open" /\ n <= Len(s.order)
    <2> DEFINE here == s.order[n]
               next == Neighbors2(here)
               wanted == SolidIn(w) \ (DOMAIN known \cup Range(s.order))
               fresh == Kept(LookedAt(next, known), wanted)
               failed == [s EXCEPT !.end = "error"]
               found == [order |-> SubSeq(s.order, 1, n), end |-> "supported"]
               longer == [s EXCEPT !.order = @ \o fresh]
               held == here \in Anchored \/ Range(next) \cap Supporting(known) # {}
    <2>1. \/ new = failed
          \/ held /\ new = found
          \/ ~held /\ new = longer
      BY <1>4 DEF Advanced, Visit
    <2> HIDE DEF new
    <2>2. n \in 1..Len(s.order) /\ here \in P /\ here \notin DOMAIN known /\ here \in Plane
      BY <1>1, <1>2, <1>4 DEF RangeOf
    <2>3. /\ next \in Seq(Plane) /\ Distinct(next) /\ Range(next) = RangeOf(next)
          /\ \A d : d \in Range(next) <=> Beside(here, d)
      BY <2>2, NeighborsAre, RangeIs
    <2>4. CASE new = failed
      <3>1. failed.order = s.order /\ failed.end = "error"
            /\ failed = [order |-> s.order, end |-> "error"]
        BY <1>2
      <3> HIDE DEF failed
      <3>2. Searching(failed, n, S, seed, known)
        BY <1>2, <3>1 DEF Searching, S
      <3> QED
        BY <2>4, <3>2 DEF new, S
    <2>5. CASE held /\ new = found
      <3> HIDE DEF next
      <3>1. P \cap Anchored # {}
        <4>1. CASE here \in Anchored
          BY <2>2, <4>1
        <4>2. CASE Range(next) \cap Supporting(known) # {}
          <5>1. PICK d \in Range(next) : d \in Supporting(known)
            BY <4>2
          <5>2. d \in S /\ Beside(here, d) /\ Piece(S, d) \cap Anchored # {}
            BY <2>3, <5>1 DEF KnownFits, Supporting, S
          <5>3. d \in P
            BY <1>1, <2>2, <5>2 DEF ClosedIn
          <5>4. Piece(S, d) = P
            BY <1>1, <5>3, PieceFromWithin DEF S
          <5> QED
            BY <5>2, <5>4
        <4> QED
          BY <2>5, <4>1, <4>2
      <3>2. /\ SubSeq(s.order, 1, n) \in Seq(Plane) /\ Len(SubSeq(s.order, 1, n)) = n
            /\ \A i \in 1..n : SubSeq(s.order, 1, n)[i] = s.order[i] /\ i \in 1..Len(s.order)
        <4>1. \A i \in 1..n : s.order[i] \in Plane /\ i \in 1..Len(s.order)
          BY <1>2, <2>2
        <4> QED
          BY <1>2, <4>1, SubSeqProperties
      <3>3. RangeOf(SubSeq(s.order, 1, n)) \subseteq P \ DOMAIN known
        BY <1>2, <3>2 DEF RangeOf
      <3>4. SubSeq(s.order, 1, n)[1] = seed
        BY <1>2, <3>2
      <3> DEFINE taken == SubSeq(s.order, 1, n)
      <3> HIDE DEF taken
      <3>5. new = [order |-> taken, end |-> "supported"]
        BY <2>5 DEF taken
      <3>6. taken \in Seq(Plane) /\ Len(taken) >= 1 /\ taken[1] = seed
            /\ RangeOf(taken) \subseteq P \ DOMAIN known
        BY <3>2, <3>3, <3>4 DEF taken
      <3> QED
        BY <3>1, <3>5, <3>6 DEF Searching, S, new
    <2>6. CASE ~held /\ new = longer
      <3>1. here \notin Anchored /\ Range(next) \cap Supporting(known) = {}
        BY <2>6
      <3>2. LookedAt(next, known) = next
        BY <2>3, <3>1, LookedAtIs
      <3>3. fresh = Kept(next, wanted)
        BY <3>2
      <3> HIDE DEF next, fresh, wanted
      <3>4. /\ fresh \in Seq(Plane) /\ Distinct(fresh)
            /\ \A d : d \in RangeOf(fresh) <=> d \in RangeOf(next) \cap wanted
        <4>1. IsPart(fresh, Len(next), Plane, next, wanted) /\ Distinct(fresh)
          BY <2>3, <3>3, KeptIsPart, KeptDistinct
        <4>2. \A d : d \in RangeOf(fresh) => d \in RangeOf(next) \cap wanted
          BY <4>1 DEF IsPart, RangeOf
        <4>3. \A d : d \in RangeOf(next) \cap wanted => d \in RangeOf(fresh)
          <5> SUFFICES ASSUME NEW j \in 1..Len(next), next[j] \in wanted
                       PROVE  next[j] \in RangeOf(fresh)
            BY DEF RangeOf
          <5>1. PICK i \in 1..Len(fresh) : fresh[i] = next[j]
            BY <4>1 DEF IsPart
          <5> QED
            BY <5>1 DEF RangeOf
        <4> QED
          BY <4>1, <4>2, <4>3 DEF IsPart
      <3>5. Range(s.order) = RangeOf(s.order)
        BY <1>2, RangeIs
      <3>6. \A d : d \in wanted <=> d \in S /\ d \notin DOMAIN known /\ d \notin RangeOf(s.order)
        BY <3>5 DEF wanted, S
      <3> DEFINE all == s.order \o fresh
      <3>7. Distinct(s.order)
        BY <1>4 DEF Searching
      <3>8. /\ all \in Seq(Plane) /\ Distinct(all)
            /\ RangeOf(all) = RangeOf(s.order) \cup RangeOf(fresh)
            /\ Len(all) = Len(s.order) + Len(fresh)
            /\ \A i \in 1..Len(s.order) : all[i] = s.order[i]
        <4>1. RangeOf(s.order) \cap RangeOf(fresh) = {}
          BY <3>4, <3>6
        <4> QED
          BY <1>2, <3>4, <3>7, <4>1, Joins
      <3>9. new = [order |-> all, end |-> "open"]
        BY <1>2, <1>4, <2>6
      <3> HIDE DEF all
      <3>10. Len(all) >= 1 /\ all[1] = seed
        <4>1. /\ Len(s.order) \in Nat /\ Len(fresh) \in Nat /\ Len(all) = Len(s.order) + Len(fresh)
              /\ Len(s.order) >= 1 /\ s.order[1] = seed
          BY <1>2, <3>4, <3>8
        <4>2. 1 \in 1..Len(s.order)
          BY <4>1
        <4>3. all[1] = s.order[1]
          BY <3>8, <4>2
        <4> HIDE DEF fresh
        <4> QED
          BY <4>1, <4>3
      <3>11. RangeOf(fresh) \subseteq P \ DOMAIN known
        BY <1>1, <2>2, <2>3, <3>4, <3>6 DEF ClosedIn
      <3>12. \A i \in 1..Len(all) : i <= n => i \in 1..Len(s.order) /\ all[i] = s.order[i]
        BY <1>2, <2>2, <3>8
      <3>13. \A e \in S : Beside(here, e) => e \in RangeOf(all)
        <4>1. SUFFICES ASSUME NEW e \in S, Beside(here, e), e \in DOMAIN known PROVE FALSE
          BY <2>3, <3>4, <3>6, <3>8
        <4>2. e \in DOMAIN known \ Supporting(known)
          BY <2>3, <3>1, <4>1
        <4>3. Piece(S, e) \subseteq DOMAIN known
          BY <4>2 DEF KnownFits, S
        <4>4. e \in P
          BY <1>1, <2>2, <4>1 DEF ClosedIn
        <4>5. Piece(S, e) = P
          BY <1>1, <4>4, PieceFromWithin DEF S
        <4> QED
          BY <2>2, <4>3, <4>5
      <3>14. \A i \in 1..Len(all) : i <= n =>
               /\ all[i] \notin Anchored
               /\ \A e \in S : Beside(all[i], e) => e \in RangeOf(all)
        <4> SUFFICES ASSUME NEW i \in 1..Len(all), i <= n
                     PROVE  /\ all[i] \notin Anchored
                            /\ \A e \in S : Beside(all[i], e) => e \in RangeOf(all)
          OBVIOUS
        <4>1. CASE i = n
          BY <3>1, <3>12, <3>13, <4>1
        <4>2. CASE i # n
          <5>1. i <= n - 1 /\ i \in 1..Len(s.order) /\ all[i] = s.order[i]
            BY <3>12, <4>2
          <5>2. /\ s.order[i] \notin Anchored
                /\ \A e \in S : Beside(s.order[i], e) => e \in RangeOf(s.order)
            BY <1>4, <5>1 DEF Searching, S
          <5> QED
            BY <3>8, <5>1, <5>2
        <4> QED
          BY <4>1, <4>2
      <3>15. RangeOf(all) \subseteq P \ DOMAIN known
        BY <1>2, <3>8, <3>11
      <3> QED
        BY <3>8, <3>9, <3>10, <3>14, <3>15 DEF Searching, S, new
    <2> QED
      BY <2>1, <2>4, <2>5, <2>6
  <1> QED
    BY <1>3, <1>4

(* A search that ends well has seen what it says.                          *)
LEMMA SearchFinds ==
  ASSUME NEW w, NEW known, KnownFits(SolidIn(w), known),
         NEW seed \in SolidIn(w), seed \notin DOMAIN known, NEW visited,
         NEW s, s = ClassifyComponent(w, seed, known, visited)
  PROVE  /\ s.order \in Seq(Plane) /\ seed \in RangeOf(s.order)
         /\ RangeOf(s.order) \subseteq Piece(SolidIn(w), seed)
         /\ s.end \in {"open", "supported", "error"}
         /\ s.end = "supported" => Piece(SolidIn(w), seed) \cap Anchored # {}
         /\ s.end = "open" =>
              /\ RangeOf(s.order) = Piece(SolidIn(w), seed)
              /\ Piece(SolidIn(w), seed) \cap Anchored = {}
  <1> DEFINE S == SolidIn(w)
             P == Piece(S, seed)
  <1>1. S \subseteq Plane /\ seed \in P /\ P \subseteq S
    BY PieceIsClosed DEF SolidIn
  <1> HIDE DEF S
  <1>2. Cells \in Nat
    BY CellsAreNumbers
  <1>3. PICK f : Visits(f, Cells, w, seed, known, visited) /\ s = f[Cells]
    BY ClassifyVisits
  <1>4. Searching(f[0], 0, S, seed, known)
    <2> DEFINE first == <<seed>>
    <2>1. first \in Seq(Plane) /\ Len(first) = 1 /\ first[1] = seed
      BY <1>1
    <2>2. f[0] = [order |-> first, end |-> "open"]
      BY <1>3 DEF Visits
    <2> HIDE DEF first
    <2>3. RangeOf(first) \subseteq P \ DOMAIN known /\ Distinct(first)
      BY <1>1, <2>1 DEF RangeOf, Distinct
    <2> DEFINE start == f[0]
    <2>4. start.order = first /\ start.end = "open" /\ start = [order |-> first, end |-> "open"]
      BY <2>2
    <2>5. \A i \in 1..Len(first) : ~(i <= 0)
      BY <2>1
    <2> HIDE DEF start
    <2>6. Searching(start, 0, S, seed, known)
      BY <2>1, <2>3, <2>4, <2>5 DEF Searching
    <2> QED
      BY <2>6 DEF start
  <1>5. Searching(f[Cells], Cells, S, seed, known)
    <2> DEFINE Bad == {n \in Nat : n <= Cells /\ ~Searching(f[n], n, S, seed, known)}
    <2>1. SUFFICES ASSUME Cells \in Bad PROVE FALSE
      BY <1>2
    <2>2. Bad \subseteq Nat
      OBVIOUS
    <2> HIDE DEF Bad
    <2>3. PICK n \in Bad : \A j \in Bad : n <= j
      BY <2>1, <2>2, LeastOfNaturals
    <2>4. n \in Nat /\ n <= Cells /\ ~Searching(f[n], n, S, seed, known)
      BY <2>3 DEF Bad
    <2>5. n # 0
      BY <1>4, <2>4
    <2>6. n \in 1..Cells /\ n - 1 \in Nat /\ n - 1 <= Cells /\ ~(n <= n - 1) /\ n \in Nat \ {0}
      BY <1>2, <2>4, <2>5
    <2>7. Searching(f[n - 1], n - 1, S, seed, known)
      BY <2>3, <2>6 DEF Bad
    <2>8. f[n] = Advanced(w, f[n - 1], n, known, visited)
      BY <1>3, <2>6 DEF Visits
    <2>9. Searching(Advanced(w, f[n - 1], n, known, visited), n, S, seed, known)
      BY <2>6, <2>7, VisitFits DEF S
    <2> QED
      BY <2>4, <2>8, <2>9
  <1>6. /\ s.order \in Seq(Plane) /\ Len(s.order) >= 1 /\ s.order[1] = seed
        /\ RangeOf(s.order) \subseteq P
        /\ s.end \in {"open", "supported", "error"}
        /\ s.end = "supported" => P \cap Anchored # {}
    BY <1>3, <1>5 DEF Searching
  <1>7. seed \in RangeOf(s.order)
    <2>1. 1 \in 1..Len(s.order)
      BY <1>6
    <2> QED
      BY <1>6, <2>1 DEF RangeOf
  <1>8. ASSUME s.end = "open" PROVE RangeOf(s.order) = P /\ P \cap Anchored = {}
    <2>1. Distinct(s.order)
      BY <1>3, <1>5, <1>8 DEF Searching
    <2>2. \A i \in 1..Len(s.order) : i <= Cells
      BY <1>2, <1>6, <2>1, DistinctIsShort
    <2>3. \A i \in 1..Len(s.order) : /\ s.order[i] \notin Anchored
                                     /\ \A e \in S : Beside(s.order[i], e) => e \in RangeOf(s.order)
      BY <1>3, <1>5, <1>8, <2>2 DEF Searching
    <2>4. ClosedIn(S, RangeOf(s.order)) /\ RangeOf(s.order) \cap Anchored = {}
      BY <2>3 DEF ClosedIn, RangeOf
    <2>5. P \subseteq RangeOf(s.order)
      BY <1>1, <1>6, <1>7, <2>4, PieceIsLeast
    <2> QED
      BY <1>6, <2>4, <2>5
  <1> QED
    BY <1>6, <1>7, <1>8 DEF S

-----------------------------------------------------------------------------
(* The search from every seed.                                             *)

(* What was learnt from the first m cells, from start on.                  *)
Lessons(f, m, w, seeds, start) ==
  /\ DOMAIN f = 0..m
  /\ f[0] = start
  /\ \A n \in 1..m : f[n] = IF n \in seeds THEN Classified(w, f[n - 1], n) ELSE f[n - 1]

LEMMA LessonsExist ==
  ASSUME NEW w, NEW seeds, NEW start, NEW m \in Nat
  PROVE  \E f : Lessons(f, m, w, seeds, start)
  <1> DEFINE Good(k) == \E f : Lessons(f, k, w, seeds, start)
             Bad == {k \in Nat : ~Good(k)}
             Next1(f, n) == IF n \in seeds THEN Classified(w, f[n - 1], n) ELSE f[n - 1]
  <1>1. SUFFICES ASSUME m \in Bad PROVE FALSE
    OBVIOUS
  <1>2. Bad \subseteq Nat
    OBVIOUS
  <1> HIDE DEF Bad
  <1>3. PICK k \in Bad : \A j \in Bad : k <= j
    BY <1>1, <1>2, LeastOfNaturals
  <1>4. k \in Nat /\ ~Good(k)
    BY <1>3 DEF Bad
  <1>5. CASE k = 0
    <2> DEFINE f == [n \in 0..0 |-> start]
    <2>1. DOMAIN f = 0..k /\ 1..k = {} /\ f[0] = start
      BY <1>5
    <2> HIDE DEF f
    <2>2. Good(k)
      BY <2>1 DEF Lessons
    <2> QED
      BY <1>4, <2>2
  <1>6. CASE k # 0
    <2>1. k - 1 \in Nat /\ ~(k <= k - 1)
      BY <1>4, <1>6
    <2>2. Good(k - 1)
      BY <1>3, <2>1 DEF Bad
    <2>3. PICK f : /\ DOMAIN f = 0..k - 1
                   /\ f[0] = start
                   /\ \A n \in 1..k - 1 : f[n] = Next1(f, n)
      BY <2>2 DEF Lessons
    <2> DEFINE g == [n \in 0..k |-> IF n = k THEN Next1(f, k) ELSE f[n]]
    <2>4. DOMAIN g = 0..k
      OBVIOUS
    <2>5. g[0] = f[0]
      BY <1>4, <1>6
    <2>6. \A n \in 1..k - 1 : g[n] = f[n] /\ g[n - 1] = f[n - 1]
      BY <1>4, <1>6
    <2>7. g[k] = Next1(f, k) /\ g[k - 1] = f[k - 1]
      BY <1>4, <1>6
    <2>8. \A n \in 1..k : n = k \/ n \in 1..k - 1
      BY <1>4
    <2> HIDE DEF g
    <2>9. \A n \in 1..k : g[n] = Next1(g, n)
      BY <2>3, <2>6, <2>7, <2>8
    <2>10. Good(k)
      BY <2>3, <2>4, <2>5, <2>9 DEF Lessons
    <2> QED
      BY <1>4, <2>10
  <1> QED
    BY <1>5, <1>6

Started(w, changes) ==
  [NothingKnown EXCEPT !.error = \/ Cardinality(DOMAIN changes) > limits.changes
                                 \/ Cardinality(AffectedSeeds(w, changes)) > limits.seeds]

LEMMA AnalysisLearns ==
  ASSUME NEW w, NEW changes
  PROVE  \E f : /\ Lessons(f, Cells, w, AffectedSeeds(w, changes), Started(w, changes))
                /\ Analysis(w, changes) = f[Cells]
  <1> DEFINE seeds == AffectedSeeds(w, changes)
             Start == Started(w, changes)
             Next1(f, n) == IF n \in seeds THEN Classified(w, f[n - 1], n) ELSE f[n - 1]
             Rec(f) == [n \in 0..Cells |-> IF n = 0 THEN Start ELSE Next1(f, n)]
             sofar == CHOOSE f : f = Rec(f)
  <1>0. Analysis(w, changes) = sofar[Cells]
    BY DEF Analysis, Cells, Started
  <1> HIDE DEF Start, seeds
  <1>1. Cells \in Nat /\ Cells \in 0..Cells
    BY CellsAreNumbers
  <1>2. PICK f : Lessons(f, Cells, w, seeds, Start)
    BY <1>1, LessonsExist
  <1>3. \A n \in 0..Cells : n = 0 \/ n \in 1..Cells
    BY <1>1
  <1> DEFINE g == Rec(f)
  <1>4. g = Rec(g)
    <2>1. \A n \in 0..Cells : g[n] = f[n]
      BY <1>2, <1>3 DEF Lessons
    <2>2. \A n \in 1..Cells : n - 1 \in 0..Cells
      BY <1>1
    <2>3. \A n \in 1..Cells : g[n - 1] = f[n - 1]
      BY <2>1, <2>2
    <2> HIDE DEF g
    <2>4. Rec(g) = Rec(f)
      BY <2>3, <1>3
    <2> QED
      BY <2>4 DEF g
  <1>5. sofar = Rec(sofar)
    BY <1>4
  <1> HIDE DEF sofar
  <1>7. DOMAIN sofar = 0..Cells /\ sofar[0] = Start
    BY <1>1, <1>5
  <1>8. \A n \in 1..Cells : sofar[n] = Next1(sofar, n)
    <2> SUFFICES ASSUME NEW n \in 1..Cells PROVE sofar[n] = Next1(sofar, n)
      OBVIOUS
    <2>1. n \in 0..Cells /\ n # 0
      BY <1>1
    <2>2. sofar[n] = Rec(sofar)[n]
      BY <1>5
    <2> QED
      BY <2>1, <2>2
  <1>9. Lessons(sofar, Cells, w, seeds, Start)
    BY <1>7, <1>8 DEF Lessons
  <1> QED
    BY <1>0, <1>9 DEF seeds, Start

(* What was learnt fits the world S when the seeds of some were searched.  *)
Learned(sofar, S, seeds, some) ==
  /\ sofar = [error |-> sofar.error, known |-> sofar.known,
              visited |-> sofar.visited, islands |-> sofar.islands]
  /\ ~sofar.error =>
       /\ KnownFits(S, sofar.known)
       /\ \A c \in DOMAIN sofar.known \ Supporting(sofar.known) : Piece(S, c) \in sofar.islands
       /\ \A I \in sofar.islands : I \cap Anchored = {} /\ \E c \in seeds : I = Piece(S, c)
       /\ some \subseteq DOMAIN sofar.known

LEMMA LearntFits ==
  ASSUME NEW w, NEW seeds, NEW some, NEW sofar, Learned(sofar, SolidIn(w), seeds, some),
         NEW seed \in SolidIn(w), seed \in seeds
  PROVE  Learned(Classified(w, sofar, seed), SolidIn(w), seeds, some \cup {seed})
  <1> DEFINE S == SolidIn(w)
             P == Piece(S, seed)
             new == Classified(w, sofar, seed)
  <1>1. S \subseteq Plane /\ seed \in P /\ P \subseteq S
    BY PieceIsClosed DEF SolidIn
  <1> HIDE DEF S
  <1>2. sofar = [error |-> sofar.error, known |-> sofar.known,
                 visited |-> sofar.visited, islands |-> sofar.islands]
    BY DEF Learned
  <1>3. CASE sofar.error \/ seed \in DOMAIN sofar.known
    <2>1. new = sofar
      BY <1>3 DEF Classified
    <2> HIDE DEF new
    <2>2. Learned(sofar, S, seeds, some \cup {seed})
      BY <1>3 DEF Learned, S
    <2> QED
      BY <2>1, <2>2 DEF new, S
  <1>4. CASE ~sofar.error /\ seed \notin DOMAIN sofar.known
    <2> DEFINE s == ClassifyComponent(w, seed, sofar.known, sofar.visited)
               failed == [sofar EXCEPT !.error = TRUE]
               known == [c \in Range(s.order) \cup DOMAIN sofar.known |->
                           IF c \in Range(s.order) THEN s.end = "supported" ELSE sofar.known[c]]
               islands == sofar.islands \cup IF s.end = "open" THEN {Range(s.order)} ELSE {}
               learnt == [error |-> FALSE, known |-> known,
                          visited |-> sofar.visited + Len(s.order), islands |-> islands]
    <2>1. new = failed \/ (new = learnt /\ s.end # "error")
      BY <1>4 DEF Classified, Learnt
    <2> HIDE DEF new
    <2>2. CASE new = failed
      <3> DEFINE yes == TRUE
                 then == [error |-> yes, known |-> sofar.known,
                          visited |-> sofar.visited, islands |-> sofar.islands]
      <3>0. failed = then
        <4> HIDE DEF yes
        <4>1. [sofar EXCEPT !.error = yes] = then
          BY <1>2
        <4> QED
          BY <4>1 DEF yes
      <3>1. /\ failed = [error |-> failed.error, known |-> failed.known,
                         visited |-> failed.visited, islands |-> failed.islands]
            /\ failed.error = TRUE
        <4>1. /\ then = [error |-> then.error, known |-> then.known,
                         visited |-> then.visited, islands |-> then.islands]
              /\ then.error = TRUE
          OBVIOUS
        <4> HIDE DEF then
        <4> QED
          BY <3>0, <4>1
      <3> HIDE DEF failed
      <3>2. Learned(failed, S, seeds, some \cup {seed})
        BY <3>1 DEF Learned
      <3> QED
        BY <2>2, <3>2 DEF new, S
    <2>3. CASE new = learnt /\ s.end # "error"
      <3>1. /\ KnownFits(S, sofar.known)
            /\ \A c \in DOMAIN sofar.known \ Supporting(sofar.known) : Piece(S, c) \in sofar.islands
            /\ \A I \in sofar.islands : I \cap Anchored = {} /\ \E c \in seeds : I = Piece(S, c)
            /\ some \subseteq DOMAIN sofar.known
        BY <1>4 DEF Learned, S
      <3> HIDE DEF s
      <3>2. /\ Range(s.order) = RangeOf(s.order) /\ seed \in RangeOf(s.order)
            /\ RangeOf(s.order) \subseteq P
            /\ s.end \in {"open", "supported", "error"}
            /\ s.end = "supported" => P \cap Anchored # {}
            /\ s.end = "open" => RangeOf(s.order) = P /\ P \cap Anchored = {}
        <4>1. /\ s.order \in Seq(Plane) /\ seed \in RangeOf(s.order)
              /\ RangeOf(s.order) \subseteq P
              /\ s.end \in {"open", "supported", "error"}
              /\ s.end = "supported" => P \cap Anchored # {}
              /\ s.end = "open" => RangeOf(s.order) = P /\ P \cap Anchored = {}
          BY <1>4, <3>1, SearchFinds DEF s, S
        <4> QED
          BY <4>1, RangeIs
      <3> DEFINE R == Range(s.order)
      <3>3. R \subseteq P /\ seed \in R /\ \A c \in R : Piece(S, c) = P
        <4>1. R \subseteq P /\ seed \in R
          BY <3>2
        <4> QED
          BY <1>1, <4>1, PieceFromWithin
      <3> HIDE DEF R
      <3>4. /\ DOMAIN known = R \cup DOMAIN sofar.known
            /\ \A c \in R : known[c] <=> s.end = "supported"
            /\ \A c \in DOMAIN sofar.known \ R : known[c] <=> sofar.known[c]
        BY DEF R
      <3> HIDE DEF known
      <3>5. /\ DOMAIN known \subseteq S
            /\ seed \in DOMAIN known /\ DOMAIN sofar.known \subseteq DOMAIN known
        BY <1>1, <3>1, <3>3, <3>4 DEF KnownFits
      <3>6. ASSUME NEW c \in Supporting(known) PROVE Piece(S, c) \cap Anchored # {}
        <4>1. CASE c \in R
          <5>1. s.end = "supported"
            BY <3>4, <3>6, <4>1 DEF Supporting
          <5> QED
            BY <3>2, <3>3, <4>1, <5>1
        <4>2. CASE c \notin R
          <5>1. c \in Supporting(sofar.known)
            BY <3>4, <3>6, <4>2 DEF Supporting
          <5> QED
            BY <3>1, <5>1 DEF KnownFits
        <4> QED
          BY <4>1, <4>2
      <3>7. ASSUME NEW c \in DOMAIN known \ Supporting(known)
            PROVE  /\ Piece(S, c) \subseteq DOMAIN known /\ Piece(S, c) \cap Anchored = {}
                   /\ Piece(S, c) \in islands
        <4>1. CASE c \in R
          <5>1. s.end # "supported"
            BY <3>4, <3>7, <4>1 DEF Supporting
          <5>2. s.end = "open" /\ R = P /\ P \cap Anchored = {}
            BY <2>3, <3>2, <5>1 DEF R
          <5>3. R \in islands
            BY <5>2 DEF R
          <5> QED
            BY <3>3, <3>4, <4>1, <5>2, <5>3
        <4>2. CASE c \notin R
          <5>1. c \in DOMAIN sofar.known \ Supporting(sofar.known)
            BY <3>4, <3>7, <4>2 DEF Supporting
          <5>2. /\ Piece(S, c) \subseteq DOMAIN sofar.known /\ Piece(S, c) \cap Anchored = {}
                /\ Piece(S, c) \in sofar.islands
            BY <3>1, <5>1 DEF KnownFits
          <5> QED
            BY <3>5, <5>2
        <4> QED
          BY <4>1, <4>2
      <3>8. ASSUME NEW I \in islands
            PROVE  I \cap Anchored = {} /\ \E c \in seeds : I = Piece(S, c)
        <4>1. CASE I \in sofar.islands
          BY <3>1, <4>1
        <4>2. CASE I \notin sofar.islands
          <5>1. s.end = "open" /\ I = Range(s.order)
            BY <3>8, <4>2
          <5>2. I = P /\ P \cap Anchored = {}
            BY <3>2, <5>1
          <5> QED
            BY <5>2
        <4> QED
          BY <4>1, <4>2
      <3> DEFINE it == learnt
      <3>9. /\ it = [error |-> it.error, known |-> it.known,
                     visited |-> it.visited, islands |-> it.islands]
            /\ it.known = known /\ it.islands = islands
        OBVIOUS
      <3> HIDE DEF it, islands
      <3>10. Learned(it, S, seeds, some \cup {seed})
        <4>1. KnownFits(S, known)
          BY <3>5, <3>6, <3>7 DEF KnownFits
        <4>2. some \cup {seed} \subseteq DOMAIN known
          BY <3>1, <3>5
        <4> QED
          BY <3>7, <3>8, <3>9, <4>1, <4>2 DEF Learned
      <3> QED
        BY <2>3, <3>10 DEF it, islands, new, S
    <2> QED
      BY <2>1, <2>2, <2>3
  <1> QED
    BY <1>3, <1>4

(* An analysis that runs into no limit finds every piece without support   *)
(* around the seeds, and nothing else, though each search stops at the     *)
(* first support and takes over what the searches before it learned        *)
(* (structural.rs: analyze_structural_changes, classify_component).        *)
THEOREM AnalysisFinds ==
  ASSUME NEW w, NEW changes, ~Analysis(w, changes).error
  PROVE  Analysis(w, changes).islands = Joint!UnsupportedPieces(SolidIn(w), AffectedSeeds(w, changes))
  <1> DEFINE S == SolidIn(w)
             seeds == AffectedSeeds(w, changes)
             Start == Started(w, changes)
             some(n) == seeds \cap 1..n
  <1>1. seeds \subseteq S /\ S \subseteq Plane
    BY DEF AffectedSeeds, SolidIn
  <1>2. Cells \in Nat /\ Plane = 1..Cells
    BY CellsAreNumbers
  <1>3. PICK f : Lessons(f, Cells, w, seeds, Start) /\ Analysis(w, changes) = f[Cells]
    BY AnalysisLearns
  <1>4. Learned(Start, S, seeds, {})
    <2> DEFINE e == \/ Cardinality(DOMAIN changes) > limits.changes
                    \/ Cardinality(seeds) > limits.seeds
               none == [c \in {} |-> TRUE]
               first == [error |-> FALSE, known |-> none, visited |-> 0, islands |-> {}]
    <2>a. Start = [first EXCEPT !.error = e]
      BY DEF Started, NothingKnown
    <2> HIDE DEF e
    <2>b. [first EXCEPT !.error = e] = [error |-> e, known |-> none, visited |-> 0, islands |-> {}]
      <3>1. first = [error |-> first.error, known |-> first.known,
                     visited |-> first.visited, islands |-> first.islands]
            /\ first.known = none /\ first.visited = 0 /\ first.islands = {}
        OBVIOUS
      <3> HIDE DEF first, none
      <3>2. [first EXCEPT !.error = e] = [error |-> e, known |-> first.known,
                                          visited |-> first.visited, islands |-> first.islands]
        BY <3>1
      <3> QED
        BY <3>1, <3>2
    <2>1. Start = [error |-> e, known |-> none, visited |-> 0, islands |-> {}]
      BY <2>a, <2>b
    <2>2. DOMAIN none = {}
      OBVIOUS
    <2> HIDE DEF none, Start
    <2>3. /\ Start = [error |-> Start.error, known |-> Start.known,
                      visited |-> Start.visited, islands |-> Start.islands]
          /\ Start.known = none /\ Start.islands = {}
      BY <2>1
    <2>4. KnownFits(S, none)
      BY <2>2 DEF KnownFits, Supporting
    <2> QED
      BY <2>2, <2>3, <2>4 DEF Learned, Supporting
  <1> HIDE DEF Start, S, seeds
  <1>5. Learned(f[Cells], S, seeds, some(Cells))
    <2> DEFINE Bad == {n \in Nat : n <= Cells /\ ~Learned(f[n], S, seeds, some(n))}
    <2>1. SUFFICES ASSUME Cells \in Bad PROVE FALSE
      BY <1>2
    <2>2. Bad \subseteq Nat
      OBVIOUS
    <2> HIDE DEF Bad
    <2>3. PICK n \in Bad : \A j \in Bad : n <= j
      BY <2>1, <2>2, LeastOfNaturals
    <2>4. n \in Nat /\ n <= Cells /\ ~Learned(f[n], S, seeds, some(n))
      BY <2>3 DEF Bad
    <2>5. n # 0
      <3>1. f[0] = Start /\ some(0) = {}
        BY <1>3 DEF Lessons
      <3> QED
        BY <1>4, <2>4, <3>1
    <2>6. n \in 1..Cells /\ n - 1 \in Nat /\ n - 1 <= Cells /\ ~(n <= n - 1)
          /\ 1..n = 1..n - 1 \cup {n}
      BY <1>2, <2>4, <2>5
    <2>7. Learned(f[n - 1], S, seeds, some(n - 1))
      BY <2>3, <2>6 DEF Bad
    <2>8. f[n] = IF n \in seeds THEN Classified(w, f[n - 1], n) ELSE f[n - 1]
      BY <1>3, <2>6 DEF Lessons
    <2>9. CASE n \in seeds
      <3>1. some(n) = some(n - 1) \cup {n}
        BY <2>6, <2>9
      <3>2. Learned(Classified(w, f[n - 1], n), S, seeds, some(n - 1) \cup {n})
        BY <1>1, <2>7, <2>9, LearntFits DEF S
      <3> QED
        BY <2>4, <2>8, <2>9, <3>1, <3>2
    <2>10. CASE n \notin seeds
      <3>1. some(n) = some(n - 1)
        BY <2>6, <2>10
      <3> QED
        BY <2>4, <2>7, <2>8, <2>10, <3>1
    <2> QED
      BY <2>9, <2>10
  <1> DEFINE analysis == f[Cells]
  <1>6. some(Cells) = seeds
    BY <1>1, <1>2
  <1>7. /\ KnownFits(S, analysis.known)
        /\ \A c \in DOMAIN analysis.known \ Supporting(analysis.known) : Piece(S, c) \in analysis.islands
        /\ \A I \in analysis.islands : I \cap Anchored = {} /\ \E c \in seeds : I = Piece(S, c)
        /\ seeds \subseteq DOMAIN analysis.known
    BY <1>3, <1>5, <1>6 DEF Learned
  <1> HIDE DEF analysis
  <1>8. \A c \in seeds : Piece(S, c) \cap Anchored = {} => Piece(S, c) \in analysis.islands
    BY <1>7 DEF KnownFits
  <1>9. S \cap seeds = seeds
    BY <1>1
  <1>10. Joint!UnsupportedPieces(S, seeds) =
           {p \in {Joint!Reached(S, c, S) : c \in seeds} : p \cap Anchored = {}}
    BY <1>9 DEF Joint!UnsupportedPieces
  <1>11. \A c : Piece(S, c) = Joint!Reached(S, c, S)
    BY DEF Piece, Joint!Piece
  <1>12. analysis.islands = Joint!UnsupportedPieces(S, seeds)
    BY <1>7, <1>8, <1>10, <1>11
  <1> QED
    BY <1>3, <1>12 DEF analysis, S, seeds

-----------------------------------------------------------------------------
(* What a blast or a shot does to a world.                                 *)

IsWorld(w) == w \in [Plane -> Substance]

Stuff == [material : Matter, integrity : 1..FullIntegrity]

LEMMA SolidIsStuff ==
  ASSUME NEW v \in Substance
  PROVE  (Solid(v) <=> v \in Stuff) /\ ~Solid(Nothing) /\ v \in Stuff \cup {Nothing}
  <1>1. \A u \in Stuff : u # Nothing
    <2> SUFFICES ASSUME NEW u \in Stuff, u = Nothing PROVE FALSE
      OBVIOUS
    <2>1. u.integrity \in 1..FullIntegrity /\ Nothing.integrity = 0
      BY DEF Stuff, Nothing
    <2> QED
      BY <2>1
  <1> QED
    BY <1>1 DEF Substance, Solid, Stuff

IsDamage(w, changes) ==
  /\ DOMAIN changes \subseteq SolidIn(w)
  /\ \A c \in DOMAIN changes :
       /\ changes[c].before = w[c]
       /\ \/ changes[c].after = Nothing
          \/ changes[c].after \in Stuff /\ Worn(changes[c].after, w[c])

LEMMA DamagedIsWorn ==
  ASSUME NEW v \in Stuff, NEW d \in Int, d > 0
  PROVE  Damaged(v, d) = Nothing \/ (Damaged(v, d) \in Stuff /\ Worn(Damaged(v, d), v))
  <1>1. v.material \in Matter /\ v.integrity \in 1..FullIntegrity
        /\ v = [material |-> v.material, integrity |-> v.integrity] /\ FullIntegrity \in Nat
    BY DamageAssumption DEF Stuff, DamageAssumption
  <1>2. CASE d >= v.integrity
    BY <1>2 DEF Damaged
  <1>3. CASE ~(d >= v.integrity)
    <2> DEFINE left == v.integrity - d
    <2>1. left \in 1..FullIntegrity /\ left <= v.integrity
      BY <1>1, <1>3
    <2>2. Damaged(v, d) = [v EXCEPT !.integrity = left]
      BY <1>1, <1>3 DEF Damaged
    <2> HIDE DEF left
    <2>3. Damaged(v, d) = [material |-> v.material, integrity |-> left]
      BY <1>1, <2>2
    <2> QED
      BY <1>1, <2>1, <2>3 DEF Stuff, Worn
  <1> QED
    BY <1>2, <1>3

LEMMA LeastOfTwo ==
  ASSUME NEW a \in Int, NEW b \in Int
  PROVE  Min({a, b}) \in {a, b}
  <1>1. \E m \in {a, b} : \A y \in {a, b} : m <= y
    OBVIOUS
  <1> QED
    BY <1>1 DEF Min

LEMMA PlaceIsInt ==
  ASSUME NEW c \in Plane
  PROVE  ColumnOf(c) \in Int /\ LevelOf(c) \in Int
  BY CellHasPlace DEF Xs, Ys

LEMMA BlastIsDamage ==
  ASSUME NEW w, IsWorld(w), NEW center \in Plane, NEW blast \in Blasts
  PROVE  IsDamage(w, BlastChanges(w, center, blast))
  <1> DEFINE At(c) == DamageAt(w[c], blast, Distance2(c, center))
             hit == {c \in SolidIn(w) : /\ Distance2(c, center) <= Square(blast.radius)
                                        /\ At(c) > 0}
             changes == BlastChanges(w, center, blast)
  <1>1. changes = [c \in hit |-> [before |-> w[c], after |-> Damaged(w[c], At(c))]]
    BY DEF BlastChanges
  <1>2. ASSUME NEW c \in hit PROVE w[c] \in Stuff /\ At(c) \in Int /\ At(c) > 0
    <2>1. c \in Plane /\ w[c] \in Stuff
      BY <1>2, SolidIsStuff DEF IsWorld, SolidIn
    <2>2. blast.radius \in Nat /\ blast.energy \in Nat /\ FullIntegrity \in Nat
      BY DamageAssumption DEF DamageAssumption
    <2>3. w[c].material \in Matter
      BY <2>1 DEF Stuff
    <2>4. Resistance[w[c].material] \in Nat \ {0}
      BY <2>3, DamageAssumption DEF DamageAssumption
    <2>5. Distance2(c, center) \in Int
      <3>1. \A i \in Int : Square(i) \in Int
        BY DEF Square
      <3> QED
        BY <2>1, <3>1, PlaceIsInt DEF Distance2
    <2> DEFINE r2 == Square(blast.radius)
    <2>6. r2 \in Int /\ r2 + 1 > 0
      BY <2>2 DEF Square
    <2> DEFINE d2 == Distance2(c, center)
               total == blast.energy * (r2 - d2 + 1)
               delivered == total \div (r2 + 1)
    <2> HIDE DEF r2, d2
    <2>7. total \in Int
      BY <2>2, <2>5, <2>6 DEF d2
    <2> HIDE DEF total
    <2>8. delivered \in Int
      BY <2>6, <2>7
    <2> HIDE DEF delivered
    <2> DEFINE share == (delivered * FullIntegrity) \div Resistance[w[c].material]
    <2>9. share \in Int
      <3>1. delivered * FullIntegrity \in Int
        BY <2>2, <2>8
      <3> QED
        BY <2>4, <3>1
    <2> HIDE DEF share
    <2>10. At(c) = Min({FullIntegrity, share})
      BY DEF DamageAt, share, delivered, total, r2, d2
    <2>11. At(c) \in Int
      BY <2>2, <2>9, <2>10, LeastOfTwo
    <2>12. At(c) > 0
      BY <1>2
    <2> QED
      BY <2>1, <2>11, <2>12
  <1> HIDE DEF At, changes
  <1>3. DOMAIN changes \subseteq SolidIn(w)
    BY <1>1
  <1>4. \A c \in DOMAIN changes :
          changes[c].before = w[c] /\ changes[c].after = Damaged(w[c], At(c))
    BY <1>1
  <1>5. \A c \in DOMAIN changes :
          \/ changes[c].after = Nothing
          \/ changes[c].after \in Stuff /\ Worn(changes[c].after, w[c])
    BY <1>1, <1>2, <1>4, DamagedIsWorn
  <1> QED
    BY <1>3, <1>4, <1>5 DEF IsDamage, changes

LEMMA ShotIsDamage ==
  ASSUME NEW w, IsWorld(w), NEW shot \in Shots(w)
  PROVE  IsDamage(w, shot)
  <1>1. ASSUME NEW cells, NEW worn, NEW wear \in Int, cells \subseteq SolidIn(w),
               worn \subseteq SolidIn(w), worn = {} \/ wear > 0
        PROVE  IsDamage(w, Broken(w, cells, worn, wear))
    <2> DEFINE changes == Broken(w, cells, worn, wear)
               after(d) == IF d \in cells THEN Nothing ELSE Damaged(w[d], wear)
    <2>1. changes = [d \in cells \cup worn |-> [before |-> w[d], after |-> after(d)]]
      BY DEF Broken
    <2>2. ASSUME NEW d \in cells \cup worn
          PROVE  after(d) = Nothing \/ (after(d) \in Stuff /\ Worn(after(d), w[d]))
      <3>1. CASE d \in cells
        BY <3>1
      <3>2. CASE d \notin cells
        <4>1. d \in Plane /\ w[d] \in Stuff /\ wear > 0
          BY <1>1, <2>2, <3>2, SolidIsStuff DEF IsWorld, SolidIn
        <4> QED
          BY <1>1, <3>2, <4>1, DamagedIsWorn
      <3> QED
        BY <3>1, <3>2
    <2> HIDE DEF after, changes
    <2> QED
      BY <1>1, <2>1, <2>2 DEF IsDamage, changes
  <1>2. CASE shot = Broken(w, {}, {}, 0)
    BY <1>1, <1>2
  <1>3. CASE shot # Broken(w, {}, {}, 0)
    <2> DEFINE Along(lane, from, to) ==
                 {Broken(w, Met(w, lane, from, to), {}, 0)} \cup
                 {Broken(w, Met(w, lane, from, to) \ {to}, {to}, wear) :
                    wear \in 1..FullIntegrity - 1}
               In(lane) == UNION {Along(lane, from, to) : from, to \in lane \cap SolidIn(w)}
    <2>a. Shots(w) = {Broken(w, {}, {}, 0)} \cup UNION {In(lane) : lane \in Lanes}
      BY DEF Shots
    <2> HIDE DEF In
    <2>1. PICK lane \in Lanes : shot \in In(lane)
      BY <1>3, <2>a
    <2>b. In(lane) = UNION {Along(lane, from, to) : from, to \in lane \cap SolidIn(w)}
      BY DEF In
    <2> HIDE DEF Along
    <2>c. PICK from \in lane \cap SolidIn(w), to \in lane \cap SolidIn(w) : shot \in Along(lane, from, to)
      BY <2>1, <2>b
    <2>2. shot \in {Broken(w, Met(w, lane, from, to), {}, 0)} \cup
                   {Broken(w, Met(w, lane, from, to) \ {to}, {to}, wear) :
                      wear \in 1..FullIntegrity - 1}
      BY <2>c DEF Along
    <2>3. Met(w, lane, from, to) \subseteq SolidIn(w)
      BY DEF Met
    <2>4. CASE shot = Broken(w, Met(w, lane, from, to), {}, 0)
      BY <1>1, <2>3, <2>4
    <2>5. CASE shot # Broken(w, Met(w, lane, from, to), {}, 0)
      <3>1. PICK wear \in 1..FullIntegrity - 1 :
              shot = Broken(w, Met(w, lane, from, to) \ {to}, {to}, wear)
        BY <2>2, <2>5
      <3>2. wear \in Int /\ wear > 0
        BY <3>1
      <3> QED
        BY <1>1, <2>2, <2>3, <3>1, <3>2
    <2> QED
      BY <2>4, <2>5
  <1> QED
    BY <1>2, <1>3

LEMMA NothingIsDamage ==
  ASSUME NEW w
  PROVE  IsDamage(w, [d \in {} |-> Nothing])
  <1>1. DOMAIN [d \in {} |-> Nothing] = {}
    OBVIOUS
  <1> QED
    BY <1>1 DEF IsDamage

(* The cells that are empty after it.                                      *)
Opened(changes) == {c \in DOMAIN changes : changes[c].after = Nothing}

LEMMA DamageChanges ==
  ASSUME NEW w, IsWorld(w), NEW changes, IsDamage(w, changes)
  PROVE  /\ IsWorld(Changed(w, changes))
         /\ Opened(changes) \subseteq SolidIn(w)
         /\ SolidIn(Changed(w, changes)) = SolidIn(w) \ Opened(changes)
         /\ RolledBack(Changed(w, changes), changes) = w
         /\ \A c \in SolidIn(Changed(w, changes)) :
              Changed(w, changes)[c] \in Stuff /\ Worn(Changed(w, changes)[c], w[c])
  <1> DEFINE new == Changed(w, changes)
  <1>1. /\ DOMAIN changes \subseteq SolidIn(w) /\ SolidIn(w) \subseteq Plane
        /\ \A c \in DOMAIN changes :
             /\ changes[c].before = w[c]
             /\ \/ changes[c].after = Nothing
                \/ changes[c].after \in Stuff /\ Worn(changes[c].after, w[c])
    BY DEF IsDamage, SolidIn
  <1>2. /\ DOMAIN new = Plane
        /\ \A c \in Plane : new[c] = IF c \in DOMAIN changes THEN changes[c].after ELSE w[c]
        /\ new = [c \in Plane |-> new[c]]
    BY DEF Changed
  <1>3. \A c \in Plane : w[c] \in Substance /\ w = [d \in Plane |-> w[d]]
    BY DEF IsWorld
  <1>4. Nothing \in Substance /\ Stuff \subseteq Substance
    BY DEF Substance, Stuff
  <1>5. RolledBack(new, changes) = w
    <2>1. \A c \in Plane : (IF c \in DOMAIN changes THEN changes[c].before ELSE new[c]) = w[c]
      BY <1>1, <1>2
    <2>2. RolledBack(new, changes) = [c \in Plane |-> w[c]]
      <3> HIDE DEF new
      <3> QED
        BY <2>1 DEF RolledBack
    <2>3. w = [c \in Plane |-> w[c]]
      BY DEF IsWorld
    <2> QED
      BY <2>2, <2>3
  <1> HIDE DEF new
  <1>6. new \in [Plane -> Substance]
    <2>1. \A c \in Plane : new[c] \in Substance
      BY <1>1, <1>2, <1>3, <1>4
    <2> QED
      BY <1>2, <2>1
  <1>7. \A c \in Plane : Solid(new[c]) <=> Solid(w[c]) /\ c \notin Opened(changes)
    <2> SUFFICES ASSUME NEW c \in Plane
                 PROVE  Solid(new[c]) <=> Solid(w[c]) /\ c \notin Opened(changes)
      OBVIOUS
    <2>1. CASE c \in DOMAIN changes
      <3>1. Solid(w[c]) /\ new[c] = changes[c].after
        BY <1>1, <1>2, <2>1 DEF SolidIn
      <3> QED
        BY <2>1, <3>1 DEF Solid, Opened
    <2>2. CASE c \notin DOMAIN changes
      BY <1>2, <2>2 DEF Opened
    <2> QED
      BY <2>1, <2>2
  <1>8. \A c \in SolidIn(new) : new[c] \in Stuff /\ Worn(new[c], w[c])
    <2> SUFFICES ASSUME NEW c \in SolidIn(new) PROVE new[c] \in Stuff /\ Worn(new[c], w[c])
      OBVIOUS
    <2>1. c \in Plane /\ Solid(new[c])
      BY DEF SolidIn
    <2>2. CASE c \in DOMAIN changes
      BY <1>1, <1>2, <2>1, <2>2 DEF Solid
    <2>3. CASE c \notin DOMAIN changes
      <3>1. new[c] = w[c] /\ w[c] \in Stuff
        BY <1>2, <1>3, <2>1, <2>3, SolidIsStuff
      <3>2. w[c].integrity <= w[c].integrity
        BY <3>1 DEF Stuff
      <3> QED
        BY <3>1, <3>2 DEF Worn
    <2> QED
      BY <2>2, <2>3
  <1>9. SolidIn(new) = SolidIn(w) \ Opened(changes)
    BY <1>7 DEF SolidIn
  <1> QED
    BY <1>1, <1>5, <1>6, <1>8, <1>9 DEF new, IsWorld, Opened

-----------------------------------------------------------------------------
(* What falls, in pieces.                                                  *)

(* Pieces of S, each connected, that share no cell.                        *)
Apart(S, pieces) ==
  /\ \A I \in pieces : I \subseteq S /\ I # {} /\ Connected(I)
  /\ \A I, J \in pieces : I # J => I \cap J = {}

LEMMA PieceIsConnected ==
  ASSUME NEW S, S \subseteq Plane, NEW c \in S
  PROVE  Connected(Piece(S, c))
  <1> DEFINE I == Piece(S, c)
  <1>1. I \subseteq S /\ ClosedIn(S, I)
    BY PieceIsClosed
  <1>2. ASSUME NEW d \in I PROVE I \subseteq Below!Reached(I, d, I)
    <2> DEFINE X == Piece(I, d)
    <2>1. d \in X /\ X \subseteq I /\ ClosedIn(I, X)
      BY <1>1, <1>2, PieceIsClosed
    <2>2. ClosedIn(S, X)
      BY <1>1, <2>1 DEF ClosedIn
    <2>3. Piece(S, d) \subseteq X
      BY <1>1, <2>1, <2>2, PieceIsLeast
    <2>4. Piece(S, d) = I
      BY <1>2, PieceFromWithin
    <2>5. X = Below!Reached(I, d, I)
      BY SameSearch DEF Piece, Joint!Piece
    <2> QED
      BY <2>3, <2>4, <2>5
  <1> QED
    BY <1>2 DEF Connected

LEMMA UnsupportedAreApart ==
  ASSUME NEW S, S \subseteq Plane, NEW seeds
  PROVE  Apart(S, Joint!UnsupportedPieces(S, seeds))
  <1> DEFINE pieces == Joint!UnsupportedPieces(S, seeds)
  <1>1. \A I \in pieces : \E c \in S : I = Piece(S, c)
    BY DEF Joint!UnsupportedPieces, Piece, Joint!Piece
  <1> HIDE DEF pieces
  <1>2. ASSUME NEW I \in pieces PROVE I \subseteq S /\ I # {} /\ Connected(I)
    <2>1. PICK c \in S : I = Piece(S, c)
      BY <1>1, <1>2
    <2> QED
      BY <2>1, PieceIsClosed, PieceIsConnected
  <1>3. ASSUME NEW I \in pieces, NEW J \in pieces, NEW d \in I, d \in J PROVE I = J
    <2>1. PICK c \in S, e \in S : I = Piece(S, c) /\ J = Piece(S, e)
      BY <1>1, <1>3
    <2> QED
      BY <1>3, <2>1, PieceFromWithin
  <1> QED
    BY <1>2, <1>3 DEF Apart, pieces

(* What a commit_damage detaches.                                          *)
LEMMA DamageDetaches ==
  ASSUME NEW w, IsWorld(w), NEW changes, IsDamage(w, changes),
         ~Analysis(Changed(w, changes), changes).error
  PROVE  /\ Analysis(Changed(w, changes), changes).islands
              = Joint!Islands(SolidIn(w) \ Opened(changes), Opened(changes))
         /\ Apart(SolidIn(Changed(w, changes)), Analysis(Changed(w, changes), changes).islands)
  <1> DEFINE new == Changed(w, changes)
             S == SolidIn(new)
             seeds == AffectedSeeds(new, changes)
             around == Joint!AdjacentTo(Opened(changes))
             islands == Analysis(new, changes).islands
  <1>1. /\ Opened(changes) \subseteq SolidIn(w)
        /\ S = SolidIn(w) \ Opened(changes) /\ SolidIn(w) \subseteq Plane
    BY DamageChanges DEF SolidIn
  <1>2. {c \in DOMAIN changes : Solid(changes[c].before) # Solid(changes[c].after)} = Opened(changes)
    <2>1. \A c \in DOMAIN changes : Solid(changes[c].before)
      BY DEF IsDamage, SolidIn
    <2>2. \A c \in DOMAIN changes : Solid(changes[c].after) <=> c \notin Opened(changes)
      BY DEF Opened, Solid
    <2>3. \A c \in DOMAIN changes :
            (Solid(changes[c].before) # Solid(changes[c].after)) <=> c \in Opened(changes)
      BY <2>1, <2>2, Zenon DEF Solid
    <2> QED
      BY <2>3 DEF Opened
  <1> HIDE DEF new
  <1>3. \A c : c \in around <=> \E d \in Opened(changes) : c \in Range(Neighbors2(d))
    <2>1. \A d \in Opened(changes) : \A c : c \in Range(Neighbors2(d)) <=> Beside(d, c)
      BY <1>1, NeighborsAre
    <2> QED
      BY <1>1, <2>1, AdjacentIsBeside
  <1>4. S \cap seeds = S \cap around
    <2>1. seeds = {c \in S : c \in Opened(changes) \/ \E d \in Opened(changes) : c \in Range(Neighbors2(d))}
      BY <1>2 DEF AffectedSeeds
    <2> HIDE DEF S, seeds, around
    <2> QED
      BY <1>1, <1>3, <2>1
  <1>5. islands = Joint!UnsupportedPieces(S, seeds)
    BY AnalysisFinds DEF new
  <1>6. Joint!UnsupportedPieces(S, seeds) = Joint!UnsupportedPieces(S, around)
    BY <1>4 DEF Joint!UnsupportedPieces
  <1>7. islands = Joint!Islands(S, Opened(changes))
    BY <1>5, <1>6 DEF Joint!Islands
  <1>8. Apart(S, islands)
    BY <1>1, <1>5, UnsupportedAreApart
  <1> QED
    BY <1>1, <1>7, <1>8 DEF new

(* What a failure detaches.                                                *)
LEMMA DebrisIsApart ==
  ASSUME NEW S, S \subseteq Plane, NEW c \in S \ Anchored
  PROVE  /\ Apart(S, Below!Debris(Below!LoadDomain(S, c), c))
         /\ Below!Debris(Below!LoadDomain(S, c), c) = Joint!Debris(Joint!LoadDomain(S, c), c)
         /\ c \in Joint!LoadDomain(S, c)
  <1> DEFINE domain == Joint!LoadDomain(S, c)
             rest == domain \ {c}
             pieces == Joint!UnsupportedPieces(rest, domain)
  <1>1. Below!Debris(Below!LoadDomain(S, c), c) = Joint!Debris(domain, c)
    BY SameSearch
  <1>2. domain \subseteq S /\ c \in domain
    <2>1. c \in Joint!Eligible(S)
      BY DEF Joint!Eligible
    <2> QED
      BY <2>1, PlaneIsStructure, Joint!DomainOfVoxel DEF Joint!DomainOfVoxel, Joint!FreePart
  <1> HIDE DEF domain
  <1>3. Apart(rest, pieces)
    BY <1>2, UnsupportedAreApart
  <1>4. Joint!Debris(domain, c) = {{c}} \cup pieces
    BY DEF Joint!Debris
  <1>5. Connected({c})
    <2>1. c \in Piece({c}, c)
      BY <1>2, PieceIsClosed
    <2>2. Piece({c}, c) = Below!Reached({c}, c, {c})
      BY SameSearch DEF Piece, Joint!Piece
    <2> QED
      BY <2>1, <2>2 DEF Connected
  <1>6. Apart(S, {{c}} \cup pieces)
    <2> HIDE DEF pieces
    <2>1. \A I \in pieces : I \subseteq S /\ c \notin I /\ I # {} /\ Connected(I)
      BY <1>2, <1>3 DEF Apart
    <2> QED
      BY <1>2, <1>3, <1>5, <2>1 DEF Apart
  <1> QED
    BY <1>1, <1>2, <1>4, <1>6 DEF domain

-----------------------------------------------------------------------------
(* Counting voxels.                                                        *)

Pairs(bodies) == UNION {{<<id, c>> : c \in DOMAIN bodies[id]} : id \in DOMAIN bodies}

LEMMA PairsAre ==
  ASSUME NEW bodies, NEW p
  PROVE  p \in Pairs(bodies) <=> \E id \in DOMAIN bodies : \E c \in DOMAIN bodies[id] : p = <<id, c>>
  <1> DEFINE Of(id) == {<<id, c>> : c \in DOMAIN bodies[id]}
  <1>1. \A id : p \in Of(id) <=> \E c \in DOMAIN bodies[id] : p = <<id, c>>
    OBVIOUS
  <1>2. Pairs(bodies) = UNION {Of(id) : id \in DOMAIN bodies}
    BY DEF Pairs
  <1> HIDE DEF Of
  <1>3. p \in Pairs(bodies) <=> \E id \in DOMAIN bodies : p \in Of(id)
    BY <1>2
  <1> QED
    BY <1>1, <1>3

LEMMA PairsAreFinite ==
  ASSUME NEW bodies, NEW n \in Nat, DOMAIN bodies \subseteq 1..n,
         \A id \in DOMAIN bodies : DOMAIN bodies[id] \subseteq Plane
  PROVE  IsFiniteSet(Pairs(bodies)) /\ VoxelCount(bodies) = Cardinality(Pairs(bodies))
         /\ VoxelCount(bodies) \in Nat
  <1>1. IsFiniteSet(1..n) /\ IsFiniteSet(Plane)
    BY FS_Interval, PlaneIsFinite
  <1>2. IsFiniteSet((1..n) \X Plane)
    BY <1>1, FS_Product
  <1>3. Pairs(bodies) \subseteq (1..n) \X Plane
    <2> SUFFICES ASSUME NEW p \in Pairs(bodies) PROVE p \in (1..n) \X Plane
      OBVIOUS
    <2>1. PICK id \in DOMAIN bodies : \E c \in DOMAIN bodies[id] : p = <<id, c>>
      BY PairsAre
    <2>2. PICK c \in DOMAIN bodies[id] : p = <<id, c>>
      BY <2>1
    <2>3. id \in 1..n /\ c \in Plane
      OBVIOUS
    <2> QED
      BY <2>2, <2>3
  <1>4. IsFiniteSet(Pairs(bodies))
    BY <1>2, <1>3, FS_Subset
  <1> QED
    BY <1>4, FS_CardinalityType DEF VoxelCount, Pairs

LEMMA CountsAdd ==
  ASSUME NEW old, NEW new, NEW n \in Nat,
         DOMAIN old \subseteq 1..n, DOMAIN new \subseteq 1..n, DOMAIN old \cap DOMAIN new = {},
         \A id \in DOMAIN old : DOMAIN old[id] \subseteq Plane,
         \A id \in DOMAIN new : DOMAIN new[id] \subseteq Plane
  PROVE  VoxelCount(With(old, new)) = VoxelCount(old) + VoxelCount(new)
  <1> DEFINE all == With(old, new)
  <1>1. /\ DOMAIN all = DOMAIN old \cup DOMAIN new
        /\ \A id \in DOMAIN old : all[id] = old[id]
        /\ \A id \in DOMAIN new : all[id] = new[id]
    BY DEF With
  <1> HIDE DEF all
  <1>2. Pairs(all) = Pairs(old) \cup Pairs(new)
    <2>1. ASSUME NEW p PROVE p \in Pairs(all) <=> p \in Pairs(old) \/ p \in Pairs(new)
      <3>1. p \in Pairs(all) <=> \E id \in DOMAIN all : \E c \in DOMAIN all[id] : p = <<id, c>>
        BY PairsAre
      <3>2. p \in Pairs(old) <=> \E id \in DOMAIN old : \E c \in DOMAIN old[id] : p = <<id, c>>
        BY PairsAre
      <3>3. p \in Pairs(new) <=> \E id \in DOMAIN new : \E c \in DOMAIN new[id] : p = <<id, c>>
        BY PairsAre
      <3> QED
        BY <1>1, <3>1, <3>2, <3>3
    <2> QED
      BY <2>1
  <1>3. Pairs(old) \cap Pairs(new) = {}
    <2> SUFFICES ASSUME NEW p \in Pairs(old), p \in Pairs(new) PROVE FALSE
      OBVIOUS
    <2>1. PICK id \in DOMAIN old : \E c \in DOMAIN old[id] : p = <<id, c>>
      BY PairsAre
    <2>2. PICK id2 \in DOMAIN new : \E c \in DOMAIN new[id2] : p = <<id2, c>>
      BY PairsAre
    <2>3. id = id2
      BY <2>1, <2>2
    <2> QED
      BY <2>3
  <1>4. /\ IsFiniteSet(Pairs(old)) /\ VoxelCount(old) = Cardinality(Pairs(old))
        /\ IsFiniteSet(Pairs(new)) /\ VoxelCount(new) = Cardinality(Pairs(new))
        /\ VoxelCount(all) = Cardinality(Pairs(all))
        /\ VoxelCount(old) \in Nat /\ VoxelCount(new) \in Nat
    <2>1. DOMAIN all \subseteq 1..n /\ \A id \in DOMAIN all : DOMAIN all[id] \subseteq Plane
      BY <1>1
    <2> QED
      BY <2>1, PairsAreFinite
  <1>5. Cardinality(Pairs(old) \cup Pairs(new)) = Cardinality(Pairs(old)) + Cardinality(Pairs(new))
    BY <1>3, <1>4, FS_Union, FS_EmptySet
  <1> QED
    BY <1>2, <1>4, <1>5 DEF all

-----------------------------------------------------------------------------
(* The bodies of a transaction.                                            *)

DetachedBy(bodies) == UNION {DOMAIN bodies[i] : i \in DOMAIN bodies}

(* Bodies that were cut out of S in the world w.                           *)
BodiesFit(w, S, bodies) ==
  /\ Len(bodies) \in Nat /\ DOMAIN bodies = 1..Len(bodies)
  /\ \A i \in DOMAIN bodies :
       /\ DOMAIN bodies[i] \subseteq S /\ Connected(DOMAIN bodies[i])
       /\ \A c \in DOMAIN bodies[i] : bodies[i][c] = w[c]
  /\ \A i, j \in DOMAIN bodies : DOMAIN bodies[i] \cap DOMAIN bodies[j] # {} => i = j

LEMMA BodiesInOrder ==
  ASSUME NEW w, NEW S, S \subseteq Plane, NEW islands, Apart(S, islands),
         NEW order \in InOrder(islands)
  PROVE  /\ BodiesFit(w, S, VoxelsInOrder(w, order))
         /\ DetachedBy(VoxelsInOrder(w, order)) = UNION islands
  <1> DEFINE bodies == VoxelsInOrder(w, order)
             n == Cardinality(islands)
  <1>1. n \in Nat
    <2>1. islands \subseteq SUBSET Plane
      BY DEF Apart
    <2>2. IsFiniteSet(islands)
      BY <2>1, PlaneIsFinite, FS_SUBSET, FS_Subset
    <2> QED
      BY <2>2, FS_CardinalityType
  <1> HIDE DEF n
  <1>2. /\ DOMAIN order = 1..n
        /\ \A i \in 1..n : order[i] \in islands
        /\ \A i, j \in 1..n : order[i] = order[j] => i = j
        /\ \A I \in islands : \E i \in 1..n : order[i] = I
    <2>1. order \in Bijection(1..n, islands)
      BY DEF InOrder, n
    <2> QED
      BY <2>1 DEF Bijection, Injection, IsInjective, Surjection
  <1>3. bodies = [i \in 1..n |-> VoxelsOf(w, order[i])]
    BY <1>2 DEF VoxelsInOrder
  <1>4. \A i \in 1..n : DOMAIN bodies[i] = order[i] /\ \A c \in order[i] : bodies[i][c] = w[c]
    BY <1>3 DEF VoxelsOf
  <1> HIDE DEF bodies
  <1>5. Len(bodies) = n /\ DOMAIN bodies = 1..n
    <2> DEFINE X == {bodies[i] : i \in 1..n}
    <2>1. bodies \in [1..n -> X]
      BY <1>3
    <2> HIDE DEF X
    <2>2. bodies \in Seq(X)
      BY <1>1, <2>1
    <2>3. DOMAIN bodies = 1..n /\ DOMAIN bodies = 1..Len(bodies) /\ Len(bodies) \in Nat
      BY <2>1, <2>2
    <2> QED
      BY <1>1, <2>3
  <1>6. \A i \in 1..n : DOMAIN bodies[i] \subseteq S /\ Connected(DOMAIN bodies[i])
    BY <1>2, <1>4 DEF Apart
  <1>7. \A i, j \in 1..n : DOMAIN bodies[i] \cap DOMAIN bodies[j] # {} => i = j
    BY <1>2, <1>4 DEF Apart
  <1>8. DetachedBy(bodies) = UNION islands
    <2>1. \A c : c \in DetachedBy(bodies) <=> \E i \in 1..n : c \in order[i]
      BY <1>4, <1>5 DEF DetachedBy
    <2>2. \A c : c \in UNION islands <=> \E i \in 1..n : c \in order[i]
      BY <1>2
    <2> QED
      BY <2>1, <2>2
  <1> QED
    BY <1>1, <1>4, <1>5, <1>6, <1>7, <1>8 DEF BodiesFit, bodies

(* What the next ids are given.                                            *)
AreSpawned(new, first, ids, bodies, state) ==
  /\ DOMAIN new = ids
  /\ \A i \in DOMAIN bodies :
       /\ first + i - 1 \in ids
       /\ new[first + i - 1] = [voxels |-> bodies[i], state |-> state[first + i - 1]]
  /\ \A id \in ids : \E i \in DOMAIN bodies : id = first + i - 1
  /\ \A id \in ids : id \in Nat /\ id >= first /\ id < first + Len(bodies)
  /\ Cardinality(ids) = Len(bodies)

LEMMA SpawnedAre ==
  ASSUME NEW a, a.nextBody \in Nat \ {0}, NEW w, NEW S, NEW bodies, BodiesFit(w, S, bodies), NEW state
  PROVE  AreSpawned(Spawned(a, bodies, state), a.nextBody, Added(a, bodies), bodies, state)
  <1> DEFINE n == Len(bodies)
             first == a.nextBody
  <1>1. n \in Nat /\ DOMAIN bodies = 1..n /\ first \in Nat \ {0}
    BY DEF BodiesFit
  <1>2. Added(a, bodies) = first..first + n - 1
    BY DEF Added
  <1>3. Spawned(a, bodies, state) =
          [id \in Added(a, bodies) |-> [voxels |-> bodies[id - first + 1], state |-> state[id]]]
    BY DEF Spawned
  <1> HIDE DEF n, first
  <1>4. \A i \in 1..n : first + i - 1 \in first..first + n - 1 /\ (first + i - 1) - first + 1 = i
    BY <1>1
  <1>5. \A id \in first..first + n - 1 :
          /\ id \in Nat /\ id >= first /\ id < first + n
          /\ \E i \in 1..n : id = first + i - 1
    <2> SUFFICES ASSUME NEW id \in first..first + n - 1
                 PROVE  /\ id \in Nat /\ id >= first /\ id < first + n
                        /\ id - first + 1 \in 1..n /\ id = first + (id - first + 1) - 1
      OBVIOUS
    <2> QED
      BY <1>1
  <1>6. Cardinality(first..first + n - 1) = n
    <2>1. first \in Int /\ first + n - 1 \in Int
      BY <1>1
    <2>2. Cardinality(first..first + n - 1)
            = IF first > first + n - 1 THEN 0 ELSE (first + n - 1) - first + 1
      BY <2>1, FS_Interval
    <2> QED
      BY <1>1, <2>2
  <1>7. \A i \in 1..n : Spawned(a, bodies, state)[first + i - 1]
                          = [voxels |-> bodies[i], state |-> state[first + i - 1]]
    BY <1>2, <1>3, <1>4
  <1>8. DOMAIN Spawned(a, bodies, state) = first..first + n - 1
    BY <1>2, <1>3
  <1> DEFINE new == Spawned(a, bodies, state)
             ids == Added(a, bodies)
  <1> HIDE DEF new, ids
  <1> QED
    BY <1>1, <1>2, <1>4, <1>5, <1>6, <1>7, <1>8 DEF AreSpawned, n, first, new, ids

Sized(bodies) == VoxelCount(BodyVoxelsIn(bodies))

LEMMA SpawnedCount ==
  ASSUME NEW a, a.nextBody \in Nat \ {0}, NEW w, NEW S, S \subseteq Plane,
         NEW bodies, BodiesFit(w, S, bodies), NEW state
  PROVE  Sized(Spawned(a, bodies, state)) = VoxelCount(bodies)
  <1> DEFINE first == a.nextBody
             n == Len(bodies)
             new == BodyVoxelsIn(Spawned(a, bodies, state))
             A == Pairs(bodies)
             B == Pairs(new)
             f == [p \in A |-> <<p[1] + first - 1, p[2]>>]
  <1>1. /\ DOMAIN new = Added(a, bodies)
        /\ \A i \in DOMAIN bodies : /\ first + i - 1 \in Added(a, bodies)
                                    /\ new[first + i - 1] = bodies[i]
        /\ \A id \in Added(a, bodies) : id \in Nat /\ \E i \in DOMAIN bodies : id = first + i - 1
    <2> DEFINE all == Spawned(a, bodies, state)
    <2>1. AreSpawned(all, first, Added(a, bodies), bodies, state)
      BY SpawnedAre
    <2>2. DOMAIN new = DOMAIN all /\ \A id \in DOMAIN all : new[id] = all[id].voxels
      BY DEF BodyVoxelsIn
    <2> HIDE DEF all, new, first
    <2>3. ASSUME NEW i \in DOMAIN bodies PROVE new[first + i - 1] = bodies[i]
      <3> DEFINE k == first + i - 1
      <3>1. k \in DOMAIN all /\ all[k] = [voxels |-> bodies[i], state |-> state[k]]
        BY <2>1 DEF AreSpawned
      <3> HIDE DEF k
      <3>2. all[k].voxels = bodies[i]
        BY <3>1
      <3>3. new[k] = bodies[i]
        BY <2>2, <3>1, <3>2
      <3> QED
        BY <3>3 DEF k
    <2> QED
      BY <2>1, <2>2, <2>3 DEF AreSpawned
  <1>2. first \in Nat \ {0} /\ n \in Nat /\ DOMAIN bodies = 1..n
    BY DEF BodiesFit
  <1> HIDE DEF new, first, n
  <1>3. ASSUME NEW p \in A
        PROVE  \E i \in 1..n : \E c \in DOMAIN bodies[i] : p = <<i, c>> /\ f[p] = <<first + i - 1, c>>
    <2>1. PICK i \in DOMAIN bodies : \E c \in DOMAIN bodies[i] : p = <<i, c>>
      BY <1>3, PairsAre
    <2>2. PICK c \in DOMAIN bodies[i] : p = <<i, c>>
      BY <2>1
    <2>3. f[p] = <<i + first - 1, c>> /\ i + first - 1 = first + i - 1
      BY <1>2, <1>3, <2>2
    <2> QED
      BY <1>2, <2>2, <2>3
  <1>4. ASSUME NEW p \in A PROVE f[p] \in B
    <2>1. PICK i \in 1..n : \E c \in DOMAIN bodies[i] : p = <<i, c>> /\ f[p] = <<first + i - 1, c>>
      BY <1>3, <1>4
    <2>2. PICK c \in DOMAIN bodies[i] : f[p] = <<first + i - 1, c>>
      BY <2>1
    <2>3. first + i - 1 \in DOMAIN new /\ c \in DOMAIN new[first + i - 1]
      BY <1>1, <1>2
    <2> HIDE DEF f
    <2> QED
      BY <2>2, <2>3, PairsAre
  <1>5. ASSUME NEW p \in A, NEW q \in A, f[p] = f[q] PROVE p = q
    <2>1. PICK i \in 1..n : \E c \in DOMAIN bodies[i] : p = <<i, c>> /\ f[p] = <<first + i - 1, c>>
      BY <1>3, <1>5
    <2>2. PICK c \in DOMAIN bodies[i] : p = <<i, c>> /\ f[p] = <<first + i - 1, c>>
      BY <2>1
    <2>3. PICK j \in 1..n : \E d \in DOMAIN bodies[j] : q = <<j, d>> /\ f[q] = <<first + j - 1, d>>
      BY <1>3, <1>5
    <2>4. PICK d \in DOMAIN bodies[j] : q = <<j, d>> /\ f[q] = <<first + j - 1, d>>
      BY <2>3
    <2> HIDE DEF f
    <2>5. <<first + i - 1, c>> = <<first + j - 1, d>>
      BY <1>5, <2>2, <2>4
    <2>6. first + i - 1 = first + j - 1 /\ c = d
      BY <2>5
    <2>7. i = j
      BY <1>2, <2>6
    <2> QED
      BY <2>2, <2>4, <2>6, <2>7
  <1>6. ASSUME NEW r \in B PROVE \E p \in A : f[p] = r
    <2>1. PICK id \in DOMAIN new : \E c \in DOMAIN new[id] : r = <<id, c>>
      BY <1>6, PairsAre
    <2>2. PICK c \in DOMAIN new[id] : r = <<id, c>>
      BY <2>1
    <2>3. PICK i \in DOMAIN bodies : id = first + i - 1
      BY <1>1
    <2>4. c \in DOMAIN bodies[i]
      BY <1>1, <2>2, <2>3
    <2>5. <<i, c>> \in A
      BY <2>4, PairsAre
    <2>6. f[<<i, c>>] = <<i + first - 1, c>> /\ i + first - 1 = first + i - 1
      BY <1>2, <2>5
    <2> HIDE DEF f
    <2> QED
      BY <2>2, <2>3, <2>5, <2>6
  <1>7. f \in Bijection(A, B)
    <2>1. DOMAIN f = A /\ f = [p \in A |-> f[p]]
      OBVIOUS
    <2> HIDE DEF f, A, B
    <2>2. f \in [A -> B]
      BY <1>4, <2>1
    <2> QED
      BY <1>5, <1>6, <2>2 DEF Bijection, Injection, IsInjective, Surjection
  <1>8. ExistsBijection(A, B)
    BY <1>7 DEF ExistsBijection
  <1>9. IsFiniteSet(A) /\ VoxelCount(bodies) = Cardinality(A)
    <2>1. \A i \in DOMAIN bodies : DOMAIN bodies[i] \subseteq Plane
      BY DEF BodiesFit
    <2> QED
      BY <1>2, <2>1, PairsAreFinite
  <1>10. Cardinality(B) = Cardinality(A)
    BY <1>8, <1>9, FS_Bijection
  <1>11. VoxelCount(new) = Cardinality(B)
    BY DEF VoxelCount, Pairs
  <1> QED
    BY <1>9, <1>10, <1>11 DEF Sized, new

(* The changes of a transaction are a damage too, which takes away what    *)
(* detached with the rest.                                                 *)
LEMMA MergedAreDamage ==
  ASSUME NEW w, IsWorld(w), NEW changes, IsDamage(w, changes),
         NEW bodies, BodiesFit(Changed(w, changes), SolidIn(Changed(w, changes)), bodies)
  PROVE  LET new == Changed(w, changes)
             all == MergedChanges(new, changes, bodies)
         IN  /\ IsDamage(w, all)
             /\ Opened(all) = Opened(changes) \cup DetachedBy(bodies)
             /\ DetachedBy(bodies) \subseteq SolidIn(new)
             /\ Changed(w, all) = [c \in Plane |-> IF c \in DetachedBy(bodies) THEN Nothing ELSE new[c]]
             /\ \A i \in DOMAIN bodies : \A c \in DOMAIN bodies[i] :
                  Removes(all, c, bodies[i][c]) /\ Worn(bodies[i][c], w[c])
  <1> DEFINE new == Changed(w, changes)
             all == MergedChanges(new, changes, bodies)
             detached == DetachedBy(bodies)
  <1>1. /\ IsWorld(new) /\ Opened(changes) \subseteq SolidIn(w)
        /\ SolidIn(new) = SolidIn(w) \ Opened(changes)
        /\ \A c \in SolidIn(new) : new[c] \in Stuff /\ Worn(new[c], w[c])
    BY DamageChanges
  <1>2. /\ DOMAIN all = detached \cup DOMAIN changes
        /\ \A c \in DOMAIN all :
             /\ all[c].before = IF c \in DOMAIN changes THEN changes[c].before ELSE new[c]
             /\ all[c].after = IF c \in detached THEN Nothing ELSE changes[c].after
    BY DEF MergedChanges, DetachedBy
  <1>3. \A c \in Plane : new[c] = IF c \in DOMAIN changes THEN changes[c].after ELSE w[c]
    BY DEF Changed
  <1>4. /\ DOMAIN changes \subseteq SolidIn(w)
        /\ \A c \in DOMAIN changes :
             /\ changes[c].before = w[c]
             /\ \/ changes[c].after = Nothing
                \/ changes[c].after \in Stuff /\ Worn(changes[c].after, w[c])
    BY DEF IsDamage
  <1>5. /\ detached \subseteq SolidIn(new)
        /\ \A i \in DOMAIN bodies : \A c \in DOMAIN bodies[i] :
             c \in detached /\ bodies[i][c] = new[c]
    BY DEF BodiesFit, DetachedBy
  <1>6. SolidIn(w) \subseteq Plane
    BY DEF SolidIn
  <1> HIDE DEF new, all, detached
  <1>7. \A c \in DOMAIN all : c \in SolidIn(w) /\ all[c].before = w[c]
    BY <1>1, <1>2, <1>3, <1>4, <1>5, <1>6
  <1>8. IsDamage(w, all)
    BY <1>2, <1>4, <1>7 DEF IsDamage
  <1>9. Opened(all) = Opened(changes) \cup detached
    <2>1. \A c : c \in Opened(all) <=> c \in DOMAIN all /\ all[c].after = Nothing
      BY DEF Opened
    <2>2. \A c : c \in Opened(changes) <=> c \in DOMAIN changes /\ changes[c].after = Nothing
      BY DEF Opened
    <2> QED
      BY <1>2, <2>1, <2>2
  <1>10. Changed(w, all) = [c \in Plane |-> IF c \in detached THEN Nothing ELSE new[c]]
    <2>1. \A c \in Plane : (IF c \in DOMAIN all THEN all[c].after ELSE w[c])
                             = IF c \in detached THEN Nothing ELSE new[c]
      BY <1>2, <1>3
    <2> QED
      BY <2>1 DEF Changed
  <1>11. ASSUME NEW i \in DOMAIN bodies, NEW c \in DOMAIN bodies[i]
         PROVE  Removes(all, c, bodies[i][c]) /\ Worn(bodies[i][c], w[c])
    <2>1. c \in detached /\ c \in SolidIn(new) /\ bodies[i][c] = new[c]
      BY <1>5, <1>11
    <2>2. Worn(new[c], w[c])
      BY <1>1, <2>1
    <2>3. c \in DOMAIN all /\ all[c].before = w[c] /\ all[c].after = Nothing
      BY <1>2, <1>7, <2>1
    <2>4. w[c].integrity \in Int /\ new[c].integrity \in Int
      <3>1. w[c] \in Stuff
        BY <1>1, <2>1, SolidIsStuff DEF IsWorld, SolidIn
      <3>2. new[c] \in Stuff
        BY <1>1, <2>1
      <3> QED
        BY <3>1, <3>2 DEF Stuff
    <2> QED
      BY <2>1, <2>2, <2>3, <2>4 DEF Removes, Worn, Solid
  <1> QED
    BY <1>5, <1>8, <1>9, <1>10, <1>11 DEF new, all, detached

-----------------------------------------------------------------------------
(* Bodies, and those a transaction adds to them.                           *)

Postures == [dx : Int, dy : Int, turned : BOOLEAN, pushed : BOOLEAN]

IsBody(body) ==
  /\ body = [voxels |-> body.voxels, state |-> body.state]
  /\ DOMAIN body.voxels \subseteq Plane
  /\ body.state \in Postures

AreBodies(bodies, next) ==
  /\ next \in Nat \ {0}
  /\ DOMAIN bodies \subseteq 1..next - 1
  /\ bodies = [id \in DOMAIN bodies |-> bodies[id]]
  /\ \A id \in DOMAIN bodies : IsBody(bodies[id])

(* New bodies have each a state.                                           *)
AreStarts(state, ids) ==
  /\ DOMAIN state = ids
  /\ \A id \in ids : state[id] \in Postures

LEMMA BodiesCount ==
  ASSUME NEW bodies, NEW next, AreBodies(bodies, next)
  PROVE  IsFiniteSet(DOMAIN bodies) /\ Cardinality(DOMAIN bodies) \in Nat /\ Sized(bodies) \in Nat
  <1>1. next - 1 \in Nat /\ DOMAIN bodies \subseteq 1..next - 1
    BY DEF AreBodies
  <1>2. IsFiniteSet(DOMAIN bodies)
    <2>1. IsFiniteSet(1..next - 1)
      BY <1>1, FS_Interval
    <2> QED
      BY <1>1, <2>1, FS_Subset
  <1>3. DOMAIN BodyVoxelsIn(bodies) = DOMAIN bodies
        /\ \A id \in DOMAIN bodies : DOMAIN BodyVoxelsIn(bodies)[id] \subseteq Plane
    BY DEF BodyVoxelsIn, AreBodies, IsBody
  <1>4. VoxelCount(BodyVoxelsIn(bodies)) \in Nat
    BY <1>1, <1>3, PairsAreFinite
  <1> QED
    BY <1>2, <1>4, FS_CardinalityType DEF Sized

LEMMA SpawnedAreBodies ==
  ASSUME NEW a, a.nextBody \in Nat \ {0}, NEW w, NEW S, S \subseteq Plane,
         NEW bodies, BodiesFit(w, S, bodies),
         NEW state, AreStarts(state, Added(a, bodies))
  PROVE  LET new == Spawned(a, bodies, state)
         IN  /\ new = [id \in DOMAIN new |-> new[id]]
             /\ \A id \in DOMAIN new : IsBody(new[id]) /\ new[id].state = state[id]
  <1> DEFINE new == Spawned(a, bodies, state)
             first == a.nextBody
             ids == Added(a, bodies)
  <1>1. AreSpawned(new, first, ids, bodies, state)
    BY SpawnedAre
  <1>2. new = [id \in DOMAIN new |-> new[id]]
    BY DEF Spawned
  <1> HIDE DEF new, ids
  <1>3. ASSUME NEW id \in DOMAIN new PROVE IsBody(new[id]) /\ new[id].state = state[id]
    <2>1. PICK i \in DOMAIN bodies : id = first + i - 1
      BY <1>1, <1>3 DEF AreSpawned
    <2>2. new[id] = [voxels |-> bodies[i], state |-> state[id]]
      BY <1>1, <2>1 DEF AreSpawned
    <2>3. state[id] \in Postures
      BY <1>1, <1>3 DEF AreStarts, AreSpawned, ids
    <2>4. DOMAIN bodies[i] \subseteq Plane
      BY DEF BodiesFit
    <2> DEFINE body == new[id]
    <2>6. body.voxels = bodies[i] /\ body.state = state[id]
          /\ body = [voxels |-> bodies[i], state |-> state[id]]
      BY <2>2
    <2> HIDE DEF body
    <2>7. IsBody(body)
      BY <2>3, <2>4, <2>6 DEF IsBody
    <2> QED
      BY <2>6, <2>7 DEF body
  <1> QED
    BY <1>2, <1>3 DEF new

LEMMA BodiesAdded ==
  ASSUME NEW a, AreBodies(a.bodies, a.nextBody), NEW w, NEW S, S \subseteq Plane,
         NEW bodies, BodiesFit(w, S, bodies),
         NEW state, AreStarts(state, Added(a, bodies))
  PROVE  LET all == With(a.bodies, Spawned(a, bodies, state))
         IN  /\ AreBodies(all, a.nextBody + Len(bodies))
             /\ DOMAIN a.bodies \cap Added(a, bodies) = {}
             /\ Sized(all) = Sized(a.bodies) + VoxelCount(bodies)
             /\ Cardinality(DOMAIN all) = Cardinality(DOMAIN a.bodies) + Len(bodies)
  <1> DEFINE new == Spawned(a, bodies, state)
             old == a.bodies
             all == With(old, new)
             first == a.nextBody
             ids == Added(a, bodies)
             n == Len(bodies)
  <1>1. first \in Nat \ {0} /\ n \in Nat /\ DOMAIN old \subseteq 1..first - 1
        /\ \A id \in DOMAIN old : IsBody(old[id])
    BY DEF AreBodies, BodiesFit
  <1>2. AreSpawned(new, first, ids, bodies, state)
    BY <1>1, SpawnedAre
  <1>3. \A id \in DOMAIN new : IsBody(new[id])
    BY <1>1, SpawnedAreBodies
  <1>4. /\ DOMAIN all = DOMAIN old \cup DOMAIN new
        /\ \A id \in DOMAIN all : all[id] = IF id \in DOMAIN new THEN new[id] ELSE old[id]
        /\ all = [id \in DOMAIN all |-> all[id]]
    BY DEF With
  <1>5. Sized(new) = VoxelCount(bodies)
    BY <1>1, SpawnedCount
  <1> HIDE DEF new, old, all, first, ids, n
  <1>6. DOMAIN old \cap ids = {} /\ DOMAIN new = ids
    BY <1>1, <1>2 DEF AreSpawned
  <1>7. DOMAIN new \subseteq 1..first + n - 1 /\ DOMAIN old \subseteq 1..first + n - 1
    BY <1>1, <1>2 DEF AreSpawned, n
  <1>8. AreBodies(all, first + n)
    <2>1. \A id \in DOMAIN all : IsBody(all[id])
      BY <1>1, <1>3, <1>4
    <2>2. first + n \in Nat \ {0}
      BY <1>1
    <2>3. DOMAIN all \subseteq 1..first + n - 1
      BY <1>4, <1>7
    <2>4. all = [id \in DOMAIN all |-> all[id]]
      BY <1>4
    <2> DEFINE m == first + n
    <2>5. m \in Nat \ {0} /\ DOMAIN all \subseteq 1..m - 1
      <3>1. m - 1 = first + n - 1
        BY <1>1
      <3> QED
        BY <2>2, <2>3, <3>1, Zenon
    <2> HIDE DEF m
    <2>6. AreBodies(all, m)
      BY <2>1, <2>4, <2>5, Zenon DEF AreBodies
    <2> QED
      BY <2>6 DEF m
  <1>9. Sized(all) = Sized(old) + VoxelCount(bodies)
    <2> DEFINE O == BodyVoxelsIn(old)
               N == BodyVoxelsIn(new)
    <2>1. /\ DOMAIN O = DOMAIN old /\ DOMAIN N = DOMAIN new
          /\ \A id \in DOMAIN old : O[id] = old[id].voxels /\ DOMAIN O[id] \subseteq Plane
          /\ \A id \in DOMAIN new : N[id] = new[id].voxels /\ DOMAIN N[id] \subseteq Plane
      BY <1>1, <1>3 DEF BodyVoxelsIn, IsBody
    <2>2. BodyVoxelsIn(all) = With(O, N)
      <3> HIDE DEF O, N
      <3>1. \A id \in DOMAIN all : all[id].voxels = IF id \in DOMAIN N THEN N[id] ELSE O[id]
        BY <1>4, <2>1
      <3> QED
        BY <1>4, <2>1, <3>1 DEF BodyVoxelsIn, With
    <2> HIDE DEF O, N
    <2>3. first + n - 1 \in Nat
      BY <1>1
    <2>4. VoxelCount(With(O, N)) = VoxelCount(O) + VoxelCount(N)
      BY <1>6, <1>7, <2>1, <2>3, CountsAdd
    <2> QED
      BY <1>5, <2>2, <2>4 DEF Sized, O, N
  <1>10. Cardinality(DOMAIN all) = Cardinality(DOMAIN old) + n
    <2>1. IsFiniteSet(DOMAIN old) /\ IsFiniteSet(ids)
      <3>1. IsFiniteSet(1..first + n - 1)
        <4>1. first + n - 1 \in Int
          BY <1>1
        <4> QED
          BY <4>1, FS_Interval
      <3> QED
        BY <1>6, <1>7, <3>1, FS_Subset
    <2>2. Cardinality(ids) = n
      BY <1>2 DEF AreSpawned, n
    <2>3. Cardinality(DOMAIN old) \in Nat /\ Cardinality(DOMAIN old \cup ids)
             = Cardinality(DOMAIN old) + Cardinality(ids) - Cardinality(DOMAIN old \cap ids)
      BY <2>1, FS_Union, FS_CardinalityType
    <2>4. Cardinality(DOMAIN old \cap ids) = 0
      BY <1>6, FS_EmptySet
    <2> QED
      BY <1>1, <1>4, <1>6, <2>2, <2>3, <2>4
  <1> QED
    BY <1>6, <1>8, <1>9, <1>10 DEF new, old, all, first, ids, n

Moved(state) == [id \in {i \in DOMAIN state : state[i] # AtSpawn} |-> state[id]]

LEMMA RestIsStart ==
  ASSUME NEW a, NEW bodies
  PROVE  AreStarts(AtRest(a, bodies), Added(a, bodies)) /\ Moved(AtRest(a, bodies)) = NoBodies
  <1>1. AtSpawn \in Postures
    BY DEF AtSpawn, Postures
  <1>2. DOMAIN AtRest(a, bodies) = Added(a, bodies)
        /\ \A id \in Added(a, bodies) : AtRest(a, bodies)[id] = AtSpawn
    BY DEF AtRest
  <1>3. {i \in DOMAIN AtRest(a, bodies) : AtRest(a, bodies)[i] # AtSpawn} = {}
    BY <1>2
  <1> QED
    BY <1>1, <1>2, <1>3 DEF AreStarts, Moved, NoBodies

(* The replica gives a new body the state the authority gave it.           *)
LEMMA FinalBodiesAre ==
  ASSUME NEW a, AreBodies(a.bodies, a.nextBody), NEW w, NEW S, S \subseteq Plane,
         NEW bodies, BodiesFit(w, S, bodies),
         NEW state, AreStarts(state, Added(a, bodies)),
         NEW r, r.bodies = a.bodies,
         NEW p, p.assigned = Spawned(a, bodies, AtRest(a, bodies)), p.updates = Moved(state)
  PROVE  FinalBodies(r, p) = With(a.bodies, Spawned(a, bodies, state))
  <1> DEFINE old == a.bodies
             first == Spawned(a, bodies, AtRest(a, bodies))
             new == Spawned(a, bodies, state)
             ids == Added(a, bodies)
             all == With(old, first)
  <1>1. a.nextBody \in Nat \ {0}
    BY DEF AreBodies
  <1>2. /\ DOMAIN first = ids /\ DOMAIN new = ids /\ DOMAIN old \cap ids = {}
        /\ \A id \in ids : /\ first[id] = [voxels |-> bodies[id - a.nextBody + 1], state |-> AtSpawn]
                           /\ new[id] = [voxels |-> bodies[id - a.nextBody + 1], state |-> state[id]]
    <2>1. DOMAIN old \cap ids = {}
      BY BodiesAdded
    <2> QED
      BY <2>1 DEF Spawned, AtRest
  <1>3. /\ DOMAIN all = DOMAIN old \cup ids
        /\ \A id \in DOMAIN all : all[id] = IF id \in ids THEN first[id] ELSE old[id]
    BY <1>2 DEF With
  <1>4. /\ DOMAIN p.updates \subseteq ids
        /\ \A id \in ids : id \in DOMAIN p.updates <=> state[id] # AtSpawn
        /\ \A id \in DOMAIN p.updates : p.updates[id] = state[id]
    BY DEF Moved, AreStarts
  <1>5. FinalBodies(r, p) = [id \in DOMAIN all |->
          IF id \in DOMAIN p.updates THEN [all[id] EXCEPT !.state = p.updates[id]] ELSE all[id]]
    BY DEF FinalBodies
  <1>6. With(old, new) = [id \in DOMAIN old \cup ids |-> IF id \in ids THEN new[id] ELSE old[id]]
    BY <1>2 DEF With
  <1> HIDE DEF old, first, new, ids, all
  <1>7. \A id \in DOMAIN all :
          (IF id \in DOMAIN p.updates THEN [all[id] EXCEPT !.state = p.updates[id]] ELSE all[id])
            = IF id \in ids THEN new[id] ELSE old[id]
    <2> SUFFICES ASSUME NEW id \in DOMAIN all
                 PROVE  (IF id \in DOMAIN p.updates THEN [all[id] EXCEPT !.state = p.updates[id]]
                         ELSE all[id]) = IF id \in ids THEN new[id] ELSE old[id]
      OBVIOUS
    <2>1. CASE id \notin ids
      BY <1>3, <1>4, <2>1
    <2>2. CASE id \in ids /\ state[id] = AtSpawn
      BY <1>2, <1>3, <1>4, <2>2
    <2>3. CASE id \in ids /\ state[id] # AtSpawn
      <3> DEFINE v == bodies[id - a.nextBody + 1]
                 s == state[id]
      <3>1. all[id] = [voxels |-> v, state |-> AtSpawn] /\ new[id] = [voxels |-> v, state |-> s]
        BY <1>2, <1>3, <2>3
      <3>2. id \in DOMAIN p.updates /\ p.updates[id] = s
        BY <1>4, <2>3
      <3> HIDE DEF v, s
      <3> DEFINE body == all[id]
      <3>3. [body EXCEPT !.state = s] = [voxels |-> v, state |-> s]
        <4>1. body = [voxels |-> body.voxels, state |-> body.state] /\ body.voxels = v
          BY <3>1
        <4> HIDE DEF body
        <4>2. [body EXCEPT !.state = s] = [voxels |-> body.voxels, state |-> s]
          BY <4>1
        <4> QED
          BY <4>1, <4>2
      <3> QED
        BY <2>3, <3>1, <3>2, <3>3
    <2> QED
      BY <2>1, <2>2, <2>3
  <1>8. FinalBodies(r, p) = [id \in DOMAIN all |-> IF id \in ids THEN new[id] ELSE old[id]]
    BY <1>5, <1>7
  <1> QED
    BY <1>3, <1>6, <1>8 DEF old, new

-----------------------------------------------------------------------------
(* A transaction and the delta that carries it.                            *)

IsAuthority(a) ==
  /\ a = [world |-> a.world, bodies |-> a.bodies, activeVoxels |-> a.activeVoxels,
          nextBody |-> a.nextBody, lastCommand |-> a.lastCommand, units |-> a.units]
  /\ IsWorld(a.world) /\ AreBodies(a.bodies, a.nextBody)
  /\ a.activeVoxels = Sized(a.bodies)

WithinLimits(a) ==
  /\ 0 <= limits.spawned
  /\ a.nextBody <= limits.lastBody
  /\ Cardinality(DOMAIN a.bodies) <= limits.bodies
  /\ Sized(a.bodies) <= limits.activeVoxels

(* What a replica has that has the state.                                  *)
ReplicaOf(state) ==
  [world |-> state.world, bodies |-> state.bodies, activeVoxels |-> Sized(state.bodies),
   nextBody |-> state.nextBody]

(* What the packet makes of it.                                            *)
Received(r, p) ==
  [world |-> Changed(r.world, p.changes), bodies |-> FinalBodies(r, p),
   activeVoxels |-> r.activeVoxels + Sized(p.assigned),
   nextBody |-> r.nextBody + Cardinality(DOMAIN p.assigned)]

InNew(a, b, c) ==
  {id \in DOMAIN b.bodies \ DOMAIN a.bodies : c \in DOMAIN b.bodies[id].voxels}

Conserves(a, b, changes) ==
  \A c \in Plane :
    LET v == a.world[c]
        w == b.world[c]
    IN  IF ~Solid(v) THEN InNew(a, b, c) = {}
        ELSE \/ InNew(a, b, c) = {} /\ ~Solid(w) /\ ~Solid(changes[c].after)
             \/ InNew(a, b, c) = {} /\ Solid(w) /\ Worn(w, v)
             \/ /\ Cardinality(InNew(a, b, c)) = 1 /\ ~Solid(w)
                /\ \A id \in InNew(a, b, c) : Worn(b.bodies[id].voxels[c], v)

Carries(a, b, p) ==
  /\ Takes(ReplicaOf(a), p) /\ Received(ReplicaOf(a), p) = ReplicaOf(b)
  /\ Conserves(a, b, p.changes)
  /\ p # <<>>

LEMMA PacketIsNotEmpty ==
  ASSUME NEW a, NEW b, NEW changes, NEW assigned, NEW updates
  PROVE  DeltaPacket(a, b, changes, assigned, updates) # <<>>
  <1> DEFINE p == DeltaPacket(a, b, changes, assigned, updates)
  <1>1. "base" \in DOMAIN p
    BY DEF DeltaPacket
  <1>2. DOMAIN <<>> = {}
    OBVIOUS
  <1> HIDE DEF p
  <1>3. p # <<>>
    BY <1>1, <1>2
  <1> QED
    BY <1>3 DEF p

LEMMA PacketFields ==
  ASSUME NEW a, NEW b, NEW changes, NEW assigned, NEW updates
  PROVE  LET p == DeltaPacket(a, b, changes, assigned, updates)
         IN  /\ p.base = a.world /\ p.final = b.world
             /\ p.baseBodies = a.bodies /\ p.finalBodies = b.bodies
             /\ p.changes = changes /\ p.assigned = assigned /\ p.updates = updates
  BY DEF DeltaPacket

(* A damage, the bodies that detach then, and how they start.              *)
Transaction(a, changes, bodies, state) ==
  /\ IsAuthority(a) /\ IsDamage(a.world, changes)
  /\ BodiesFit(Changed(a.world, changes), SolidIn(Changed(a.world, changes)), bodies)
  /\ AreStarts(state, Added(a, bodies))

(* Every voxel is static still, part of one new body, or broken.           *)
LEMMA TransactionConserves ==
  ASSUME NEW a, NEW changes, NEW bodies, NEW state, Transaction(a, changes, bodies, state),
         NEW b, b.world = Changed(a.world, MergedChanges(Changed(a.world, changes), changes, bodies)),
         b.bodies = With(a.bodies, Spawned(a, bodies, state))
  PROVE  Conserves(a, b, MergedChanges(Changed(a.world, changes), changes, bodies))
  <1> DEFINE w == Changed(a.world, changes)
             all == MergedChanges(w, changes, bodies)
             detached == DetachedBy(bodies)
             new == Spawned(a, bodies, state)
             ids == Added(a, bodies)
             first == a.nextBody
  <1>0. /\ IsAuthority(a) /\ IsDamage(a.world, changes) /\ BodiesFit(w, SolidIn(w), bodies)
        /\ AreStarts(state, ids)
    BY DEF Transaction
  <1>1. IsWorld(a.world) /\ AreBodies(a.bodies, first) /\ first \in Nat \ {0}
    BY <1>0 DEF IsAuthority, AreBodies
  <1>2. /\ IsDamage(a.world, all)
        /\ Opened(all) = Opened(changes) \cup detached
        /\ detached \subseteq SolidIn(w)
        /\ \A i \in DOMAIN bodies : \A c \in DOMAIN bodies[i] : Worn(bodies[i][c], a.world[c])
    BY <1>0, <1>1, MergedAreDamage
  <1>3. /\ Opened(all) \subseteq SolidIn(a.world)
        /\ SolidIn(b.world) = SolidIn(a.world) \ Opened(all)
        /\ \A c \in SolidIn(b.world) : Worn(b.world[c], a.world[c])
    BY <1>0, <1>1, <1>2, DamageChanges
  <1>4. SolidIn(w) \subseteq SolidIn(a.world)
    BY <1>0, <1>1, DamageChanges
  <1>5. AreSpawned(new, first, ids, bodies, state)
    BY <1>0, <1>1, SpawnedAre
  <1>6. DOMAIN a.bodies \cap ids = {}
    BY <1>0, <1>1, BodiesAdded DEF SolidIn
  <1>7. \A i, j \in DOMAIN bodies : DOMAIN bodies[i] \cap DOMAIN bodies[j] # {} => i = j
    BY <1>0 DEF BodiesFit
  <1>8. \A c : c \in detached <=> \E i \in DOMAIN bodies : c \in DOMAIN bodies[i]
    BY DEF DetachedBy
  <1>9. /\ DOMAIN b.bodies \ DOMAIN a.bodies = ids
        /\ \A id \in ids : b.bodies[id] = new[id]
    BY <1>5, <1>6 DEF With, AreSpawned
  <1> HIDE DEF w, all, detached, new, ids, first
  <1>10. \A i \in DOMAIN bodies : first + i - 1 \in ids /\ b.bodies[first + i - 1].voxels = bodies[i]
    <2> SUFFICES ASSUME NEW i \in DOMAIN bodies
                 PROVE  first + i - 1 \in ids /\ b.bodies[first + i - 1].voxels = bodies[i]
      OBVIOUS
    <2> DEFINE k == first + i - 1
    <2>1. k \in ids /\ new[k] = [voxels |-> bodies[i], state |-> state[k]]
      BY <1>5 DEF AreSpawned
    <2> HIDE DEF k
    <2>2. k \in ids /\ b.bodies[k].voxels = bodies[i]
      BY <1>9, <2>1
    <2> QED
      BY <2>2 DEF k
  <1>11. ASSUME NEW c \in Plane, c \notin detached PROVE InNew(a, b, c) = {}
    <2> SUFFICES ASSUME NEW id \in InNew(a, b, c) PROVE FALSE
      OBVIOUS
    <2>1. id \in ids /\ c \in DOMAIN b.bodies[id].voxels
      BY <1>9 DEF InNew
    <2>2. PICK i \in DOMAIN bodies : id = first + i - 1
      BY <1>5, <2>1 DEF AreSpawned
    <2>3. c \in DOMAIN bodies[i]
      BY <1>10, <2>1, <2>2
    <2> QED
      BY <1>8, <1>11, <2>3
  <1>12. ASSUME NEW c \in Plane, c \in detached
         PROVE  /\ Cardinality(InNew(a, b, c)) = 1
                /\ \A id \in InNew(a, b, c) : Worn(b.bodies[id].voxels[c], a.world[c])
    <2>1. PICK i \in DOMAIN bodies : c \in DOMAIN bodies[i]
      BY <1>8, <1>12
    <2> DEFINE k == first + i - 1
    <2>2. k \in ids /\ b.bodies[k].voxels = bodies[i]
      BY <1>10
    <2>3. \A id \in ids : c \in DOMAIN b.bodies[id].voxels => id = k
      <3> SUFFICES ASSUME NEW id \in ids, c \in DOMAIN b.bodies[id].voxels PROVE id = k
        OBVIOUS
      <3>1. PICK j \in DOMAIN bodies : id = first + j - 1
        BY <1>5 DEF AreSpawned
      <3>2. c \in DOMAIN bodies[j]
        BY <1>10, <3>1
      <3>3. i = j
        BY <1>7, <2>1, <3>2
      <3> QED
        BY <3>1, <3>3
    <2> HIDE DEF k
    <2>4. InNew(a, b, c) = {k}
      BY <1>9, <2>1, <2>2, <2>3 DEF InNew
    <2>5. Worn(b.bodies[k].voxels[c], a.world[c])
      BY <1>2, <2>1, <2>2
    <2> QED
      BY <2>4, <2>5, FS_Singleton
  <1>13. ASSUME NEW c \in Plane
         PROVE  IF ~Solid(a.world[c]) THEN InNew(a, b, c) = {}
                ELSE \/ InNew(a, b, c) = {} /\ ~Solid(b.world[c]) /\ ~Solid(all[c].after)
                     \/ InNew(a, b, c) = {} /\ Solid(b.world[c]) /\ Worn(b.world[c], a.world[c])
                     \/ /\ Cardinality(InNew(a, b, c)) = 1 /\ ~Solid(b.world[c])
                        /\ \A id \in InNew(a, b, c) : Worn(b.bodies[id].voxels[c], a.world[c])
    <2>1. CASE c \in detached
      <3>1. c \in SolidIn(a.world) /\ c \notin SolidIn(b.world)
        BY <1>2, <1>3, <1>4, <2>1
      <3> QED
        BY <1>12, <2>1, <3>1 DEF SolidIn
    <2>2. CASE c \notin detached /\ c \in SolidIn(b.world)
      <3>1. Solid(b.world[c]) /\ Worn(b.world[c], a.world[c]) /\ InNew(a, b, c) = {}
        BY <1>3, <1>11, <2>2 DEF SolidIn
      <3> QED
        BY <3>1
    <2>3. CASE c \notin detached /\ c \notin SolidIn(b.world)
      <3>1. ~Solid(b.world[c]) /\ InNew(a, b, c) = {}
        BY <1>11, <2>3 DEF SolidIn
      <3>2. Solid(a.world[c]) => ~Solid(all[c].after)
        BY <1>3, <2>3 DEF SolidIn, Opened, Solid
      <3> QED
        BY <3>1, <3>2
    <2> QED
      BY <2>1, <2>2, <2>3
  <1> QED
    BY <1>13 DEF Conserves, w, all

LEMMA TransactionCarries ==
  ASSUME NEW a, NEW changes, NEW bodies, NEW state, Transaction(a, changes, bodies, state),
         WithinLimits(a), FitsLimits(a, bodies),
         NEW b, b.world = Changed(a.world, MergedChanges(Changed(a.world, changes), changes, bodies)),
         b.bodies = With(a.bodies, Spawned(a, bodies, state)),
         b.nextBody = a.nextBody + Len(bodies)
  PROVE  /\ Carries(a, b, DeltaPacket(a, b, MergedChanges(Changed(a.world, changes), changes, bodies),
                                      Spawned(a, bodies, AtRest(a, bodies)), Moved(state)))
         /\ WithinLimits(b)
         /\ Sized(b.bodies) = a.activeVoxels + VoxelCount(bodies)
  <1> DEFINE w == Changed(a.world, changes)
             S == SolidIn(w)
             all == MergedChanges(w, changes, bodies)
             assigned == Spawned(a, bodies, AtRest(a, bodies))
             p == DeltaPacket(a, b, all, assigned, Moved(state))
             r == ReplicaOf(a)
             ids == Added(a, bodies)
             first == a.nextBody
             n == Len(bodies)
  <1>0. /\ IsAuthority(a) /\ IsDamage(a.world, changes) /\ BodiesFit(w, S, bodies)
        /\ AreStarts(state, ids)
    BY DEF Transaction
  <1>1. /\ IsWorld(a.world) /\ AreBodies(a.bodies, first) /\ first \in Nat \ {0}
        /\ a.activeVoxels = Sized(a.bodies) /\ S \subseteq Plane
    BY <1>0 DEF IsAuthority, AreBodies, SolidIn
  <1>2. /\ p.base = a.world /\ p.final = b.world
        /\ p.baseBodies = a.bodies /\ p.finalBodies = b.bodies
        /\ p.changes = all /\ p.assigned = assigned /\ p.updates = Moved(state)
    BY PacketFields
  <1>3. r.world = a.world /\ r.bodies = a.bodies /\ r.activeVoxels = Sized(a.bodies)
        /\ r.nextBody = first
    BY DEF ReplicaOf
  <1>4. /\ VoxelCount(bodies) <= limits.spawned
        /\ \A i \in DOMAIN bodies : Cardinality(DOMAIN bodies[i]) <= limits.bodyVoxels
        /\ first + n <= limits.lastBody
        /\ Cardinality(DOMAIN a.bodies) + n <= limits.bodies
        /\ Sized(a.bodies) + VoxelCount(bodies) <= limits.activeVoxels
    BY <1>1 DEF FitsLimits
  <1>5. /\ AreSpawned(assigned, first, ids, bodies, AtRest(a, bodies))
        /\ ids = first..first + n - 1
    BY <1>0, <1>1, SpawnedAre DEF Added
  <1>6. Sized(assigned) = VoxelCount(bodies)
    BY <1>0, <1>1, SpawnedCount
  <1>7. /\ DOMAIN a.bodies \cap ids = {}
        /\ Sized(b.bodies) = Sized(a.bodies) + VoxelCount(bodies)
        /\ Cardinality(DOMAIN b.bodies) = Cardinality(DOMAIN a.bodies) + n
    BY <1>0, <1>1, BodiesAdded
  <1>8. FinalBodies(r, p) = b.bodies
    BY <1>0, <1>1, <1>2, <1>3, FinalBodiesAre
  <1>9. /\ IsDamage(a.world, all)
        /\ \A i \in DOMAIN bodies : \A c \in DOMAIN bodies[i] : Removes(all, c, bodies[i][c])
    BY <1>0, <1>1, MergedAreDamage
  <1>10. \A i \in DOMAIN bodies : Connected(DOMAIN bodies[i])
    BY <1>0 DEF BodiesFit
  <1>11. DOMAIN p.updates \subseteq ids
    BY <1>0, <1>2 DEF Moved, AreStarts
  <1>12. Conserves(a, b, all)
    BY TransactionConserves
  <1>13. p # <<>>
    BY PacketIsNotEmpty
  <1> HIDE DEF w, S, all, assigned, p, r, ids, first, n
  <1>14. ASSUME NEW id \in DOMAIN assigned
         PROVE  /\ id \notin DOMAIN r.bodies
                /\ \A c \in DOMAIN assigned[id].voxels : Removes(p.changes, c, assigned[id].voxels[c])
                /\ Cardinality(DOMAIN assigned[id].voxels) <= limits.bodyVoxels
                /\ Connected(DOMAIN assigned[id].voxels)
    <2>1. id \in ids
      BY <1>5, <1>14 DEF AreSpawned
    <2>2. PICK i \in DOMAIN bodies : id = first + i - 1
      BY <1>5, <2>1 DEF AreSpawned
    <2> DEFINE k == first + i - 1
    <2>3. assigned[k] = [voxels |-> bodies[i], state |-> AtRest(a, bodies)[k]]
      BY <1>5 DEF AreSpawned
    <2> HIDE DEF k
    <2>4. assigned[k].voxels = bodies[i]
      BY <2>3
    <2>5. assigned[id].voxels = bodies[i]
      BY <2>2, <2>4 DEF k
    <2> QED
      BY <1>2, <1>3, <1>4, <1>7, <1>9, <1>10, <2>1, <2>5
  <1>15. Rebuilds(r, p)
    BY <1>2, <1>4, <1>6, <1>14 DEF Rebuilds, Sized
  <1>16. DOMAIN assigned = ids /\ Cardinality(ids) = n
    BY <1>5 DEF AreSpawned, n
  <1>17. Takes(r, p)
    <2>1. p.base = r.world /\ p.baseBodies = r.bodies
      BY <1>2, <1>3
    <2>2. /\ DOMAIN p.assigned = r.nextBody..r.nextBody + Cardinality(DOMAIN p.assigned) - 1
          /\ r.nextBody + Cardinality(DOMAIN p.assigned) <= limits.lastBody
          /\ Cardinality(DOMAIN r.bodies) + Cardinality(DOMAIN p.assigned) <= limits.bodies
      BY <1>2, <1>3, <1>4, <1>5, <1>16
    <2>3. r.activeVoxels + VoxelCount(BodyVoxelsIn(p.assigned)) <= limits.activeVoxels
      BY <1>2, <1>3, <1>4, <1>6 DEF Sized
    <2>4. DOMAIN p.updates \subseteq DOMAIN r.bodies \cup DOMAIN p.assigned
      BY <1>2, <1>11, <1>16
    <2>5. FinalBodies(r, p) = p.finalBodies
      BY <1>2, <1>8
    <2>6. \A c \in DOMAIN p.changes : r.world[c] = p.changes[c].before
      BY <1>2, <1>3, <1>9 DEF IsDamage
    <2>7. Changed(r.world, p.changes) = p.final
      BY <1>2, <1>3 DEF all, w
    <2> QED
      BY <1>15, <2>1, <2>2, <2>3, <2>4, <2>5, <2>6, <2>7 DEF Takes
  <1>18. Received(r, p) = ReplicaOf(b)
    <2>1. Changed(r.world, p.changes) = b.world
      BY <1>2, <1>3 DEF all, w
    <2>2. r.activeVoxels + Sized(p.assigned) = Sized(b.bodies)
      BY <1>2, <1>3, <1>6, <1>7
    <2>3. r.nextBody + Cardinality(DOMAIN p.assigned) = b.nextBody
      BY <1>2, <1>3, <1>16 DEF n, first
    <2> QED
      BY <1>8, <2>1, <2>2, <2>3 DEF Received, ReplicaOf
  <1>19. WithinLimits(b)
    <2>1. 0 <= limits.spawned
      BY DEF WithinLimits
    <2>2. b.nextBody <= limits.lastBody
      BY <1>4 DEF first, n
    <2> QED
      BY <1>4, <1>7, <2>1, <2>2 DEF WithinLimits
  <1>20. Carries(a, b, p)
    BY <1>2, <1>12, <1>13, <1>17, <1>18, Zenon DEF Carries, r
  <1> QED
    BY <1>1, <1>7, <1>19, <1>20 DEF p, all, w, assigned

LEMMA NoBodiesAreNone == DOMAIN NoBodies = {} /\ Sized(NoBodies) = 0
  <1>1. DOMAIN NoBodies = {}
    BY DEF NoBodies
  <1>2. BodyVoxelsIn(NoBodies) = [id \in {} |-> NoBodies[id].voxels]
    BY <1>1 DEF BodyVoxelsIn
  <1> DEFINE none == BodyVoxelsIn(NoBodies)
  <1>3. DOMAIN none = {}
    BY <1>2
  <1> HIDE DEF none
  <1>4. Pairs(none) = {}
    BY <1>3, PairsAre
  <1>5. VoxelCount(none) = 0
    BY <1>4, FS_EmptySet DEF VoxelCount, Pairs
  <1> QED
    BY <1>1, <1>5 DEF Sized, none

(* A delta that adds no body.                                              *)
LEMMA QuietCarries ==
  ASSUME NEW a, IsAuthority(a), WithinLimits(a), NEW changes, NEW updates,
         NEW b, b.nextBody = a.nextBody, DOMAIN b.bodies = DOMAIN a.bodies,
         Sized(b.bodies) = Sized(a.bodies),
         b.world = Changed(a.world, changes),
         \A c \in DOMAIN changes : changes[c].before = a.world[c],
         \A c \in SolidIn(a.world) : b.world[c] = a.world[c],
         DOMAIN updates \subseteq DOMAIN a.bodies,
         b.bodies = FinalBodies(ReplicaOf(a), DeltaPacket(a, b, changes, NoBodies, updates))
  PROVE  Carries(a, b, DeltaPacket(a, b, changes, NoBodies, updates)) /\ WithinLimits(b)
  <1> DEFINE p == DeltaPacket(a, b, changes, NoBodies, updates)
             r == ReplicaOf(a)
             first == a.nextBody
  <1>1. /\ IsWorld(a.world) /\ AreBodies(a.bodies, first) /\ first \in Nat \ {0}
        /\ a.activeVoxels = Sized(a.bodies) /\ Sized(a.bodies) \in Nat
        /\ Cardinality(DOMAIN a.bodies) \in Nat
    <2>1. AreBodies(a.bodies, first)
      BY DEF IsAuthority
    <2> QED
      BY <2>1, BodiesCount DEF IsAuthority, AreBodies
  <1>2. /\ p.base = a.world /\ p.final = b.world
        /\ p.baseBodies = a.bodies /\ p.finalBodies = b.bodies
        /\ p.changes = changes /\ p.assigned = NoBodies /\ p.updates = updates
    BY PacketFields
  <1>3. r.world = a.world /\ r.bodies = a.bodies /\ r.activeVoxels = Sized(a.bodies)
        /\ r.nextBody = first
    BY DEF ReplicaOf
  <1>4. p # <<>>
    BY PacketIsNotEmpty
  <1>5. /\ 0 <= limits.spawned /\ first <= limits.lastBody
        /\ Cardinality(DOMAIN a.bodies) <= limits.bodies /\ Sized(a.bodies) <= limits.activeVoxels
    BY DEF WithinLimits
  <1>6. DOMAIN NoBodies = {} /\ Sized(NoBodies) = 0 /\ Cardinality(DOMAIN NoBodies) = 0
    BY NoBodiesAreNone, FS_EmptySet
  <1> HIDE DEF p, r, first
  <1>7. Rebuilds(r, p)
    BY <1>2, <1>5, <1>6 DEF Rebuilds, Sized
  <1>8. Takes(r, p)
    <2>1. DOMAIN p.assigned = r.nextBody..r.nextBody + Cardinality(DOMAIN p.assigned) - 1
      <3>1. first + 0 - 1 < first /\ first \in Int /\ first + 0 - 1 \in Int
        BY <1>1
      <3>2. first..first + 0 - 1 = {}
        BY <3>1
      <3> QED
        BY <1>2, <1>3, <1>6, <3>2
    <2>2. /\ r.nextBody + Cardinality(DOMAIN p.assigned) = first
          /\ Cardinality(DOMAIN r.bodies) + Cardinality(DOMAIN p.assigned) = Cardinality(DOMAIN a.bodies)
          /\ r.activeVoxels + VoxelCount(BodyVoxelsIn(p.assigned)) = Sized(a.bodies)
      BY <1>1, <1>2, <1>3, <1>6 DEF Sized
    <2> QED
      BY <1>2, <1>3, <1>5, <1>7, <2>1, <2>2 DEF Takes, p, r
  <1>9. Received(r, p) = ReplicaOf(b)
    <2>1. r.nextBody + Cardinality(DOMAIN p.assigned) = b.nextBody
          /\ r.activeVoxels + Sized(p.assigned) = Sized(b.bodies)
      BY <1>1, <1>2, <1>3, <1>6 DEF first
    <2>2. Changed(r.world, p.changes) = b.world /\ FinalBodies(r, p) = b.bodies
      BY <1>2, <1>3 DEF p, r
    <2> QED
      BY <2>1, <2>2 DEF Received, ReplicaOf
  <1>10. Conserves(a, b, p.changes)
    <2>1. \A c : InNew(a, b, c) = {}
      BY DEF InNew
    <2>2. \A c \in Plane : Solid(a.world[c]) =>
            b.world[c] = a.world[c] /\ Worn(a.world[c], a.world[c])
      <3> SUFFICES ASSUME NEW c \in Plane, Solid(a.world[c])
                   PROVE  b.world[c] = a.world[c] /\ Worn(a.world[c], a.world[c])
        OBVIOUS
      <3>1. a.world[c] \in Stuff /\ c \in SolidIn(a.world)
        BY <1>1, SolidIsStuff DEF IsWorld, SolidIn
      <3>2. a.world[c].integrity \in Int
        BY <3>1 DEF Stuff
      <3> QED
        BY <3>1, <3>2 DEF Worn
    <2> QED
      BY <2>1, <2>2 DEF Conserves
  <1>11. WithinLimits(b)
    BY <1>5 DEF WithinLimits, first
  <1>12. Carries(a, b, p)
    BY <1>4, <1>8, <1>9, <1>10, Zenon DEF Carries, r
  <1> QED
    BY <1>11, <1>12 DEF p

(* It says as much of what is published.                                   *)
LEMMA CarriesPublic ==
  ASSUME NEW a, NEW b, NEW p, Carries(a, b, p)
  PROVE  Carries(PublicState(a), PublicState(b), p)
  <1>1. \A x : /\ PublicState(x).world = x.world /\ PublicState(x).bodies = x.bodies
               /\ PublicState(x).nextBody = x.nextBody
    BY DEF PublicState
  <1>2. \A x : ReplicaOf(PublicState(x)) = ReplicaOf(x)
    BY <1>1 DEF ReplicaOf
  <1>3. \A c : InNew(PublicState(a), PublicState(b), c) = InNew(a, b, c)
    BY <1>1 DEF InNew
  <1>4. Conserves(PublicState(a), PublicState(b), p.changes)
    <2>1. Conserves(a, b, p.changes)
      BY DEF Carries
    <2> QED
      BY <1>1, <1>3, <2>1 DEF Conserves
  <1> QED
    BY <1>2, <1>4 DEF Carries

-----------------------------------------------------------------------------
(* What is static stands.                                                  *)

SceneStands(w) == Joint!Held(SolidIn(w))

Stands(a) == SceneStands(a.world)

-----------------------------------------------------------------------------
(* The steps.                                                              *)

(* A transaction is refused and leaves nothing behind, or it is carried by *)
(* its delta, and what stood stands.                                       *)
Transacts(a) ==
  \/ Refuse(a)
  \/ \E b, packed : /\ Accept(b, packed)
                    /\ IsAuthority(b) /\ WithinLimits(b) /\ Carries(a, b, packed)
                    /\ Stands(a) => Stands(b)

(* A record of the authority whose fields are known.                       *)
LEMMA AuthorityIs ==
  ASSUME NEW w, NEW bodies, NEW count, NEW next, NEW last, NEW units,
         NEW b \in [world : {w}, bodies : {bodies}, activeVoxels : {count},
                    nextBody : {next}, lastCommand : {last}, units : {units}],
         IsWorld(w), AreBodies(bodies, next), count = Sized(bodies)
  PROVE  IsAuthority(b) /\ b.world = w /\ b.bodies = bodies /\ b.nextBody = next
  <1>1. b.world = w /\ b.bodies = bodies /\ b.activeVoxels = count /\ b.nextBody = next
        /\ b = [world |-> b.world, bodies |-> b.bodies, activeVoxels |-> b.activeVoxels,
                nextBody |-> b.nextBody, lastCommand |-> b.lastCommand, units |-> b.units]
    OBVIOUS
  <1> QED
    BY <1>1 DEF IsAuthority

(* What a transaction makes of the authority.                              *)
IsOutcome(b, a, changes, bodies, state) ==
  /\ IsAuthority(b)
  /\ b.world = Changed(a.world, MergedChanges(Changed(a.world, changes), changes, bodies))
  /\ b.bodies = With(a.bodies, Spawned(a, bodies, state))
  /\ b.nextBody = a.nextBody + Len(bodies)

LEMMA CommittedIs ==
  ASSUME NEW a, NEW changes, NEW p, NEW command, NEW state, Transaction(a, changes, p.bodies, state)
  PROVE  IsOutcome(Committed(a, Changed(a.world, changes), p, command, state),
                   a, changes, p.bodies, state)
  <1> DEFINE w == Changed(a.world, changes)
             all == MergedChanges(w, changes, p.bodies)
             b == Committed(a, w, p, command, state)
             world == [c \in Plane |-> IF c \in DetachedBy(p.bodies) THEN Nothing ELSE w[c]]
             bodies == With(a.bodies, Spawned(a, p.bodies, state))
             next == a.nextBody + Len(p.bodies)
             count == a.activeVoxels + VoxelCount(p.bodies)
  <1>0. /\ IsAuthority(a) /\ IsDamage(a.world, changes)
        /\ BodiesFit(w, SolidIn(w), p.bodies) /\ AreStarts(state, Added(a, p.bodies))
    BY DEF Transaction
  <1>1. IsWorld(a.world) /\ AreBodies(a.bodies, a.nextBody) /\ a.activeVoxels = Sized(a.bodies)
    BY <1>0 DEF IsAuthority
  <1>2. IsDamage(a.world, all) /\ Changed(a.world, all) = world
    BY <1>0, <1>1, MergedAreDamage
  <1>3. IsWorld(world)
    BY <1>0, <1>1, <1>2, DamageChanges
  <1>4. AreBodies(bodies, next) /\ count = Sized(bodies)
    <2> DEFINE q == p.bodies
               S == SolidIn(w)
               new == Spawned(a, q, state)
    <2>1. S \subseteq Plane
      BY DEF SolidIn
    <2>2. BodiesFit(w, S, q) /\ AreStarts(state, Added(a, q))
      BY <1>0
    <2> HIDE DEF q, S, w
    <2>3. /\ AreBodies(With(a.bodies, new), a.nextBody + Len(q))
          /\ Sized(With(a.bodies, new)) = Sized(a.bodies) + VoxelCount(q)
      BY <1>1, <2>1, <2>2, BodiesAdded
    <2> QED
      BY <1>1, <2>3 DEF q
  <1>5. b = [a EXCEPT !.world = world,
                      !.bodies = bodies,
                      !.nextBody = next,
                      !.activeVoxels = count,
                      !.lastCommand = command]
    BY DEF Committed, DetachedBy
  <1>6. b \in [world : {world}, bodies : {bodies}, activeVoxels : {count},
               nextBody : {next}, lastCommand : {command}, units : {a.units}]
    <2>1. a = [world |-> a.world, bodies |-> a.bodies, activeVoxels |-> a.activeVoxels,
               nextBody |-> a.nextBody, lastCommand |-> a.lastCommand, units |-> a.units]
      BY <1>0 DEF IsAuthority
    <2> HIDE DEF b, world, bodies, next, count
    <2> QED
      BY <1>5, <2>1
  <1> HIDE DEF w, all, b, world, bodies, next, count
  <1>7. IsAuthority(b) /\ b.world = world /\ b.bodies = bodies /\ b.nextBody = next
    BY <1>3, <1>4, <1>6, AuthorityIs
  <1> QED
    BY <1>2, <1>7 DEF w, all, b, bodies, next, IsOutcome

LEMMA DamageLeavesStanding ==
  ASSUME NEW a, NEW changes, NEW bodies, NEW state, Transaction(a, changes, bodies, state), Stands(a),
         DetachedBy(bodies)
           = UNION Joint!Islands(SolidIn(a.world) \ Opened(changes), Opened(changes)),
         NEW b, b.world = Changed(a.world, MergedChanges(Changed(a.world, changes), changes, bodies)),
         b.bodies = With(a.bodies, Spawned(a, bodies, state))
  PROVE  Stands(b)
  <1> DEFINE w == Changed(a.world, changes)
             all == MergedChanges(w, changes, bodies)
             before1 == SolidIn(a.world)
             broken == Opened(changes)
             detached == DetachedBy(bodies)
  <1>0. /\ IsAuthority(a) /\ IsDamage(a.world, changes) /\ BodiesFit(w, SolidIn(w), bodies)
        /\ AreStarts(state, Added(a, bodies))
    BY DEF Transaction
  <1>1. IsWorld(a.world) /\ before1 \subseteq Plane /\ broken \subseteq before1
        /\ SolidIn(w) \subseteq Plane
    BY <1>0, DamageChanges DEF IsAuthority, SolidIn
  <1>2. IsDamage(a.world, all) /\ Opened(all) = broken \cup detached
    BY <1>0, <1>1, MergedAreDamage
  <1>3. SolidIn(b.world) = before1 \ (broken \cup detached)
    <2> HIDE DEF all, w, detached, broken, before1
    <2>1. SolidIn(Changed(a.world, all)) = SolidIn(a.world) \ Opened(all)
      BY <1>1, <1>2, DamageChanges
    <2>2. b.world = Changed(a.world, all)
      BY DEF all, w
    <2> QED
      BY <1>2, <2>1, <2>2 DEF before1
  <1>4. SceneStands(b.world)
    <2>1. Joint!Held(before1)
      BY DEF Stands, SceneStands
    <2> HIDE DEF before1, broken
    <2>2. Joint!Held(before1 \ (broken \cup UNION Joint!Islands(before1 \ broken, broken)))
      BY <1>1, <2>1, PlaneIsStructure, Joint!BlastLeavesHeld DEF Joint!BlastLeavesHeld
    <2> QED
      BY <1>3, <2>2 DEF SceneStands, before1, broken
  <1> QED
    BY <1>4 DEF Stands

LEMMA CommitDamageTransacts ==
  ASSUME IsAuthority(authority), WithinLimits(authority),
         NEW changes, IsDamage(authority.world, changes), NEW command,
         NEW Impulses, Impulses \subseteq Postures,
         CommitDamage(authority, changes, command, Impulses)
  PROVE  Transacts(authority)
  <1> DEFINE a == authority
             w == Changed(a.world, changes)
             analysis == Analysis(w, changes)
             S == SolidIn(w)
  <1>1. PICK order \in InOrder(analysis.islands) :
          \E p \in {PreparedBodies(a, w, analysis, order)} :
            \E state \in [Added(a, p.bodies) -> Impulses] :
              CommitBodies(a, w, changes, p, command, state)
    BY DEF CommitDamage
  <1> DEFINE p == PreparedBodies(a, w, analysis, order)
  <1>2. PICK state \in [Added(a, p.bodies) -> Impulses] :
          CommitBodies(a, w, changes, p, command, state)
    BY <1>1
  <1> DEFINE all == MergedChanges(w, changes, p.bodies)
             b == Committed(a, w, p, command, state)
             packed == DeltaPacket(a, b, all, Spawned(a, p.bodies, AtRest(a, p.bodies)), Moved(state))
  <1>3. \/ Refuse([a EXCEPT !.world = RolledBack(w, changes)])
        \/ ~p.error /\ Accept(b, packed)
    BY <1>2 DEF CommitBodies, Moved
  <1>4. IsWorld(a.world) /\ S \subseteq Plane
    BY DEF IsAuthority, SolidIn
  <1>5. CASE Refuse([a EXCEPT !.world = RolledBack(w, changes)])
    <2>1. RolledBack(w, changes) = a.world
      BY <1>4, DamageChanges
    <2>2. [a EXCEPT !.world = a.world] = a
      <3>1. a = [world |-> a.world, bodies |-> a.bodies, activeVoxels |-> a.activeVoxels,
                 nextBody |-> a.nextBody, lastCommand |-> a.lastCommand, units |-> a.units]
        BY DEF IsAuthority
      <3> QED
        BY <3>1
    <2> QED
      BY <1>5, <2>1, <2>2 DEF Transacts
  <1>6. CASE ~p.error /\ Accept(b, packed)
    <2> DEFINE bodies == p.bodies
    <2>1. /\ ~analysis.error /\ bodies = VoxelsInOrder(w, order) /\ FitsLimits(a, bodies)
      <3> DEFINE made == VoxelsInOrder(w, order)
      <3>1. p = IF analysis.error \/ ~FitsLimits(a, made)
                THEN [error |-> TRUE, bodies |-> <<>>] ELSE [error |-> FALSE, bodies |-> made]
        BY DEF PreparedBodies
      <3> HIDE DEF p, made, analysis
      <3>2. ~(analysis.error \/ ~FitsLimits(a, made))
        BY <1>6, <3>1
      <3>3. p.bodies = made
        BY <3>1, <3>2
      <3> QED
        BY <3>2, <3>3 DEF made
    <2>2. /\ analysis.islands = Joint!Islands(SolidIn(a.world) \ Opened(changes), Opened(changes))
          /\ Apart(S, analysis.islands)
      BY <1>4, <2>1, DamageDetaches
    <2>3. BodiesFit(w, S, bodies) /\ DetachedBy(bodies) = UNION analysis.islands
      <3> HIDE DEF analysis, S, w, p
      <3> QED
        BY <1>4, <2>1, <2>2, BodiesInOrder
    <2>4. Transaction(a, changes, bodies, state)
      <3>1. AreStarts(state, Added(a, bodies))
        BY <1>2 DEF AreStarts
      <3> QED
        BY <2>3, <3>1 DEF Transaction
    <2> HIDE DEF p
    <2>5. IsOutcome(b, a, changes, bodies, state)
      BY <2>4, CommittedIs
    <2> HIDE DEF b
    <2>6. Carries(a, b, packed) /\ WithinLimits(b)
      BY <2>1, <2>4, <2>5, TransactionCarries DEF IsOutcome
    <2>7. ASSUME Stands(a) PROVE Stands(b)
      BY <2>2, <2>3, <2>4, <2>5, <2>7, DamageLeavesStanding DEF S, IsOutcome
    <2> HIDE DEF packed
    <2> QED
      BY <1>6, <2>5, <2>6, <2>7 DEF Transacts, IsOutcome
  <1> QED
    BY <1>3, <1>5, <1>6

LEMMA ExplosionTransacts ==
  ASSUME IsAuthority(authority), WithinLimits(authority), ExecuteExplosion
  PROVE  Transacts(authority)
  <1> DEFINE pushes == {AtSpawn, [AtSpawn EXCEPT !.pushed = TRUE]}
  <1>1. PICK center \in Plane, blast \in Blasts, command \in 1..MaxCommands :
          CommitDamage(authority, BlastChanges(authority.world, center, blast), command, pushes)
    BY DEF ExecuteExplosion
  <1>2. IsDamage(authority.world, BlastChanges(authority.world, center, blast))
    BY BlastIsDamage DEF IsAuthority
  <1>3. pushes \subseteq Postures
    <2> DEFINE yes == TRUE
    <2>1. yes \in BOOLEAN /\ FALSE \in BOOLEAN
      OBVIOUS
    <2>2. pushes = {AtSpawn, [AtSpawn EXCEPT !.pushed = yes]}
      OBVIOUS
    <2> HIDE DEF pushes, yes
    <2>3. AtSpawn \in Postures
      BY <2>1 DEF AtSpawn, Postures
    <2>4. \A s \in Postures : [s EXCEPT !.pushed = yes] \in Postures
      BY <2>1 DEF Postures
    <2> QED
      BY <2>2, <2>3, <2>4
  <1> HIDE DEF pushes
  <1> QED
    BY <1>1, <1>2, <1>3, CommitDamageTransacts

LEMMA RifleTransacts ==
  ASSUME IsAuthority(authority), WithinLimits(authority), ExecuteRifle
  PROVE  Transacts(authority)
  <1> DEFINE pushes == {AtSpawn}
  <1>1. PICK shot \in Shots(authority.world), command \in 1..MaxCommands :
          CommitDamage(authority, shot, command, pushes)
    BY DEF ExecuteRifle
  <1>2. IsDamage(authority.world, shot)
    BY ShotIsDamage DEF IsAuthority
  <1>3. pushes \subseteq Postures
    BY DEF AtSpawn, Postures
  <1> HIDE DEF pushes
  <1> QED
    BY <1>1, <1>2, <1>3, CommitDamageTransacts

LEMMA ReloadTransacts ==
  ASSUME IsAuthority(authority), WithinLimits(authority), ExecuteReload
  PROVE  Transacts(authority)
  <1> DEFINE pushes == {AtSpawn}
             none == [d \in {} |-> Nothing]
  <1>1. PICK command \in 1..MaxCommands : CommitDamage(authority, none, command, pushes)
    BY DEF ExecuteReload
  <1>2. IsDamage(authority.world, none)
    BY NothingIsDamage DEF IsAuthority
  <1>3. pushes \subseteq Postures
    BY DEF AtSpawn, Postures
  <1> HIDE DEF pushes, none
  <1> QED
    BY <1>1, <1>2, <1>3, CommitDamageTransacts

LEMMA QuietBodies ==
  ASSUME NEW a, NEW p, p.assigned = NoBodies
  PROVE  FinalBodies(ReplicaOf(a), p)
           = [id \in DOMAIN a.bodies |->
                IF id \in DOMAIN p.updates THEN [a.bodies[id] EXCEPT !.state = p.updates[id]]
                ELSE a.bodies[id]]
  <1> DEFINE all == With(a.bodies, NoBodies)
  <1>1. DOMAIN NoBodies = {}
    BY NoBodiesAreNone
  <1>2. DOMAIN all = DOMAIN a.bodies /\ \A id \in DOMAIN a.bodies : all[id] = a.bodies[id]
    BY <1>1 DEF With
  <1>3. ReplicaOf(a).bodies = a.bodies
    BY DEF ReplicaOf
  <1>4. FinalBodies(ReplicaOf(a), p)
          = [id \in DOMAIN all |->
               IF id \in DOMAIN p.updates THEN [all[id] EXCEPT !.state = p.updates[id]] ELSE all[id]]
    BY <1>3 DEF FinalBodies
  <1> HIDE DEF all
  <1> QED
    BY <1>2, <1>4

LEMMA BuildTransacts ==
  ASSUME IsAuthority(authority), WithinLimits(authority), ExecuteBuild
  PROVE  Transacts(authority)
  <1> DEFINE a == authority
  <1>1. PICK c \in Plane, m \in Matter, command \in 1..MaxCommands :
          /\ ~Solid(a.world[c])
          /\ \E d \in Range(Neighbors2(c)) : Solid(a.world[d])
          /\ \A id \in DOMAIN a.bodies : c \notin BoxOf(a.bodies[id])
          /\ LET b == [a EXCEPT !.world[c] = Whole(m), !.lastCommand = command,
                                !.units = @ - BuildCost[m]]
             IN  Accept(b, DeltaPacket(a, b, [d \in {c} |-> [before |-> Nothing, after |-> Whole(m)]],
                                       NoBodies, NoBodies))
    BY Zenon DEF ExecuteBuild
  <1> DEFINE world == [a.world EXCEPT ![c] = Whole(m)]
             units == a.units - BuildCost[m]
             changes == [d \in {c} |-> [before |-> Nothing, after |-> Whole(m)]]
             b == [a EXCEPT !.world[c] = Whole(m), !.lastCommand = command,
                            !.units = @ - BuildCost[m]]
             packed == DeltaPacket(a, b, changes, NoBodies, NoBodies)
  <1>2. Accept(b, packed)
    BY <1>1
  <1>3. /\ IsWorld(a.world) /\ AreBodies(a.bodies, a.nextBody) /\ a.activeVoxels = Sized(a.bodies)
        /\ a = [world |-> a.world, bodies |-> a.bodies, activeVoxels |-> a.activeVoxels,
                nextBody |-> a.nextBody, lastCommand |-> a.lastCommand, units |-> a.units]
    BY DEF IsAuthority
  <1>4. Whole(m) \in Stuff /\ Whole(m) \in Substance
    BY DamageAssumption DEF DamageAssumption, Whole, Stuff, Substance
  <1>5. /\ DOMAIN world = Plane /\ world[c] = Whole(m) /\ IsWorld(world)
        /\ \A d \in Plane \ {c} : world[d] = a.world[d]
    <2> DEFINE v == Whole(m)
    <2>1. v \in Substance
      BY <1>4
    <2> HIDE DEF v
    <2>2. world = [a.world EXCEPT ![c] = v]
      BY DEF v
    <2> HIDE DEF world
    <2>3. DOMAIN world = Plane /\ world[c] = v /\ IsWorld(world)
          /\ \A d \in Plane \ {c} : world[d] = a.world[d]
      BY <1>3, <2>1, <2>2 DEF IsWorld
    <2> QED
      BY <2>3 DEF v
  <1>6. b = [a EXCEPT !.world = world, !.lastCommand = command, !.units = units]
    OBVIOUS
  <1>7. b \in [world : {world}, bodies : {a.bodies}, activeVoxels : {a.activeVoxels},
               nextBody : {a.nextBody}, lastCommand : {command}, units : {units}]
    <2> HIDE DEF world, units, b
    <2> QED
      BY <1>3, <1>6
  <1>8. Changed(a.world, changes) = world
    <2>1. DOMAIN changes = {c} /\ changes[c].after = Whole(m) /\ changes[c].before = Nothing
      OBVIOUS
    <2> HIDE DEF changes
    <2>2. Changed(a.world, changes) = [d \in Plane |-> IF d = c THEN Whole(m) ELSE a.world[d]]
      BY <2>1 DEF Changed
    <2>3. world = [d \in Plane |-> world[d]]
      BY <1>5 DEF IsWorld
    <2> HIDE DEF world
    <2> QED
      BY <1>5, <2>2, <2>3
  <1>9. \A d \in DOMAIN changes : changes[d].before = a.world[d]
    <2>1. a.world[c] = Nothing
      BY <1>1 DEF Solid
    <2> QED
      BY <2>1
  <1>10. \A d \in SolidIn(a.world) : world[d] = a.world[d]
    BY <1>1, <1>5 DEF SolidIn
  <1>11. FinalBodies(ReplicaOf(a), packed) = a.bodies
    <2> DEFINE none == NoBodies
    <2>1. packed.assigned = NoBodies /\ packed.updates = none /\ DOMAIN none = {}
      BY PacketFields, NoBodiesAreNone
    <2>2. a.bodies = [id \in DOMAIN a.bodies |-> a.bodies[id]]
      BY <1>3 DEF AreBodies
    <2> HIDE DEF packed, none
    <2> QED
      BY <2>1, <2>2, QuietBodies
  <1> HIDE DEF world, units, changes, b
  <1>12. IsAuthority(b) /\ b.world = world /\ b.bodies = a.bodies /\ b.nextBody = a.nextBody
    BY <1>3, <1>5, <1>7, AuthorityIs
  <1>13. Carries(a, b, packed) /\ WithinLimits(b)
    <2>1. DOMAIN NoBodies \subseteq DOMAIN a.bodies
      BY NoBodiesAreNone
    <2> QED
      BY <1>8, <1>9, <1>10, <1>11, <1>12, <2>1, QuietCarries
  <1>14. SolidIn(world) = SolidIn(a.world) \cup {c}
    <2>1. Solid(world[c])
      BY <1>4, <1>5, SolidIsStuff
    <2> QED
      BY <1>5, <2>1 DEF SolidIn
  <1>15. ASSUME Stands(a) PROVE Stands(b)
    <2>1. SceneStands(world)
      <3> DEFINE S == SolidIn(a.world)
      <3>1. S \subseteq Plane /\ Joint!Held(S)
        BY <1>15 DEF SolidIn, Stands, SceneStands
      <3>2. [d \in Plane |-> Range(Neighbors2(d))][c] \cap S # {}
        <4>1. PICK d \in Range(Neighbors2(c)) : Solid(a.world[d])
          BY <1>1
        <4>2. d \in Plane
          BY NeighborsAre, BesideIsPlace
        <4> QED
          BY <4>1, <4>2 DEF SolidIn
      <3> HIDE DEF S
      <3>3. Joint!Held(S \cup {c})
        BY <3>1, <3>2, PlaneIsStructure, Joint!BuiltIsHeld DEF Joint!BuiltIsHeld
      <3> QED
        BY <1>14, <3>3 DEF SceneStands, S
    <2> QED
      BY <1>12, <2>1 DEF Stands
  <1> HIDE DEF packed
  <1> QED
    BY <1>2, <1>12, <1>13, <1>15 DEF Transacts

(* What the worker found is what a voxel holds up, of the world it saw.    *)
Cut(f) ==
  f.bodies # <<>> =>
    /\ IsWorld(f.world)
    /\ \E c \in SolidIn(f.world) \ Anchored :
         \E order \in InOrder(Below!Debris(Below!LoadDomain(SolidIn(f.world), c), c)) :
           f.bodies = VoxelsInOrder(f.world, order)

LEMMA NothingChanges ==
  ASSUME NEW w, IsWorld(w)
  PROVE  Changed(w, [c \in {} |-> Nothing]) = w /\ Opened([c \in {} |-> Nothing]) = {}
  <1> DEFINE none == [c \in {} |-> Nothing]
  <1>1. DOMAIN none = {}
    OBVIOUS
  <1> HIDE DEF none
  <1>2. Changed(w, none) = [c \in Plane |-> w[c]] /\ Opened(none) = {}
    BY <1>1 DEF Changed, Opened
  <1>3. w = [c \in Plane |-> w[c]]
    BY DEF IsWorld
  <1> QED
    BY <1>2, <1>3 DEF none

LEMMA FailureTransacts ==
  ASSUME IsAuthority(authority), WithinLimits(authority), Cut(finding), CommitFailure
  PROVE  Transacts(authority)
  <1> DEFINE a == authority
             bodies == finding.bodies
             none == [c \in {} |-> Nothing]
             S == SolidIn(a.world)
             all == MergedChanges(a.world, none, bodies)
             state == AtRest(a, bodies)
             added == Spawned(a, bodies, state)
             b == [a EXCEPT !.world = Changed(@, all), !.bodies = With(@, added),
                            !.nextBody = @ + Len(bodies), !.activeVoxels = @ + VoxelCount(bodies)]
             packed == DeltaPacket(a, b, all, added, NoBodies)
  <1>1. \/ Refuse(a)
        \/ finding.world = a.world /\ FitsLimits(a, bodies) /\ Accept(b, packed)
    BY Zenon DEF CommitFailure, CommitPlan
  <1>2. CASE Refuse(a)
    BY <1>2 DEF Transacts
  <1>3. CASE finding.world = a.world /\ FitsLimits(a, bodies) /\ Accept(b, packed)
    <2>1. PICK c \in S \ Anchored :
            \E order \in InOrder(Below!Debris(Below!LoadDomain(S, c), c)) :
              bodies = VoxelsInOrder(a.world, order)
      BY <1>3 DEF Cut, CommitFailure
    <2> DEFINE debris == Below!Debris(Below!LoadDomain(S, c), c)
    <2>2. PICK order \in InOrder(debris) : bodies = VoxelsInOrder(a.world, order)
      BY <2>1
    <2>3. S \subseteq Plane /\ IsWorld(a.world)
      BY DEF SolidIn, IsAuthority
    <2>4. /\ Apart(S, debris) /\ debris = Joint!Debris(Joint!LoadDomain(S, c), c)
          /\ c \in Joint!LoadDomain(S, c)
      BY <2>3, DebrisIsApart
    <2>5. BodiesFit(a.world, S, bodies) /\ DetachedBy(bodies) = UNION debris
      <3> HIDE DEF S, debris, bodies
      <3> QED
        BY <2>2, <2>3, <2>4, BodiesInOrder
    <2>6. Changed(a.world, none) = a.world /\ Opened(none) = {}
      BY <2>3, NothingChanges
    <2>7. AreStarts(state, Added(a, bodies)) /\ Moved(state) = NoBodies
      BY RestIsStart
    <2>8. IsDamage(a.world, none)
      BY NothingIsDamage
    <2> HIDE DEF none
    <2>9. Transaction(a, none, bodies, state)
      BY <2>5, <2>6, <2>7, <2>8 DEF Transaction
    <2>10. /\ AreBodies(a.bodies, a.nextBody) /\ a.activeVoxels = Sized(a.bodies)
           /\ a = [world |-> a.world, bodies |-> a.bodies, activeVoxels |-> a.activeVoxels,
                   nextBody |-> a.nextBody, lastCommand |-> a.lastCommand, units |-> a.units]
      BY DEF IsAuthority
    <2> DEFINE world == Changed(a.world, all)
               held == With(a.bodies, added)
               next == a.nextBody + Len(bodies)
               count == a.activeVoxels + VoxelCount(bodies)
    <2>11. /\ IsDamage(a.world, all) /\ Opened(all) = DetachedBy(bodies)
           /\ DetachedBy(bodies) \subseteq S
      <3> HIDE DEF bodies
      <3> QED
        BY <2>3, <2>5, <2>6, <2>8, MergedAreDamage
    <2>12. IsWorld(world) /\ SolidIn(world) = S \ DetachedBy(bodies)
      <3> HIDE DEF all, bodies
      <3> QED
        BY <2>3, <2>11, DamageChanges
    <2>13. AreBodies(held, next) /\ count = Sized(held)
      <3> HIDE DEF S, bodies, state
      <3> QED
        BY <2>3, <2>5, <2>7, <2>10, BodiesAdded
    <2>14. b \in [world : {world}, bodies : {held}, activeVoxels : {count},
                  nextBody : {next}, lastCommand : {a.lastCommand}, units : {a.units}]
      <3>1. b = [a EXCEPT !.world = world, !.bodies = held, !.nextBody = next, !.activeVoxels = count]
        OBVIOUS
      <3> HIDE DEF b, world, held, next, count
      <3> QED
        BY <2>10, <3>1
    <2> HIDE DEF b, world, held, next, count
    <2>15. IsAuthority(b) /\ b.world = world /\ b.bodies = held /\ b.nextBody = next
      BY <2>12, <2>13, <2>14, AuthorityIs
    <2>16. IsOutcome(b, a, none, bodies, state)
      BY <2>6, <2>15 DEF IsOutcome, world, held, next
    <2>17. Carries(a, b, packed) /\ WithinLimits(b)
      BY <1>3, <2>6, <2>7, <2>9, <2>16, TransactionCarries DEF IsOutcome
    <2>18. ASSUME Stands(a) PROVE Stands(b)
      <3>1. Joint!Held(S \ UNION debris)
        <4>1. Joint!Held(S) /\ c \in Joint!Eligible(S)
          BY <2>18 DEF Stands, SceneStands, Joint!Eligible
        <4> HIDE DEF S, debris
        <4> QED
          BY <2>3, <2>4, <4>1, PlaneIsStructure, Joint!CollapseLeavesHeld
             DEF Joint!CollapseLeavesHeld
      <3>2. SceneStands(b.world)
        BY <2>5, <2>12, <2>15, <3>1 DEF SceneStands
      <3> QED
        BY <3>2 DEF Stands
    <2> HIDE DEF packed
    <2> QED
      BY <1>3, <2>15, <2>17, <2>18 DEF Transacts
  <1> QED
    BY <1>1, <1>2, <1>3

(* One body gets another state.                                            *)
LEMMA OneBodyMoves ==
  ASSUME NEW bodies, NEW next, AreBodies(bodies, next), NEW id \in DOMAIN bodies,
         NEW s \in Postures,
         NEW new, new = [bodies EXCEPT ![id] = [bodies[id] EXCEPT !.state = s]]
  PROVE  /\ AreBodies(new, next) /\ DOMAIN new = DOMAIN bodies /\ Sized(new) = Sized(bodies)
         /\ new[id].voxels = bodies[id].voxels /\ new[id].state = s
         /\ \A i \in DOMAIN bodies \ {id} : new[i] = bodies[i]
         /\ new = [i \in DOMAIN bodies |->
                     IF i \in {id} THEN [bodies[i] EXCEPT !.state = s] ELSE bodies[i]]
  <1> DEFINE old == bodies[id]
             body == [old EXCEPT !.state = s]
  <1>1. /\ next \in Nat \ {0} /\ DOMAIN bodies \subseteq 1..next - 1
        /\ bodies = [i \in DOMAIN bodies |-> bodies[i]]
        /\ \A i \in DOMAIN bodies : IsBody(bodies[i])
    BY DEF AreBodies
  <1>2. old = [voxels |-> old.voxels, state |-> old.state] /\ DOMAIN old.voxels \subseteq Plane
    BY <1>1 DEF IsBody
  <1> HIDE DEF old
  <1>3. body.voxels = old.voxels /\ body.state = s
        /\ body = [voxels |-> body.voxels, state |-> body.state]
    BY <1>2
  <1> HIDE DEF body
  <1>4. IsBody(body)
    BY <1>2, <1>3 DEF IsBody, old
  <1>5. /\ new = [bodies EXCEPT ![id] = body]
        /\ new = [i \in DOMAIN bodies |-> new[i]] /\ new[id] = body
        /\ \A i \in DOMAIN bodies \ {id} : new[i] = bodies[i]
    BY <1>1 DEF body, old
  <1> HIDE DEF body
  <1>6. AreBodies(new, next)
    BY <1>1, <1>4, <1>5 DEF AreBodies
  <1>7. \A i \in DOMAIN bodies : new[i].voxels = bodies[i].voxels
    BY <1>3, <1>5 DEF old
  <1>8. BodyVoxelsIn(new) = BodyVoxelsIn(bodies)
    BY <1>5, <1>7 DEF BodyVoxelsIn
  <1>9. new = [i \in DOMAIN bodies |->
                 IF i \in {id} THEN [bodies[i] EXCEPT !.state = s] ELSE bodies[i]]
    <2> DEFINE at(i) == IF i \in {id} THEN [bodies[i] EXCEPT !.state = s] ELSE bodies[i]
    <2>1. \A i \in DOMAIN bodies : i # id => at(i) = bodies[i]
      OBVIOUS
    <2>2. at(id) = body
      BY DEF body, old
    <2> HIDE DEF at
    <2>3. \A i \in DOMAIN bodies : at(i) = new[i]
      BY <1>5, <2>1, <2>2
    <2>4. new = [i \in DOMAIN bodies |-> at(i)]
      BY <1>5, <2>3
    <2> QED
      BY <2>4 DEF at
  <1> QED
    BY <1>3, <1>5, <1>6, <1>8, <1>9 DEF Sized, old

LEMMA PhysicsTransacts ==
  ASSUME IsAuthority(authority), WithinLimits(authority), AdvancePhysics
  PROVE  Transacts(authority)
  <1> DEFINE a == authority
             none == [c \in {} |-> Nothing]
  <1>0. PICK id \in DOMAIN a.bodies :
          \E s \in Moves(id) :
            LET b == [a EXCEPT !.bodies[id].state = s]
            IN  Accept(b, DeltaPacket(a, b, none, NoBodies, [i \in {id} |-> s]))
    BY Zenon DEF AdvancePhysics
  <1>1. PICK s \in Moves(id) :
          LET b == [a EXCEPT !.bodies[id].state = s]
          IN  Accept(b, DeltaPacket(a, b, none, NoBodies, [i \in {id} |-> s]))
    BY <1>0, Zenon
  <1> DEFINE b == [a EXCEPT !.bodies[id].state = s]
             updates == [i \in {id} |-> s]
             packed == DeltaPacket(a, b, none, NoBodies, updates)
             held == [a.bodies EXCEPT ![id] = [a.bodies[id] EXCEPT !.state = s]]
             count == a.activeVoxels
  <1>2. Accept(b, packed)
    BY <1>1
  <1>3. /\ AreBodies(a.bodies, a.nextBody) /\ a.activeVoxels = Sized(a.bodies) /\ IsWorld(a.world)
        /\ a = [world |-> a.world, bodies |-> a.bodies, activeVoxels |-> a.activeVoxels,
                nextBody |-> a.nextBody, lastCommand |-> a.lastCommand, units |-> a.units]
    BY DEF IsAuthority
  <1>4. s \in Postures
    BY DamageAssumption DEF DamageAssumption, Moves, Postures
  <1>5. /\ AreBodies(held, a.nextBody) /\ DOMAIN held = DOMAIN a.bodies /\ Sized(held) = Sized(a.bodies)
        /\ held[id].voxels = a.bodies[id].voxels /\ held[id].state = s
        /\ \A i \in DOMAIN a.bodies \ {id} : held[i] = a.bodies[i]
        /\ held = [i \in DOMAIN a.bodies |->
                     IF i \in {id} THEN [a.bodies[i] EXCEPT !.state = s] ELSE a.bodies[i]]
    BY <1>3, <1>4, OneBodyMoves
  <1>6. b \in [world : {a.world}, bodies : {held}, activeVoxels : {count},
               nextBody : {a.nextBody}, lastCommand : {a.lastCommand}, units : {a.units}]
    <2>1. b = [a EXCEPT !.bodies = held]
      OBVIOUS
    <2> HIDE DEF b, held
    <2> QED
      BY <1>3, <2>1
  <1>7. FinalBodies(ReplicaOf(a), packed) = held
    <2>1. packed.assigned = NoBodies /\ packed.updates = updates
      BY PacketFields
    <2>2. DOMAIN updates = {id} /\ updates[id] = s
      OBVIOUS
    <2> HIDE DEF packed, updates
    <2>3. FinalBodies(ReplicaOf(a), packed)
            = [i \in DOMAIN a.bodies |->
                 IF i \in DOMAIN packed.updates THEN [a.bodies[i] EXCEPT !.state = packed.updates[i]]
                 ELSE a.bodies[i]]
      BY <2>1, QuietBodies
    <2>4. FinalBodies(ReplicaOf(a), packed)
            = [i \in DOMAIN a.bodies |->
                 IF i \in {id} THEN [a.bodies[i] EXCEPT !.state = s] ELSE a.bodies[i]]
      <3>1. \A i \in {id} : updates[i] = s
        BY <2>2
      <3> QED
        BY <2>1, <2>2, <2>3, <3>1
    <2> QED
      BY <1>5, <2>4
  <1>8. Changed(a.world, none) = a.world /\ DOMAIN none = {}
    BY <1>3, NothingChanges
  <1> HIDE DEF b, held, none, count
  <1>9. IsAuthority(b) /\ b.world = a.world /\ b.bodies = held /\ b.nextBody = a.nextBody
    BY <1>3, <1>5, <1>6, AuthorityIs DEF count
  <1>10. Carries(a, b, packed) /\ WithinLimits(b)
    <2>1. DOMAIN updates \subseteq DOMAIN a.bodies
      OBVIOUS
    <2> HIDE DEF updates
    <2> QED
      BY <1>5, <1>7, <1>8, <1>9, <2>1, QuietCarries
  <1>11. Stands(a) => Stands(b)
    BY <1>9 DEF Stands
  <1> HIDE DEF packed
  <1> QED
    BY <1>2, <1>9, <1>10, <1>11 DEF Transacts

-----------------------------------------------------------------------------
(* The inductive invariant.  What is on its way carries the replica from   *)
(* what was published before to what is published now, and the replica has *)
(* one or the other.                                                       *)
DamageInv ==
  /\ IsAuthority(authority) /\ WithinLimits(authority)
  /\ published = PublicState(authority) /\ before = PublicState(before)
  /\ mirror = ReplicaOf(IF delta = <<>> THEN published ELSE before)
  /\ ~rejected
  /\ delta # <<>> => Carries(before, published, delta)
  /\ Cut(finding)

LEMMA PublicTwice ==
  ASSUME NEW a
  PROVE  PublicState(PublicState(a)) = PublicState(a)
  BY DEF PublicState

LEMMA CarriesThen ==
  ASSUME NEW a, NEW b, NEW p, Carries(a, b, p),
         limits' = limits, before' = a, published' = b, delta' = p
  PROVE  Carries(before, published, delta)'
  <1>1. Rebuilds(ReplicaOf(before), delta)'
    BY DEF Carries, Takes, Rebuilds
  <1>2. Takes(ReplicaOf(before), delta)'
    BY <1>1 DEF Carries, Takes
  <1> QED
    BY <1>2 DEF Carries

LEMMA LimitsThen ==
  ASSUME NEW a, WithinLimits(a), limits' = limits, authority' = a
  PROVE  WithinLimits(authority)'
  BY DEF WithinLimits

(* A transaction keeps it.                                                 *)
LEMMA TransactsKeeps ==
  ASSUME DamageInv, Transacts(authority), UNCHANGED <<limits, mirror, rejected>>, Cut(finding)'
  PROVE  DamageInv'
  <1>1. CASE Refuse(authority)
    <2>1. authority' = authority /\ UNCHANGED <<delta, before, published>>
      BY <1>1 DEF Refuse
    <2>2. delta # <<>> => Carries(before, published, delta)'
      BY <2>1, CarriesThen DEF DamageInv
    <2>3. WithinLimits(authority)'
      BY <2>1, LimitsThen DEF DamageInv
    <2> QED
      BY <2>1, <2>2, <2>3 DEF DamageInv
  <1>2. CASE ~Refuse(authority)
    <2>1. PICK b, packed : /\ Accept(b, packed)
                           /\ IsAuthority(b) /\ WithinLimits(b) /\ Carries(authority, b, packed)
      BY <1>2 DEF Transacts
    <2>2. /\ delta = <<>> /\ authority' = b /\ delta' = packed /\ packed # <<>>
          /\ before' = PublicState(authority) /\ published' = PublicState(b)
          /\ mirror' = ReplicaOf(PublicState(authority))
      BY <2>1 DEF Accept, DamageInv, Carries
    <2>3. Carries(before, published, delta)'
      BY <2>1, <2>2, CarriesPublic, CarriesThen
    <2>4. WithinLimits(authority)'
      BY <2>1, <2>2, LimitsThen
    <2> QED
      BY <2>1, <2>2, <2>3, <2>4, PublicTwice DEF DamageInv
  <1> QED
    BY <1>1, <1>2

LEMMA ReceiveKeeps ==
  ASSUME DamageInv, ReceiveDeltaPacket
  PROVE  DamageInv' /\ authority' = authority
  <1>1. /\ delta # <<>> /\ mirror = ReplicaOf(before)
        /\ Takes(mirror, delta) /\ Received(mirror, delta) = ReplicaOf(published)
    BY DEF ReceiveDeltaPacket, DamageInv, Carries
  <1>2. /\ mirror' = Received(mirror, delta) /\ delta' = <<>> /\ before' = published
        /\ UNCHANGED <<limits, authority, published, finding, rejected>>
    BY <1>1 DEF ReceiveDeltaPacket, Received, Sized
  <1>3. WithinLimits(authority)'
    BY <1>2, LimitsThen DEF DamageInv
  <1> QED
    BY <1>1, <1>2, <1>3, PublicTwice DEF DamageInv

LEMMA InstallKeeps ==
  ASSUME DamageInv, InstallWorld
  PROVE  DamageInv' /\ authority' = authority
  <1>1. /\ mirror' = ReplicaOf(authority) /\ delta' = <<>> /\ before' = published
        /\ UNCHANGED <<limits, authority, published, finding, rejected>>
    BY DEF InstallWorld, ReplicaOf, Sized
  <1>2. ReplicaOf(published) = ReplicaOf(authority)
    BY DEF DamageInv, ReplicaOf, PublicState
  <1>3. WithinLimits(authority)'
    BY <1>1, LimitsThen DEF DamageInv
  <1> QED
    BY <1>1, <1>2, <1>3, PublicTwice DEF DamageInv

LEMMA WorkerKeeps ==
  ASSUME DamageInv, WorkerFinds
  PROVE  DamageInv' /\ authority' = authority
  <1>1. UNCHANGED <<limits, authority, delta, before, published, mirror, rejected>>
    BY DEF WorkerFinds
  <1>2. Cut(finding)'
    <2>1. PICK c \in SolidIn(authority.world) \ Anchored :
            \E order \in InOrder(Below!Debris(Below!LoadDomain(SolidIn(authority.world), c), c)) :
              finding' = [world |-> authority.world,
                          bodies |-> VoxelsInOrder(authority.world, order)]
      BY DEF WorkerFinds
    <2>2. PICK order \in InOrder(Below!Debris(Below!LoadDomain(SolidIn(authority.world), c), c)) :
            finding' = [world |-> authority.world,
                        bodies |-> VoxelsInOrder(authority.world, order)]
      BY <2>1
    <2>3. finding'.world = authority.world /\ finding'.bodies = VoxelsInOrder(authority.world, order)
      BY <2>2
    <2>4. IsWorld(authority.world)
      BY DEF DamageInv, IsAuthority
    <2> QED
      BY <2>3, <2>4 DEF Cut
  <1>3. WithinLimits(authority)'
    BY <1>1, LimitsThen DEF DamageInv
  <1>4. delta # <<>> => Carries(before, published, delta)'
    BY <1>1, CarriesThen DEF DamageInv
  <1> QED
    BY <1>1, <1>2, <1>3, <1>4 DEF DamageInv

LEMMA DamageBegins ==
  ASSUME DamageInit
  PROVE  DamageInv
  <1>1. PICK start \in Scenes :
          /\ limits = start.limits
          /\ authority = [world |-> start.world, bodies |-> NoBodies, activeVoxels |-> 0,
                          nextBody |-> 1, lastCommand |-> 0, units |-> UnitsAtStart]
          /\ mirror = [world |-> start.world, bodies |-> NoBodies, activeVoxels |-> 0,
                       nextBody |-> 1]
          /\ published = [world |-> start.world, bodies |-> NoBodies, nextBody |-> 1]
    BY DEF DamageInit
  <1>2. /\ start.world \in [Plane -> Substance]
        /\ start.limits.spawned \in Nat /\ start.limits.bodies \in Nat
        /\ start.limits.activeVoxels \in Nat /\ start.limits.lastBody \in Nat \ {0}
    BY SceneAssumption DEF SceneAssumption
  <1>3. DOMAIN NoBodies = {} /\ Sized(NoBodies) = 0 /\ Cardinality(DOMAIN NoBodies) = 0
    BY NoBodiesAreNone, FS_EmptySet
  <1>4. AreBodies(NoBodies, 1)
    <2> DEFINE none == NoBodies
    <2>1. DOMAIN none = {} /\ none = [id \in {} |-> Nothing]
      BY <1>3 DEF NoBodies
    <2>2. none = [id \in DOMAIN none |-> none[id]]
      BY <2>1
    <2> HIDE DEF none
    <2>3. AreBodies(none, 1)
      BY <2>1, <2>2 DEF AreBodies
    <2> QED
      BY <2>3 DEF none
  <1>5. IsAuthority(authority) /\ WithinLimits(authority)
    BY <1>1, <1>2, <1>3, <1>4 DEF IsAuthority, IsWorld, WithinLimits
  <1>6. published = PublicState(authority) /\ mirror = ReplicaOf(published)
    BY <1>1, <1>3 DEF PublicState, ReplicaOf
  <1>7. Cut(finding)
    BY DEF DamageInit, Cut
  <1>8. before = PublicState(before)
    BY <1>6, PublicTwice DEF DamageInit
  <1> QED
    BY <1>5, <1>6, <1>7, <1>8 DEF DamageInit, DamageInv

(* One of the steps that change the authority, or another.                 *)
LEMMA StepTransacts ==
  ASSUME DamageInv, DamageNext
  PROVE  \/ Transacts(authority) /\ UNCHANGED <<limits, mirror, rejected>> /\ Cut(finding)'
         \/ WorkerFinds \/ ReceiveDeltaPacket \/ InstallWorld
  <1>1. IsAuthority(authority) /\ WithinLimits(authority) /\ Cut(finding)
    BY DEF DamageInv
  <1>2. CASE ExecuteExplosion
    <2>1. UNCHANGED <<limits, mirror, rejected, finding>>
      BY <1>2 DEF ExecuteExplosion
    <2> QED
      BY <1>1, <1>2, <2>1, ExplosionTransacts
  <1>3. CASE ExecuteRifle
    <2>1. UNCHANGED <<limits, mirror, rejected, finding>>
      BY <1>3 DEF ExecuteRifle
    <2> QED
      BY <1>1, <1>3, <2>1, RifleTransacts
  <1>4. CASE ExecuteReload
    <2>1. UNCHANGED <<limits, mirror, rejected, finding>>
      BY <1>4 DEF ExecuteReload
    <2> QED
      BY <1>1, <1>4, <2>1, ReloadTransacts
  <1>5. CASE ExecuteBuild
    <2>1. UNCHANGED <<limits, mirror, rejected, finding>>
      BY <1>5 DEF ExecuteBuild
    <2> QED
      BY <1>1, <1>5, <2>1, BuildTransacts
  <1>6. CASE AdvancePhysics
    <2>1. UNCHANGED <<limits, mirror, rejected, finding>>
      BY <1>6 DEF AdvancePhysics
    <2> QED
      BY <1>1, <1>6, <2>1, PhysicsTransacts
  <1>7. CASE CommitFailure
    <2>1. UNCHANGED <<limits, mirror, rejected>> /\ finding'.bodies = <<>>
      BY <1>7 DEF CommitFailure
    <2>2. Cut(finding)'
      BY <2>1 DEF Cut
    <2> QED
      BY <1>1, <1>7, <2>1, <2>2, FailureTransacts
  <1> QED
    BY <1>2, <1>3, <1>4, <1>5, <1>6, <1>7 DEF DamageNext

LEMMA DamageStep ==
  ASSUME DamageInv, [DamageNext]_DamageVars
  PROVE  DamageInv'
  <1>1. CASE DamageNext
    BY <1>1, StepTransacts, TransactsKeeps, WorkerKeeps, ReceiveKeeps, InstallKeeps
  <1>2. CASE UNCHANGED DamageVars
    <2>1. UNCHANGED <<limits, authority, delta, before, published, mirror, rejected, finding>>
      BY <1>2 DEF DamageVars
    <2>2. WithinLimits(authority)'
      BY <2>1, LimitsThen DEF DamageInv
    <2>3. delta # <<>> => Carries(before, published, delta)'
      BY <2>1, CarriesThen DEF DamageInv
    <2> QED
      BY <2>1, <2>2, <2>3 DEF DamageInv
  <1> QED
    BY <1>1, <1>2

(* The authority keeps its types and its limits, what is on its way is     *)
(* accepted by the replica, and makes of it what the authority published   *)
(* (replication.rs: commit_damage, execute_build, advance_physics,         *)
(* ClientReplica::receive; structural_failure.rs).                         *)
THEOREM DamageInvHolds == DamageSpec => []DamageInv
  <1>1. DamageInit => DamageInv
    BY DamageBegins
  <1>2. DamageInv /\ [DamageNext]_DamageVars => DamageInv'
    BY DamageStep
  <1> QED
    BY <1>1, <1>2, PTL DEF DamageSpec

(* A transaction that is refused leaves nothing behind, and in one that    *)
(* commits nothing appears or is lost (replication.rs: commit_damage,      *)
(* rollback_changes, prepare_detached_bodies, merged_detachment_changes).  *)
THEOREM AllOrNothingHolds == DamageSpec => []AllOrNothing
  <1>1. DamageInv => AllOrNothing
    <2> SUFFICES ASSUME DamageInv PROVE AllOrNothing
      OBVIOUS
    <2>1. PublicState(authority) = published
          /\ authority.activeVoxels = VoxelCount(BodyVoxelsIn(authority.bodies))
      BY DEF DamageInv, IsAuthority, Sized
    <2>2. delta # <<>> => Conserves(before, published, delta.changes)
      BY DEF DamageInv, Carries
    <2> QED
      BY <2>1, <2>2 DEF AllOrNothing, Conserves, InNew
  <1> QED
    BY <1>1, DamageInvHolds, PTL

(* The replica takes every delta that follows what it has, and has what    *)
(* the authority had (replication.rs: ClientReplica::receive,              *)
(* rebuild_replicated_bodies, install_snapshot).                           *)
THEOREM ReplicaMirrorsAuthorityHolds == DamageSpec => []ReplicaMirrorsAuthority
  <1>1. DamageInv => ReplicaMirrorsAuthority
    <2> SUFFICES ASSUME DamageInv PROVE ReplicaMirrorsAuthority
      OBVIOUS
    <2> DEFINE known == IF delta = <<>> THEN published ELSE before
    <2>1. mirror = ReplicaOf(known) /\ ~rejected
      BY DEF DamageInv
    <2>2. known = PublicState(known)
      BY PublicTwice DEF DamageInv
    <2> HIDE DEF known
    <2>3. [world |-> mirror.world, bodies |-> mirror.bodies, nextBody |-> mirror.nextBody] = known
      BY <2>1, <2>2 DEF ReplicaOf, PublicState
    <2> QED
      BY <2>1, <2>3 DEF ReplicaMirrorsAuthority, known
  <1> QED
    BY <1>1, DamageInvHolds, PTL

(* In every scene what is static stands on the foundation.                 *)
ScenesStand ==
  \A start \in Scenes :
    LET S == SolidIn(start.world)
    IN  \A c \in S : Below!Reached(S, c, S) \cap Anchored # {}

LEMMA SceneStandsIs ==
  ASSUME NEW w
  PROVE  SceneStands(w) <=>
           \A c \in SolidIn(w) : Below!Reached(SolidIn(w), c, SolidIn(w)) \cap Anchored # {}
  BY SameSearch DEF SceneStands, Joint!Held, Joint!Piece

(* What is static stands on the foundation after every transaction, if it  *)
(* stood in the scene, wherever the bodies go (structural.rs:              *)
(* classify_component; replication.rs: commit_damage, execute_build;       *)
(* structural_failure.rs: commit_structural_failure).                      *)
THEOREM StaticIsSupportedHolds == ScenesStand /\ DamageSpec => []StaticIsSupported
  <1>1. ScenesStand /\ DamageInit => Stands(authority)
    <2> SUFFICES ASSUME ScenesStand, DamageInit PROVE Stands(authority)
      OBVIOUS
    <2>1. PICK start \in Scenes : authority.world = start.world /\ authority.bodies = NoBodies
      BY DEF DamageInit
    <2>2. SceneStands(start.world)
      BY SceneStandsIs DEF ScenesStand
    <2> QED
      BY <2>1, <2>2 DEF Stands
  <1>2. DamageInv /\ Stands(authority) /\ [DamageNext]_DamageVars => Stands(authority)'
    <2> SUFFICES ASSUME DamageInv, Stands(authority), [DamageNext]_DamageVars
                 PROVE  Stands(authority)'
      OBVIOUS
    <2>1. CASE Transacts(authority)
      <3>1. CASE Refuse(authority)
        BY <3>1 DEF Refuse
      <3>2. CASE ~Refuse(authority)
        <4>1. PICK b, packed : Accept(b, packed) /\ Stands(b)
          BY <2>1, <3>2 DEF Transacts
        <4> QED
          BY <4>1 DEF Accept
      <3> QED
        BY <3>1, <3>2
    <2>2. CASE ~Transacts(authority)
      <3>1. authority' = authority
        BY <2>2, StepTransacts, WorkerKeeps, ReceiveKeeps, InstallKeeps DEF DamageVars
      <3> QED
        BY <3>1
    <2> QED
      BY <2>1, <2>2
  <1>3. Stands(authority) => StaticIsSupported
    BY SceneStandsIs DEF Stands, StaticIsSupported
  <1> QED
    BY <1>1, <1>2, <1>3, DamageInvHolds, PTL DEF DamageSpec

-----------------------------------------------------------------------------
(* How commits are cut into frames (WireCodecs).                           *)

LEMMA TimesGrow ==
  ASSUME NEW a \in Int, NEW b \in Int, NEW p \in Nat, a <= b
  PROVE  a * p <= b * p
  <1>1. (b - a) * p >= 0
    <2>1. b - a \in Nat
      OBVIOUS
    <2>2. \A x \in Nat, y \in Nat : x * y >= 0
      OBVIOUS
    <2> QED
      BY <2>1, <2>2
  <1>2. (b - a) * p = b * p - a * p /\ a * p \in Int /\ b * p \in Int
    OBVIOUS
  <1> QED
    BY <1>1, <1>2

(* The number of frames, by what it leaves in the last one.                *)
LEMMA CeilIs ==
  ASSUME NEW n \in Nat, NEW p \in Nat \ {0}
  PROVE  /\ CeilDiv(n, p) \in Nat /\ CeilDiv(n, p) * p \in Nat
         /\ n <= CeilDiv(n, p) * p /\ CeilDiv(n, p) * p <= n + p - 1
         /\ n = 0 <=> CeilDiv(n, p) = 0
  <1> DEFINE k == CeilDiv(n, p)
             m == n + p - 1
  <1>1. m \in Nat /\ k = m \div p
    BY DEF CeilDiv
  <1>2. \A x \in Nat, y \in Nat \ {0} :
          /\ x \div y \in Nat /\ y * (x \div y) \in Nat
          /\ y * (x \div y) <= x /\ x < y * (x \div y) + y
    OBVIOUS
  <1>3. k \in Nat /\ p * k \in Nat /\ p * k <= m /\ m < p * k + p
    BY <1>1, <1>2
  <1> HIDE DEF k
  <1>4. p * k = k * p
    BY <1>3
  <1>5. n = 0 => k = 0
    <2>1. ASSUME n = 0, k # 0 PROVE FALSE
      <3>1. 1 * p <= k * p
        BY <1>3, <2>1, TimesGrow
      <3> QED
        BY <1>3, <1>4, <2>1, <3>1
    <2> QED
      BY <2>1
  <1>6. k = 0 => n = 0
    BY <1>3, <1>4
  <1> QED
    BY <1>3, <1>4, <1>5, <1>6 DEF k

(* A frame that holds more does not need more frames.                      *)
Hold(K, q, n) == n <= K * q

LEMMA CeilAtMost ==
  ASSUME NEW n \in Nat, NEW p \in Nat \ {0}, NEW q \in Nat, NEW K \in Nat,
         Hold(K, q, n), q <= p
  PROVE  CeilDiv(n, p) <= K
  <1> DEFINE k == CeilDiv(n, p)
  <1>1. k \in Nat /\ k * p \in Nat /\ k * p <= n + p - 1 /\ n <= K * q
    BY CeilIs DEF Hold
  <1> HIDE DEF k
  <1>2. K * q <= K * p
    <2>1. q * K <= p * K
      BY TimesGrow
    <2> QED
      BY <2>1
  <1>3. SUFFICES ASSUME k >= K + 1 PROVE FALSE
    BY <1>1 DEF k
  <1>4. (K + 1) * p <= k * p
    BY <1>1, <1>3, TimesGrow
  <1>5. (K + 1) * p = K * p + p /\ K * p \in Nat /\ K * q \in Nat
    OBVIOUS
  <1> QED
    BY <1>1, <1>2, <1>4, <1>5

(* The entries of a frame go on from those of the frame before.            *)
LEMMA ChunkIs ==
  ASSUME NEW n \in Nat, NEW p \in Nat \ {0}, NEW i \in 1..CeilDiv(n, p)
  PROVE  /\ Chunk(n, p, i).from \in Nat /\ Chunk(n, p, i).to \in Nat
         /\ Chunk(n, p, i).from = (i - 1) * p + 1
         /\ Chunk(n, p, i).to - Chunk(n, p, i).from + 1 <= p
         /\ i < CeilDiv(n, p) => Chunk(n, p, i).to = i * p
         /\ i = CeilDiv(n, p) => Chunk(n, p, i).to = n
  <1> DEFINE k == CeilDiv(n, p)
  <1>1. k \in Nat /\ k * p \in Nat /\ n <= k * p /\ k * p <= n + p - 1
    BY CeilIs
  <1>2. i \in Nat /\ i >= 1 /\ i <= k
    BY <1>1
  <1> HIDE DEF k
  <1>3. i * p \in Nat /\ (i - 1) * p \in Nat /\ i * p = (i - 1) * p + p
    <2>1. i - 1 \in Nat
      BY <1>2
    <2>2. \A x \in Nat, y \in Nat : x * y \in Nat
      OBVIOUS
    <2>3. (i - 1) * p = i * p - p
      BY <1>2
    <2>4. i * p \in Nat /\ (i - 1) * p \in Nat
      BY <1>2, <2>1, <2>2
    <2> QED
      BY <2>3, <2>4
  <1>4. (k - 1) * p = k * p - p
    BY <1>1
  <1>5. ASSUME i < k PROVE i * p <= n
    <2>1. i * p <= (k - 1) * p
      BY <1>1, <1>2, <1>5, TimesGrow
    <2> QED
      BY <1>1, <1>3, <1>4, <2>1
  <1>6. ASSUME i = k PROVE i * p >= n
    BY <1>1, <1>6
  <1>7. Chunk(n, p, i).from = (i - 1) * p + 1
        /\ Chunk(n, p, i).to = IF i * p <= n THEN i * p ELSE n
    BY DEF Chunk
  <1>8. /\ Chunk(n, p, i).to \in Nat /\ Chunk(n, p, i).to <= i * p
        /\ i < k => Chunk(n, p, i).to = i * p
        /\ i = k => Chunk(n, p, i).to = n
    BY <1>3, <1>5, <1>6, <1>7
  <1>9. Chunk(n, p, i).from \in Nat /\ Chunk(n, p, i).to - Chunk(n, p, i).from + 1 <= p
    BY <1>3, <1>7, <1>8
  <1> QED
    BY <1>7, <1>8, <1>9 DEF k

-----------------------------------------------------------------------------
(* The numbers a delta may have, the frames of each kind, and where they   *)
(* begin among all the frames.                                             *)
Numbers == {c \in Nat \X Nat \X Nat : \A e \in 1..3 : c[e] <= Limits[e]}

FramesOf(c, mtu, e) == CeilDiv(c[e], PerFrame(mtu, e))
FramesBefore(c, mtu, e) ==
  IF e = 1 THEN 0
  ELSE IF e = 2 THEN FramesOf(c, mtu, 1) ELSE FramesOf(c, mtu, 1) + FramesOf(c, mtu, 2)
FrameOf(c, mtu, e, j) == [of |-> e, chunk |-> Chunk(c[e], PerFrame(mtu, e), j)]

LEMMA PerFrameIs ==
  ASSUME NEW mtu \in QuicDatagram..Largest
  PROVE  /\ \A e \in 1..3 : /\ PerFrame(mtu, e) \in Nat \ {0}
                            /\ AtLeastOne(PerFrame(mtu, e)) = PerFrame(mtu, e)
                            /\ HeaderBytes + PerFrame(mtu, e) * EntryBytes[e] <= mtu
         /\ PerFrame(mtu, 1) >= 62 /\ PerFrame(mtu, 2) >= 45 /\ PerFrame(mtu, 3) >= 9
  <1>1. mtu \in Nat /\ mtu - 96 \in 1004..1104
    BY DEF QuicDatagram, Largest
  <1>2. /\ PerFrame(mtu, 1) = (mtu - 96) \div 16
        /\ PerFrame(mtu, 2) = (mtu - 96) \div 22
        /\ PerFrame(mtu, 3) = (mtu - 96) \div 105
        /\ HeaderBytes = 96
        /\ EntryBytes[1] = 16 /\ EntryBytes[2] = 22 /\ EntryBytes[3] = 105
    BY DEF PerFrame, HeaderBytes, EntryBytes
  <1>3. PerFrame(mtu, 1) \in Nat /\ PerFrame(mtu, 1) >= 62 /\ 96 + PerFrame(mtu, 1) * 16 <= mtu
    BY <1>1, <1>2
  <1>4. PerFrame(mtu, 2) \in Nat /\ PerFrame(mtu, 2) >= 45 /\ 96 + PerFrame(mtu, 2) * 22 <= mtu
    BY <1>1, <1>2
  <1>5. PerFrame(mtu, 3) \in Nat /\ PerFrame(mtu, 3) >= 9 /\ 96 + PerFrame(mtu, 3) * 105 <= mtu
    BY <1>1, <1>2
  <1>6. ASSUME NEW e \in 1..3
        PROVE  /\ PerFrame(mtu, e) \in Nat \ {0}
               /\ HeaderBytes + PerFrame(mtu, e) * EntryBytes[e] <= mtu
    <2>1. CASE e = 1
      BY <1>2, <1>3, <2>1
    <2>2. CASE e = 2
      BY <1>2, <1>4, <2>2
    <2>3. CASE e = 3
      BY <1>2, <1>5, <2>3
    <2> QED
      BY <2>1, <2>2, <2>3
  <1>7. ASSUME NEW e \in 1..3 PROVE AtLeastOne(PerFrame(mtu, e)) = PerFrame(mtu, e)
    BY <1>6 DEF AtLeastOne
  <1> QED
    BY <1>3, <1>4, <1>5, <1>6, <1>7

LEMMA FramesOfIs ==
  ASSUME NEW c \in Numbers, NEW mtu \in QuicDatagram..Largest
  PROVE  /\ \A e \in 1..3 : /\ c[e] \in Nat
                            /\ FramesOf(c, mtu, e) \in Nat
                            /\ c[e] = 0 <=> FramesOf(c, mtu, e) = 0
         /\ FramesOf(c, mtu, 1) <= 540 /\ FramesOf(c, mtu, 2) <= 365 /\ FramesOf(c, mtu, 3) <= 114
  <1>1. \A e \in 1..3 : c[e] \in Nat /\ c[e] <= Limits[e]
    BY DEF Numbers
  <1>2. ASSUME NEW e \in 1..3
        PROVE  FramesOf(c, mtu, e) \in Nat /\ (c[e] = 0 <=> FramesOf(c, mtu, e) = 0)
    <2>1. c[e] \in Nat /\ PerFrame(mtu, e) \in Nat \ {0}
      BY <1>1, PerFrameIs
    <2> QED
      BY <2>1, CeilIs DEF FramesOf
  <1>3. Limits[1] = 33461 /\ Limits[2] = 16384 /\ Limits[3] = 1024
    BY BlastAssumption DEF Limits, BlastAssumption, MaxSpawned, MaxBodies
  <1>4. FramesOf(c, mtu, 1) <= 540
    <2>1. c[1] \in Nat /\ Hold(540, 62, c[1])
      BY <1>1, <1>3 DEF Hold
    <2>2. PerFrame(mtu, 1) \in Nat \ {0} /\ 62 <= PerFrame(mtu, 1)
      BY PerFrameIs
    <2> QED
      BY <2>1, <2>2, CeilAtMost DEF FramesOf
  <1>5. FramesOf(c, mtu, 2) <= 365
    <2>1. c[2] \in Nat /\ Hold(365, 45, c[2])
      BY <1>1, <1>3 DEF Hold
    <2>2. PerFrame(mtu, 2) \in Nat \ {0} /\ 45 <= PerFrame(mtu, 2)
      BY PerFrameIs
    <2> QED
      BY <2>1, <2>2, CeilAtMost DEF FramesOf
  <1>6. FramesOf(c, mtu, 3) <= 114
    <2>1. c[3] \in Nat /\ Hold(114, 9, c[3])
      BY <1>1, <1>3 DEF Hold
    <2>2. PerFrame(mtu, 3) \in Nat \ {0} /\ 9 <= PerFrame(mtu, 3)
      BY PerFrameIs
    <2> QED
      BY <2>1, <2>2, CeilAtMost DEF FramesOf
  <1> QED
    BY <1>1, <1>2, <1>4, <1>5, <1>6

LEMMA ListIs ==
  ASSUME NEW S, NEW n \in Nat, NEW list, list = [i \in 1..n |-> list[i]],
         \A i \in 1..n : list[i] \in S
  PROVE  list \in Seq(S) /\ Len(list) = n
  <1>1. list \in [1..n -> S]
    OBVIOUS
  <1> QED
    BY <1>1

Together(S, s, t) ==
  /\ s \o t \in Seq(S) /\ Len(s \o t) = Len(s) + Len(t)
  /\ \A j \in 1..Len(s) : (s \o t)[j] = s[j]
  /\ \A j \in 1..Len(t) : (s \o t)[Len(s) + j] = t[j]

LEMMA TogetherIs ==
  ASSUME NEW S, NEW s \in Seq(S), NEW t \in Seq(S)
  PROVE  Together(S, s, t)
  <1>1. /\ s \o t \in Seq(S) /\ Len(s \o t) = Len(s) + Len(t) /\ Len(s) \in Nat /\ Len(t) \in Nat
        /\ \A i \in 1..Len(s) + Len(t) : (s \o t)[i] = IF i <= Len(s) THEN s[i] ELSE t[i - Len(s)]
    OBVIOUS
  <1>2. ASSUME NEW j \in 1..Len(s) PROVE (s \o t)[j] = s[j]
    BY <1>1
  <1>3. ASSUME NEW j \in 1..Len(t) PROVE (s \o t)[Len(s) + j] = t[j]
    <2>1. Len(s) + j \in 1..Len(s) + Len(t) /\ ~(Len(s) + j <= Len(s)) /\ (Len(s) + j) - Len(s) = j
      BY <1>1
    <2> QED
      BY <1>1, <2>1
  <1> QED
    BY <1>1, <1>2, <1>3 DEF Together

(* The frames of all kinds, one kind after another.                        *)
LEMMA FramesAre ==
  ASSUME NEW c \in Numbers, NEW mtu \in QuicDatagram..Largest, c # <<0, 0, 0>>
  PROVE  LET frames == FrameSizes(c, mtu)
             total == FramesOf(c, mtu, 1) + FramesOf(c, mtu, 2) + FramesOf(c, mtu, 3)
         IN  /\ total \in Nat /\ total > 0
             /\ Len(frames) = total /\ DOMAIN frames = 1..total
             /\ \A e \in 1..3 : \A j \in 1..FramesOf(c, mtu, e) :
                  /\ FramesBefore(c, mtu, e) + j \in 1..total
                  /\ frames[FramesBefore(c, mtu, e) + j] = FrameOf(c, mtu, e, j)
             /\ \A i \in 1..total : \E e \in 1..3 : \E j \in 1..FramesOf(c, mtu, e) :
                  i = FramesBefore(c, mtu, e) + j
  <1> DEFINE N(e) == FramesOf(c, mtu, e)
             Only(e) == [i \in 1..N(e) |-> FrameOf(c, mtu, e, i)]
             r == Only(1) \o Only(2) \o Only(3)
             Kind == {FrameOf(c, mtu, e, j) : e \in 1..3, j \in Nat}
  <1>1. FrameSizes(c, mtu) = r
    <2>1. \A e \in 1..3 : AtLeastOne(PerFrame(mtu, e)) = PerFrame(mtu, e)
      BY PerFrameIs
    <2>2. \A e \in 1..3 : CeilDiv(c[e], AtLeastOne(PerFrame(mtu, e))) = N(e)
      BY <2>1 DEF FramesOf
    <2>3. /\ CeilDiv(c[1], AtLeastOne(PerFrame(mtu, 1))) = N(1)
          /\ CeilDiv(c[2], AtLeastOne(PerFrame(mtu, 2))) = N(2)
          /\ CeilDiv(c[3], AtLeastOne(PerFrame(mtu, 3))) = N(3)
      BY <2>2
    <2> HIDE DEF N
    <2> QED
      BY <2>3 DEF FrameSizes, FrameOf
  <1>2. N(1) \in Nat /\ N(2) \in Nat /\ N(3) \in Nat
    BY FramesOfIs
  <1>3. ~(N(1) = 0 /\ N(2) = 0 /\ N(3) = 0)
    <2>1. SUFFICES ASSUME N(1) = 0, N(2) = 0, N(3) = 0 PROVE FALSE
      OBVIOUS
    <2>2. c[1] = 0 /\ c[2] = 0 /\ c[3] = 0
      BY <2>1, FramesOfIs
    <2>3. c = <<c[1], c[2], c[3]>>
      BY DEF Numbers
    <2> QED
      BY <2>2, <2>3
  <1>4. \A e \in 1..3 : \A j \in Nat : FrameOf(c, mtu, e, j) \in Kind
    OBVIOUS
  <1> DEFINE a == Only(1)
             b == Only(2)
             d == Only(3)
  <1>5. /\ a \in Seq(Kind) /\ Len(a) = N(1) /\ \A j \in 1..N(1) : a[j] = FrameOf(c, mtu, 1, j)
        /\ b \in Seq(Kind) /\ Len(b) = N(2) /\ \A j \in 1..N(2) : b[j] = FrameOf(c, mtu, 2, j)
        /\ d \in Seq(Kind) /\ Len(d) = N(3) /\ \A j \in 1..N(3) : d[j] = FrameOf(c, mtu, 3, j)
    <2> HIDE DEF Kind, N
    <2>1. a \in Seq(Kind) /\ Len(a) = N(1) /\ \A j \in 1..N(1) : a[j] = FrameOf(c, mtu, 1, j)
      BY <1>2, <1>4, ListIs
    <2>2. b \in Seq(Kind) /\ Len(b) = N(2) /\ \A j \in 1..N(2) : b[j] = FrameOf(c, mtu, 2, j)
      BY <1>2, <1>4, ListIs
    <2>3. d \in Seq(Kind) /\ Len(d) = N(3) /\ \A j \in 1..N(3) : d[j] = FrameOf(c, mtu, 3, j)
      BY <1>2, <1>4, ListIs
    <2> QED
      BY <2>1, <2>2, <2>3
  <1>6. r = (a \o b) \o d
    OBVIOUS
  <1> HIDE DEF a, b, d, r, Kind, N
  <1>7. /\ r \in Seq(Kind) /\ Len(r) = N(1) + N(2) + N(3)
        /\ \A j \in 1..N(1) : r[j] = a[j]
        /\ \A j \in 1..N(2) : r[N(1) + j] = b[j]
        /\ \A j \in 1..N(3) : r[N(1) + N(2) + j] = d[j]
    <2> DEFINE ab == a \o b
    <2>1. /\ ab \in Seq(Kind) /\ Len(ab) = N(1) + N(2)
          /\ \A j \in 1..N(1) : ab[j] = a[j]
          /\ \A j \in 1..N(2) : ab[N(1) + j] = b[j]
      <3>1. Together(Kind, a, b)
        BY <1>5, TogetherIs
      <3> QED
        BY <1>5, <3>1 DEF Together
    <2> HIDE DEF ab
    <2>2. /\ ab \o d \in Seq(Kind) /\ Len(ab \o d) = N(1) + N(2) + N(3)
          /\ \A j \in 1..N(1) + N(2) : (ab \o d)[j] = ab[j]
          /\ \A j \in 1..N(3) : (ab \o d)[N(1) + N(2) + j] = d[j]
      <3>1. Together(Kind, ab, d)
        BY <1>5, <2>1, TogetherIs
      <3> QED
        BY <1>5, <2>1, <3>1 DEF Together
    <2>3. r = ab \o d
      BY <1>6 DEF ab
    <2>4. \A j \in 1..N(2) : N(1) + j \in 1..N(1) + N(2)
      BY <1>2
    <2>5. \A j \in 1..N(1) : j \in 1..N(1) + N(2)
      BY <1>2
    <2> QED
      BY <2>1, <2>2, <2>3, <2>4, <2>5
  <1> DEFINE total == N(1) + N(2) + N(3)
  <1>8. total \in Nat /\ total > 0 /\ DOMAIN r = 1..total
    BY <1>2, <1>3, <1>7
  <1>9. /\ FramesBefore(c, mtu, 1) = 0 /\ FramesBefore(c, mtu, 2) = N(1)
        /\ FramesBefore(c, mtu, 3) = N(1) + N(2)
    BY DEF FramesBefore, N
  <1>10. ASSUME NEW e \in 1..3, NEW j \in 1..N(e)
         PROVE  /\ FramesBefore(c, mtu, e) + j \in 1..total
                /\ r[FramesBefore(c, mtu, e) + j] = FrameOf(c, mtu, e, j)
    <2>1. CASE e = 1
      <3>1. j \in 1..N(1) /\ FramesBefore(c, mtu, e) + j = j
        BY <1>2, <1>9, <2>1
      <3>2. j \in 1..total
        BY <1>2, <3>1
      <3> QED
        BY <1>5, <1>7, <2>1, <3>1, <3>2
    <2>2. CASE e = 2
      <3>1. j \in 1..N(2) /\ FramesBefore(c, mtu, e) + j = N(1) + j
        BY <1>2, <1>9, <2>2
      <3>2. N(1) + j \in 1..total
        BY <1>2, <3>1
      <3> QED
        BY <1>5, <1>7, <2>2, <3>1, <3>2
    <2>3. CASE e = 3
      <3>1. j \in 1..N(3) /\ FramesBefore(c, mtu, e) + j = N(1) + N(2) + j
        BY <1>2, <1>9, <2>3
      <3>2. N(1) + N(2) + j \in 1..total
        BY <1>2, <3>1
      <3> QED
        BY <1>5, <1>7, <2>3, <3>1, <3>2
    <2> QED
      BY <2>1, <2>2, <2>3
  <1>11. ASSUME NEW i \in 1..total
         PROVE  \E e \in 1..3 : \E j \in 1..N(e) : i = FramesBefore(c, mtu, e) + j
    <2>1. CASE i <= N(1)
      <3>1. i \in 1..N(1) /\ i = 0 + i
        BY <1>2, <2>1
      <3> QED
        BY <1>9, <3>1
    <2>2. CASE i > N(1) /\ i <= N(1) + N(2)
      <3>1. i - N(1) \in 1..N(2) /\ i = N(1) + (i - N(1))
        BY <1>2, <2>2
      <3> QED
        BY <1>9, <3>1
    <2>3. CASE i > N(1) + N(2)
      <3>1. i - (N(1) + N(2)) \in 1..N(3) /\ i = N(1) + N(2) + (i - (N(1) + N(2)))
        BY <1>2, <2>3
      <3> QED
        BY <1>9, <3>1
    <2> QED
      BY <1>2, <2>1, <2>2, <2>3
  <1> HIDE DEF total
  <1>12. Len(r) = total
    BY <1>7 DEF total
  <1> QED
    BY <1>1, <1>8, <1>10, <1>11, <1>12 DEF total, N

(* Any numbers up to the limits can be sent in datagrams of any size from  *)
(* that of the secure server to the largest: the frames are those that the *)
(* header counts, each fits, and those of a kind hold its entries from the *)
(* first to the last, once (replication.rs: encode_frames).                *)
THEOREM NumbersCanBeSent ==
  ASSUME NEW c \in Numbers, NEW mtu \in QuicDatagram..Largest
  PROVE  CanBeSent(c, mtu)
  <1> DEFINE r == FrameSizes(c, mtu)
             N(e) == FramesOf(c, mtu, e)
             B(e) == FramesBefore(c, mtu, e)
             F(e, j) == FrameOf(c, mtu, e, j)
             P(e) == PerFrame(mtu, e)
             total == N(1) + N(2) + N(3)
             Starts(i) == i = 1 \/ r[i].of # r[i - 1].of
  <1>1. \A e \in 1..3 : /\ c[e] \in Nat /\ N(e) \in Nat /\ (c[e] = 0 <=> N(e) = 0)
                        /\ P(e) \in Nat \ {0} /\ AtLeastOne(P(e)) = P(e)
                        /\ HeaderBytes + P(e) * EntryBytes[e] <= mtu
    BY FramesOfIs, PerFrameIs
  <1>2. total \in Nat /\ total <= 1019
    BY <1>1, FramesOfIs
  <1>3. FragmentCount(c, mtu) = AtLeastOne(total)
    <2>1. /\ CeilDiv(c[1], AtLeastOne(P(1))) = N(1)
          /\ CeilDiv(c[2], AtLeastOne(P(2))) = N(2)
          /\ CeilDiv(c[3], AtLeastOne(P(3))) = N(3)
      BY <1>1 DEF FramesOf
    <2> HIDE DEF N
    <2> QED
      BY <2>1 DEF FragmentCount
  <1>4. Encodable(c, mtu)
    <2>1. mtu \in HeaderBytes + EntryBytes[1]..Largest
      BY DEF HeaderBytes, EntryBytes, Largest, QuicDatagram
    <2>2. FragmentCount(c, mtu) <= MaxFragments
      BY <1>2, <1>3 DEF AtLeastOne, MaxFragments
    <2>3. \A e \in 1..3 : P(e) > 0
      BY <1>1
    <2> QED
      BY <2>1, <2>2, <2>3 DEF Encodable
  <1>5. CASE c = <<0, 0, 0>>
    <2>1. r = <<[of |-> 1, chunk |-> [from |-> 1, to |-> 0]]>>
      BY <1>5 DEF FrameSizes
    <2>2. c[1] = 0 /\ c[2] = 0 /\ c[3] = 0
      BY <1>5
    <2>3. total = 0
      BY <1>1, <2>2
    <2> HIDE DEF r, total, N, P
    <2>4. /\ Len(r) = 1 /\ DOMAIN r = {1} /\ r[1].of = 1
          /\ r[1].chunk.from = 1 /\ r[1].chunk.to = 0
      BY <2>1
    <2>5. FragmentCount(c, mtu) = 1
      BY <1>3, <2>3 DEF AtLeastOne
    <2>6. FrameSize(r[1]) <= mtu
      BY <2>4 DEF FrameSize, HeaderBytes, EntryBytes, QuicDatagram, Largest
    <2>7. \A e \in 1..3 : ~(c[e] > 0)
      BY <2>2
    <2> QED
      BY <1>4, <2>2, <2>4, <2>5, <2>6, <2>7 DEF CanBeSent, r
  <1>6. CASE c # <<0, 0, 0>>
    <2>1. /\ total > 0 /\ Len(r) = total /\ DOMAIN r = 1..total
          /\ \A e \in 1..3 : \A j \in 1..N(e) : B(e) + j \in 1..total /\ r[B(e) + j] = F(e, j)
          /\ \A i \in 1..total : \E e \in 1..3 : \E j \in 1..N(e) : i = B(e) + j
      BY <1>6, FramesAre
    <2>2. Len(r) = FragmentCount(c, mtu)
      BY <1>2, <1>3, <2>1 DEF AtLeastOne
    <2>3. \A e \in 1..3 : B(e) \in Nat
      BY <1>1 DEF FramesBefore
    <2>4. \A e, j : F(e, j).of = e /\ F(e, j).chunk = Chunk(c[e], P(e), j)
      BY DEF FrameOf
    <2>5. \A e \in 1..3 : \A j \in 1..N(e) :
            LET k == Chunk(c[e], P(e), j)
            IN  /\ k.from \in Nat /\ k.to \in Nat /\ k.from = (j - 1) * P(e) + 1
                /\ k.to - k.from + 1 <= P(e)
                /\ j < N(e) => k.to = j * P(e)
                /\ j = N(e) => k.to = c[e]
      <3> SUFFICES ASSUME NEW e \in 1..3, NEW j \in 1..N(e)
                   PROVE  LET k == Chunk(c[e], P(e), j)
                          IN  /\ k.from \in Nat /\ k.to \in Nat /\ k.from = (j - 1) * P(e) + 1
                              /\ k.to - k.from + 1 <= P(e)
                              /\ j < N(e) => k.to = j * P(e)
                              /\ j = N(e) => k.to = c[e]
        OBVIOUS
      <3>1. N(e) = CeilDiv(c[e], P(e))
        BY DEF FramesOf
      <3>2. c[e] \in Nat /\ P(e) \in Nat \ {0}
        BY <1>1
      <3> HIDE DEF N, P
      <3> QED
        BY <3>1, <3>2, ChunkIs
    <2> HIDE DEF r, N, B, F, P, total
    <2>6. ASSUME NEW i \in 1..total
          PROVE  /\ FrameSize(r[i]) <= mtu
                 /\ r[i].chunk.from = IF Starts(i) THEN 1 ELSE r[i - 1].chunk.to + 1
                 /\ i = Len(r) \/ Starts(i + 1) => r[i].chunk.to = c[r[i].of]
      <3>1. PICK e \in 1..3 : \E j \in 1..N(e) : i = B(e) + j
        BY <2>1
      <3>2. PICK j \in 1..N(e) : i = B(e) + j
        BY <3>1
      <3> DEFINE k == Chunk(c[e], P(e), j)
      <3>3. r[i] = F(e, j) /\ r[i].of = e /\ r[i].chunk = k
        BY <2>1, <2>4, <3>2
      <3>4. /\ k.from \in Nat /\ k.to \in Nat /\ k.from = (j - 1) * P(e) + 1
            /\ k.to - k.from + 1 <= P(e)
            /\ j < N(e) => k.to = j * P(e)
            /\ j = N(e) => k.to = c[e]
        BY <2>5
      <3>5. N(e) \in Nat /\ P(e) \in Nat \ {0} /\ B(e) \in Nat /\ j \in Nat /\ j >= 1 /\ j <= N(e)
        BY <1>1, <2>3
      <3> HIDE DEF k
      <3>6. FrameSize(r[i]) <= mtu
        <4>1. FrameSize(r[i]) = HeaderBytes + (k.to - k.from + 1) * EntryBytes[e]
          BY <3>3 DEF FrameSize
        <4>2. EntryBytes[e] \in Nat /\ HeaderBytes \in Nat /\ mtu \in Nat
          BY DEF EntryBytes, HeaderBytes, QuicDatagram, Largest
        <4>3. (k.to - k.from + 1) * EntryBytes[e] <= P(e) * EntryBytes[e]
          BY <3>4, <3>5, <4>2, TimesGrow
        <4>4. (k.to - k.from + 1) * EntryBytes[e] \in Int /\ P(e) * EntryBytes[e] \in Int
          BY <3>4, <3>5, <4>2
        <4>5. HeaderBytes + P(e) * EntryBytes[e] <= mtu
          BY <1>1
        <4> QED
          BY <4>1, <4>2, <4>3, <4>4, <4>5
      <3>7. r[i].chunk.from = IF Starts(i) THEN 1 ELSE r[i - 1].chunk.to + 1
        <4>1. CASE j = 1
          <5>1. k.from = 1
            BY <3>4, <3>5, <4>1
          <5>2. ASSUME i # 1 PROVE r[i].of # r[i - 1].of
            <6>1. i - 1 \in 1..total
              BY <1>2, <5>2
            <6>2. PICK d \in 1..3 : \E h \in 1..N(d) : i - 1 = B(d) + h
              BY <2>1, <6>1
            <6>3. PICK h \in 1..N(d) : i - 1 = B(d) + h
              BY <6>2
            <6>4. r[i - 1].of = d
              BY <2>1, <2>4, <6>3
            <6>5. d # e
              BY <3>2, <3>5, <4>1, <6>3
            <6> QED
              BY <3>3, <6>4, <6>5
          <5> QED
            BY <3>3, <5>1, <5>2
        <4>2. CASE j # 1
          <5>1. j - 1 \in 1..N(e) /\ i - 1 = B(e) + (j - 1) /\ j - 1 < N(e) /\ i # 1
            BY <3>2, <3>5, <4>2
          <5>2. r[i - 1] = F(e, j - 1) /\ r[i - 1].of = e /\ r[i - 1].chunk = Chunk(c[e], P(e), j - 1)
            BY <2>1, <2>4, <5>1
          <5>3. r[i - 1].chunk.to = (j - 1) * P(e)
            BY <2>5, <5>1, <5>2
          <5>4. ~Starts(i)
            BY <3>3, <5>1, <5>2
          <5> QED
            BY <3>3, <3>4, <5>3, <5>4
        <4> QED
          BY <4>1, <4>2
      <3>8. i = Len(r) \/ Starts(i + 1) => r[i].chunk.to = c[r[i].of]
        <4>1. CASE j = N(e)
          BY <3>3, <3>4, <4>1
        <4>2. CASE j # N(e)
          <5>1. j + 1 \in 1..N(e) /\ i + 1 = B(e) + (j + 1)
            BY <3>2, <3>5, <4>2
          <5>2. i + 1 \in 1..total /\ r[i + 1].of = e
            BY <2>1, <2>4, <5>1
          <5>3. i # Len(r) /\ i + 1 # 1 /\ (i + 1) - 1 = i
            BY <1>2, <2>1, <5>2
          <5>4. ~Starts(i + 1)
            BY <3>3, <5>2, <5>3
          <5> QED
            BY <5>3, <5>4
        <4> QED
          BY <4>1, <4>2
      <3> QED
        BY <3>6, <3>7, <3>8
    <2>7. ASSUME NEW e \in 1..3, c[e] > 0 PROVE \E i \in DOMAIN r : r[i].of = e
      <3>1. 1 \in 1..N(e)
        BY <1>1, <2>7
      <3>2. B(e) + 1 \in DOMAIN r /\ r[B(e) + 1].of = e
        BY <2>1, <2>4, <3>1
      <3> QED
        BY <3>2
    <2> HIDE DEF Starts
    <2>8. \A i \in DOMAIN r :
            /\ FrameSize(r[i]) <= mtu
            /\ r[i].chunk.from = IF Starts(i) THEN 1 ELSE r[i - 1].chunk.to + 1
            /\ i = Len(r) \/ Starts(i + 1) => r[i].chunk.to = c[r[i].of]
      BY <2>1, <2>6
    <2> QED
      BY <1>4, <2>2, <2>7, <2>8 DEF CanBeSent, Starts, r
  <1> QED
    BY <1>5, <1>6

(* Every delta within the limits of the authority, a blast of the largest  *)
(* radius with all it detaches or the motion of all bodies, can be sent by *)
(* every deployed server: encode_frames does not fail, each frame fits its *)
(* datagram, and no entry is left out or sent twice.                       *)
THEOREM EveryCommitCanBeSent == WireSpec => []CommitsCanBeSent
  <1> DEFINE Fit == packet.counts \in Numbers /\ packet.mtu \in QuicDatagram..Largest
  <1>1. WireInit => Fit
    <2>1. \A e \in 1..3 : Limits[e] \in Nat
      BY BlastAssumption DEF Limits, BlastAssumption, MaxSpawned, MaxBodies
    <2> SUFFICES ASSUME WireInit PROVE Fit
      OBVIOUS
    <2>2. packet.counts = <<0, 0, 0>> /\ packet.mtu = Largest
      BY DEF WireInit, NoPacket
    <2> QED
      BY <2>1, <2>2 DEF Numbers, QuicDatagram, Largest
  <1>2. Fit /\ [WireNext]_WireVars => Fit'
    <2> SUFFICES ASSUME Fit, [WireNext]_WireVars PROVE Fit'
      OBVIOUS
    <2>1. CASE CommitDelta
      <3>1. PICK n \in Telling(1) \X Telling(2) \X Telling(3), mtu \in Datagrams :
              packet' = [counts |-> n, mtu |-> mtu]
        BY <2>1 DEF CommitDelta
      <3>2. n[1] \in 0..Limits[1] /\ n[2] \in 0..Limits[2] /\ n[3] \in 0..Limits[3]
        BY DEF Telling
      <3>3. n \in Nat \X Nat \X Nat
        BY <3>2
      <3>4. n \in Numbers
        BY <3>2, <3>3, BlastAssumption DEF Numbers, Limits, BlastAssumption, MaxSpawned, MaxBodies
      <3>5. mtu \in QuicDatagram..Largest
        BY WireAssumption DEF WireAssumption
      <3> QED
        BY <3>1, <3>4, <3>5
    <2>2. CASE Arrive \/ ArriveDamaged \/ UNCHANGED WireVars
      BY <2>2 DEF Arrive, ArriveDamaged, WireVars
    <2> QED
      BY <2>1, <2>2 DEF WireNext
  <1>3. Fit => CommitsCanBeSent
    BY NumbersCanBeSent DEF CommitsCanBeSent
  <1> QED
    BY <1>1, <1>2, <1>3, PTL DEF WireSpec
=============================================================================
